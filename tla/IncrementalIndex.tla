-------------------------- MODULE IncrementalIndex --------------------------
(***************************************************************************)
(* The tables of the index and the scan that fills them: Indexer.scan      *)
(* collects the files that have changed into a batch, the workers parse    *)
(* them, and the main thread applies one result after the other, each in a *)
(* transaction of the shared connection. Meanwhile files are delivered,    *)
(* rebuilt and removed, dedup packs them, and the process stops or ends.   *)
(* ScanControl shows that there is one scan at a time.                     *)
(***************************************************************************)
EXTENDS Integers, FiniteSets

CONSTANTS
  Elf,       \* the paths of ELF files
  Work,      \* one of them: the copy dedup works on, in dedup-prep-*
  Src,       \* the paths of source files
  Builds,    \* what a path of Elf may hold
  Ids,       \* pairs of a build-id and an artifact type
  NoId,      \* the build-id of a build without one
  IdOf,      \* [Builds -> Ids \cup {NoId}]
  SrcOf,     \* [Builds -> the sources its DWARF names]
  Times,     \* modification times
  SrcTimes,  \* those that sources have
  Gone,      \* no file
  None,      \* no row
  Workers,   \* processes of the pool
  BatchSize, \* files of a batch
  Budget     \* how often each event of the environment may happen

\* The bounds cap changes of a file that a scan has in hand; faults, which are a file removed,
\* a worker or a transaction that fails, a stop, a restart; and files that dedup packs.
Bounds == {"race", "fault", "pack"}

ASSUME BuildsAssumption == /\ Work \in Elf /\ Elf \cap Src = {} /\ Builds # {}
                           /\ IdOf \in [Builds -> Ids \cup {NoId}] /\ NoId \notin Ids
                           /\ SrcOf \in [Builds -> SUBSET Src]
                           /\ Times \subseteq Nat /\ SrcTimes \subseteq Times
                           /\ Gone \notin Times /\ None \notin Times
                           /\ None \notin [path : Elf, mtime : Times]
ASSUME PoolAssumption == /\ Workers \in Nat \ {0} /\ BatchSize \in Nat \ {0}
                         /\ Budget \in [Bounds -> Nat]

VARIABLES
  build,   \* [Elf -> what the path holds]; it matters while the file is there
  mtime,   \* [Elf \cup Src -> its modification time, or Gone]
  used,    \* [Elf \cup Src -> the times it has had]
  db,      \* the tables as the shared connection sees them
  durable, \* the tables as last committed
  pc,      \* where the scan is: "idle", "collect", "index"
  todo,    \* the paths the walk has not come to
  job,     \* [Elf -> what the scan has in hand of it]
  stop,    \* the stop event
  packing, \* the file whose copy dedup has at Work, or None
  packed,  \* the files that dedup has replaced by a patch
  budget   \* what is left of Budget

diskVars == <<build, mtime, used>>
scanVars == <<pc, todo, job>>
dedupVars == <<packing, packed>>
vars == <<diskVars, db, durable, scanVars, stop, dedupVars, budget>>

------------------------------------------------------------------------------
Files == Elf \cup Src

\* The row of an artifact, and the tables scanned_files, artifacts and sources. A row of
\* sources is the id and the path: its mtime changes nothing that is served.
Row == [path : Elf, mtime : Times]
Tables == [scanned : [Files -> Times \cup {None}],
           artifact : [Ids -> Row \cup {None}],
           sources : SUBSET (Ids \X Src)]

\* A file is "listed" in the batch, "sent" to the pool, "read" by a worker that has its
\* build, and "parsed" when it has its mtime and its sources.
JobAt(step) == [step |-> step, build |-> None, mtime |-> None, sources |-> {}]
NoJob == JobAt("none")
Job == [step : {"none", "listed", "sent", "read", "parsed"}, build : Builds \cup {None},
        mtime : Times \cup {None}, sources : SUBSET Src]
NoJobs == [p \in Elf |-> NoJob]

Present(p) == mtime[p] # Gone
At(S) == {p \in Elf : job[p].step \in S}
InHand(p) == p \in At({"read", "parsed"})

Spend(b) == budget[b] > 0 /\ budget' = [budget EXCEPT ![b] = @ - 1]

Init ==
  /\ build = [p \in Elf |-> CHOOSE b \in Builds : TRUE]
  /\ mtime = [p \in Files |-> Gone] /\ used = [p \in Files |-> {}]
  /\ db = [scanned |-> [p \in Files |-> None], artifact |-> [i \in Ids |-> None],
           sources |-> {}]
  /\ durable = db
  /\ pc = "idle" /\ todo = {} /\ job = NoJobs
  /\ stop = FALSE
  /\ packing = None /\ packed = {}
  /\ budget = Budget

------------------------------------------------------------------------------
\* Collecting a batch: scan, _iter_elf_jobs

StartScan ==
  /\ pc = "idle" /\ ~stop
  /\ pc' = "collect"
  /\ todo' = {p \in Elf : Present(p)}
  /\ UNCHANGED <<diskVars, db, durable, job, stop, dedupVars, budget>>

\* Mutant: a file that has a row is never scanned again.
ScanOnce(t, p) == Present(p) /\ t.scanned[p] = None

\* needs_scan: the row of scanned_files is missing or has another mtime.
NeedsScan(t, p) == Present(p) /\ t.scanned[p] # mtime[p]

Collect(p) ==
  /\ pc = "collect" /\ ~stop
  /\ p \in todo
  /\ Cardinality(At({"listed"})) < BatchSize
  /\ todo' = todo \ {p}
  /\ job' = IF NeedsScan(db, p) THEN [job EXCEPT ![p] = JobAt("listed")] ELSE job
  /\ UNCHANGED <<diskVars, db, durable, pc, stop, dedupVars, budget>>

\* The batch is full, or the walk is over.
StartBatch ==
  /\ pc = "collect" /\ ~stop
  /\ At({"listed"}) # {}
  /\ todo = {} \/ Cardinality(At({"listed"})) = BatchSize
  /\ pc' = "index"
  /\ UNCHANGED <<diskVars, db, durable, todo, job, stop, dedupVars, budget>>

EndBatch ==
  /\ pc = "index"
  /\ job = NoJobs
  /\ pc' = "collect"
  /\ UNCHANGED <<diskVars, db, durable, todo, job, stop, dedupVars, budget>>

EndScan ==
  /\ pc = "collect"
  /\ todo = {} /\ job = NoJobs
  /\ pc' = "idle"
  /\ UNCHANGED <<diskVars, db, durable, todo, job, stop, dedupVars, budget>>

\* With the stop event set the batch and what is in flight are given up.
CancelScan ==
  /\ stop /\ pc # "idle"
  /\ pc' = "idle" /\ todo' = {} /\ job' = NoJobs
  /\ UNCHANGED <<diskVars, db, durable, stop, dedupVars, budget>>

------------------------------------------------------------------------------
\* The pool: _index_batch, process_elf_path

Submit(p) ==
  /\ pc = "index" /\ ~stop
  /\ job[p].step = "listed"
  /\ Cardinality(At({"sent", "read", "parsed"})) < Workers
  /\ job' = [job EXCEPT ![p] = JobAt("sent")]
  /\ UNCHANGED <<diskVars, db, durable, pc, todo, stop, dedupVars, budget>>

\* The worker reads the notes. A file without a build-id is the whole result.
ReadNotes(p) ==
  /\ job[p].step = "sent" /\ Present(p)
  /\ job' = [job EXCEPT ![p] = [
               step |-> IF IdOf[build[p]] = NoId THEN "parsed" ELSE "read",
               build |-> build[p], mtime |-> None, sources |-> {}]]
  /\ UNCHANGED <<diskVars, db, durable, pc, todo, stop, dedupVars, budget>>

\* It asks for the mtime of the file only now, and looks for the sources on the disk.
ReadSources(p) ==
  /\ job[p].step = "read" /\ Present(p)
  /\ job' = [job EXCEPT ![p] = [step |-> "parsed", build |-> job[p].build,
               mtime |-> mtime[p], sources |-> {s \in SrcOf[job[p].build] : Present(s)}]]
  /\ UNCHANGED <<diskVars, db, durable, pc, todo, stop, dedupVars, budget>>

\* The file is gone, or cannot be parsed: the result is an error and nothing is marked.
ParseFails(p) ==
  /\ job[p].step \in {"sent", "read"}
  /\ \/ ~Present(p) /\ budget' = budget
     \/ Present(p) /\ Spend("fault")
  /\ job' = [job EXCEPT ![p] = NoJob]
  /\ UNCHANGED <<diskVars, db, durable, pc, todo, stop, dedupVars>>

------------------------------------------------------------------------------
\* Applying a result: _apply_worker_result

\* After a result, the stop event gives up the rest.
Applied(p) ==
  IF stop THEN pc' = "idle" /\ todo' = {} /\ job' = NoJobs
          ELSE job' = [job EXCEPT ![p] = NoJob] /\ UNCHANGED <<pc, todo>>

\* mark_scanned asks for the mtime once more.
Mark(scanned, S) == [p \in Files |-> IF p \in S THEN mtime[p] ELSE scanned[p]]

\* Mutant: a file that is gone is marked all the same.
ApplyUnseen(p) ==
  /\ job[p].step = "parsed" /\ IdOf[job[p].build] = NoId
  /\ db' = [db EXCEPT !.scanned = Mark(@, {p})]
  /\ Applied(p)
  /\ UNCHANGED <<diskVars, durable, stop, dedupVars, budget>>

\* The mark of a file without a build-id is not committed; without the file it raises.
ApplyNoId(p) ==
  /\ job[p].step = "parsed" /\ IdOf[job[p].build] = NoId
  /\ db' = IF Present(p) THEN [db EXCEPT !.scanned = Mark(@, {p})] ELSE db
  /\ Applied(p)
  /\ UNCHANGED <<diskVars, durable, stop, dedupVars, budget>>

\* Mutant: the row is replaced whatever its mtime.
UpsertAny(artifact, id, row) == [artifact EXCEPT ![id] = row]

\* upsert_artifact: an older copy does not replace a newer one.
Upsert(artifact, id, row) ==
  IF artifact[id] = None \/ row.mtime >= artifact[id].mtime
    THEN [artifact EXCEPT ![id] = row]
    ELSE artifact

\* The sources of the result that have no current row; none once the stop event is set.
NewSources(p) == IF stop THEN {} ELSE {s \in job[p].sources : NeedsScan(db, s)}

\* Mutant: a source is marked before it is known whether it is going to be indexed.
MarkAll(p) ==
  LET id == IdOf[job[p].build]
  IN [scanned |-> Mark(db.scanned, {p} \cup {x \in job[p].sources : Present(x)}),
      artifact |-> Upsert(db.artifact, id, [path |-> p, mtime |-> job[p].mtime]),
      sources |-> db.sources \cup ({id} \X NewSources(p))]

\* The tables when the transaction of a result is through.
Result(p) ==
  LET id == IdOf[job[p].build]
  IN [scanned |-> Mark(db.scanned, {p} \cup NewSources(p)),
      artifact |-> Upsert(db.artifact, id, [path |-> p, mtime |-> job[p].mtime]),
      sources |-> db.sources \cup ({id} \X NewSources(p))]

ApplyElf(p) ==
  /\ job[p].step = "parsed" /\ IdOf[job[p].build] # NoId
  /\ Present(p)
  /\ db' = Result(p) /\ durable' = Result(p)
  /\ Applied(p)
  /\ UNCHANGED <<diskVars, stop, dedupVars, budget>>

\* mark_scanned raises because the file is gone, or the database fails: the rollback takes
\* back what was not committed, the marks of files without a build-id with it.
ApplyFails(p) ==
  /\ job[p].step = "parsed" /\ IdOf[job[p].build] # NoId
  /\ \/ ~Present(p) /\ budget' = budget
     \/ Present(p) /\ Spend("fault")
  /\ db' = durable
  /\ Applied(p)
  /\ UNCHANGED <<diskVars, durable, stop, dedupVars>>

------------------------------------------------------------------------------
\* The environment

\* A write gives a path a time it never had, not necessarily a later one: cp -p, rsync.
Touch(p, t) ==
  /\ t \in Times \ used[p]
  /\ mtime' = [mtime EXCEPT ![p] = t]
  /\ used' = [used EXCEPT ![p] = @ \cup {t}]

\* The walk lists lazily: it may or may not come across a file that appears under it.
Appears(p) == todo' \in IF pc = "collect" /\ ~Present(p) THEN {todo, todo \cup {p}} ELSE {todo}

\* A file is delivered, rebuilt or rewritten; preprocessing a base is a rewrite too. Nobody
\* writes to what dedup packs.
Write(p, b, t) ==
  /\ p \notin packed \cup {packing, Work}
  /\ Touch(p, t)
  /\ build' = [build EXCEPT ![p] = b]
  /\ Appears(p)
  /\ IF InHand(p) THEN Spend("race") ELSE budget' = budget
  /\ UNCHANGED <<db, durable, pc, job, stop, dedupVars>>

WriteSource(s, t) ==
  /\ Touch(s, t)
  /\ UNCHANGED <<build, db, durable, scanVars, stop, dedupVars, budget>>

Remove(p) ==
  /\ p # Work /\ Present(p)
  /\ Spend("fault")
  /\ mtime' = [mtime EXCEPT ![p] = Gone]
  /\ UNCHANGED <<build, used, db, durable, scanVars, stop, dedupVars>>

Stop ==
  /\ ~stop
  /\ Spend("fault")
  /\ stop' = TRUE
  /\ UNCHANGED <<diskVars, db, durable, scanVars, dedupVars>>

\* close() does not commit; what dedup had in its work directory stays there.
Restart ==
  /\ Spend("fault")
  /\ db' = durable
  /\ pc' = "idle" /\ todo' = {} /\ job' = NoJobs
  /\ stop' = FALSE
  /\ packing' = None
  /\ UNCHANGED <<diskVars, durable, packed>>

\* compress_one makes a preprocessed copy of the target beside it, at a path that mkdtemp
\* makes new, ...
PackCopies(p, t) ==
  /\ packing = None
  /\ p \notin packed \cup {Work} /\ Present(p) /\ ~Present(Work) /\ ~InHand(Work)
  /\ Spend("pack")
  /\ packing' = p
  /\ Touch(Work, t)
  /\ build' = [build EXCEPT ![Work] = build[p]]
  /\ Appears(Work)
  /\ UNCHANGED <<db, durable, pc, job, stop, packed>>

\* ... removes the target once its patch is verified, ...
PackRemoves(p) ==
  /\ packing = p /\ Present(p)
  /\ mtime' = [mtime EXCEPT ![p] = Gone]
  /\ packed' = packed \cup {p}
  /\ UNCHANGED <<build, used, db, durable, scanVars, stop, packing, budget>>

\* ... and removes its copy whatever came of it.
PackEnds ==
  /\ packing # None
  /\ packing' = None
  /\ mtime' = [mtime EXCEPT ![Work] = Gone]
  /\ UNCHANGED <<build, used, db, durable, scanVars, stop, packed, budget>>

------------------------------------------------------------------------------
Worker(p) == ReadNotes(p) \/ ReadSources(p) \/ ParseFails(p)

Main(p) == Collect(p) \/ Submit(p) \/ ApplyNoId(p) \/ ApplyElf(p) \/ ApplyFails(p)

Scan == StartScan \/ StartBatch \/ EndBatch \/ EndScan \/ CancelScan

Environment ==
  \/ Stop \/ Restart \/ PackEnds
  \/ \E p \in Elf : \/ Remove(p) \/ PackRemoves(p)
                    \/ \E t \in Times : PackCopies(p, t) \/ \E b \in Builds : Write(p, b, t)
  \/ \E s \in Src, t \in SrcTimes : WriteSource(s, t)

Next == Scan \/ (\E p \in Elf : Worker(p) \/ Main(p)) \/ Environment

Spec == Init /\ [][Next]_vars

\* Workers and the scan run on, and the loop starts scan after scan.
Fairness == WF_vars(Scan) /\ \A p \in Elf : WF_vars(Worker(p)) /\ WF_vars(Main(p))

FairSpec == Spec /\ Fairness

------------------------------------------------------------------------------
\* The types of the disk, the tables, the scan and dedup.
TypeOK ==
  /\ build \in [Elf -> Builds]
  /\ mtime \in [Files -> Times \cup {Gone}] /\ used \in [Files -> SUBSET Times]
  /\ db \in Tables /\ durable \in Tables
  /\ pc \in {"idle", "collect", "index"} /\ todo \subseteq Elf /\ job \in [Elf -> Job]
  /\ stop \in BOOLEAN
  /\ packing \in Elf \cup {None} /\ packed \subseteq Elf
  /\ budget \in [Bounds -> Nat]

Unraced == budget["race"] = Budget["race"]

\* What the next scan will skip is indexed: an artifact of its build-id has a row, of this
\* copy or of one at least as new. It holds of the committed tables too, whatever
\* transaction failed and whenever the process ended, if no file changed in hand.
Justified(t) ==
  \A p \in Elf :
    Present(p) /\ ~NeedsScan(t, p) /\ IdOf[build[p]] # NoId
      => /\ t.artifact[IdOf[build[p]]] # None
         /\ t.artifact[IdOf[build[p]]].mtime >= mtime[p]
SkipIsJustified == Unraced => Justified(db) /\ Justified(durable)

\* A source that has a row in scanned_files is not indexed for the next program that
\* uses it, so the fallback of the source route needs a row of some program.
Found(t) == \A s \in Src : t.scanned[s] # None => \E id \in Ids : <<id, s>> \in t.sources
MarkedSourceIsFound == Found(db) /\ Found(durable)

\* The refinement: what was committed implements IndexTables, whatever is rolled back, lost
\* with the process or marked without a commit. So no scan, however it ends, takes a program
\* or a source from those who look for it, or sends them to an older copy.
Committed == INSTANCE IndexTables WITH scanned <- durable.scanned, artifact <- durable.artifact,
                                       sources <- durable.sources
CommittedIndex == Committed!Spec

\* Every change is looked at by a scan, though the one before failed, was rolled back or
\* was lost with the process, as long as nobody stops the scans.
ChangesAreIndexed ==
  \A p \in Elf : Present(p) ~> ~Present(p) \/ db.scanned[p] = mtime[p] \/ stop

Serves(id) ==
  LET row == db.artifact[id]
  IN row # None /\ (row.path \in packed \/ (Present(row.path) /\ IdOf[build[row.path]] = id))

\* A delta that was indexed is restored for its build-id (docs/dedup.md:62).
DeltaIsReachable ==
  packing = None =>
    \A p \in packed : LET id == IdOf[build[p]]
                      IN db.scanned[p] # None /\ id # NoId => Serves(id)
=============================================================================
