--------------------------- MODULE DedupPipeline ---------------------------
(***************************************************************************)
(* The dedup pipeline (debuginfod/dedup): an ingest registers the .debug   *)
(* files it finds on disk, groups the pending ones, keeps one file of each *)
(* group as the base and replaces the others by xdelta patches against it. *)
(* A file is a path; the order of the steps that touch the disk and the    *)
(* rows of table dedup_files is the code's, because a crash, a rollback of *)
(* the shared connection or a second ingest can fall between any two.      *)
(***************************************************************************)
EXTENDS Integers, FiniteSets

CONSTANTS
  Files,        \* the paths of .debug files under build_* directories
  NoFile,       \* no path
  Groups,       \* the keys "normalized project | stem" of group_key
  Group,        \* [Files -> Groups]
  Project,      \* [Files -> Nat], the rank of the exact project name
  Order,        \* [Files -> Nat], the rank by (file_build_num, file_path)
  Oversized,    \* the files above DEBUGINFOD_DEDUP_MAX_FILE_MB
  Actors,       \* the ingests that may run at the same time
  Background,   \* those started by DedupRunner; the others are run_backfill
  Scope,        \* [Actors -> SUBSET Files], what opts.projects lets it see
  Workers,      \* size of the pool of group jobs
  CompressBase, \* DEBUGINFOD_DEDUP_COMPRESS_BASE
  Budget        \* how often each event of the environment may happen

\* Each bound caps one kind of event: tools stopped for memory, failing steps of a
\* group, ingests that fail as a whole, commits and rollbacks of the indexer,
\* restarts, requests to stop.
Bounds == {"transient", "permanent", "ingest", "commit", "rollback", "restart", "stop"}

ASSUME FilesAssumption == /\ IsFiniteSet(Files) /\ NoFile \notin Files
                          /\ Group \in [Files -> Groups]
                          /\ Project \in [Files -> Nat]
                          /\ Order \in [Files -> Nat]
                          /\ \A f, g \in Files : Order[f] = Order[g] => f = g
ASSUME ConfigAssumption == /\ Oversized \subseteq Files
                           /\ Background \subseteq Actors
                           /\ Scope \in [Actors -> SUBSET Files]
                           /\ Workers \in Nat \ {0}
                           /\ CompressBase \in BOOLEAN
                           /\ Budget \in [Bounds -> Nat]

VARIABLES
  delivered,  \* the files the build server has put on disk so far
  disk,       \* what stands at each path
  delta,      \* what stands at each path + ".xdelta"
  rows,       \* dedup_files as the shared connection sees it
  durable,    \* dedup_files as last committed
  pc,         \* where each ingest is
  job,        \* the group job of each ingest and group
  stop,       \* the stop event of the process
  budget      \* what is left of Budget

vars == <<delivered, disk, delta, rows, durable, pc, job, stop, budget>>

------------------------------------------------------------------------------
\* What the steps read and write

\* A .debug file as delivered, decompressed and dwz-ed, or zstd-compressed.
Forms == {"raw", "prep", "zstd"}

NoDelta == [kind |-> "none", base |-> NoFile, form |-> "none"]
Broken  == [kind |-> "broken", base |-> NoFile, form |-> "none"]
Against(b, form) == [kind |-> "whole", base |-> b, form |-> form]
Delta == {NoDelta, Broken} \cup
         [kind : {"whole"}, base : Files, form : Forms \cup {"none"}]

\* "deferred" is status 'error' with a message that reset_transient_dedup_errors
\* recognises; an "error" keeps its status until an operator changes it.
Status == {"absent", "pending", "done", "error", "deferred"}
Kind == {"full", "base", "delta"}
Row == [status : Status, kind : Kind, base : Files \cup {NoFile}]
Absent == [status |-> "absent", kind |-> "full", base |-> NoFile]
Fresh == [Absent EXCEPT !.status = "pending"]

Steps == {"none", "queued", "base", "markBase", "targets", "encode", "verify",
          "remove", "mark", "compress"}
Job == [step : Steps, todo : SUBSET Files, base : Files \cup {NoFile},
        baseDone : BOOLEAN, single : BOOLEAN]
NoJob == [step |-> "none", todo |-> {}, base |-> NoFile,
          baseDone |-> FALSE, single |-> FALSE]

Earliest(S) == CHOOSE f \in S : \A g \in S : Order[f] <= Order[g]
Latest(S) == CHOOSE f \in S : \A g \in S : Order[f] >= Order[g]

OnDisk(f) == disk[f] # "none"
HasRow(f) == rows[f].status # "absent"
Pending(f) == rows[f].status = "pending"

\* An UPDATE ... WHERE id touches nothing when the row is gone.
Update(f, row) == IF HasRow(f) THEN [rows EXCEPT ![f] = row] ELSE rows
WithStatus(f, s) == Update(f, [rows[f] EXCEPT !.status = s])
Done(f, kind, b) == Update(f, [status |-> "done", kind |-> kind, base |-> b])

Spend(b) == /\ budget[b] > 0
            /\ budget' = [budget EXCEPT ![b] = @ - 1]

\* run_backfill passes no stop event.
Stopped(a) == stop /\ a \in Background

Init ==
  /\ delivered = {}
  /\ disk = [f \in Files |-> "none"]
  /\ delta = [f \in Files |-> NoDelta]
  /\ rows = [f \in Files |-> Absent]
  /\ durable = [f \in Files |-> Absent]
  /\ pc = [a \in Actors |-> "idle"]
  /\ job = [a \in Actors |-> [g \in Groups |-> NoJob]]
  /\ stop = FALSE
  /\ budget = Budget

------------------------------------------------------------------------------
\* One ingest: run_ingest_all

IngestVars == <<delivered, disk, delta, durable, stop>>

Enter(a, from, to) == pc[a] = from /\ pc' = [pc EXCEPT ![a] = to]

\* Mutant: an ingest that forgets to reset the transient errors.
StartIngestAsIs(a) ==
  /\ ~Stopped(a)
  /\ Enter(a, "idle", "count")
  /\ UNCHANGED <<IngestVars, rows, job, budget>>

StartIngest(a) ==
  /\ ~Stopped(a)
  /\ Enter(a, "idle", "count")
  /\ rows' = [f \in Files |-> IF rows[f].status = "deferred"
                                THEN [rows[f] EXCEPT !.status = "pending"]
                                ELSE rows[f]]
  /\ UNCHANGED <<IngestVars, job, budget>>

\* A background ingest after a scan that indexed nothing is skipped when no row
\* is pending or in error; a backfill passes scan_indexed = -1 and never is.
SkipIngest(a) ==
  /\ a \in Background
  /\ \A f \in Files : rows[f].status \in {"absent", "done"}
  /\ Enter(a, "count", "idle")
  /\ UNCHANGED <<IngestVars, rows, job, budget>>

Unregistered(a) == {f \in Scope[a] : OnDisk(f) /\ ~HasRow(f)}

Register(S) == rows' = [f \in Files |-> IF f \in S THEN Fresh ELSE rows[f]]

Discover(a) ==
  /\ Enter(a, "count", "list")
  /\ Register(Unregistered(a))
  /\ UNCHANGED <<IngestVars, job, budget>>

\* The walk raises part of the way: what it registered stays registered.
DiscoverFails(a) ==
  /\ Enter(a, "count", "idle")
  /\ \E S \in SUBSET Unregistered(a) : Register(S)
  /\ Spend("ingest")
  /\ UNCHANGED <<IngestVars, job>>

\* The member whose exact project get_dedup_group_base is asked for: the first
\* of the list ordered by project name and build number.
Lead(S) == CHOOSE f \in S : \A g \in S :
             \/ Project[f] < Project[g]
             \/ Project[f] = Project[g] /\ Order[f] <= Order[g]

Anchors(S) == {b \in Files : /\ rows[b].status = "done"
                             /\ rows[b].kind \in {"base", "full"}
                             /\ Group[b] = Group[Lead(S)]
                             /\ Project[b] = Project[Lead(S)]}

\* expand_dedup_groups_with_bases: the group with the done file it may lean on.
Expanded(S) == S \cup IF Anchors(S) = {} THEN {} ELSE {Earliest(Anchors(S))}

\* Mutant: the done file of the group is packed like any other target.
TargetsOrDone(S) == Expanded(S) \ {Earliest(Expanded(S))}

\* The members after the first that are not done.
Targets(S) == S \ {Earliest(Expanded(S))}

\* Mutant: a done file of any kind is taken for a base that needs no work.
StartsDone(S) == Earliest(Expanded(S)) \notin S

StartsWithBase(S) ==
  LET first == Earliest(Expanded(S)) IN first \notin S /\ rows[first].kind = "base"

\* The job of a group as it waits for a worker.
JobFor(S) ==
  IF Expanded(S) = {Earliest(S)}
    THEN [NoJob EXCEPT !.step = "queued", !.todo = S, !.single = TRUE]
    ELSE [NoJob EXCEPT !.step = "queued", !.todo = Targets(S),
                       !.base = Earliest(Expanded(S)), !.baseDone = StartsWithBase(S)]

\* Mutant: the group is made of every registered file, whatever its status.
MembersAnyStatus(a, g) == {f \in Scope[a] : HasRow(f) /\ Group[f] = g}

Members(a, g) == {f \in Scope[a] : Pending(f) /\ Group[f] = g}

ListPending(a) ==
  /\ Enter(a, "list", "groups")
  /\ job' = [job EXCEPT ![a] =
               [g \in Groups |-> IF Members(a, g) = {} THEN NoJob ELSE JobFor(Members(a, g))]]
  /\ UNCHANGED <<IngestVars, rows, budget>>

\* xdelta3, objcopy or dwz is not on the PATH: no group is processed.
ToolsMissing(a) ==
  /\ Enter(a, "list", "idle")
  /\ Spend("ingest")
  /\ UNCHANGED <<IngestVars, rows, job>>

EndIngest(a) ==
  /\ \A g \in Groups : job[a][g].step = "none"
  /\ Enter(a, "groups", "idle")
  /\ UNCHANGED <<IngestVars, rows, job, budget>>

------------------------------------------------------------------------------
\* Group jobs: process_groups, _run_group_job

JobVars == <<delivered, durable, pc, stop>>

At(a, g, s) == job[a][g].step = s
Goto(a, g, s) == job' = [job EXCEPT ![a][g].step = s]
EndJob(a, g) == job' = [job EXCEPT ![a][g] = NoJob]
Active(a) == {g \in Groups : job[a][g].step \notin {"none", "queued"}}

MayStart(a, g) ==
  /\ At(a, g, "queued")
  /\ ~Stopped(a)
  /\ Cardinality(Active(a)) < Workers

StartGroup(a, g) ==
  /\ MayStart(a, g)
  /\ ~job[a][g].single
  /\ Goto(a, g, "base")
  /\ UNCHANGED <<JobVars, disk, delta, rows, budget>>

\* find_group_base: a done base of the same group, the newest first.
GroupBases(f) == {b \in Files \ {f} : /\ rows[b].status = "done"
                                      /\ rows[b].kind = "base"
                                      /\ Group[b] = Group[f]}

StartSingleton(a, g) ==
  /\ MayStart(a, g)
  /\ job[a][g].single
  /\ LET f == Earliest(job[a][g].todo) IN
     IF GroupBases(f) # {}
       THEN /\ job' = [job EXCEPT ![a][g].step = "targets",
                                  ![a][g].base = Latest(GroupBases(f))]
            /\ rows' = rows
       ELSE /\ EndJob(a, g)
            /\ rows' = IF OnDisk(f) THEN Done(f, "full", NoFile)
                                    ELSE WithStatus(f, "error")
  /\ UNCHANGED <<JobVars, disk, delta, budget>>

\* A stop cancels the jobs that no worker has taken.
CancelJob(a, g) ==
  /\ At(a, g, "queued")
  /\ Stopped(a)
  /\ EndJob(a, g)
  /\ UNCHANGED <<JobVars, disk, delta, rows, budget>>

------------------------------------------------------------------------------
\* The base of a group: process_group, first half

Base(a, g) == job[a][g].base

RejectBase(a, g) ==
  /\ At(a, g, "base")
  /\ Base(a, g) \in Oversized \/ ~OnDisk(Base(a, g))
  /\ rows' = WithStatus(Base(a, g), "error")
  /\ EndJob(a, g)
  /\ UNCHANGED <<JobVars, disk, delta, budget>>

\* The wait for memory, or for a memory budget, ends with the stop event.
AbandonGroup(a, g) ==
  /\ At(a, g, "base")
  /\ Stopped(a)
  /\ EndJob(a, g)
  /\ UNCHANGED <<JobVars, disk, delta, rows, budget>>

ReuseBase(a, g) ==
  /\ At(a, g, "base")
  /\ Base(a, g) \notin Oversized /\ OnDisk(Base(a, g))
  /\ job[a][g].baseDone
  /\ Goto(a, g, "targets")
  /\ UNCHANGED <<JobVars, disk, delta, rows, budget>>

PreprocessBase(a, g) ==
  /\ At(a, g, "base")
  /\ Base(a, g) \notin Oversized /\ OnDisk(Base(a, g))
  /\ ~job[a][g].baseDone
  /\ \/ /\ disk' = [disk EXCEPT ![Base(a, g)] = "prep"]
        /\ Goto(a, g, "markBase")
        /\ UNCHANGED <<rows, budget>>
     \/ /\ Spend("permanent")
        /\ rows' = WithStatus(Base(a, g), "error")
        /\ EndJob(a, g)
        /\ disk' = disk
     \/ /\ Spend("transient")
        /\ EndJob(a, g)
        /\ UNCHANGED <<disk, rows>>
  /\ UNCHANGED <<JobVars, delta>>

MarkBase(a, g) ==
  /\ At(a, g, "markBase")
  /\ rows' = Done(Base(a, g), "base", NoFile)
  /\ Goto(a, g, "targets")
  /\ UNCHANGED <<JobVars, disk, delta, budget>>

------------------------------------------------------------------------------
\* The targets of a group, one by one: process_group, compress_one

Target(a, g) == Earliest(job[a][g].todo)

DropTarget(a, g) ==
  job' = [job EXCEPT ![a][g].step = "targets",
                     ![a][g].todo = @ \ {Target(a, g)}]

\* A failure that is not transient marks the row; so does any failure of a
\* singleton, whose transient message the next ingest recognises.
FailTarget(a, g) ==
  /\ rows' = WithStatus(Target(a, g), "error")
  /\ DropTarget(a, g)

DeferTarget(a, g) ==
  /\ rows' = IF job[a][g].single THEN WithStatus(Target(a, g), "deferred") ELSE rows
  /\ DropTarget(a, g)

HasTarget(a, g) == At(a, g, "targets") /\ job[a][g].todo # {}

\* process_group goes on to compress the base, stopped or not.
EndTargets(a, g) ==
  /\ At(a, g, "targets")
  /\ job[a][g].todo = {} \/ (Stopped(a) /\ ~job[a][g].single)
  /\ IF job[a][g].single THEN EndJob(a, g) ELSE Goto(a, g, "compress")
  /\ UNCHANGED <<JobVars, disk, delta, rows, budget>>

\* Mutant: the target is moved to the work directory and not copied.
PrepareTargetByMove(a, g) ==
  /\ HasTarget(a, g)
  /\ OnDisk(Target(a, g))
  /\ disk' = [disk EXCEPT ![Target(a, g)] = "none"]
  /\ Goto(a, g, "encode")
  /\ UNCHANGED <<JobVars, rows, delta, budget>>

\* Mutant: a target that is not there any more takes its patch with it.
PrepareTargetCleansUp(a, g) ==
  /\ HasTarget(a, g)
  /\ IF ~OnDisk(Target(a, g))
       THEN FailTarget(a, g) /\ delta' = [delta EXCEPT ![Target(a, g)] = NoDelta]
       ELSE UNCHANGED <<rows, delta>> /\ Goto(a, g, "encode")
  /\ UNCHANGED <<JobVars, disk, budget>>

\* The target is copied to a work directory and preprocessed there.
PrepareTarget(a, g) ==
  /\ HasTarget(a, g)
  /\ ~Stopped(a) \/ job[a][g].single
  /\ IF Target(a, g) \in Oversized \/ ~OnDisk(Target(a, g))
       THEN FailTarget(a, g)
       ELSE rows' = rows /\ Goto(a, g, "encode")
  /\ UNCHANGED <<JobVars, disk, delta, budget>>

\* Mutant: the encoder overwrites the patch that is there (xdelta3 -f).
EncodeOverwriting(a, g) ==
  /\ At(a, g, "encode")
  /\ OnDisk(Base(a, g))
  /\ delta' = [delta EXCEPT ![Target(a, g)] = Against(Base(a, g), disk[Base(a, g)])]
  /\ Goto(a, g, "verify")
  /\ UNCHANGED <<JobVars, disk, rows, budget>>

\* xdelta3 -e refuses an output that exists; a missing base fails the stat.
Encode(a, g) ==
  /\ At(a, g, "encode")
  /\ IF delta[Target(a, g)] # NoDelta \/ ~OnDisk(Base(a, g))
       THEN FailTarget(a, g) /\ delta' = delta
       ELSE /\ delta' = [delta EXCEPT ![Target(a, g)] = Against(Base(a, g), disk[Base(a, g)])]
            /\ rows' = rows /\ Goto(a, g, "verify")
  /\ UNCHANGED <<JobVars, disk, budget>>

\* The encoder writes a patch that does not restore the target.
EncodeWrong(a, g) ==
  /\ At(a, g, "encode")
  /\ delta[Target(a, g)] = NoDelta /\ OnDisk(Base(a, g))
  /\ Spend("permanent")
  /\ delta' = [delta EXCEPT ![Target(a, g)] = Broken]
  /\ Goto(a, g, "verify")
  /\ UNCHANGED <<JobVars, disk, rows>>

\* Mutant: the patch is decoded and the checksums are not compared.
VerifyUnchecked(a, g) ==
  /\ At(a, g, "verify")
  /\ Goto(a, g, "remove")
  /\ UNCHANGED <<JobVars, disk, delta, rows, budget>>

\* The patch restores the copy from the base as it stands now, or the decoder
\* fails and leaves the patch, or the checksums differ and the patch goes.
Verify(a, g) ==
  /\ At(a, g, "verify")
  /\ LET t == Target(a, g) IN
     IF OnDisk(Base(a, g)) /\ delta[t] = Against(Base(a, g), disk[Base(a, g)])
       THEN UNCHANGED <<rows, delta>> /\ Goto(a, g, "remove")
       ELSE FailTarget(a, g) /\ delta' \in {delta, [delta EXCEPT ![t] = NoDelta]}
  /\ UNCHANGED <<JobVars, disk, budget>>

\* A tool fails, or is stopped for memory or by the stop event, on the copy or
\* over the patch, of which the killed encoder may leave a part.
TargetInterrupted(a, g) ==
  /\ job[a][g].step \in {"encode", "verify"}
  /\ \/ Spend("permanent") /\ FailTarget(a, g)
     \/ (Spend("transient") \/ (Stopped(a) /\ UNCHANGED budget)) /\ DeferTarget(a, g)
  /\ \/ delta' = delta
     \/ /\ At(a, g, "encode") /\ delta[Target(a, g)] = NoDelta
        /\ delta' = [delta EXCEPT ![Target(a, g)] = Broken]
  /\ UNCHANGED <<JobVars, disk>>

RemoveOriginal(a, g) ==
  /\ At(a, g, "remove")
  /\ IF OnDisk(Target(a, g))
       THEN /\ disk' = [disk EXCEPT ![Target(a, g)] = "none"]
            /\ rows' = rows /\ Goto(a, g, "mark")
       ELSE FailTarget(a, g) /\ disk' = disk
  /\ UNCHANGED <<JobVars, delta, budget>>

\* Mutant: the row gets the name of the tool as its kind of storage.
MarkDeltaWrongKind(a, g) ==
  /\ At(a, g, "mark")
  /\ rows' = Done(Target(a, g), "xdelta", Base(a, g))
  /\ DropTarget(a, g)
  /\ UNCHANGED <<JobVars, disk, delta, budget>>

MarkDelta(a, g) ==
  /\ At(a, g, "mark")
  /\ IF delta[Target(a, g)] = NoDelta
       THEN FailTarget(a, g)
       ELSE /\ rows' = Done(Target(a, g), "delta", Base(a, g))
            /\ DropTarget(a, g)
  /\ UNCHANGED <<JobVars, disk, delta, budget>>

\* The optional last step. A base that is gone raises out of the pool of jobs:
\* the ingest gives up the jobs it has not started.
FinishGroup(a, g) ==
  /\ At(a, g, "compress")
  /\ \/ /\ ~CompressBase
        /\ EndJob(a, g)
        /\ UNCHANGED <<disk, rows, budget>>
     \/ /\ CompressBase /\ OnDisk(Base(a, g))
        /\ disk' = [disk EXCEPT ![Base(a, g)] = "zstd"]
        /\ EndJob(a, g)
        /\ UNCHANGED <<rows, budget>>
     \/ /\ CompressBase /\ OnDisk(Base(a, g))
        /\ \/ Spend("permanent") /\ rows' = WithStatus(Base(a, g), "error")
           \/ (Spend("transient") \/ (Stopped(a) /\ UNCHANGED budget)) /\ rows' = rows
        /\ EndJob(a, g)
        /\ disk' = disk
     \/ /\ CompressBase /\ ~OnDisk(Base(a, g))
        /\ job' = [job EXCEPT ![a] =
                     [h \in Groups |-> IF h = g \/ At(a, h, "queued") THEN NoJob ELSE @[h]]]
        /\ UNCHANGED <<disk, rows, budget>>
  /\ UNCHANGED <<JobVars, delta>>

------------------------------------------------------------------------------
\* The process and what surrounds it

ProcessVars == <<delivered, disk, delta, pc, job, stop>>

Deliver(f) ==
  /\ f \notin delivered
  /\ delivered' = delivered \cup {f}
  /\ disk' = [disk EXCEPT ![f] = "raw"]
  /\ UNCHANGED <<delta, rows, durable, pc, job, stop, budget>>

\* A transaction of the indexer on the one shared connection ends: it commits or
\* rolls back the rows of every thread.
IndexerCommits ==
  /\ durable # rows
  /\ Spend("commit")
  /\ durable' = rows
  /\ UNCHANGED <<ProcessVars, rows>>

IndexerRollsBack ==
  /\ durable # rows
  /\ Spend("rollback")
  /\ rows' = durable
  /\ UNCHANGED <<ProcessVars, durable>>

RequestStop ==
  /\ ~stop
  /\ Spend("stop")
  /\ stop' = TRUE
  /\ UNCHANGED <<delivered, disk, delta, rows, durable, pc, job>>

\* The process ends, in an orderly way or not, and starts again: close() does not
\* commit, and the jobs are gone.
Restart ==
  /\ Spend("restart")
  /\ rows' = durable
  /\ pc' = [a \in Actors |-> "idle"]
  /\ job' = [a \in Actors |-> [g \in Groups |-> NoJob]]
  /\ stop' = FALSE
  /\ UNCHANGED <<delivered, disk, delta, durable>>

Ingest(a) ==
  \/ StartIngest(a) \/ SkipIngest(a) \/ Discover(a) \/ DiscoverFails(a)
  \/ ListPending(a) \/ ToolsMissing(a) \/ EndIngest(a)

GroupJob(a, g) ==
  \/ StartGroup(a, g) \/ StartSingleton(a, g) \/ CancelJob(a, g)
  \/ RejectBase(a, g) \/ AbandonGroup(a, g) \/ ReuseBase(a, g) \/ PreprocessBase(a, g)
  \/ MarkBase(a, g) \/ EndTargets(a, g) \/ PrepareTarget(a, g) \/ Encode(a, g) \/ EncodeWrong(a, g)
  \/ Verify(a, g) \/ TargetInterrupted(a, g) \/ RemoveOriginal(a, g)
  \/ MarkDelta(a, g) \/ FinishGroup(a, g)

Next ==
  \/ \E a \in Actors : Ingest(a) \/ \E g \in Groups : GroupJob(a, g)
  \/ \E f \in Files : Deliver(f)
  \/ IndexerCommits \/ IndexerRollsBack \/ RequestStop \/ Restart

Spec == Init /\ [][Next]_vars

\* The periodic scan starts a background ingest again and again, and the threads
\* of an ingest and of its pool run on; nothing obliges anyone to call backfill.
FairSpec == /\ Spec
            /\ \A a \in Background : WF_vars(Ingest(a))
            /\ \A a \in Actors, g \in Groups : WF_vars(GroupJob(a, g))

------------------------------------------------------------------------------
\* Serving a file: restore_to_cache

\* objcopy --decompress-debug-sections undoes the compression of a base.
Decompressed(form) == IF CompressBase /\ form = "zstd" THEN "prep" ELSE form

Servable(f) ==
  IF rows[f].kind = "delta"
    THEN LET b == rows[f].base IN
         HasRow(b) /\ OnDisk(b) /\ delta[f] = Against(b, Decompressed(disk[b]))
    ELSE OnDisk(f)

Quiet == \A a \in Actors : pc[a] = "idle"

------------------------------------------------------------------------------
\* Properties

TypeOK ==
  /\ delivered \subseteq Files
  /\ disk \in [Files -> Forms \cup {"none"}]
  /\ delta \in [Files -> Delta]
  /\ rows \in [Files -> Row]
  /\ durable \in [Files -> Row]
  /\ pc \in [Actors -> {"idle", "count", "list", "groups"}]
  /\ job \in [Actors -> [Groups -> Job]]
  /\ stop \in BOOLEAN
  /\ budget \in [Bounds -> Nat]

\* What the table calls done can be served: the file itself, or its patch with
\* the base it was made against, in the form the server will decode it with.
DoneIsServable == \A f \in Files : rows[f].status = "done" => Servable(f)

\* Between two ingests every file the build server delivered can be served, be
\* its row pending, done or in error: no failure on the way costs the content.
QuietIsServable == Quiet => \A f \in delivered : Servable(f)

\* Every delivered file can be had back at every moment, in the middle of a job and
\* after a restart too: it stands on disk, or a whole patch does that leads to its base.
\* The base may have been packed since, when a restart took its row back, and then its
\* own patch restores it; but patches never lead in a circle or into the void: among any
\* delivered files there is one that can be had without the others.
HadWithout(S, f) ==
  OnDisk(f) \/ /\ delta[f].kind = "whole" /\ delta[f].form \in {"prep", "zstd"}
               /\ delta[f].base \in delivered \ S
NoContentLost == \A S \in SUBSET delivered : S # {} => \E f \in S : HadWithout(S, f)

\* Two jobs, of one ingest or of two, never work on the patch of one file at the
\* same time: the encoder that refuses to overwrite is the only lock there is.
OwnsPatch(a, g, f) == /\ job[a][g].step \in {"verify", "remove", "mark"}
                      /\ job[a][g].todo # {}
                      /\ Target(a, g) = f
OneOwner == \A a, b \in Actors, g, h \in Groups, f \in Files :
              OwnsPatch(a, g, f) /\ OwnsPatch(b, h, f) => a = b /\ g = h

\* What the server can send, or a job is about to record as a patch it verified.
InReach(f) == \/ Servable(f)
              \/ \E a \in Actors, g \in Groups : At(a, g, "mark") /\ OwnsPatch(a, g, f)

\* A delivered file goes out of the server's reach only in the step that takes its row
\* back to the last commit, and only when that commit did not have its patch: no step of
\* an ingest hides a file, and a patch that was committed is served ever after.
HidesOnlyLost ==
  \A f \in delivered' : (f \in delivered => InReach(f)) /\ ~InReach(f)'
    => (Restart \/ IndexerRollsBack) /\ durable[f].kind # "delta"
ServedUntilLost == [][HidesOnlyLost]_vars

\* No step takes an original from the disk unless a verified patch stands beside
\* it and stays there.
RemovalLeavesPatch ==
  [][\A f \in Files : OnDisk(f) /\ disk'[f] = "none"
       => delta[f].kind = "whole" /\ delta'[f] = delta[f]]_vars

\* A patch the server depends on is never touched, replaced or dropped.
PatchIsFinal ==
  [][\A f \in Files : rows[f].kind = "delta" /\ rows'[f].kind = "delta"
       => delta'[f] = delta[f]]_vars

\* The base stays: no row done as a delta names a base that left the disk.
BaseStays == \A f \in Files : rows[f].status = "done" /\ rows[f].kind = "delta"
                                => OnDisk(rows[f].base)

\* The committed table only moves forward through the kinds of storage, each
\* delta committed with its base or after it: nothing a client could resolve is
\* taken back by a later commit or by a restart.
KindIn(table) == [f \in Files |-> table[f].kind]
BaseIn(table) == [f \in Files |-> table[f].base]
Committed == INSTANCE DedupStorage WITH kind <- KindIn(durable), base <- BaseIn(durable)
CommittedStorage == Committed!Spec

\* Every registered file is settled in the end, whatever fails on the way, unless
\* the process is told to stop.
PendingSettles ==
  \A f \in Files : Pending(f) ~> (stop \/ rows[f].status \in {"done", "error"})
============================================================================
