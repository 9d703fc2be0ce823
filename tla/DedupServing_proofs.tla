------------------------ MODULE DedupServing_proofs ------------------------
(***************************************************************************)
(* What ingests that do not overlap leave for the server: bases stay, what *)
(* is done can be served, files go out of reach only with rows that no one *)
(* had committed, the committed table implements DedupStorage, and content *)
(* is never lost.  The last holds whatever is rolled back or restarted; for*)
(* the others no transaction of the indexer is rolled back in the middle of*)
(* an ingest.  When two ingests overlap, TLC refutes each of them.         *)
(***************************************************************************)
EXTENDS DedupPipeline_proofs

\* Two ingests never overlap: the flag of DedupRunner turns a second one away, and a
\* backfill is called while none runs.
OneAtATime == \A a, b \in Actors : pc[a] # "idle" /\ pc[b] # "idle" => a = b

\* When a transaction of the indexer fails, no ingest is under way.
QuietRollback == IndexerRollsBack => Quiet

------------------------------------------------------------------------------
\* The inductive invariant

Settled(row) == row.status \in {"done", "error"}

\* A row waits as "full", a delta names a base of the same table, and what is done
\* without a patch is on disk.
TableOK(table) == \A f \in Files :
  /\ ~Settled(table[f]) => table[f].kind = "full"
  /\ table[f].kind # "delta" => table[f].base = NoFile
  /\ table[f].kind = "delta" => table[f].base \in Files /\ table[table[f].base].kind = "base"
  /\ table[f].status = "done" /\ table[f].kind # "delta" => OnDisk(f)

\* The patch p can be decoded: its base stands there as it was, or compressed since.
Decodes(p, b) == \E form \in Forms : p = Against(b, form) /\ disk[b] \in {form, "zstd"}

\* The disk is what the rows say.
Stored == \A f \in Files :
  /\ OnDisk(f) => f \in delivered
  /\ rows[f].kind = "base" => disk[f] \in {"prep", "zstd"}
  /\ rows[f].kind = "delta" => Decodes(delta[f], rows[f].base)

\* The rows have all that was committed.
Ahead == \A f \in Files :
  /\ Settled(durable[f]) => Settled(rows[f])
  /\ durable[f].kind # "full" => rows[f].kind = durable[f].kind /\ rows[f].base = durable[f].base

TablesOK == TableOK(rows) /\ TableOK(durable) /\ Stored /\ Ahead

\* The base of a job is no target of it, and further on its way to be a base than
\* any file another job may touch.
BaseReady(j) ==
  /\ j.base \notin j.todo
  /\ j.step \in {"queued", "base"} =>
       HasRow(j.base) /\ rows[j.base].kind = IF j.baseDone THEN "base" ELSE "full"
  /\ j.step = "markBase" =>
       HasRow(j.base) /\ rows[j.base].kind = "full" /\ disk[j.base] = "prep"
  /\ j.step \notin {"queued", "base", "markBase"} => rows[j.base].kind = "base"

\* What a job may rely on: its targets are pending, its base is of its group, and
\* the patch it verified decodes with the base as it stands.
Relies(a, g) == LET j == job[a][g] IN j.step # "none" =>
  /\ pc[a] = "groups"
  /\ \A f \in j.todo : Pending(f)
  /\ ~(j.single /\ j.step = "queued") => BaseReady(j) /\ Group[j.base] = g
  /\ j.step \in {"remove", "mark"} => delta[Target(a, g)] = Against(j.base, disk[j.base])

JobsRely == \A a \in Actors, g \in Groups : Relies(a, g)

\* A job runs inside its ingest.
JobsInside == \A a \in Actors, g \in Groups : job[a][g].step # "none" => pc[a] = "groups"

ServeInv == TypeOK /\ JobShape /\ TablesOK /\ JobsRely

------------------------------------------------------------------------------
\* The tables

\* What any step but a delivery, a commit or a restart may do to one file.
Moves(f) ==
  /\ Settled(rows[f]) => Settled(rows'[f])
  /\ rows[f].kind # "full" => rows'[f].kind = rows[f].kind /\ rows'[f].base = rows[f].base
  /\ ~Settled(rows'[f]) => rows'[f].kind = "full"
  /\ rows'[f].kind # "delta" => rows'[f].base = NoFile
  /\ rows'[f].status = "done" /\ rows'[f].kind # "delta" => disk'[f] # "none"
  /\ OnDisk(f) /\ disk'[f] = "none" => Pending(f)
  /\ disk'[f] # "none" => OnDisk(f)
  /\ rows[f].kind = "base" => disk'[f] \in {disk[f], "zstd"}
  /\ rows[f].kind = "full" /\ rows'[f].kind = "base" => disk'[f] \in {"prep", "zstd"}
  /\ rows[f].kind = "full" /\ rows'[f].kind = "delta" =>
       /\ rows'[f].base \in Files /\ rows[rows'[f].base].kind = "base"
       /\ delta'[f] = Against(rows'[f].base, disk[rows'[f].base])
  /\ rows[f].kind = "delta" => delta'[f] = delta[f]

LEMMA TablesMove ==
  ASSUME RestOK, TablesOK, \A f \in Files : Moves(f),
         durable' = durable, delivered' = delivered, rows' \in [Files -> Row]
  PROVE  TablesOK'
<1> USE DEF RestOK, Row, Kind
<1>1. TableOK(rows)'
  <2> SUFFICES ASSUME NEW f \in Files
               PROVE  /\ ~Settled(rows'[f]) => rows'[f].kind = "full"
                      /\ rows'[f].kind # "delta" => rows'[f].base = NoFile
                      /\ rows'[f].kind = "delta" =>
                           rows'[f].base \in Files /\ rows'[rows'[f].base].kind = "base"
                      /\ rows'[f].status = "done" /\ rows'[f].kind # "delta" => disk'[f] # "none"
    BY DEF TableOK, OnDisk, Settled
  <2>1. ASSUME rows'[f].kind = "delta"
        PROVE  rows'[f].base \in Files /\ rows'[rows'[f].base].kind = "base"
    <3>1. rows'[f].base \in Files /\ rows[rows'[f].base].kind = "base"
      BY <2>1 DEF TablesOK, TableOK, Moves
    <3> QED BY <3>1 DEF Moves
  <2> QED BY <2>1 DEF Moves
<1>2. TableOK(durable)'
  BY DEF TableOK, TablesOK, Ahead, Moves, OnDisk, Pending, Settled
<1>3. Stored'
  <2> SUFFICES ASSUME NEW f \in Files
               PROVE  /\ disk'[f] # "none" => f \in delivered'
                      /\ rows'[f].kind = "base" => disk'[f] \in {"prep", "zstd"}
                      /\ rows'[f].kind = "delta" => Decodes(delta[f], rows[f].base)'
    BY DEF Stored, OnDisk
  <2>1. disk'[f] # "none" => f \in delivered'
    BY DEF TablesOK, Stored, OnDisk, Moves
  <2>2. rows'[f].kind = "base" => disk'[f] \in {"prep", "zstd"}
    BY DEF TablesOK, Stored, Moves
  <2>3. ASSUME rows'[f].kind = "delta"
        PROVE  Decodes(delta[f], rows[f].base)'
    <3> DEFINE b == rows'[f].base
    <3>1. /\ b \in Files /\ rows[b].kind = "base"
          /\ \E form \in Forms : delta'[f] = Against(b, form) /\ disk[b] \in {form, "zstd"}
      <4>1. CASE rows[f].kind = "delta"
        BY <4>1, <2>3 DEF TablesOK, TableOK, Stored, Moves, Decodes
      <4>2. CASE rows[f].kind # "delta"
        <5>1. /\ b \in Files /\ rows[b].kind = "base" /\ delta'[f] = Against(b, disk[b])
          BY <4>2, <2>3 DEF Moves
        <5>2. disk[b] \in Forms
          BY <5>1 DEF TablesOK, Stored, Forms
        <5> QED BY <5>1, <5>2
      <4> QED BY <4>1, <4>2
    <3>2. disk'[b] \in {disk[b], "zstd"}
      BY <3>1 DEF Moves
    <3> QED BY <3>1, <3>2 DEF Decodes
  <2> QED BY <2>1, <2>2, <2>3
<1>4. Ahead'
  BY DEF TablesOK, Ahead, Moves, Settled
<1> QED BY <1>1, <1>2, <1>3, <1>4 DEF TablesOK

\* A file that a step leaves alone.
LEMMA StillMoves ==
  ASSUME RestOK, TablesOK, NEW f \in Files,
         rows'[f] = rows[f], disk'[f] = disk[f], delta'[f] = delta[f]
  PROVE  Moves(f)
BY DEF RestOK, Row, TablesOK, TableOK, Stored, Moves, OnDisk, Settled

\* A row that changes its status only, and waits again only when it was not settled.
LEMMA StatusMoves ==
  ASSUME RestOK, TablesOK, NEW f \in Files, NEW s \in {"error", "deferred"},
         s = "deferred" => Pending(f),
         rows' = WithStatus(f, s), disk' = disk,
         \A h \in Files : delta'[h] = delta[h] \/ (h = f /\ rows[f].kind = "full")
  PROVE  \A h \in Files : Moves(h)
<1> SUFFICES ASSUME NEW h \in Files PROVE Moves(h)
  OBVIOUS
<1>1. CASE rows'[h] = rows[h] /\ delta'[h] = delta[h]
  BY <1>1, StillMoves
<1>2. CASE h = f
  <2>1. \/ rows'[f] = rows[f]
        \/ rows'[f].status = s /\ rows'[f].kind = rows[f].kind /\ rows'[f].base = rows[f].base
    BY DEF WithStatus, Update, RestOK, Row
  <2> QED BY <1>2, <2>1 DEF RestOK, Row, TablesOK, TableOK, Stored, Moves, OnDisk, Settled, Pending
<1>3. h # f => rows'[h] = rows[h] /\ delta'[h] = delta[h]
  BY DEF WithStatus, Update, RestOK
<1> QED BY <1>1, <1>2, <1>3

------------------------------------------------------------------------------
\* The jobs

\* A step of a job of group g leaves the files of the other groups; their jobs go on,
\* or are given up while they wait.
StaysIn(a, g) ==
  /\ \A f \in Files : Group[f] # g =>
       rows'[f] = rows[f] /\ disk'[f] = disk[f] /\ delta'[f] = delta[f]
  /\ \A h \in Groups : h # g =>
       job'[a][h] = job[a][h] \/ (At(a, h, "queued") /\ job'[a][h].step = "none")

\* All a step of a job has to give.
StepOK(a, g) == (\A f \in Files : Moves(f)) /\ StaysIn(a, g) /\ Relies(a, g)'

LEMMA OthersRely ==
  ASSUME JobsOK, NEW a \in Actors, NEW g \in Groups, NEW h \in Groups, h # g,
         Relies(a, h), StaysIn(a, g), pc' = pc
  PROVE  Relies(a, h)'
<1> DEFINE j == job[a][h]
<1>1. CASE job'[a][h].step = "none"
  BY <1>1 DEF Relies
<1>2. CASE job'[a][h] = j /\ j.step # "none"
  <2>1. /\ j.todo \subseteq {f \in Files : Group[f] = h}
        /\ ~(j.single /\ j.step = "queued") => j.base \in Files /\ Group[j.base] = h
        /\ j.step \in {"remove", "mark"} => Target(a, h) \in j.todo
    BY <1>2, TargetIsIn DEF JobsOK, JobShape, ShapeOf, Relies
  <2>2. \A f \in Files : Group[f] = h =>
          rows'[f] = rows[f] /\ disk'[f] = disk[f] /\ delta'[f] = delta[f]
    BY DEF StaysIn
  <2>3. Target(a, h)' = Target(a, h)
    BY <1>2 DEF Target
  <2>4. /\ pc[a] = "groups"
        /\ \A f \in j.todo : Pending(f)
        /\ ~(j.single /\ j.step = "queued") => BaseReady(j)
        /\ j.step \in {"remove", "mark"} => delta[Target(a, h)] = Against(j.base, disk[j.base])
    BY <1>2 DEF Relies
  <2>5. \A f \in j.todo : Pending(f)'
    BY <2>1, <2>2, <2>4 DEF Pending
  <2>6. ~(j.single /\ j.step = "queued") => BaseReady(j)'
    <3> SUFFICES ASSUME ~(j.single /\ j.step = "queued")
                 PROVE  BaseReady(j)'
      OBVIOUS
    <3>1. rows'[j.base] = rows[j.base] /\ disk'[j.base] = disk[j.base]
      BY <2>1, <2>2
    <3> QED BY <1>2, <2>4, <3>1 DEF BaseReady, HasRow
  <2>7. j.step \in {"remove", "mark"} =>
          delta'[Target(a, h)'] = Against(j.base, disk'[j.base])
    <3> SUFFICES ASSUME j.step \in {"remove", "mark"}
                 PROVE  delta'[Target(a, h)] = Against(j.base, disk'[j.base])
      BY <2>3
    <3>1. j.base \in Files /\ Group[j.base] = h /\ Target(a, h) \in Files
          /\ Group[Target(a, h)] = h
      BY <2>1
    <3> QED BY <2>2, <2>4, <3>1
  <2> QED BY <1>2, <2>1, <2>4, <2>5, <2>6, <2>7 DEF Relies, Against
<1> QED BY <1>1, <1>2 DEF StaysIn, Relies

LEMMA EndsWell ==
  ASSUME JobsOK, NEW a \in Actors, NEW g \in Groups, EndJob(a, g)
  PROVE  /\ Relies(a, g)'
         /\ \A h \in Groups : h # g => job'[a][h] = job[a][h]
BY DEF EndJob, JobsOK, Relies, NoJob

LEMMA GoesOn ==
  ASSUME JobsOK, NEW a \in Actors, NEW g \in Groups, NEW s \in Steps, Goto(a, g, s)
  PROVE  /\ job'[a][g].step = s /\ Target(a, g)' = Target(a, g)
         /\ job'[a][g].todo = job[a][g].todo /\ job'[a][g].base = job[a][g].base
         /\ job'[a][g].single = job[a][g].single /\ job'[a][g].baseDone = job[a][g].baseDone
         /\ \A h \in Groups : h # g => job'[a][h] = job[a][h]
BY DEF Goto, JobsOK, Job, Target

LEMMA DropsOne ==
  ASSUME JobsOK, NEW a \in Actors, NEW g \in Groups, DropTarget(a, g)
  PROVE  /\ job'[a][g].step = "targets"
         /\ job'[a][g].todo = job[a][g].todo \ {Target(a, g)}
         /\ job'[a][g].base = job[a][g].base
         /\ \A h \in Groups : h # g => job'[a][h] = job[a][h]
BY DEF DropTarget, JobsOK, Job

\* What a job past its base has: a base that is one, and a target that is pending.
LEMMA TargetRelies ==
  ASSUME RestOK, JobsOK, TablesOK, NEW a \in Actors, NEW g \in Groups, Relies(a, g),
         job[a][g].step \in {"targets", "encode", "verify", "remove", "mark"},
         job[a][g].todo # {}
  PROVE  LET t == Target(a, g) b == Base(a, g) IN
         /\ t \in Files /\ Group[t] = g /\ Pending(t) /\ rows[t].kind = "full"
         /\ b \in Files /\ Group[b] = g /\ b # t /\ rows[b].kind = "base"
         /\ \A f \in job[a][g].todo : Pending(f)
         /\ b \notin job[a][g].todo /\ pc[a] = "groups"
BY TargetIsIn DEF JobsOK, JobShape, ShapeOf, Relies, BaseReady, Base, TablesOK, TableOK,
   Pending, Settled

\* A target that fails, or is put off, is marked and left.
LEMMA FailsWell ==
  ASSUME RestOK, JobsOK, TablesOK, NEW a \in Actors, NEW g \in Groups, Relies(a, g),
         job[a][g].step \in {"targets", "encode", "verify", "remove", "mark"},
         job[a][g].todo # {},
         FailTarget(a, g) \/ DeferTarget(a, g), disk' = disk, pc' = pc,
         \A f \in Files : delta'[f] = delta[f] \/ f = Target(a, g)
  PROVE  StepOK(a, g)
<1> DEFINE t == Target(a, g)
           b == Base(a, g)
<1>1. /\ t \in Files /\ Group[t] = g /\ Pending(t) /\ rows[t].kind = "full"
      /\ b \in Files /\ Group[b] = g /\ b # t /\ rows[b].kind = "base"
      /\ \A f \in job[a][g].todo : Pending(f)
      /\ b \notin job[a][g].todo /\ pc[a] = "groups"
  BY TargetRelies
<1>2. rows' = rows \/ rows' = WithStatus(t, "error") \/ rows' = WithStatus(t, "deferred")
  BY DEF FailTarget, DeferTarget
<1>3. \A f \in Files : Moves(f)
  <2>1. CASE rows' = rows
    <3> SUFFICES ASSUME NEW f \in Files PROVE Moves(f)
      OBVIOUS
    <3>1. CASE f # t
      BY <2>1, <3>1, StillMoves
    <3>2. CASE f = t
      BY <1>1, <2>1, <3>2 DEF RestOK, Row, TablesOK, TableOK, Stored, Moves, OnDisk, Settled, Pending
    <3> QED BY <3>1, <3>2
  <2>2. CASE rows' = WithStatus(t, "error") \/ rows' = WithStatus(t, "deferred")
    BY <1>1, <2>2, StatusMoves
  <2> QED BY <1>2, <2>1, <2>2
<1>4. \A f \in Files : f # t => rows'[f] = rows[f] /\ disk'[f] = disk[f] /\ delta'[f] = delta[f]
  BY <1>1, <1>2 DEF WithStatus, Update, RestOK
<1>5. /\ job'[a][g].step = "targets" /\ job'[a][g].base = b
      /\ job'[a][g].todo = job[a][g].todo \ {t}
      /\ \A h \in Groups : h # g => job'[a][h] = job[a][h]
  BY DropsOne DEF FailTarget, DeferTarget, Base
<1>6. StaysIn(a, g)
  BY <1>1, <1>4, <1>5 DEF StaysIn
<1>7. Relies(a, g)'
  <2>1. \A f \in job'[a][g].todo : Pending(f)'
    BY <1>1, <1>4, <1>5 DEF Pending, JobsOK, JobShape, ShapeOf
  <2>2. BaseReady(job[a][g])' /\ Group[job'[a][g].base] = g
    BY <1>1, <1>4, <1>5 DEF BaseReady
  <2> QED BY <1>1, <1>5, <2>1, <2>2 DEF Relies
<1> QED BY <1>3, <1>6, <1>7 DEF StepOK

\* A step that changes one file of the group, or none.
LEMMA OneFileMoves ==
  ASSUME RestOK, TablesOK, NEW a \in Actors, NEW g \in Groups, NEW x \in Files,
         Group[x] = g, Moves(x), Relies(a, g)',
         \A f \in Files : f # x => rows'[f] = rows[f] /\ disk'[f] = disk[f] /\ delta'[f] = delta[f],
         \A h \in Groups : h # g =>
           job'[a][h] = job[a][h] \/ (At(a, h, "queued") /\ job'[a][h].step = "none")
  PROVE  StepOK(a, g)
BY StillMoves DEF StepOK, StaysIn

LEMMA NoFileMoves ==
  ASSUME RestOK, TablesOK, NEW a \in Actors, NEW g \in Groups, Relies(a, g)',
         UNCHANGED <<rows, disk, delta>>,
         \A h \in Groups : h # g =>
           job'[a][h] = job[a][h] \/ (At(a, h, "queued") /\ job'[a][h].step = "none")
  PROVE  StepOK(a, g)
BY StillMoves DEF StepOK, StaysIn

\* What a job on its base has.
LEMMA BaseRelies ==
  ASSUME RestOK, JobsOK, NEW a \in Actors, NEW g \in Groups, Relies(a, g),
         job[a][g].step \notin {"none", "queued"}
  PROVE  LET b == Base(a, g) IN
         /\ b \in Files /\ Group[b] = g /\ b \notin job[a][g].todo
         /\ job[a][g].todo \subseteq Files
         /\ BaseReady(job[a][g]) /\ pc[a] = "groups"
         /\ \A f \in job[a][g].todo : Pending(f)
BY DEF JobsOK, JobShape, ShapeOf, Relies, BaseReady, Base

\* A status of the base is all that changes, and the job is over.
LEMMA BaseFails ==
  ASSUME RestOK, JobsOK, TablesOK, NEW a \in Actors, NEW g \in Groups, Relies(a, g),
         job[a][g].step \notin {"none", "queued"},
         rows' = WithStatus(Base(a, g), "error"), UNCHANGED <<disk, delta>>, EndJob(a, g)
  PROVE  StepOK(a, g)
<1>1. Base(a, g) \in Files /\ Group[Base(a, g)] = g
  BY BaseRelies
<1>2. \A f \in Files : Moves(f)
  BY <1>1, StatusMoves
<1>3. \A f \in Files : f # Base(a, g) => rows'[f] = rows[f]
  BY <1>1 DEF WithStatus, Update, RestOK
<1> QED BY <1>1, <1>2, <1>3, EndsWell DEF StepOK, StaysIn

LEMMA BaseStepOK ==
  ASSUME RestOK, JobsOK, TablesOK, NEW a \in Actors, NEW g \in Groups, Relies(a, g),
         \/ RejectBase(a, g) \/ AbandonGroup(a, g) \/ ReuseBase(a, g) \/ PreprocessBase(a, g)
         \/ MarkBase(a, g) \/ FinishGroup(a, g)
  PROVE  StepOK(a, g)
<1> USE DEF JobVars, At
<1> DEFINE b == Base(a, g)
<1> {"markBase", "targets", "compress"} \subseteq Steps
  BY DEF Steps
<1>0. /\ b \in Files /\ Group[b] = g /\ b \notin job[a][g].todo
      /\ job[a][g].todo \subseteq Files
      /\ BaseReady(job[a][g]) /\ pc[a] = "groups"
      /\ \A f \in job[a][g].todo : Pending(f)
      /\ job[a][g].step \notin {"none", "queued"}
      /\ job[a][g].base = b /\ job[a][g].baseDone \in BOOLEAN
  <2>1. job[a][g].step \notin {"none", "queued"}
    BY DEF RejectBase, AbandonGroup, ReuseBase, PreprocessBase, MarkBase, FinishGroup
  <2> QED BY <2>1, BaseRelies DEF JobsOK, Job, Base
<1> HIDE DEF b
<1>1. CASE RejectBase(a, g)
  BY <1>0, <1>1, BaseFails DEF RejectBase, b
<1>2. CASE AbandonGroup(a, g)
  BY <1>2, EndsWell, NoFileMoves DEF AbandonGroup
<1>3. CASE ReuseBase(a, g)
  <2>1. Relies(a, g)'
    BY <1>0, <1>3, GoesOn DEF ReuseBase, Relies, BaseReady, Pending
  <2> QED BY <1>3, <2>1, GoesOn, NoFileMoves DEF ReuseBase
<1>4. CASE PreprocessBase(a, g)
  <2>1. HasRow(b) /\ rows[b].kind = "full" /\ OnDisk(b)
    BY <1>0, <1>4 DEF PreprocessBase, BaseReady, b
  <2>2. CASE /\ disk' = [disk EXCEPT ![b] = "prep"] /\ Goto(a, g, "markBase")
             /\ UNCHANGED <<rows, delta, pc>>
    <3>1. Relies(a, g)'
      BY <1>0, <2>1, <2>2, GoesOn DEF Relies, BaseReady, Pending, HasRow, RestOK
    <3>2. Moves(b)
      BY <1>0, <2>1, <2>2
         DEF RestOK, Row, TablesOK, TableOK, Stored, Moves, OnDisk, Settled, Forms
    <3> QED BY <1>0, <2>2, <3>1, <3>2, GoesOn, OneFileMoves DEF RestOK
  <2>3. CASE rows' = WithStatus(b, "error") /\ EndJob(a, g) /\ UNCHANGED <<disk, delta>>
    BY <1>0, <2>3, BaseFails DEF b
  <2>4. CASE EndJob(a, g) /\ UNCHANGED <<rows, disk, delta>>
    BY <2>4, EndsWell, NoFileMoves
  <2> QED BY <1>4, <2>2, <2>3, <2>4 DEF PreprocessBase, b
<1>5. CASE MarkBase(a, g)
  <2>1. HasRow(b) /\ rows[b].kind = "full" /\ disk[b] = "prep"
    BY <1>0, <1>5 DEF MarkBase, BaseReady
  <2>2. /\ rows'[b] = [status |-> "done", kind |-> "base", base |-> NoFile]
        /\ \A f \in Files : f # b => rows'[f] = rows[f]
        /\ Goto(a, g, "targets") /\ UNCHANGED <<disk, delta, pc>>
    BY <1>0, <1>5, <2>1 DEF MarkBase, Done, Update, RestOK, b
  <2>3. Relies(a, g)'
    BY <1>0, <2>1, <2>2, GoesOn DEF Relies, BaseReady, Pending, HasRow, RestOK
  <2>4. Moves(b)
    BY <1>0, <2>1, <2>2 DEF Moves, OnDisk, Settled
  <2> QED BY <1>0, <2>2, <2>3, <2>4, GoesOn, OneFileMoves
<1>6. CASE FinishGroup(a, g)
  <2>1. rows[b].kind = "base" /\ delta' = delta
    BY <1>0, <1>6 DEF FinishGroup, BaseReady
  <2>2. CASE EndJob(a, g) /\ UNCHANGED <<rows, disk>>
    BY <2>1, <2>2, EndsWell, NoFileMoves
  <2>3. CASE EndJob(a, g) /\ disk' = [disk EXCEPT ![b] = "zstd"] /\ OnDisk(b) /\ rows' = rows
    <3>1. Moves(b)
      BY <1>0, <2>1, <2>3
         DEF RestOK, Row, TablesOK, TableOK, Stored, Moves, OnDisk, Settled, Forms
    <3> QED BY <1>0, <2>1, <2>3, <3>1, EndsWell, OneFileMoves DEF RestOK
  <2>4. CASE EndJob(a, g) /\ rows' = WithStatus(b, "error") /\ disk' = disk
    BY <1>0, <2>1, <2>4, BaseFails DEF b
  <2>5. CASE /\ job' = [job EXCEPT ![a] =
                  [h \in Groups |-> IF h = g \/ At(a, h, "queued") THEN NoJob ELSE job[a][h]]]
             /\ UNCHANGED <<rows, disk>>
    <3>1. /\ job'[a][g].step = "none"
          /\ \A h \in Groups : h # g =>
               job'[a][h] = job[a][h] \/ (At(a, h, "queued") /\ job'[a][h].step = "none")
      BY <2>5 DEF JobsOK, NoJob
    <3>2. Relies(a, g)'
      BY <3>1 DEF Relies
    <3> QED BY <2>1, <2>5, <3>1, <3>2, NoFileMoves
  <2> QED BY <1>6, <2>2, <2>3, <2>4, <2>5 DEF FinishGroup, b
<1> QED BY <1>1, <1>2, <1>3, <1>4, <1>5, <1>6

LEMMA TargetStepOK ==
  ASSUME RestOK, JobsOK, TablesOK, NEW a \in Actors, NEW g \in Groups, Relies(a, g),
         \/ EndTargets(a, g) \/ PrepareTarget(a, g) \/ Encode(a, g) \/ EncodeWrong(a, g)
         \/ Verify(a, g) \/ TargetInterrupted(a, g) \/ RemoveOriginal(a, g) \/ MarkDelta(a, g)
  PROVE  StepOK(a, g)
<1> USE DEF JobVars, At
<1> DEFINE t == Target(a, g)
           b == Base(a, g)
<1> {"encode", "verify", "remove", "mark", "compress"} \subseteq Steps
  BY DEF Steps
<1>0. /\ job[a][g].step \in {"targets", "encode", "verify", "remove", "mark"} /\ pc' = pc
      /\ ~EndTargets(a, g) => job[a][g].todo # {}
      /\ b \in Files /\ b \notin job[a][g].todo
      /\ job[a][g].todo \subseteq Files /\ rows[b].kind = "base" /\ pc[a] = "groups"
      /\ \A f \in job[a][g].todo : Pending(f)
      /\ job[a][g].base = b /\ Group[b] = g
  <2>1. /\ job[a][g].step \in {"targets", "encode", "verify", "remove", "mark"} /\ pc' = pc
        /\ ~EndTargets(a, g) => job[a][g].todo # {}
    BY DEF EndTargets, PrepareTarget, HasTarget, Encode, EncodeWrong, Verify,
         TargetInterrupted, RemoveOriginal, MarkDelta, JobsOK, JobShape, ShapeOf
  <2> QED BY <2>1, BaseRelies DEF BaseReady, Base
<1>a. ~EndTargets(a, g) => t \in Files /\ Group[t] = g /\ Pending(t) /\ b # t
                           /\ rows[t].kind = "full"
  BY <1>0, TargetRelies
<1> HIDE DEF t, b
\* The job goes on with its target, and only the disk or the patch of that one changes.
<1>b. ASSUME NEW s \in Steps \ {"none", "queued", "base", "markBase"}, Goto(a, g, s), rows' = rows,
             disk'[b] = disk[b],
             s \in {"remove", "mark"} => delta'[t] = Against(b, disk[b])
      PROVE  Relies(a, g)'
  <2>1. /\ job'[a][g].step = s /\ Target(a, g)' = t
        /\ job'[a][g].todo = job[a][g].todo /\ job'[a][g].base = b
    BY <1>0, <1>b, GoesOn DEF t
  <2> QED BY <1>0, <1>b, <2>1 DEF Relies, BaseReady, Pending
<1>c. ASSUME FailTarget(a, g) \/ DeferTarget(a, g), disk' = disk, ~EndTargets(a, g),
             \A f \in Files : delta'[f] = delta[f] \/ f = t
      PROVE  StepOK(a, g)
  BY <1>0, <1>c, FailsWell DEF t
<1>1. CASE EndTargets(a, g)
  <2>1. Relies(a, g)'
    BY <1>0, <1>1, <1>b, EndsWell DEF EndTargets
  <2> QED BY <1>1, <2>1, EndsWell, GoesOn, NoFileMoves DEF EndTargets
<1> SUFFICES ASSUME ~EndTargets(a, g) PROVE StepOK(a, g)
  BY <1>1
<1>2. CASE PrepareTarget(a, g)
  <2>1. CASE FailTarget(a, g)
    BY <1>2, <2>1, <1>c DEF PrepareTarget
  <2>2. CASE rows' = rows /\ Goto(a, g, "encode")
    <3>1. Relies(a, g)'
      BY <1>2, <2>2, <1>b DEF PrepareTarget
    <3> QED BY <1>2, <2>2, <3>1, GoesOn, NoFileMoves DEF PrepareTarget
  <2> QED BY <1>2, <2>1, <2>2 DEF PrepareTarget
<1>3. CASE Encode(a, g) \/ EncodeWrong(a, g)
  <2>1. CASE FailTarget(a, g) /\ delta' = delta /\ disk' = disk
    BY <2>1, <1>c
  <2>2. CASE /\ \E p : delta' = [delta EXCEPT ![t] = p]
             /\ Goto(a, g, "verify") /\ UNCHANGED <<rows, disk>>
    <3>1. Relies(a, g)'
      BY <2>2, <1>b
    <3>2. \A f \in Files : f # t => delta'[f] = delta[f]
      BY <2>2 DEF RestOK
    <3>3. Moves(t)
      BY <1>a, <2>2 DEF RestOK, Row, TablesOK, TableOK, Stored, Moves, OnDisk, Settled, Pending
    <3> QED BY <1>a, <2>2, <3>1, <3>2, <3>3, GoesOn, OneFileMoves
  <2> QED BY <1>3, <2>1, <2>2 DEF Encode, EncodeWrong, t
<1>4. CASE Verify(a, g)
  <2>1. CASE FailTarget(a, g) /\ delta' \in {delta, [delta EXCEPT ![t] = NoDelta]}
    <3>1. \A f \in Files : delta'[f] = delta[f] \/ f = t
      BY <2>1 DEF RestOK
    <3> QED BY <1>4, <2>1, <3>1, <1>c DEF Verify
  <2>2. CASE delta[t] = Against(b, disk[b]) /\ UNCHANGED <<rows, delta>> /\ Goto(a, g, "remove")
    <3>1. Relies(a, g)'
      BY <1>4, <2>2, <1>b DEF Verify
    <3> QED BY <1>4, <2>2, <3>1, GoesOn, NoFileMoves DEF Verify
  <2> QED BY <1>4, <2>1, <2>2 DEF Verify, t, b
<1>5. CASE TargetInterrupted(a, g)
  <2>1. \A f \in Files : delta'[f] = delta[f] \/ f = t
    BY <1>5 DEF TargetInterrupted, RestOK, t
  <2> QED BY <1>5, <2>1, <1>c DEF TargetInterrupted
<1>6. CASE RemoveOriginal(a, g)
  <2>1. CASE FailTarget(a, g) /\ disk' = disk
    BY <1>6, <2>1, <1>c DEF RemoveOriginal
  <2>2. CASE disk' = [disk EXCEPT ![t] = "none"] /\ rows' = rows /\ Goto(a, g, "mark")
    <3>1. delta' = delta /\ delta[t] = Against(b, disk[b])
      BY <1>0, <1>6 DEF RemoveOriginal, Relies, t
    <3>2. \A f \in Files : f # t => disk'[f] = disk[f]
      BY <2>2 DEF RestOK
    <3>3. Relies(a, g)'
      BY <1>0, <1>a, <2>2, <3>1, <3>2, <1>b
    <3>4. Moves(t)
      BY <1>a, <2>2, <3>1 DEF RestOK, Row, TablesOK, TableOK, Stored, Moves, OnDisk, Settled, Pending
    <3> QED BY <1>a, <2>2, <3>1, <3>2, <3>3, <3>4, GoesOn, OneFileMoves
  <2> QED BY <1>6, <2>1, <2>2 DEF RemoveOriginal, t
<1>7. CASE MarkDelta(a, g)
  <2>1. delta[t] = Against(b, disk[b]) /\ delta[t] # NoDelta /\ UNCHANGED <<disk, delta>>
    BY <1>0, <1>7 DEF MarkDelta, Relies, t, Against, NoDelta
  <2>2. /\ rows'[t] = [status |-> "done", kind |-> "delta", base |-> b]
        /\ \A f \in Files : f # t => rows'[f] = rows[f]
        /\ DropTarget(a, g)
    BY <1>a, <1>7, <2>1 DEF MarkDelta, Done, Update, RestOK, HasRow, Pending, t, b
  <2>3. Relies(a, g)'
    <3>1. /\ job'[a][g].step = "targets" /\ job'[a][g].base = b
          /\ job'[a][g].todo = job[a][g].todo \ {t}
      BY <1>0, <2>2, DropsOne DEF t
    <3> QED BY <1>0, <1>a, <2>2, <3>1 DEF Relies, BaseReady, Pending
  <2>4. Moves(t)
    BY <1>0, <1>a, <2>1, <2>2 DEF Moves, OnDisk, Settled, Pending
  <2> QED BY <1>a, <2>1, <2>2, <2>3, <2>4, DropsOne, OneFileMoves
<1> QED BY <1>2, <1>3, <1>4, <1>5, <1>6, <1>7

LEMMA StartStepOK ==
  ASSUME RestOK, JobsOK, TablesOK, NEW a \in Actors, NEW g \in Groups, Relies(a, g),
         StartGroup(a, g) \/ StartSingleton(a, g) \/ CancelJob(a, g)
  PROVE  StepOK(a, g)
<1> USE DEF JobVars, At
<1>1. CASE StartGroup(a, g)
  <2>1. UNCHANGED <<rows, disk, delta, pc>> /\ Goto(a, g, "base") /\ "base" \in Steps
        /\ job[a][g].step = "queued" /\ ~job[a][g].single
    BY <1>1 DEF StartGroup, MayStart, Steps
  <2>2. BaseReady(job[a][g]) /\ Group[job[a][g].base] = g /\ pc[a] = "groups"
        /\ \A f \in job[a][g].todo : Pending(f)
    BY <2>1 DEF Relies
  <2>3. Relies(a, g)'
    BY <2>1, <2>2, GoesOn DEF Relies, BaseReady, Pending, HasRow
  <2> QED BY <2>1, <2>3, GoesOn, NoFileMoves
<1>2. CASE CancelJob(a, g)
  BY <1>2, EndsWell, NoFileMoves DEF CancelJob
<1>3. CASE StartSingleton(a, g)
  <2> DEFINE f == Earliest(job[a][g].todo)
  <2>1. /\ f \in Files /\ Group[f] = g /\ Pending(f) /\ pc[a] = "groups"
        /\ \A h \in job[a][g].todo : Pending(h)
        /\ UNCHANGED <<disk, delta, pc>>
    <3>1. /\ job[a][g].todo \subseteq {h \in Files : Group[h] = g} /\ job[a][g].todo # {}
          /\ job[a][g].step = "queued"
      BY <1>3 DEF StartSingleton, MayStart, JobsOK, JobShape, ShapeOf
    <3>2. f \in job[a][g].todo
      BY <3>1, EarliestIsIn
    <3> QED BY <1>3, <3>1, <3>2 DEF StartSingleton, Relies
  <2>2. CASE GroupBases(f) # {}
    <3> DEFINE b == Latest(GroupBases(f))
    <3>1. b \in Files /\ rows[b].status = "done" /\ rows[b].kind = "base" /\ Group[b] = g
      BY <2>1, <2>2, LatestIsIn DEF GroupBases
    <3>2. /\ job' = [job EXCEPT ![a][g].step = "targets", ![a][g].base = b]
          /\ rows' = rows
      BY <1>3, <2>2 DEF StartSingleton
    <3> HIDE DEF b
    <3>3. /\ job'[a][g].step = "targets" /\ job'[a][g].base = b
          /\ job'[a][g].todo = job[a][g].todo
          /\ \A h \in Groups : h # g => job'[a][h] = job[a][h]
      BY <3>2 DEF JobsOK, Job
    <3>4. Relies(a, g)'
      BY <2>1, <3>1, <3>2, <3>3 DEF Relies, BaseReady, Pending
    <3> QED BY <2>1, <3>2, <3>3, <3>4, NoFileMoves
  <2>3. CASE GroupBases(f) = {} /\ OnDisk(f)
    <3>1. /\ rows'[f] = [status |-> "done", kind |-> "full", base |-> NoFile]
          /\ \A h \in Files : h # f => rows'[h] = rows[h]
          /\ EndJob(a, g)
      BY <1>3, <2>1, <2>3 DEF StartSingleton, Done, Update, RestOK, HasRow, Pending
    <3>2. rows[f].kind = "full"
      BY <2>1 DEF TablesOK, TableOK, Settled, Pending
    <3>3. Moves(f)
      BY <2>1, <2>3, <3>1, <3>2 DEF Moves, OnDisk, Settled, Pending
    <3> QED BY <2>1, <3>1, <3>3, EndsWell, OneFileMoves
  <2>4. CASE GroupBases(f) = {} /\ ~OnDisk(f)
    <3>1. rows' = WithStatus(f, "error") /\ EndJob(a, g)
      BY <1>3, <2>4 DEF StartSingleton
    <3>2. \A h \in Files : Moves(h)
      BY <2>1, <3>1, StatusMoves
    <3>3. \A h \in Files : h # f => rows'[h] = rows[h]
      BY <2>1, <3>1 DEF WithStatus, Update, RestOK
    <3> QED BY <2>1, <3>1, <3>2, <3>3, EndsWell DEF StepOK, StaysIn
  <2> QED BY <2>2, <2>3, <2>4
<1> QED BY <1>1, <1>2, <1>3

LEMMA GroupJobOK ==
  ASSUME RestOK, JobsOK, TablesOK, NEW a \in Actors, NEW g \in Groups, Relies(a, g),
         GroupJob(a, g)
  PROVE  StepOK(a, g) /\ durable' = durable /\ delivered' = delivered /\ pc' = pc
<1>1. StepOK(a, g)
  BY StartStepOK, BaseStepOK, TargetStepOK DEF GroupJob
<1>2. durable' = durable /\ delivered' = delivered /\ pc' = pc
  BY DEF GroupJob, JobVars, StartGroup, StartSingleton, CancelJob, RejectBase,
       AbandonGroup, ReuseBase, PreprocessBase, MarkBase, EndTargets, PrepareTarget,
       Encode, EncodeWrong, Verify, TargetInterrupted, RemoveOriginal, MarkDelta, FinishGroup
<1> QED BY <1>1, <1>2

------------------------------------------------------------------------------
\* A list of groups, and the steps around the jobs

LEMMA LeadIsIn ==
  ASSUME NEW S \in SUBSET Files, S # {}
  PROVE  Lead(S) \in S
<1> DEFINE Before(g, f) == \/ Project[g] < Project[f]
                           \/ Project[g] = Project[f] /\ Order[g] <= Order[f]
           seg == [f \in S |-> {g \in S : Before(g, f)}]
<1>1. seg \in [S -> SUBSET S]
  OBVIOUS
<1> HIDE DEF seg
<1>2. PICK f \in S : \A g \in S : seg[g] \subseteq seg[f] => seg[g] = seg[f]
  BY <1>1, SmallestSegment
<1>3. ASSUME NEW g \in S
      PROVE  Before(f, g)
  <2> SUFFICES ASSUME ~Before(f, g) PROVE FALSE
    OBVIOUS
  <2>1. \A h \in S : Before(h, g) => Before(h, f)
    BY FilesAssumption
  <2>2. seg[g] \subseteq seg[f]
    BY <2>1 DEF seg
  <2>3. f \in seg[f] /\ f \notin seg[g]
    BY FilesAssumption DEF seg
  <2> QED BY <1>2, <2>2, <2>3
<1> QED BY <1>3 DEF Lead

LEMMA ListedRelies ==
  ASSUME TypeOK, TablesOK, NEW a \in Actors, NEW g \in Groups, Members(a, g) # {}
  PROVE  LET j == JobFor(Members(a, g)) IN
         /\ j.step = "queued"
         /\ \A f \in j.todo : Pending(f)
         /\ ~j.single => /\ j.base \notin j.todo /\ HasRow(j.base) /\ Group[j.base] = g
                         /\ rows[j.base].kind = IF j.baseDone THEN "base" ELSE "full"
<1> DEFINE S == Members(a, g)
           e == Earliest(Expanded(S))
<1>1. S \in SUBSET Files /\ S # {} /\ \A f \in S : Group[f] = g /\ Pending(f)
  BY ConfigAssumption DEF Members
<1>2. Lead(S) \in S /\ Anchors(S) \in SUBSET Files
  BY <1>1, LeadIsIn DEF Anchors
<1> HIDE DEF S
<1>3. e \in S \/ e \in Anchors(S)
  <2>1. Expanded(S) \in SUBSET Files /\ Expanded(S) # {}
    BY <1>1, <1>2, EarliestIsIn DEF Expanded
  <2>2. e \in Expanded(S)
    BY <2>1, EarliestIsIn
  <2> QED BY <1>2, <2>2, EarliestIsIn DEF Expanded
<1>4. /\ e \in Files /\ e \notin Targets(S) /\ HasRow(e) /\ Group[e] = g
      /\ rows[e].kind = IF StartsWithBase(S) THEN "base" ELSE "full"
  <2>1. CASE e \in S
    <3>1. rows[e].kind = "full"
      BY <1>1, <2>1 DEF TablesOK, TableOK, Pending, Settled
    <3> QED BY <1>1, <2>1, <3>1 DEF Targets, HasRow, Pending, StartsWithBase
  <2>2. CASE e \notin S
    <3>1. e \in Anchors(S)
      BY <1>3, <2>2
    <3> QED BY <1>1, <1>2, <2>2, <3>1 DEF Anchors, Targets, HasRow, StartsWithBase
  <2> QED BY <2>1, <2>2
<1>5. CASE Expanded(S) = {Earliest(S)}
  BY <1>1, <1>5 DEF JobFor, NoJob, S
<1>6. CASE Expanded(S) # {Earliest(S)}
  <2>1. JobFor(S) = [step |-> "queued", todo |-> Targets(S), base |-> e,
                     baseDone |-> StartsWithBase(S), single |-> FALSE]
    BY <1>6 DEF JobFor, NoJob
  <2>2. StartsWithBase(S) \in BOOLEAN /\ Targets(S) \subseteq S
    BY DEF StartsWithBase, Targets
  <2> QED BY <1>1, <1>4, <2>1, <2>2 DEF S
<1> QED BY <1>5, <1>6

\* While an ingest takes a step of its own, the others rest.
LEMMA OthersRest ==
  ASSUME RestOK, JobsInside, OneAtATime, OneAtATime', NEW a \in Actors, Ingest(a),
         NEW b \in Actors \ {a}
  PROVE  \A g \in Groups : job[b][g].step = "none"
<1>1. CASE StartIngest(a)
  <2>1. pc'[a] = "count" /\ pc'[b] = pc[b]
    BY <1>1 DEF StartIngest, Enter, RestOK
  <2>2. pc[b] = "idle"
    BY <2>1 DEF OneAtATime
  <2> QED BY <2>2 DEF JobsInside
<1>2. CASE ~StartIngest(a)
  <2>1. pc[a] # "idle"
    BY <1>2 DEF Ingest, SkipIngest, Discover, DiscoverFails, ListPending, ToolsMissing,
         EndIngest, Enter
  <2>2. pc[b] = "idle"
    BY <2>1 DEF OneAtATime
  <2> QED BY <2>2 DEF JobsInside
<1> QED BY <1>1, <1>2

\* And while one of its jobs does.
LEMMA OthersWait ==
  ASSUME JobsOK, JobsInside, OneAtATime, NEW a \in Actors, NEW g \in Groups, GroupJob(a, g),
         NEW b \in Actors \ {a}
  PROVE  job'[b] = job[b] /\ \A h \in Groups : job[b][h].step = "none"
<1> USE DEF At, Goto, EndJob, DropTarget, FailTarget, DeferTarget, JobsOK
<1>1. job[a][g].step # "none"
  BY DEF GroupJob, StartGroup, StartSingleton, MayStart, CancelJob, RejectBase, AbandonGroup,
     ReuseBase, PreprocessBase, MarkBase, EndTargets, PrepareTarget, HasTarget, Encode,
     EncodeWrong, Verify, TargetInterrupted, RemoveOriginal, MarkDelta, FinishGroup
<1>2. pc[a] = "groups"
  BY <1>1 DEF JobsInside
<1>3. pc[b] = "idle"
  BY <1>2 DEF OneAtATime
<1>4. job'[b] = job[b]
  <2>1. CASE StartGroup(a, g) \/ StartSingleton(a, g) \/ CancelJob(a, g)
    BY <2>1 DEF StartGroup, StartSingleton, CancelJob
  <2>2. CASE RejectBase(a, g) \/ AbandonGroup(a, g) \/ ReuseBase(a, g) \/ PreprocessBase(a, g)
    BY <2>2 DEF RejectBase, AbandonGroup, ReuseBase, PreprocessBase
  <2>3. CASE MarkBase(a, g) \/ EndTargets(a, g) \/ FinishGroup(a, g)
    BY <2>3 DEF MarkBase, EndTargets, FinishGroup
  <2>4. CASE PrepareTarget(a, g) \/ Encode(a, g) \/ EncodeWrong(a, g) \/ Verify(a, g)
    BY <2>4 DEF PrepareTarget, Encode, EncodeWrong, Verify
  <2>5. CASE TargetInterrupted(a, g) \/ RemoveOriginal(a, g) \/ MarkDelta(a, g)
    BY <2>5 DEF TargetInterrupted, RemoveOriginal, MarkDelta
  <2> QED BY <2>1, <2>2, <2>3, <2>4, <2>5 DEF GroupJob
<1> QED BY <1>3, <1>4 DEF JobsInside

LEMMA IngestOK ==
  ASSUME OneAtATime, OneAtATime', RestOK, JobsOK, TablesOK, JobsRely, NEW a \in Actors, Ingest(a)
  PROVE  (\A f \in Files : Moves(f)) /\ JobsRely' /\ durable' = durable /\ delivered' = delivered
<1> USE DEF IngestVars, Enter
<1>0. JobsInside
  BY DEF JobsInside, JobsRely, Relies
<1>1. durable' = durable /\ delivered' = delivered /\ disk' = disk /\ delta' = delta
  BY DEF Ingest, StartIngest, SkipIngest, Discover, DiscoverFails, ListPending, ToolsMissing,
     EndIngest
<1>2. \A f \in Files : Moves(f)
  <2> SUFFICES ASSUME NEW f \in Files, rows'[f] # rows[f] PROVE Moves(f)
    BY <1>1, StillMoves
  <2>1. \/ rows[f].status = "deferred" /\ rows'[f] = [rows[f] EXCEPT !.status = "pending"]
        \/ rows[f].status = "absent" /\ rows'[f] = Fresh
    BY DEF Ingest, StartIngest, SkipIngest, Discover, DiscoverFails, ListPending, ToolsMissing,
       EndIngest, Register, Unregistered, HasRow
  <2>2. /\ rows[f].kind = "full" /\ rows[f].base = NoFile /\ ~Settled(rows[f])
        /\ rows'[f].status = "pending" /\ rows'[f].kind = "full" /\ rows'[f].base = NoFile
    BY <2>1 DEF RestOK, Row, TablesOK, TableOK, Settled, Fresh, Absent
  <2> QED BY <1>1, <2>2 DEF Moves, OnDisk, Settled
<1>3. JobsRely'
  <2>1. CASE ListPending(a)
    <3> SUFFICES ASSUME NEW b \in Actors, NEW g \in Groups PROVE Relies(b, g)'
      BY DEF JobsRely
    <3> DEFINE j == IF Members(a, g) = {} THEN NoJob ELSE JobFor(Members(a, g))
    <3>a. CASE b # a
      <4>1. job[b][g].step = "none"
        BY <1>0, <3>a, OthersRest
      <4>2. job'[b] = job[b]
        BY <2>1, <3>a DEF ListPending, JobsOK
      <4> QED BY <4>1, <4>2 DEF Relies
    <3> SUFFICES ASSUME b = a PROVE Relies(b, g)'
      BY <3>a
    <3>1. b = a /\ job'[a][g] = j /\ pc'[a] = "groups" /\ rows' = rows
      BY <2>1 DEF ListPending, JobsOK, RestOK
    <3>2. CASE Members(a, g) = {}
      BY <3>1, <3>2 DEF Relies, NoJob
    <3>3. CASE Members(a, g) # {}
      <4>1. TypeOK
        BY Parts
      <4> HIDE DEF j
      <4>2. /\ j.step = "queued" /\ \A f \in j.todo : Pending(f)
            /\ ~j.single => /\ j.base \notin j.todo /\ HasRow(j.base) /\ Group[j.base] = g
                            /\ rows[j.base].kind = IF j.baseDone THEN "base" ELSE "full"
        BY <3>3, <4>1, ListedRelies DEF j
      <4> QED BY <3>1, <4>2 DEF Relies, BaseReady, Pending, HasRow
    <3> QED BY <3>2, <3>3
  <2>2. CASE ~ListPending(a)
    <3>1. ASSUME NEW b \in Actors, NEW g \in Groups
          PROVE  job[b][g].step = "none"
      <4>1. CASE b = a
        BY <2>2, <4>1 DEF JobsRely, Relies, Ingest, StartIngest, SkipIngest, Discover,
           DiscoverFails, ToolsMissing, EndIngest
      <4> QED BY <1>0, <4>1, OthersRest
    <3>2. job' = job
      BY <2>2 DEF Ingest, StartIngest, SkipIngest, Discover, DiscoverFails, ToolsMissing, EndIngest
    <3> QED BY <3>1, <3>2 DEF JobsRely, Relies
  <2> QED BY <2>1, <2>2
<1> QED BY <1>1, <1>2, <1>3

LEMMA DeliverOK ==
  ASSUME RestOK, JobsOK, TablesOK, JobsRely, NEW f \in Files, Deliver(f)
  PROVE  TablesOK' /\ JobsRely'
<1>1. /\ disk[f] = "none" /\ disk' = [disk EXCEPT ![f] = "raw"]
      /\ delivered' = delivered \cup {f} /\ UNCHANGED <<delta, rows, durable, pc, job>>
  BY DEF Deliver, TablesOK, Stored, OnDisk
<1>2. rows[f].kind # "base" /\ \A h \in Files : h # f => disk'[h] = disk[h]
  BY <1>1 DEF TablesOK, Stored, RestOK
<1>3. TableOK(rows)' /\ TableOK(durable)'
  BY <1>1, <1>2 DEF TablesOK, TableOK, OnDisk, RestOK
<1>4. Stored'
  <2> SUFFICES ASSUME NEW h \in Files
               PROVE  /\ disk'[h] # "none" => h \in delivered'
                      /\ rows[h].kind = "base" => disk'[h] \in {"prep", "zstd"}
                      /\ rows[h].kind = "delta" => Decodes(delta[h], rows[h].base)'
    BY <1>1 DEF Stored, OnDisk
  <2>1. rows[h].kind = "delta" => Decodes(delta[h], rows[h].base)'
    <3> SUFFICES ASSUME rows[h].kind = "delta" PROVE Decodes(delta[h], rows[h].base)'
      OBVIOUS
    <3>1. rows[h].base \in Files /\ rows[h].base # f
      BY <1>2 DEF TablesOK, TableOK
    <3> QED BY <1>1, <1>2, <3>1 DEF TablesOK, Stored, Decodes
  <2> QED BY <1>1, <1>2, <2>1 DEF TablesOK, Stored, OnDisk
<1>5. Ahead'
  BY <1>1 DEF TablesOK, Ahead
<1>6. JobsRely'
  <2> SUFFICES ASSUME NEW a \in Actors, NEW g \in Groups, job[a][g].step # "none"
               PROVE  Relies(a, g)'
    BY <1>1 DEF JobsRely, Relies
  <2> DEFINE b == job[a][g].base
  <2>1. Relies(a, g)
    BY DEF JobsRely
  <2>2. ~(job[a][g].single /\ job[a][g].step = "queued") => BaseReady(job[a][g])'
    BY <1>1, <1>2, <2>1 DEF Relies, BaseReady, HasRow
  <2>3. job[a][g].step \in {"remove", "mark"} => b \in Files /\ disk'[b] = disk[b]
    BY <1>2, <2>1 DEF Relies, BaseReady, JobsOK, JobShape, ShapeOf
  <2> QED BY <1>1, <2>1, <2>2, <2>3 DEF Relies, Pending, Target
<1> QED BY <1>3, <1>4, <1>5, <1>6 DEF TablesOK

LEMMA RestartOK ==
  ASSUME TablesOK, Restart
  PROVE  TablesOK' /\ JobsRely'
<1>1. rows' = durable /\ UNCHANGED <<delivered, disk, delta, durable>>
  BY DEF Restart
<1>2. TableOK(rows)' /\ TableOK(durable)' /\ Ahead'
  BY <1>1 DEF TablesOK, TableOK, Ahead, OnDisk
<1>3. Stored'
  BY <1>1 DEF TablesOK, Ahead, Stored, Decodes, OnDisk
<1>4. JobsRely'
  BY DEF Restart, JobsRely, Relies, NoJob
<1> QED BY <1>2, <1>3, <1>4 DEF TablesOK

LEMMA CommitOK ==
  ASSUME TablesOK, JobsRely, IndexerCommits
  PROVE  TablesOK' /\ JobsRely'
<1> durable' = rows /\ UNCHANGED <<delivered, disk, delta, rows, pc, job>>
  BY DEF IndexerCommits, ProcessVars
<1>1. TableOK(rows)' /\ TableOK(durable)' /\ Ahead'
  BY DEF TablesOK, TableOK, Ahead, OnDisk
<1>2. Stored'
  BY DEF TablesOK, Stored, Decodes, OnDisk
<1>3. JobsRely'
  BY DEF JobsRely, Relies, BaseReady, HasRow, Pending, Target
<1> QED BY <1>1, <1>2, <1>3 DEF TablesOK

\* A rollback between two ingests puts the table back to the last commit, as a restart does.
LEMMA RollbackOK ==
  ASSUME TablesOK, JobsRely, IndexerRollsBack, Quiet
  PROVE  TablesOK' /\ JobsRely'
<1>1. rows' = durable /\ UNCHANGED <<delivered, disk, delta, durable, pc, job>>
  BY DEF IndexerRollsBack, ProcessVars
<1>2. TableOK(rows)' /\ TableOK(durable)' /\ Ahead'
  BY <1>1 DEF TablesOK, TableOK, Ahead, OnDisk
<1>3. Stored'
  BY <1>1 DEF TablesOK, Ahead, Stored, Decodes, OnDisk
<1>4. JobsRely'
  BY <1>1 DEF Quiet, JobsRely, Relies
<1> QED BY <1>2, <1>3, <1>4 DEF TablesOK

LEMMA ServeInit == Init => ServeInv
<1> SUFFICES ASSUME Init PROVE ServeInv
  OBVIOUS
<1>1. TypeOK /\ JobShape
  BY ShapeInit
<1>2. TablesOK
  BY DEF Init, TablesOK, TableOK, Stored, Ahead, Absent, Settled, OnDisk
<1>3. JobsRely
  BY DEF Init, JobsRely, Relies, NoJob
<1> QED BY <1>1, <1>2, <1>3 DEF ServeInv

LEMMA ServeStep ==
  ASSUME OneAtATime, OneAtATime', ServeInv, [Next]_vars, [QuietRollback]_vars
  PROVE  ServeInv'
<1>0. RestOK /\ JobsOK /\ TablesOK /\ JobsRely /\ JobsInside
  BY Parts DEF ServeInv, JobsInside, JobsRely, Relies
<1>1. TypeOK' /\ JobShape'
  BY ShapeStep DEF ServeInv
<1>2. TablesOK' /\ JobsRely'
  <2>1. CASE UNCHANGED vars
    BY <1>0, <2>1 DEF vars, TablesOK, TableOK, Stored, Decodes, Ahead, OnDisk, JobsRely, Relies,
       BaseReady, HasRow, Pending, Target
  <2>2. ASSUME NEW a \in Actors, Ingest(a)
        PROVE  TablesOK' /\ JobsRely'
    BY <1>0, <1>1, <2>2, IngestOK, TablesMove DEF TypeOK
  <2>3. ASSUME NEW a \in Actors, NEW g \in Groups, GroupJob(a, g)
        PROVE  TablesOK' /\ JobsRely'
    <3>1. StepOK(a, g) /\ durable' = durable /\ delivered' = delivered /\ pc' = pc
      BY <1>0, <2>3, GroupJobOK DEF JobsRely
    <3>2. TablesOK'
      BY <1>0, <1>1, <3>1, TablesMove DEF StepOK, TypeOK
    <3>3. ASSUME NEW b \in Actors, NEW h \in Groups
          PROVE  Relies(b, h)'
      <4>1. CASE b # a
        <5>1. job'[b] = job[b] /\ job[b][h].step = "none"
          BY <1>0, <2>3, <4>1, OthersWait
        <5> QED BY <5>1 DEF Relies
      <4>2. CASE b = a
        BY <1>0, <3>1, <4>2, OthersRely DEF StepOK, JobsRely
      <4> QED BY <4>1, <4>2
    <3> QED BY <3>2, <3>3 DEF JobsRely
  <2>4. CASE \E f \in Files : Deliver(f)
    BY <1>0, <2>4, DeliverOK
  <2>5. CASE IndexerCommits
    BY <1>0, <2>5, CommitOK
  <2>6. CASE IndexerRollsBack
    BY <1>0, <2>1, <2>6, RollbackOK DEF QuietRollback
  <2>7. CASE RequestStop
    BY <1>0, <2>7 DEF RequestStop, TablesOK, TableOK, Stored, Decodes, Ahead, OnDisk, JobsRely,
       Relies, BaseReady, HasRow, Pending, Target
  <2>8. CASE Restart
    BY <1>0, <2>8, RestartOK
  <2> QED BY <2>1, <2>2, <2>3, <2>4, <2>5, <2>6, <2>7, <2>8 DEF Next
<1> QED BY <1>1, <1>2 DEF ServeInv

LEMMA ServeInvariant == Spec /\ []OneAtATime /\ [][QuietRollback]_vars => []ServeInv
<1>1. Init => ServeInv
  BY ServeInit
<1>2. ServeInv /\ OneAtATime /\ OneAtATime' /\ [Next]_vars /\ [QuietRollback]_vars => ServeInv'
  BY ServeStep
<1> QED BY <1>1, <1>2, PTL DEF Spec

------------------------------------------------------------------------------
\* What the server can count on

\* A base on which a packed file rests is never removed, whatever is compressed, fails,
\* is committed or is restarted, as long as ingests do not overlap and no transaction
\* of the indexer takes rows back from under one.
THEOREM BasesStay == Spec /\ []OneAtATime /\ [][QuietRollback]_vars => []BaseStays
<1>1. ServeInv => BaseStays
  BY DEF ServeInv, TablesOK, TableOK, Stored, BaseStays, OnDisk
<1> QED BY <1>1, ServeInvariant, PTL

NoZstd == \A f \in Files : disk[f] # "zstd"

LEMMA StaysPlain ==
  ASSUME ~CompressBase
  PROVE  Spec => []NoZstd
<1>1. Init => NoZstd
  BY DEF Init, NoZstd
<1>2. TypeOK /\ NoZstd /\ [Next]_vars => NoZstd'
  <2> SUFFICES ASSUME TypeOK, NoZstd, [Next]_vars, NEW f \in Files
               PROVE  disk'[f] # "zstd"
    BY DEF NoZstd
  <2> USE DEF NoZstd, TypeOK
  <2>1. ASSUME NEW a \in Actors, Ingest(a)
        PROVE  disk' = disk
    BY <2>1 DEF Ingest, IngestVars, StartIngest, SkipIngest, Discover, DiscoverFails,
         ListPending, ToolsMissing, EndIngest
  <2>2. ASSUME NEW a \in Actors, NEW g \in Groups, GroupJob(a, g)
        PROVE  disk'[f] # "zstd"
    BY <2>2 DEF GroupJob, JobVars, StartGroup, StartSingleton, CancelJob, RejectBase,
         AbandonGroup, ReuseBase, PreprocessBase, MarkBase, EndTargets, PrepareTarget,
         Encode, EncodeWrong, Verify, TargetInterrupted, RemoveOriginal, MarkDelta, FinishGroup
  <2>3. ASSUME \/ \E h \in Files : Deliver(h)
               \/ IndexerCommits \/ IndexerRollsBack \/ RequestStop \/ Restart
        PROVE  disk'[f] # "zstd"
    BY <2>3 DEF ProcessVars, Deliver, IndexerCommits, IndexerRollsBack, RequestStop, Restart
  <2> QED BY <2>1, <2>2, <2>3 DEF Next, vars
<1> QED BY <1>1, <1>2, TypeCorrect, PTL DEF Spec

LEMMA PatchServes ==
  ASSUME ServeInv, NoZstd, ~CompressBase, NEW f \in Files, rows[f].kind = "delta"
  PROVE  Servable(f)
<1> DEFINE b == rows[f].base
<1>1. b \in Files /\ rows[b].kind = "base" /\ Decodes(delta[f], b)
  BY DEF ServeInv, TablesOK, TableOK, Stored
<1>2. HasRow(b) /\ OnDisk(b)
  BY <1>1 DEF ServeInv, TablesOK, TableOK, Stored, Settled, HasRow, OnDisk
<1>3. delta[f] = Against(b, disk[b])
  BY <1>1 DEF Decodes, NoZstd
<1> QED BY <1>2, <1>3 DEF Servable, Decompressed

\* What the table calls done can be served: the file, or its patch with the base in the
\* form the patch was made against, when the base is not compressed afterwards.
THEOREM DoneServes ==
  ASSUME ~CompressBase
  PROVE  Spec /\ []OneAtATime /\ [][QuietRollback]_vars => []DoneIsServable
<1>1. ServeInv /\ NoZstd => DoneIsServable
  BY PatchServes DEF ServeInv, TablesOK, TableOK, DoneIsServable, Servable
<1> QED BY <1>1, ServeInvariant, StaysPlain, PTL

\* A file that is on disk, is recorded as a delta, or has lost its original to a job
\* that records it next.
Kept(f) ==
  \/ OnDisk(f) \/ rows[f].kind = "delta"
  \/ \E a \in Actors, g \in Groups : At(a, g, "mark") /\ OwnsPatch(a, g, f)

ReachIsKept == \A f \in Files : Kept(f) <=> InReach(f)

LEMMA KeptIsInReach ==
  ASSUME ~CompressBase
  PROVE  ServeInv /\ NoZstd => ReachIsKept
BY PatchServes DEF ReachIsKept, Kept, InReach, Servable

\* A row taken back to the last commit is all that puts a file out of reach.
LEMMA KeptStep ==
  ASSUME OneAtATime, OneAtATime', ServeInv, [Next]_vars, [QuietRollback]_vars,
         NEW f \in delivered', f \in delivered => Kept(f)
  PROVE  Kept(f)' \/ ((Restart \/ IndexerRollsBack) /\ durable[f].kind # "delta")
<1>0. RestOK /\ JobsOK /\ TablesOK /\ JobsRely /\ JobsInside
  BY Parts DEF ServeInv, JobsInside, JobsRely, Relies
<1>1. CASE UNCHANGED vars
  BY <1>1 DEF vars, Kept, OnDisk, At, OwnsPatch, Target
<1>2. ASSUME NEW a \in Actors, Ingest(a)
      PROVE  Kept(f)'
  <2>1. \A h \in Files : Moves(h)
    BY <1>0, <1>2, IngestOK
  <2>2. disk' = disk /\ delivered' = delivered
    BY <1>2 DEF Ingest, IngestVars, StartIngest, SkipIngest, Discover, DiscoverFails,
         ListPending, ToolsMissing, EndIngest
  <2>3. f \in Files /\ Moves(f) /\ Kept(f)
    BY <1>0, <2>1, <2>2 DEF RestOK
  <2>4. CASE ListPending(a)
    <3>1. ASSUME NEW b \in Actors, NEW g \in Groups
          PROVE  job[b][g].step = "none"
      <4>1. CASE b = a
        BY <1>0, <2>4, <4>1 DEF JobsInside, ListPending, Enter
      <4> QED BY <1>0, <1>2, <4>1, OthersRest
    <3>2. disk[f] # "none" \/ rows[f].kind = "delta"
      BY <2>3, <3>1 DEF Kept, OnDisk, At
    <3>3. disk'[f] # "none" \/ rows'[f].kind = "delta"
      BY <2>2, <2>3, <3>2 DEF Moves
    <3> QED BY <3>3 DEF Kept, OnDisk
  <2>5. CASE ~ListPending(a)
    <3>1. job' = job
      BY <1>2, <2>5 DEF Ingest, StartIngest, SkipIngest, Discover, DiscoverFails, ToolsMissing,
           EndIngest
    <3>2. rows[f].kind = "delta" => rows'[f].kind = "delta"
      BY <2>3 DEF Moves
    <3> QED BY <2>2, <2>3, <3>1, <3>2 DEF Kept, OnDisk, At, OwnsPatch, Target
  <2> QED BY <2>4, <2>5
<1>3. ASSUME NEW a \in Actors, NEW g \in Groups, GroupJob(a, g)
      PROVE  Kept(f)'
  <2>1. StepOK(a, g) /\ delivered' = delivered
    BY <1>0, <1>3, GroupJobOK DEF JobsRely
  <2> SUFFICES \/ disk'[f] # "none" \/ rows'[f].kind = "delta"
               \/ \E b \in Actors, h \in Groups : (At(b, h, "mark") /\ OwnsPatch(b, h, f))'
    BY DEF Kept, OnDisk
  <2>2. f \in Files /\ Moves(f) /\ Kept(f)
    BY <1>0, <2>1 DEF RestOK, StepOK
  <2>3. CASE rows[f].kind = "delta"
    BY <2>2, <2>3 DEF Moves
  <2>4. CASE OnDisk(f) /\ disk'[f] = "none"
    <3>1. RemoveOriginal(a, g)
      BY <1>0, <1>3, <2>2, <2>4 DEF RestOK, OnDisk, GroupJob, JobVars, StartGroup, StartSingleton,
           CancelJob, RejectBase, AbandonGroup, ReuseBase, PreprocessBase, MarkBase, EndTargets,
           PrepareTarget, Encode, EncodeWrong, Verify, TargetInterrupted, MarkDelta, FinishGroup
    <3>2. f = Target(a, g) /\ Goto(a, g, "mark") /\ job[a][g].todo # {}
      BY <1>0, <2>2, <2>4, <3>1 DEF RemoveOriginal, RestOK, OnDisk, At, JobsOK, JobShape, ShapeOf
    <3>3. (At(a, g, "mark") /\ OwnsPatch(a, g, f))'
      BY <1>0, <3>2, GoesOn DEF At, OwnsPatch, Steps
    <3> QED BY <3>3
  <2>5. ASSUME NEW b \in Actors, NEW h \in Groups, At(b, h, "mark"), OwnsPatch(b, h, f)
        PROVE  rows'[f].kind = "delta" \/ (At(b, h, "mark") /\ OwnsPatch(b, h, f))'
    <3>1. b = a
      BY <1>0, <1>3, <2>5, OthersWait DEF At
    <3>2. CASE h = g
      <4>1. MarkDelta(a, g)
        BY <1>3, <2>5, <3>1, <3>2 DEF At, GroupJob, StartGroup, StartSingleton, CancelJob, MayStart,
             RejectBase, AbandonGroup, ReuseBase, PreprocessBase, MarkBase, EndTargets,
             PrepareTarget, HasTarget, Encode, EncodeWrong, Verify, TargetInterrupted,
             RemoveOriginal, FinishGroup
      <4>2. delta[f] # NoDelta /\ f = Target(a, g) /\ Pending(f)
        <5>1. f = Target(a, g) /\ job[a][g].step = "mark" /\ job[a][g].todo # {}
          BY <2>5, <3>1, <3>2 DEF At, OwnsPatch
        <5>2. f \in job[a][g].todo
          BY <1>0, <5>1, TargetIsIn
        <5>3. Relies(a, g)
          BY <1>0 DEF JobsRely
        <5> QED BY <5>1, <5>2, <5>3 DEF Relies, Against, NoDelta
      <4> QED BY <1>0, <2>2, <4>1, <4>2 DEF MarkDelta, Done, Update, RestOK, HasRow, Pending
    <3>3. CASE h # g
      BY <2>1, <2>5, <3>1, <3>3 DEF StepOK, StaysIn, At, OwnsPatch, Target
    <3> QED BY <3>2, <3>3
  <2> QED BY <2>2, <2>3, <2>4, <2>5 DEF Kept, Moves
<1>4. CASE \E h \in Files : Deliver(h)
  <2>1. PICK h \in Files : Deliver(h)
    BY <1>4
  <2>2. CASE f = h
    BY <1>0, <2>1, <2>2 DEF Deliver, Kept, OnDisk, RestOK
  <2>3. CASE f # h
    <3>1. Kept(f) /\ disk'[f] = disk[f] /\ UNCHANGED <<rows, job>>
      BY <1>0, <2>1, <2>3 DEF Deliver, RestOK
    <3> QED BY <3>1 DEF Kept, OnDisk, At, OwnsPatch, Target
  <2> QED BY <2>2, <2>3
<1>5. CASE IndexerCommits \/ RequestStop
  BY <1>5 DEF IndexerCommits, RequestStop, ProcessVars, Kept, OnDisk, At, OwnsPatch, Target
<1>6. CASE IndexerRollsBack \/ Restart
  <2>1. rows' = durable /\ UNCHANGED <<disk, delivered>>
    BY <1>6 DEF IndexerRollsBack, Restart, ProcessVars
  <2>2. CASE durable[f].kind = "delta"
    BY <2>1, <2>2 DEF Kept
  <2> QED BY <1>6, <2>2
<1> QED BY <1>1, <1>2, <1>3, <1>4, <1>5, <1>6 DEF Next

\* With bases left uncompressed, no step of an ingest and no failure hides a delivered
\* file from the server: only a restart or a rollback does, and never a file whose patch
\* was committed.
THEOREM OnlyLostRowsHide ==
  ASSUME ~CompressBase
  PROVE  Spec /\ []OneAtATime /\ [][QuietRollback]_vars => ServedUntilLost
<1>1. ServeInv /\ ReachIsKept /\ ReachIsKept' /\ OneAtATime /\ OneAtATime'
        /\ [Next]_vars /\ [QuietRollback]_vars => HidesOnlyLost
  <2> SUFFICES ASSUME ServeInv, ReachIsKept, ReachIsKept', OneAtATime, OneAtATime',
                      [Next]_vars, [QuietRollback]_vars
               PROVE  HidesOnlyLost
    OBVIOUS
  <2>1. ASSUME NEW f \in delivered', f \in delivered => InReach(f), ~InReach(f)'
        PROVE  (Restart \/ IndexerRollsBack) /\ durable[f].kind # "delta"
    <3>1. f \in Files
      BY ShapeStep DEF ServeInv, TypeOK
    <3>2. (f \in delivered => Kept(f)) /\ ~Kept(f)'
      BY <2>1, <3>1 DEF ReachIsKept
    <3> QED BY <3>2, KeptStep
  <2> QED BY <2>1, Zenon DEF HidesOnlyLost
<1> QED BY <1>1, KeptIsInReach, ServeInvariant, StaysPlain, PTL DEF Spec, ServedUntilLost

\* The committed table implements DedupStorage: a commit publishes a base with or before
\* the deltas that name it, and nothing that was committed is taken back.
THEOREM TableIsStorage ==
  Spec /\ []OneAtATime /\ [][QuietRollback]_vars => CommittedStorage
<1>1. Init => Committed!Init
  BY DEF Init, Committed!Init, KindIn, BaseIn, Absent
<1>2. ServeInv /\ [Next]_vars => [Committed!Next]_(Committed!storage)
  <2> SUFFICES ASSUME ServeInv, [Next]_vars, durable' # durable
               PROVE  Committed!Next
    BY DEF Committed!storage, KindIn, BaseIn
  <2>1. durable' = rows
    <3>1. ASSUME NEW a \in Actors, Ingest(a)
          PROVE  durable' = durable
      BY <3>1 DEF Ingest, IngestVars, StartIngest, SkipIngest, Discover, DiscoverFails,
           ListPending, ToolsMissing, EndIngest
    <3>2. ASSUME NEW a \in Actors, NEW g \in Groups, GroupJob(a, g)
          PROVE  durable' = durable
      <4>1. RestOK /\ JobsOK /\ TablesOK /\ JobsRely
        BY Parts DEF ServeInv
      <4> QED BY <3>2, <4>1, GroupJobOK DEF JobsRely
    <3>3. ASSUME \/ \E f \in Files : Deliver(f)
                 \/ IndexerRollsBack \/ RequestStop \/ Restart
          PROVE  durable' = durable
      BY <3>3 DEF ProcessVars, Deliver, IndexerRollsBack, RequestStop, Restart
    <3>4. IndexerCommits => durable' = rows
      BY DEF IndexerCommits
    <3> QED BY <3>1, <3>2, <3>3, <3>4 DEF Next, vars
  <2>2. ASSUME NEW f \in Files
        PROVE  Committed!Same(f) \/ Committed!BecomeBase(f) \/ Committed!Pack(f)
    <3>1. durable[f].kind \in Kind /\ rows[f].kind \in Kind
      BY DEF ServeInv, TypeOK, Row
    <3>2. CASE durable[f].kind # "full" \/ rows[f].kind = "full"
      <4>1. rows[f].kind = durable[f].kind /\ rows[f].base = durable[f].base
        BY <3>2 DEF ServeInv, TablesOK, TableOK, Ahead
      <4> QED BY <2>1, <4>1 DEF Committed!Same, KindIn, BaseIn
    <3>3. CASE durable[f].kind = "full" /\ rows[f].kind = "base"
      <4>1. rows[f].base = durable[f].base
        BY <3>3 DEF ServeInv, TablesOK, TableOK
      <4> QED BY <2>1, <3>3, <4>1 DEF Committed!BecomeBase, KindIn, BaseIn
    <3>4. CASE durable[f].kind = "full" /\ rows[f].kind = "delta"
      <4>1. rows[f].base \in Files \ {f} /\ rows[rows[f].base].kind = "base"
        BY <3>4 DEF ServeInv, TablesOK, TableOK
      <4> QED BY <2>1, <3>4, <4>1 DEF Committed!Pack, KindIn, BaseIn
    <3> QED BY <3>1, <3>2, <3>3, <3>4 DEF Kind
  <2> QED BY <2>2 DEF Committed!Next
<1> QED BY <1>1, <1>2, ServeInvariant, PTL DEF Spec, CommittedStorage, Committed!Spec

------------------------------------------------------------------------------
\* The content, whatever rows a rollback or a restart takes back

\* A file the pipeline has rewritten; unlike its row, this cannot be taken back.
Worked(f) == f \in delivered /\ disk[f] # "raw"

Placed == \A f \in Files :
  /\ OnDisk(f) => f \in delivered
  /\ rows[f].kind = "base" \/ durable[f].kind = "base" => Worked(f)

\* What a job may lean on without its rows: a base of its group that it does not pack, a
\* target that stands as long as its patch may still go, and before the removal a patch
\* against a base that stands.
Leans(a, g) == LET j == job[a][g] IN j.step # "none" =>
  /\ pc[a] = "groups"
  /\ IF j.single /\ j.step = "queued"
       THEN \A x, y \in j.todo : x = y
       ELSE /\ j.base \in Files /\ Group[j.base] = g /\ j.base \notin j.todo
            /\ Worked(j.base) \/ (j.step \in {"queued", "base"} /\ ~j.baseDone)
  /\ j.step = "verify" => OnDisk(Target(a, g)) \/ Target(a, g) \notin delivered
  /\ j.step = "remove" =>
       /\ OnDisk(j.base)
       /\ \E form \in {"prep", "zstd"} : delta[Target(a, g)] = Against(j.base, form)

ContentInv == /\ TypeOK /\ JobShape /\ Placed /\ NoContentLost
              /\ \A a \in Actors, g \in Groups : Leans(a, g)

\* A step that takes no file from the disk and no whole patch of a removed one.
LEMMA ContentStays ==
  ASSUME NoContentLost, delivered' = delivered,
         \A f \in delivered : OnDisk(f) => disk'[f] # "none",
         \A f \in delivered : OnDisk(f) \/ delta'[f] = delta[f] \/ delta[f].kind # "whole"
  PROVE  NoContentLost'
<1> SUFFICES ASSUME NEW S \in SUBSET delivered, S # {}
             PROVE  \E f \in S : HadWithout(S, f)'
  BY DEF NoContentLost
<1>1. PICK f \in S : HadWithout(S, f)
  BY DEF NoContentLost
<1>2. HadWithout(S, f)'
  BY <1>1 DEF HadWithout, OnDisk
<1> QED BY <1>2

\* What a step of a job of group g leaves alone.
StaysPut(a, g) ==
  /\ UNCHANGED <<delivered, durable, pc>>
  /\ \A f \in Files : Group[f] # g => disk'[f] = disk[f] /\ delta'[f] = delta[f]
  /\ \A h \in Groups : h # g => job'[a][h] = job[a][h] \/ job'[a][h].step = "none"

\* What it may do to the disk and the rows.
Rewrites == \A f \in Files :
  /\ disk'[f] # "none" => OnDisk(f)
  /\ disk'[f] = "raw" => disk[f] = "raw"
  /\ rows'[f].kind = "base" => rows[f].kind = "base" \/ Worked(f)

StepKeeps(a, g) == StaysPut(a, g) /\ Rewrites /\ Leans(a, g)' /\ NoContentLost'

LEMMA OthersLean ==
  ASSUME JobsOK, NEW a \in Actors, NEW g \in Groups, NEW h \in Groups, h # g,
         Leans(a, h), StaysPut(a, g)
  PROVE  Leans(a, h)'
<1> DEFINE j == job[a][h]
<1>1. CASE job'[a][h].step = "none"
  BY <1>1 DEF Leans
<1>2. CASE job'[a][h] = j /\ j.step # "none"
  <2>1. /\ j.todo \subseteq {f \in Files : Group[f] = h}
        /\ j.step \in {"verify", "remove"} => Target(a, h) \in j.todo
    BY <1>2, TargetIsIn DEF JobsOK, JobShape, ShapeOf
  <2>2. \A f \in Files : Group[f] = h => disk'[f] = disk[f] /\ delta'[f] = delta[f]
    BY DEF StaysPut
  <2>3. Target(a, h)' = Target(a, h) /\ pc' = pc /\ delivered' = delivered
    BY <1>2 DEF Target, StaysPut
  <2>4. ~(j.single /\ j.step = "queued") => j.base \in Files /\ Group[j.base] = h
    BY <1>2 DEF Leans
  <2>5. ASSUME j.step = "verify"
        PROVE  (OnDisk(Target(a, h)) \/ Target(a, h) \notin delivered)'
    <3>1. OnDisk(Target(a, h)) \/ Target(a, h) \notin delivered
      BY <1>2, <2>5 DEF Leans
    <3>2. disk'[Target(a, h)] = disk[Target(a, h)]
      BY <2>1, <2>2, <2>5
    <3> QED BY <2>3, <3>1, <3>2 DEF OnDisk
  <2>6. ASSUME j.step = "remove"
        PROVE  /\ disk'[j.base] # "none"
               /\ \E form \in {"prep", "zstd"} : delta'[Target(a, h)'] = Against(j.base, form)
    <3>1. /\ OnDisk(j.base)
          /\ \E form \in {"prep", "zstd"} : delta[Target(a, h)] = Against(j.base, form)
      BY <1>2, <2>6 DEF Leans
    <3>2. disk'[j.base] = disk[j.base] /\ delta'[Target(a, h)] = delta[Target(a, h)]
      BY <2>1, <2>2, <2>4, <2>6
    <3> QED BY <2>3, <3>1, <3>2 DEF OnDisk
  <2>7. pc[a] = "groups"
    BY <1>2 DEF Leans
  <2>8. j.single /\ j.step = "queued" => \A x, y \in j.todo : x = y
    BY <1>2 DEF Leans
  <2>9. ASSUME ~(j.single /\ j.step = "queued")
        PROVE  /\ j.base \notin j.todo
               /\ Worked(j.base)' \/ (j.step \in {"queued", "base"} /\ ~j.baseDone)
    <3>1. /\ j.base \notin j.todo
          /\ Worked(j.base) \/ (j.step \in {"queued", "base"} /\ ~j.baseDone)
      BY <1>2, <2>9 DEF Leans
    <3>2. disk'[j.base] = disk[j.base]
      BY <2>2, <2>4, <2>9
    <3> QED BY <1>2, <2>3, <3>1, <3>2 DEF Worked
  <2> QED BY <1>2, <2>3, <2>4, <2>5, <2>6, <2>7, <2>8, <2>9 DEF Leans, OnDisk
<1> QED BY <1>1, <1>2 DEF StaysPut, Leans

LEMMA JobEnds ==
  ASSUME JobsOK, NEW a \in Actors, NEW g \in Groups, EndJob(a, g)
  PROVE  Leans(a, g)' /\ \A h \in Groups : h # g => job'[a][h] = job[a][h]
BY DEF EndJob, JobsOK, Leans, NoJob

LEMMA StatusKind ==
  ASSUME RestOK, NEW f \in Files, NEW s, rows' = WithStatus(f, s)
  PROVE  \A h \in Files : rows'[h].kind = rows[h].kind
BY DEF RestOK, Row, WithStatus, Update

LEMMA DoneKind ==
  ASSUME RestOK, NEW f \in Files, NEW k, NEW b, rows' = Done(f, k, b)
  PROVE  \A h \in Files : rows'[h].kind = rows[h].kind \/ (h = f /\ rows'[h].kind = k)
BY DEF RestOK, Row, Done, Update

\* A step of a job that leaves the disk and the patches alone.
LEMMA NothingStored ==
  ASSUME RestOK, NoContentLost, NEW a \in Actors, NEW g \in Groups,
         UNCHANGED <<delivered, durable, pc, disk, delta>>, Leans(a, g)',
         \A f \in Files : rows'[f].kind = "base" => rows[f].kind = "base" \/ Worked(f),
         \A h \in Groups : h # g => job'[a][h] = job[a][h] \/ job'[a][h].step = "none"
  PROVE  StepKeeps(a, g)
<1>1. NoContentLost'
  <2>1. \A f \in delivered : OnDisk(f) => disk'[f] # "none"
    BY DEF OnDisk
  <2> QED BY <2>1, ContentStays
<1>2. StaysPut(a, g) /\ Rewrites
  BY DEF StaysPut, Rewrites, OnDisk
<1> QED BY <1>1, <1>2 DEF StepKeeps

\* A job that goes on, with the base it had.
LEMMA LeansOn ==
  ASSUME JobsOK, NEW a \in Actors, NEW g \in Groups, NEW s \in Steps \ {"none", "queued"},
         Goto(a, g, s), Leans(a, g), job[a][g].step # "none", UNCHANGED <<delivered, pc>>,
         ~(job[a][g].single /\ job[a][g].step = "queued"),
         NEW b, b = Base(a, g), Worked(b)' \/ (s = "base" /\ ~job[a][g].baseDone),
         s = "verify" => disk' = disk /\ (OnDisk(Target(a, g)) \/ Target(a, g) \notin delivered),
         s = "remove" =>
           /\ disk'[b] # "none"
           /\ \E form \in {"prep", "zstd"} : delta'[Target(a, g)] = Against(b, form)
  PROVE  Leans(a, g)'
<1>1. /\ job'[a][g].step = s /\ Target(a, g)' = Target(a, g)
      /\ job'[a][g].todo = job[a][g].todo /\ job'[a][g].base = job[a][g].base
      /\ job'[a][g].baseDone = job[a][g].baseDone
  BY GoesOn
<1>2. /\ pc[a] = "groups" /\ job[a][g].base \in Files /\ Group[job[a][g].base] = g
      /\ job[a][g].base \notin job[a][g].todo
  BY DEF Leans
<1> QED BY <1>1, <1>2 DEF Leans, OnDisk, Base

\* A target is left, and its patch with it or without.
LEMMA LeansLess ==
  ASSUME JobsOK, NEW a \in Actors, NEW g \in Groups, DropTarget(a, g),
         Leans(a, g), job[a][g].step \notin {"none", "queued", "base"},
         UNCHANGED <<delivered, pc>>, disk'[Base(a, g)] = disk[Base(a, g)]
  PROVE  Leans(a, g)'
<1>1. /\ job'[a][g].step = "targets" /\ job'[a][g].base = job[a][g].base
      /\ job'[a][g].todo = job[a][g].todo \ {Target(a, g)}
  BY DropsOne
<1>2. /\ pc[a] = "groups" /\ job[a][g].base \in Files /\ Group[job[a][g].base] = g
      /\ job[a][g].base \notin job[a][g].todo /\ Worked(job[a][g].base)
  BY DEF Leans
<1> QED BY <1>1, <1>2 DEF Leans, Worked, Base

\* What a worker has when it takes the base, or a target, of a group.
LEMMA JobLeans ==
  ASSUME JobsOK, NEW a \in Actors, NEW g \in Groups, Leans(a, g),
         job[a][g].step \notin {"none", "queued"}
  PROVE  LET b == Base(a, g) IN
         /\ b \in Files /\ Group[b] = g /\ b \notin job[a][g].todo /\ pc[a] = "groups"
         /\ job[a][g].todo \subseteq {f \in Files : Group[f] = g}
         /\ job[a][g].step # "base" => Worked(b)
         /\ job[a][g].baseDone => Worked(b)
         /\ job[a][g].todo # {} =>
              Target(a, g) \in Files /\ Group[Target(a, g)] = g /\ Target(a, g) # b
<1>1. job[a][g].todo # {} => Target(a, g) \in job[a][g].todo
  BY TargetIsIn
<1> QED BY <1>1 DEF Leans, Base, JobsOK, JobShape, ShapeOf

LEMMA StartKeeps ==
  ASSUME RestOK, JobsOK, Placed, NoContentLost, NEW a \in Actors, NEW g \in Groups,
         Leans(a, g), StartGroup(a, g) \/ StartSingleton(a, g) \/ CancelJob(a, g)
  PROVE  StepKeeps(a, g)
<1> USE DEF JobVars, At
<1>1. CASE StartGroup(a, g)
  <2>1. /\ Goto(a, g, "base") /\ "base" \in Steps \ {"none", "queued"}
        /\ UNCHANGED <<delivered, durable, pc, disk, delta, rows>>
        /\ job[a][g].step = "queued" /\ ~job[a][g].single
    BY <1>1 DEF StartGroup, MayStart, Steps
  <2>2. job[a][g].baseDone => Worked(Base(a, g))
    BY <2>1 DEF Leans, Base
  <2>3. PICK b : b = Base(a, g)
    OBVIOUS
  <2>4. Leans(a, g)'
    <3>1. Worked(b)' \/ ~job[a][g].baseDone
      BY <2>1, <2>2, <2>3 DEF Worked
    <3> QED BY <2>1, <2>3, <3>1, LeansOn
  <2> QED BY <2>1, <2>4, GoesOn, NothingStored
<1>2. CASE CancelJob(a, g)
  BY <1>2, JobEnds, NothingStored DEF CancelJob
<1>3. CASE StartSingleton(a, g)
  <2> DEFINE f == Earliest(job[a][g].todo)
  <2>1. /\ f \in Files /\ Group[f] = g /\ job[a][g].todo = {f} /\ pc[a] = "groups"
        /\ UNCHANGED <<delivered, durable, pc, disk, delta>>
    <3>1. /\ job[a][g].todo \subseteq {h \in Files : Group[h] = g} /\ job[a][g].todo # {}
          /\ job[a][g].step = "queued" /\ job[a][g].single
      BY <1>3 DEF StartSingleton, MayStart, JobsOK, JobShape, ShapeOf
    <3>2. f \in job[a][g].todo
      BY <3>1, EarliestIsIn
    <3>3. \A x, y \in job[a][g].todo : x = y
      BY <3>1 DEF Leans
    <3>4. pc[a] = "groups"
      BY <3>1 DEF Leans
    <3> HIDE DEF f
    <3>5. job[a][g].todo = {f}
      BY <3>2, <3>3
    <3> QED BY <1>3, <3>1, <3>2, <3>4, <3>5 DEF StartSingleton
  <2>2. CASE GroupBases(f) # {}
    <3> DEFINE b == Latest(GroupBases(f))
    <3>1. b \in Files \ {f} /\ rows[b].kind = "base" /\ Group[b] = g
      BY <2>1, <2>2, LatestIsIn DEF GroupBases
    <3>2. /\ job' = [job EXCEPT ![a][g].step = "targets", ![a][g].base = b]
          /\ rows' = rows
      BY <1>3, <2>2 DEF StartSingleton
    <3> HIDE DEF b
    <3>3. /\ job'[a][g].step = "targets" /\ job'[a][g].base = b
          /\ job'[a][g].todo = job[a][g].todo
          /\ \A h \in Groups : h # g => job'[a][h] = job[a][h]
      BY <3>2 DEF JobsOK, Job
    <3> HIDE DEF f
    <3>4. Leans(a, g)'
      BY <2>1, <3>1, <3>3 DEF Leans, Placed, Worked
    <3> QED BY <2>1, <3>2, <3>3, <3>4, NothingStored
  <2>3. CASE GroupBases(f) = {}
    <3>1. EndJob(a, g) /\ (rows' = Done(f, "full", NoFile) \/ rows' = WithStatus(f, "error"))
      BY <1>3, <2>3 DEF StartSingleton
    <3> HIDE DEF f
    <3>2. \A h \in Files : rows'[h].kind = "base" => rows[h].kind = "base"
      <4>1. CASE rows' = Done(f, "full", NoFile)
        BY <2>1, <4>1, DoneKind
      <4>2. CASE rows' = WithStatus(f, "error")
        BY <2>1, <4>2, StatusKind
      <4> QED BY <3>1, <4>1, <4>2
    <3> QED BY <2>1, <3>1, <3>2, JobEnds, NothingStored
  <2> QED BY <2>2, <2>3
<1> QED BY <1>1, <1>2, <1>3

\* The base is rewritten in place, and stays.
LEMMA BaseRewritten ==
  ASSUME RestOK, Placed, NoContentLost, NEW a \in Actors, NEW g \in Groups,
         NEW b \in Files, Group[b] = g, OnDisk(b), NEW form \in {"prep", "zstd"},
         disk' = [disk EXCEPT ![b] = form], UNCHANGED <<delivered, durable, pc, rows, delta>>,
         \A h \in Groups : h # g => job'[a][h] = job[a][h]
  PROVE  Worked(b)' /\ (Leans(a, g)' => StepKeeps(a, g))
<1>1. \A f \in Files : disk'[f] = IF f = b THEN form ELSE disk[f]
  BY DEF RestOK
<1>2. NoContentLost'
  <2>1. \A f \in delivered : OnDisk(f) => disk'[f] # "none"
    BY <1>1 DEF RestOK, OnDisk
  <2> QED BY <2>1, ContentStays
<1>3. StaysPut(a, g) /\ Rewrites
  BY <1>1 DEF StaysPut, Rewrites, OnDisk
<1>4. Worked(b)'
  BY <1>1 DEF Worked, Placed
<1> QED BY <1>2, <1>3, <1>4 DEF StepKeeps

LEMMA BaseKeeps ==
  ASSUME RestOK, JobsOK, Placed, NoContentLost, NEW a \in Actors, NEW g \in Groups,
         Leans(a, g),
         \/ RejectBase(a, g) \/ AbandonGroup(a, g) \/ ReuseBase(a, g) \/ PreprocessBase(a, g)
         \/ MarkBase(a, g) \/ FinishGroup(a, g)
  PROVE  StepKeeps(a, g)
<1> USE DEF JobVars, At
<1> {"markBase", "targets"} \subseteq Steps \ {"none", "queued"}
  BY DEF Steps
<1> SUFFICES ASSUME NEW b, b = Base(a, g) PROVE StepKeeps(a, g)
  OBVIOUS
<1>0. /\ b \in Files /\ Group[b] = g /\ job[a][g].step \notin {"none", "queued"}
      /\ job[a][g].step # "base" => Worked(b)
      /\ job[a][g].baseDone => Worked(b)
      /\ UNCHANGED <<delivered, durable, pc, delta>>
  <2>1. /\ job[a][g].step \notin {"none", "queued"}
        /\ UNCHANGED <<delivered, durable, pc, delta>>
    BY DEF RejectBase, AbandonGroup, ReuseBase, PreprocessBase, MarkBase, FinishGroup
  <2> QED BY <2>1, JobLeans
<1>a. ASSUME EndJob(a, g), disk' = disk, rows' = rows \/ rows' = WithStatus(b, "error")
      PROVE  StepKeeps(a, g)
  <2>1. \A f \in Files : rows'[f].kind = rows[f].kind
    BY <1>0, <1>a, StatusKind
  <2> QED BY <1>0, <1>a, <2>1, JobEnds, NothingStored
<1>b. ASSUME NEW s \in {"markBase", "targets"}, Goto(a, g, s), Worked(b)'
      PROVE  Leans(a, g)' /\ \A h \in Groups : h # g => job'[a][h] = job[a][h]
  BY <1>0, <1>b, GoesOn, LeansOn
<1>1. CASE RejectBase(a, g)
  BY <1>1, <1>a DEF RejectBase
<1>2. CASE AbandonGroup(a, g)
  BY <1>2, <1>a DEF AbandonGroup
<1>3. CASE ReuseBase(a, g)
  <2>1. Goto(a, g, "targets") /\ UNCHANGED <<disk, rows>> /\ Worked(b)
    BY <1>0, <1>3 DEF ReuseBase
  <2>2. Worked(b)'
    BY <1>0, <2>1 DEF Worked
  <2> QED BY <1>0, <1>b, <2>1, <2>2, NothingStored
<1>4. CASE PreprocessBase(a, g)
  <2>1. CASE disk' = [disk EXCEPT ![b] = "prep"] /\ Goto(a, g, "markBase") /\ rows' = rows
    <3>1. OnDisk(b)
      BY <1>4, <2>1 DEF PreprocessBase
    <3>2. \A h \in Groups : h # g => job'[a][h] = job[a][h]
      BY <2>1, GoesOn
    <3>3. Worked(b)' /\ (Leans(a, g)' => StepKeeps(a, g))
      BY <1>0, <2>1, <3>1, <3>2, BaseRewritten
    <3> QED BY <1>b, <2>1, <3>3
  <2> QED BY <1>4, <2>1, <1>a DEF PreprocessBase
<1>5. CASE MarkBase(a, g)
  <2>1. Goto(a, g, "targets") /\ disk' = disk /\ Worked(b) /\ rows' = Done(b, "base", NoFile)
    BY <1>0, <1>5 DEF MarkBase
  <2>2. Worked(b)'
    BY <1>0, <2>1 DEF Worked
  <2>3. \A f \in Files : rows'[f].kind = "base" => rows[f].kind = "base" \/ Worked(f)
    BY <1>0, <2>1, DoneKind
  <2> QED BY <1>0, <1>b, <2>1, <2>2, <2>3, NothingStored
<1>6. CASE FinishGroup(a, g)
  <2>1. CASE disk' = [disk EXCEPT ![b] = "zstd"] /\ EndJob(a, g) /\ OnDisk(b) /\ rows' = rows
    <3> QED BY <1>0, <2>1, JobEnds, BaseRewritten
  <2>2. CASE /\ job' = [job EXCEPT ![a] =
                  [h \in Groups |-> IF h = g \/ At(a, h, "queued") THEN NoJob ELSE job[a][h]]]
             /\ UNCHANGED <<rows, disk>>
    <3>1. /\ job'[a][g].step = "none"
          /\ \A h \in Groups : h # g => job'[a][h] = job[a][h] \/ job'[a][h].step = "none"
      BY <2>2 DEF JobsOK, NoJob
    <3>2. Leans(a, g)'
      BY <3>1 DEF Leans
    <3> QED BY <1>0, <2>2, <3>1, <3>2, NothingStored
  <2> QED BY <1>6, <2>1, <2>2, <1>a DEF FinishGroup
<1> QED BY <1>1, <1>2, <1>3, <1>4, <1>5, <1>6

\* A step that writes or drops the patch of a target, which no removed file needs.
LEMMA PatchRewritten ==
  ASSUME RestOK, JobsOK, Placed, NoContentLost, NEW a \in Actors, NEW g \in Groups,
         NEW t \in Files, Group[t] = g,
         UNCHANGED <<delivered, durable, pc, disk>>, Leans(a, g)',
         \A f \in Files : f # t => delta'[f] = delta[f],
         \/ OnDisk(t) \/ t \notin delivered \/ delta[t].kind # "whole" \/ delta' = delta,
         \A f \in Files : rows'[f].kind = rows[f].kind,
         \A h \in Groups : h # g => job'[a][h] = job[a][h]
  PROVE  StepKeeps(a, g)
<1>1. NoContentLost'
  <2>1. \A f \in delivered : OnDisk(f) \/ delta'[f] = delta[f] \/ delta[f].kind # "whole"
    BY DEF RestOK
  <2>2. \A f \in delivered : OnDisk(f) => disk'[f] # "none"
    BY DEF OnDisk
  <2> QED BY <2>1, <2>2, ContentStays
<1>2. StaysPut(a, g) /\ Rewrites
  BY DEF StaysPut, Rewrites, OnDisk
<1> QED BY <1>1, <1>2 DEF StepKeeps

\* The original goes, and its patch leads on to a base that stands.
LEMMA RemovalKeeps ==
  ASSUME Placed, NoContentLost, NEW t \in Files, NEW b \in Files \ {t},
         OnDisk(b), NEW form \in {"prep", "zstd"}, delta[t] = Against(b, form),
         UNCHANGED <<delivered, delta>>,
         \A f \in Files : f # t => disk'[f] = disk[f], delivered \subseteq Files
  PROVE  NoContentLost'
<1> SUFFICES ASSUME NEW S \in SUBSET delivered, S # {}
             PROVE  \E f \in S : HadWithout(S, f)'
  BY DEF NoContentLost
<1>1. PICK x \in S : HadWithout(S, x)
  BY DEF NoContentLost
<1>2. CASE x # t
  BY <1>1, <1>2 DEF HadWithout, OnDisk
<1>3. CASE x = t /\ b \in S
  BY <1>3 DEF HadWithout, OnDisk
<1>4. CASE x = t /\ b \notin S
  <2>1. b \in delivered \ S
    BY <1>4 DEF Placed
  <2> QED BY <1>4, <2>1 DEF HadWithout, Against
<1> QED BY <1>2, <1>3, <1>4

LEMMA TargetKeeps ==
  ASSUME RestOK, JobsOK, Placed, NoContentLost, NEW a \in Actors, NEW g \in Groups,
         Leans(a, g),
         \/ EndTargets(a, g) \/ PrepareTarget(a, g) \/ Encode(a, g) \/ EncodeWrong(a, g)
         \/ Verify(a, g) \/ TargetInterrupted(a, g) \/ RemoveOriginal(a, g) \/ MarkDelta(a, g)
  PROVE  StepKeeps(a, g)
<1> USE DEF JobVars, At
<1> {"encode", "verify", "remove", "mark", "compress"} \subseteq Steps \ {"none", "queued"}
  BY DEF Steps
<1> SUFFICES ASSUME NEW b, b = Base(a, g), NEW t, t = Target(a, g) PROVE StepKeeps(a, g)
  OBVIOUS
<1>0. /\ b \in Files /\ Group[b] = g /\ Worked(b) /\ UNCHANGED <<delivered, durable, pc>>
      /\ job[a][g].step \in {"targets", "encode", "verify", "remove", "mark"}
      /\ ~EndTargets(a, g) => t \in Files /\ Group[t] = g /\ t # b
  <2>1. /\ job[a][g].step \in {"targets", "encode", "verify", "remove", "mark"}
        /\ UNCHANGED <<delivered, durable, pc>>
        /\ ~EndTargets(a, g) => job[a][g].todo # {}
    BY DEF EndTargets, PrepareTarget, HasTarget, Encode, EncodeWrong, Verify,
         TargetInterrupted, RemoveOriginal, MarkDelta, JobsOK, JobShape, ShapeOf
  <2> QED BY <2>1, JobLeans
\* The job goes on with its target.
<1>a. ASSUME NEW s \in {"encode", "verify", "remove", "mark", "compress"}, Goto(a, g, s),
             disk'[b] = disk[b], s = "remove" => OnDisk(b),
             s = "verify" => disk' = disk /\ (OnDisk(t) \/ t \notin delivered),
             s = "remove" => \E form \in {"prep", "zstd"} : delta'[t] = Against(b, form)
      PROVE  Leans(a, g)' /\ \A h \in Groups : h # g => job'[a][h] = job[a][h]
  <2>1. Worked(b)'
    BY <1>0, <1>a DEF Worked
  <2> QED BY <1>0, <1>a, <2>1, GoesOn, LeansOn DEF OnDisk
\* The job leaves its target, which fails or is put off.
<1>b. ASSUME FailTarget(a, g) \/ DeferTarget(a, g), disk' = disk, ~EndTargets(a, g)
      PROVE  /\ Leans(a, g)' /\ \A h \in Groups : h # g => job'[a][h] = job[a][h]
             /\ \A f \in Files : rows'[f].kind = rows[f].kind
  <2>1. DropTarget(a, g)
    BY <1>b DEF FailTarget, DeferTarget
  <2>2. rows' = rows \/ \E s : rows' = WithStatus(t, s)
    BY <1>b DEF FailTarget, DeferTarget
  <2>3. \A f \in Files : rows'[f].kind = rows[f].kind
    BY <1>0, <1>b, <2>2, StatusKind
  <2> QED BY <1>0, <1>b, <2>1, <2>3, DropsOne, LeansLess
<1>1. CASE EndTargets(a, g)
  <2>1. UNCHANGED <<rows, disk, delta>>
    BY <1>1 DEF EndTargets
  <2>2. CASE EndJob(a, g)
    BY <1>0, <2>1, <2>2, JobEnds, NothingStored
  <2>3. CASE Goto(a, g, "compress")
    BY <1>0, <1>a, <2>1, <2>3, NothingStored
  <2> QED BY <1>1, <2>2, <2>3 DEF EndTargets
<1> SUFFICES ASSUME ~EndTargets(a, g) PROVE StepKeeps(a, g)
  BY <1>1
<1>2. CASE PrepareTarget(a, g)
  <2>1. UNCHANGED <<disk, delta>>
    BY <1>2 DEF PrepareTarget
  <2>2. CASE FailTarget(a, g)
    BY <1>0, <1>b, <2>1, <2>2, NothingStored
  <2>3. CASE rows' = rows /\ Goto(a, g, "encode")
    BY <1>0, <1>a, <2>1, <2>3, NothingStored
  <2> QED BY <1>2, <2>2, <2>3 DEF PrepareTarget
<1>3. CASE Encode(a, g) \/ EncodeWrong(a, g)
  <2>1. CASE FailTarget(a, g) /\ UNCHANGED <<disk, delta>>
    BY <1>0, <1>b, <2>1, NothingStored
  <2>2. CASE /\ delta[t] = NoDelta /\ (\E p : delta' = [delta EXCEPT ![t] = p])
             /\ Goto(a, g, "verify") /\ UNCHANGED <<rows, disk>>
    <3>1. OnDisk(t) \/ t \notin delivered
      <4> SUFFICES ASSUME t \in delivered PROVE OnDisk(t)
        OBVIOUS
      <4>1. \E f \in {t} : HadWithout({t}, f)
        BY DEF NoContentLost
      <4> QED BY <2>2, <4>1 DEF HadWithout, NoDelta
    <3>2. \A f \in Files : f # t => delta'[f] = delta[f]
      BY <2>2 DEF RestOK
    <3>3. delta[t].kind # "whole"
      BY <2>2 DEF NoDelta
    <3>4. Leans(a, g)' /\ \A h \in Groups : h # g => job'[a][h] = job[a][h]
      BY <1>0, <1>a, <2>2, <3>1
    <3> QED BY <1>0, <2>2, <3>2, <3>3, <3>4, PatchRewritten
  <2> QED BY <1>3, <2>1, <2>2 DEF Encode, EncodeWrong
<1>4. CASE Verify(a, g)
  <2>1. CASE FailTarget(a, g) /\ delta' \in {delta, [delta EXCEPT ![t] = NoDelta]}
    <3>1. disk' = disk /\ (OnDisk(t) \/ t \notin delivered)
      BY <1>4 DEF Verify, Leans
    <3>2. \A f \in Files : f # t => delta'[f] = delta[f]
      BY <2>1 DEF RestOK
    <3> QED BY <1>0, <1>b, <2>1, <3>1, <3>2, PatchRewritten
  <2>2. CASE /\ OnDisk(b) /\ delta[t] = Against(b, disk[b])
             /\ UNCHANGED <<rows, delta>> /\ Goto(a, g, "remove")
    <3>1. disk[b] \in {"prep", "zstd"} /\ disk' = disk
      BY <1>0, <1>4, <2>2 DEF Verify, OnDisk, Worked, RestOK, Forms
    <3>2. Leans(a, g)' /\ \A h \in Groups : h # g => job'[a][h] = job[a][h]
      BY <1>0, <1>a, <2>2, <3>1
    <3> QED BY <1>0, <2>2, <3>1, <3>2, NothingStored
  <2> QED BY <1>4, <2>1, <2>2 DEF Verify
<1>5. CASE TargetInterrupted(a, g)
  <2>1. /\ FailTarget(a, g) \/ DeferTarget(a, g)
        /\ disk' = disk
        /\ delta' = delta \/ delta[t].kind # "whole"
        /\ \A f \in Files : f # t => delta'[f] = delta[f]
    BY <1>5 DEF TargetInterrupted, NoDelta, RestOK
  <2> QED BY <1>0, <1>b, <2>1, PatchRewritten
<1>6. CASE RemoveOriginal(a, g)
  <2>1. CASE FailTarget(a, g) /\ UNCHANGED <<disk, delta>>
    BY <1>0, <1>b, <2>1, NothingStored
  <2>2. CASE disk' = [disk EXCEPT ![t] = "none"] /\ rows' = rows /\ Goto(a, g, "mark")
    <3>1. /\ delta' = delta /\ OnDisk(b)
          /\ \E form \in {"prep", "zstd"} : delta[t] = Against(b, form)
      BY <1>6 DEF RemoveOriginal, Leans, Base
    <3>2. \A f \in Files : f # t => disk'[f] = disk[f]
      BY <2>2 DEF RestOK
    <3>3. NoContentLost'
      BY <1>0, <3>1, <3>2, RemovalKeeps DEF RestOK
    <3>4. Leans(a, g)' /\ \A h \in Groups : h # g => job'[a][h] = job[a][h]
      BY <1>0, <1>a, <2>2, <3>2
    <3>5. Rewrites
      BY <2>2 DEF Rewrites, RestOK, OnDisk
    <3> QED BY <1>0, <3>1, <3>2, <3>3, <3>4, <3>5 DEF StepKeeps, StaysPut
  <2> QED BY <1>6, <2>1, <2>2 DEF RemoveOriginal
<1>7. CASE MarkDelta(a, g)
  <2>1. UNCHANGED <<disk, delta>>
    BY <1>7 DEF MarkDelta
  <2>2. CASE FailTarget(a, g)
    BY <1>0, <1>b, <2>1, <2>2, NothingStored
  <2>3. CASE rows' = Done(t, "delta", b) /\ DropTarget(a, g)
    <3>1. \A f \in Files : rows'[f].kind = "base" => rows[f].kind = "base"
      BY <1>0, <2>3, DoneKind
    <3> QED BY <1>0, <2>1, <2>3, <3>1, DropsOne, LeansLess, NothingStored
  <2> QED BY <1>7, <2>2, <2>3 DEF MarkDelta
<1> QED BY <1>2, <1>3, <1>4, <1>5, <1>6, <1>7

LEMMA GroupJobKeeps ==
  ASSUME RestOK, JobsOK, Placed, NoContentLost, NEW a \in Actors, NEW g \in Groups,
         Leans(a, g), GroupJob(a, g)
  PROVE  StepKeeps(a, g)
BY StartKeeps, BaseKeeps, TargetKeeps DEF GroupJob

\* A list makes of each group one file alone, or a base and the others.
LEMMA ListedLeans ==
  ASSUME Placed, NEW a \in Actors, NEW g \in Groups, Members(a, g) # {}
  PROVE  LET j == JobFor(Members(a, g)) IN
         /\ j.step = "queued"
         /\ IF j.single THEN \A x, y \in j.todo : x = y
            ELSE /\ j.base \in Files /\ Group[j.base] = g /\ j.base \notin j.todo
                 /\ Worked(j.base) \/ ~j.baseDone
<1> DEFINE S == Members(a, g)
           e == Earliest(Expanded(S))
<1>1. S \in SUBSET Files /\ S # {} /\ \A f \in S : Group[f] = g
  BY ConfigAssumption DEF Members
<1>2. Lead(S) \in S /\ Anchors(S) \in SUBSET Files
  BY <1>1, LeadIsIn DEF Anchors
<1> HIDE DEF S
<1>3. e \in S \/ e \in Anchors(S)
  <2>1. Expanded(S) \in SUBSET Files /\ Expanded(S) # {}
    BY <1>1, <1>2, EarliestIsIn DEF Expanded
  <2>2. e \in Expanded(S)
    BY <2>1, EarliestIsIn
  <2> QED BY <1>2, <2>2, EarliestIsIn DEF Expanded
<1>4. e \in Files /\ Group[e] = g
  BY <1>1, <1>2, <1>3 DEF Anchors
<1>5. StartsWithBase(S) => Worked(e)
  BY <1>4 DEF StartsWithBase, Placed
<1>6. CASE Expanded(S) = {Earliest(S)}
  <2>1. \A x, y \in S : x = y
    BY <1>6 DEF Expanded
  <2>2. JobFor(S) = [NoJob EXCEPT !.step = "queued", !.todo = S, !.single = TRUE]
    BY <1>6 DEF JobFor
  <2> QED BY <2>1, <2>2 DEF NoJob, S
<1>7. CASE Expanded(S) # {Earliest(S)}
  <2>1. JobFor(S) = [step |-> "queued", todo |-> Targets(S), base |-> e,
                     baseDone |-> StartsWithBase(S), single |-> FALSE]
    BY <1>7 DEF JobFor, NoJob
  <2>2. e \notin Targets(S)
    BY DEF Targets
  <2> HIDE DEF e
  <2> QED BY <1>4, <1>5, <2>1, <2>2 DEF S
<1> QED BY <1>6, <1>7

LEMMA IngestKeeps ==
  ASSUME OneAtATime, OneAtATime', RestOK, Placed,
         \A b \in Actors, g \in Groups : Leans(b, g), JobsOK, NEW a \in Actors, Ingest(a)
  PROVE  /\ UNCHANGED <<delivered, disk, delta, durable>>
         /\ \A f \in Files : rows'[f].kind = "base" => rows[f].kind = "base"
         /\ \A b \in Actors, g \in Groups : Leans(b, g)'
<1> USE DEF IngestVars, Enter
<1>0. JobsInside
  BY DEF JobsInside, Leans
<1>1. UNCHANGED <<delivered, disk, delta, durable>>
  BY DEF Ingest, StartIngest, SkipIngest, Discover, DiscoverFails, ListPending, ToolsMissing,
     EndIngest
<1>2. \A f \in Files : rows'[f].kind = "base" => rows[f].kind = "base"
  <2> SUFFICES ASSUME NEW f \in Files, rows'[f] # rows[f]
               PROVE  rows'[f].kind = "base" => rows[f].kind = "base"
    OBVIOUS
  <2>1. rows'[f] = [rows[f] EXCEPT !.status = "pending"] \/ rows'[f] = Fresh
    BY DEF Ingest, StartIngest, SkipIngest, Discover, DiscoverFails, ListPending, ToolsMissing,
       EndIngest, Register
  <2> QED BY <2>1 DEF RestOK, Row, Fresh, Absent
<1>3. ASSUME NEW b \in Actors, NEW g \in Groups
      PROVE  Leans(b, g)'
  <2>1. CASE ListPending(a) /\ b = a
    <3> DEFINE j == IF Members(a, g) = {} THEN NoJob ELSE JobFor(Members(a, g))
    <3>1. job'[a][g] = j /\ pc'[a] = "groups"
      BY <2>1 DEF ListPending, JobsOK, RestOK
    <3>2. CASE Members(a, g) = {}
      BY <2>1, <3>1, <3>2 DEF Leans, NoJob
    <3>3. CASE Members(a, g) # {}
      <4> HIDE DEF j
      <4>1. /\ j.step = "queued"
            /\ IF j.single THEN \A x, y \in j.todo : x = y
               ELSE /\ j.base \in Files /\ Group[j.base] = g /\ j.base \notin j.todo
                    /\ Worked(j.base) \/ ~j.baseDone
        BY <3>3, ListedLeans DEF j
      <4> QED BY <1>1, <2>1, <3>1, <4>1 DEF Leans, Worked
    <3> QED BY <3>2, <3>3
  <2>2. CASE ~(ListPending(a) /\ b = a)
    <3>1. job[b][g].step = "none"
      <4>1. CASE b = a
        BY <1>0, <2>2, <4>1 DEF JobsInside, Ingest, StartIngest, SkipIngest, Discover,
           DiscoverFails, ToolsMissing, EndIngest
      <4> QED BY <1>0, <4>1, OthersRest
    <3>2. job'[b][g] = job[b][g]
      BY <2>2 DEF Ingest, StartIngest, SkipIngest, Discover, DiscoverFails, ListPending,
         ToolsMissing, EndIngest, JobsOK
    <3> QED BY <3>1, <3>2 DEF Leans
  <2> QED BY <2>1, <2>2
<1> QED BY <1>1, <1>2, <1>3

LEMMA DeliverKeeps ==
  ASSUME ContentInv, NEW f \in Files, Deliver(f)
  PROVE  Placed' /\ NoContentLost' /\ \A a \in Actors, g \in Groups : Leans(a, g)'
<1>0. RestOK /\ JobsOK
  BY Parts DEF ContentInv
<1>1. /\ f \notin delivered /\ delivered' = delivered \cup {f} /\ disk'[f] = "raw"
      /\ \A h \in Files : h # f => disk'[h] = disk[h]
      /\ UNCHANGED <<delta, rows, durable, pc, job>>
  BY <1>0 DEF Deliver, RestOK
<1>2. \A h \in Files : Worked(h) => Worked(h)'
  BY <1>1 DEF Worked
<1>3. Placed'
  BY <1>1, <1>2 DEF ContentInv, Placed, OnDisk
<1>4. NoContentLost'
  <2> SUFFICES ASSUME NEW S \in SUBSET delivered', S # {}
               PROVE  \E x \in S : HadWithout(S, x)'
    BY DEF NoContentLost
  <2>1. CASE S = {f}
    BY <1>1, <2>1 DEF HadWithout, OnDisk
  <2>2. CASE S # {f}
    <3>1. S \ {f} \in SUBSET delivered /\ S \ {f} # {}
      BY <1>1, <2>2
    <3>2. PICK x \in S \ {f} : HadWithout(S \ {f}, x)
      BY <3>1 DEF ContentInv, NoContentLost
    <3>3. x \in Files /\ disk'[x] = disk[x]
      BY <1>0, <1>1, <3>1, <3>2 DEF RestOK
    <3>4. delivered \ (S \ {f}) \subseteq delivered' \ S
      BY <1>1
    <3> QED BY <1>1, <3>2, <3>3, <3>4 DEF HadWithout, OnDisk
  <2> QED BY <2>1, <2>2
<1>5. ASSUME NEW a \in Actors, NEW g \in Groups
      PROVE  Leans(a, g)'
  <2> DEFINE j == job[a][g]
  <2> SUFFICES ASSUME j.step # "none" PROVE Leans(a, g)'
    BY <1>1 DEF Leans
  <2>1. Leans(a, g) /\ job'[a][g] = j /\ Target(a, g)' = Target(a, g)
    BY <1>1 DEF ContentInv, Target
  <2>2. j.step \in {"verify", "remove"} => Target(a, g) \in Files /\ j.base \in Files
    BY <1>0, <2>1, TargetIsIn DEF JobsOK, JobShape, ShapeOf, Leans
  <2>3. ASSUME j.step = "verify"
        PROVE  (OnDisk(Target(a, g)) \/ Target(a, g) \notin delivered)'
    <3> DEFINE t == Target(a, g)
    <3>1. t \in Files /\ (OnDisk(t) \/ t \notin delivered)
      BY <2>1, <2>2, <2>3 DEF Leans
    <3>2. disk'[t] # "none" \/ t \notin delivered'
      BY <1>1, <3>1 DEF OnDisk
    <3> QED BY <2>1, <3>2 DEF OnDisk
  <2>4. ASSUME j.step = "remove"
        PROVE  OnDisk(j.base)'
    BY <1>0, <1>1, <2>1, <2>2, <2>4 DEF Leans, OnDisk, RestOK
  <2>5. ~(j.single /\ j.step = "queued") =>
          Worked(j.base)' \/ (j.step \in {"queued", "base"} /\ ~j.baseDone)
    BY <1>1, <1>2, <2>1 DEF Leans, Worked
  <2> QED BY <1>1, <2>1, <2>3, <2>4, <2>5 DEF Leans
<1> QED BY <1>3, <1>4, <1>5

LEMMA ContentStep ==
  ASSUME OneAtATime, OneAtATime', ContentInv, [Next]_vars
  PROVE  ContentInv'
<1>0. RestOK /\ JobsOK /\ Placed /\ NoContentLost /\ JobsInside
  BY Parts DEF ContentInv, JobsInside, Leans
<1>1. TypeOK' /\ JobShape'
  BY ShapeStep DEF ContentInv
<1>2. Placed' /\ NoContentLost' /\ \A a \in Actors, g \in Groups : Leans(a, g)'
  <2>1. ASSUME NEW a \in Actors, Ingest(a)
        PROVE  Placed' /\ NoContentLost' /\ \A b \in Actors, g \in Groups : Leans(b, g)'
    <3>1. /\ UNCHANGED <<delivered, disk, delta, durable>>
          /\ \A f \in Files : rows'[f].kind = "base" => rows[f].kind = "base"
          /\ \A b \in Actors, g \in Groups : Leans(b, g)'
      BY <1>0, <2>1, IngestKeeps DEF ContentInv
    <3>2. \A f \in delivered : OnDisk(f) => disk'[f] # "none"
      BY <3>1 DEF OnDisk
    <3>3. NoContentLost'
      BY <1>0, <3>1, <3>2, ContentStays
    <3> QED BY <1>0, <3>1, <3>3 DEF Placed, OnDisk, Worked
  <2>2. ASSUME NEW a \in Actors, NEW g \in Groups, GroupJob(a, g)
        PROVE  Placed' /\ NoContentLost' /\ \A b \in Actors, h \in Groups : Leans(b, h)'
    <3>1. StepKeeps(a, g)
      BY <1>0, <2>2, GroupJobKeeps DEF ContentInv
    <3>2. Placed'
      BY <1>0, <3>1 DEF StepKeeps, StaysPut, Rewrites, Placed, OnDisk, Worked
    <3>3. ASSUME NEW b \in Actors, NEW h \in Groups
          PROVE  Leans(b, h)'
      <4>1. CASE b # a
        <5>1. job'[b] = job[b] /\ job[b][h].step = "none"
          BY <1>0, <2>2, <4>1, OthersWait
        <5> QED BY <5>1 DEF Leans
      <4>2. CASE b = a
        BY <1>0, <3>1, <4>2, OthersLean DEF StepKeeps, ContentInv
      <4> QED BY <4>1, <4>2
    <3> QED BY <3>1, <3>2, <3>3 DEF StepKeeps
  <2>3. CASE \E f \in Files : Deliver(f)
    BY <2>3, DeliverKeeps
  <2>4. CASE UNCHANGED <<delivered, disk, delta>> /\ UNCHANGED <<pc, job>>
             /\ rows' \in {rows, durable} /\ durable' \in {rows, durable}
    <3>1. NoContentLost'
      <4>1. \A f \in delivered : OnDisk(f) => disk'[f] # "none"
        BY <2>4 DEF OnDisk
      <4> QED BY <1>0, <2>4, <4>1, ContentStays
    <3>2. Placed'
      BY <1>0, <2>4 DEF Placed, OnDisk, Worked
    <3>3. \A a \in Actors, g \in Groups : Leans(a, g)'
      BY <2>4 DEF ContentInv, Leans, OnDisk, Worked, Target
    <3> QED BY <3>1, <3>2, <3>3
  <2>5. CASE Restart
    <3>1. NoContentLost'
      <4>1. \A f \in delivered : OnDisk(f) => disk'[f] # "none"
        BY <2>5 DEF Restart, OnDisk
      <4> QED BY <1>0, <2>5, <4>1, ContentStays DEF Restart
    <3>2. Placed'
      BY <1>0, <2>5 DEF Restart, Placed, OnDisk, Worked
    <3>3. \A a \in Actors, g \in Groups : Leans(a, g)'
      BY <2>5 DEF Restart, Leans, NoJob
    <3> QED BY <3>1, <3>2, <3>3
  <2>6. CASE IndexerCommits \/ IndexerRollsBack \/ RequestStop \/ UNCHANGED vars
    BY <2>4, <2>6 DEF IndexerCommits, IndexerRollsBack, RequestStop, ProcessVars, vars
  <2> QED BY <2>1, <2>2, <2>3, <2>5, <2>6 DEF Next
<1> QED BY <1>1, <1>2 DEF ContentInv

\* Every delivered file can be had back at every moment, in the middle of a job too and
\* whatever step of it fails, however often the process restarts or the indexer rolls
\* the rows back, between ingests or in the middle of one.
THEOREM ContentIsKept == Spec /\ []OneAtATime => []NoContentLost
<1>1. Init => ContentInv
  <2> SUFFICES ASSUME Init PROVE ContentInv
    OBVIOUS
  <2>1. TypeOK /\ JobShape
    BY ShapeInit
  <2>2. Placed /\ \A a \in Actors, g \in Groups : Leans(a, g)
    BY DEF Init, Placed, Leans, OnDisk, Absent, NoJob
  <2>3. NoContentLost
    BY DEF Init, NoContentLost
  <2> QED BY <2>1, <2>2, <2>3 DEF ContentInv
<1>2. ContentInv /\ OneAtATime /\ OneAtATime' /\ [Next]_vars => ContentInv'
  BY ContentStep
<1>3. ContentInv => NoContentLost
  BY DEF ContentInv
<1> QED BY <1>1, <1>2, <1>3, PTL DEF Spec
============================================================================
