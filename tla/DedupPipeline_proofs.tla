------------------------ MODULE DedupPipeline_proofs ------------------------
EXTENDS DedupPipeline, TLAPS, FiniteSetTheorems

------------------------------------------------------------------------------
\* The inductive invariant

\* A job works on files of its group, has one while it encodes, verifies, removes
\* or marks, and has a base from the moment a worker takes it.
ShapeOf(j, g) ==
  /\ j.todo \subseteq {f \in Files : Group[f] = g}
  /\ j.step \in {"encode", "verify", "remove", "mark"} => j.todo # {}
  /\ j.step = "queued" /\ j.single => j.todo # {}
  /\ j.step # "none" => j.base \in Files \/ (j.step = "queued" /\ j.single)

JobShape == \A a \in Actors, g \in Groups : ShapeOf(job[a][g], g)

\* The patch a job works on is there, and verified once the original may go.
Held ==
  \A a \in Actors, g \in Groups, f \in Files : OwnsPatch(a, g, f) =>
    /\ delta[f] # NoDelta
    /\ job[a][g].step \in {"remove", "mark"} => delta[f].kind = "whole"

\* The patch of a file stored as a delta is whole, and no job works on it.
Sealed ==
  \A f \in Files : rows[f].kind = "delta" \/ durable[f].kind = "delta" =>
    /\ delta[f].kind = "whole"
    /\ \A a \in Actors, g \in Groups : ~OwnsPatch(a, g, f)

PatchInv == TypeOK /\ JobShape /\ OneOwner /\ Held /\ Sealed

LEMMA SmallestSegment ==
  ASSUME NEW S \in SUBSET Files, S # {}, NEW seg \in [S -> SUBSET S]
  PROVE  \E f \in S : \A g \in S : seg[g] \subseteq seg[f] => seg[g] = seg[f]
<1> DEFINE T == {seg[f] : f \in S}
           R == StrictSubsetOrdering(S)
<1>1. IsWellFoundedOn(R, SUBSET S)
  <2>1. IsFiniteSet(S)
    BY FilesAssumption, FS_Subset
  <2>2. FiniteSubsetsOf(S) = SUBSET S
    BY <2>1, FS_FiniteSubsetsOfFinite
  <2>3. IsWellFoundedOn(R, FiniteSubsetsOf(S))
    BY FS_StrictSubsetOrderingWellFounded
  <2> QED BY <2>2, <2>3
<1>2. T \subseteq SUBSET S /\ T # {}
  OBVIOUS
<1> HIDE DEF T, R
<1>3. PICK t \in T : \A u \in T : <<u, t>> \notin R
  BY <1>1, <1>2, WFMin
<1>4. PICK f \in S : t = seg[f]
  BY <1>3 DEF T
<1>5. ASSUME NEW g \in S, seg[g] \subseteq seg[f]
      PROVE  seg[g] = seg[f]
  <2>1. seg[g] \in T
    BY DEF T
  <2> QED BY <1>3, <1>4, <1>5, <2>1 DEF R, StrictSubsetOrdering
<1> QED BY <1>5

LEMMA EarliestIsIn ==
  ASSUME NEW S \in SUBSET Files, S # {}
  PROVE  Earliest(S) \in S
<1> DEFINE seg == [f \in S |-> {g \in S : Order[g] <= Order[f]}]
<1>1. seg \in [S -> SUBSET S]
  OBVIOUS
<1> HIDE DEF seg
<1>2. PICK f \in S : \A g \in S : seg[g] \subseteq seg[f] => seg[g] = seg[f]
  BY <1>1, SmallestSegment
<1>3. \A g \in S : Order[f] <= Order[g]
  BY <1>2, FilesAssumption DEF seg
<1> QED BY <1>3 DEF Earliest

LEMMA LatestIsIn ==
  ASSUME NEW S \in SUBSET Files, S # {}
  PROVE  Latest(S) \in S
<1> DEFINE seg == [f \in S |-> {g \in S : Order[g] >= Order[f]}]
<1>1. seg \in [S -> SUBSET S]
  OBVIOUS
<1> HIDE DEF seg
<1>2. PICK f \in S : \A g \in S : seg[g] \subseteq seg[f] => seg[g] = seg[f]
  BY <1>1, SmallestSegment
<1>3. \A g \in S : Order[f] >= Order[g]
  BY <1>2, FilesAssumption DEF seg
<1> QED BY <1>3 DEF Latest

------------------------------------------------------------------------------
\* What the helpers of the actions do to the rows and to the jobs

JobsOK == job \in [Actors -> [Groups -> Job]] /\ JobShape

LEMMA RowUpdate ==
  ASSUME rows \in [Files -> Row], NEW f \in Files
  PROVE  /\ \A s \in Status : WithStatus(f, s) \in [Files -> Row]
         /\ \A k \in Kind, b \in Files \cup {NoFile} : Done(f, k, b) \in [Files -> Row]
<1>1. \A row \in Row : Update(f, row) \in [Files -> Row]
  BY DEF Update
<1>2. \A s \in Status : [rows[f] EXCEPT !.status = s] \in Row
  BY DEF Row
<1>3. \A k \in Kind, b \in Files \cup {NoFile} :
        [status |-> "done", kind |-> k, base |-> b] \in Row
  BY DEF Row, Status
<1> QED BY <1>1, <1>2, <1>3 DEF WithStatus, Done

LEMMA OneJobShape ==
  ASSUME JobsOK, NEW a \in Actors, NEW g \in Groups, NEW j \in Job, ShapeOf(j, g),
         job' = [job EXCEPT ![a] = [job[a] EXCEPT ![g] = j]]
  PROVE  JobsOK'
<1>1. job' \in [Actors -> [Groups -> Job]]
  BY DEF JobsOK
<1>2. ASSUME NEW b \in Actors, NEW h \in Groups
      PROVE  ShapeOf(job'[b][h], h)
  BY DEF JobsOK, JobShape
<1> QED BY <1>1, <1>2 DEF JobsOK, JobShape

LEMMA GotoShape ==
  ASSUME JobsOK, NEW a \in Actors, NEW g \in Groups, NEW s \in Steps \ {"none", "queued"},
         Base(a, g) \in Files, Goto(a, g, s),
         s \in {"encode", "verify", "remove", "mark"} => job[a][g].todo # {}
  PROVE  JobsOK'
<1> DEFINE j == [job[a][g] EXCEPT !.step = s]
<1>1. job[a][g] \in Job /\ ShapeOf(job[a][g], g)
  BY DEF JobsOK, JobShape
<1>2. j \in Job /\ ShapeOf(j, g)
  BY <1>1 DEF ShapeOf, Job, Base
<1>3. job' = [job EXCEPT ![a] = [job[a] EXCEPT ![g] = j]]
  BY DEF Goto, JobsOK, Job
<1> QED BY <1>2, <1>3, OneJobShape

LEMMA EndJobShape ==
  ASSUME JobsOK, NEW a \in Actors, NEW g \in Groups, EndJob(a, g)
  PROVE  JobsOK'
<1>1. NoJob \in Job /\ ShapeOf(NoJob, g)
  BY DEF NoJob, Job, Steps, ShapeOf
<1>2. job' = [job EXCEPT ![a] = [job[a] EXCEPT ![g] = NoJob]]
  BY DEF EndJob, JobsOK
<1> QED BY <1>1, <1>2, OneJobShape

LEMMA DropTargetShape ==
  ASSUME JobsOK, NEW a \in Actors, NEW g \in Groups, Base(a, g) \in Files, DropTarget(a, g)
  PROVE  JobsOK'
<1> DEFINE j == [job[a][g] EXCEPT !.step = "targets",
                                  !.todo = job[a][g].todo \ {Target(a, g)}]
<1>1. job[a][g] \in Job /\ ShapeOf(job[a][g], g)
  BY DEF JobsOK, JobShape
<1>2. j \in Job /\ ShapeOf(j, g)
  BY <1>1 DEF ShapeOf, Job, Base, Steps
<1>3. job' = [job EXCEPT ![a] = [job[a] EXCEPT ![g] = j]]
  BY DEF DropTarget, JobsOK, Job
<1> QED BY <1>2, <1>3, OneJobShape

LEMMA TargetIsIn ==
  ASSUME JobsOK, NEW a \in Actors, NEW g \in Groups, job[a][g].todo # {}
  PROVE  Target(a, g) \in job[a][g].todo /\ Target(a, g) \in Files
BY EarliestIsIn DEF JobsOK, JobShape, ShapeOf, Target

LEMMA JobForShape ==
  ASSUME TypeOK, NEW a \in Actors, NEW g \in Groups, Members(a, g) # {}
  PROVE  LET j == JobFor(Members(a, g)) IN
           /\ j \in Job /\ j.step = "queued"
           /\ j.todo \subseteq {f \in Files : Group[f] = g}
           /\ IF j.single THEN j.todo # {} ELSE j.base \in Files
<1> DEFINE S == Members(a, g)
<1>1. S \in SUBSET Files /\ \A f \in S : Group[f] = g
  BY ConfigAssumption DEF Members
<1>2. Expanded(S) \in SUBSET Files /\ Expanded(S) # {}
  <2>1. Anchors(S) \in SUBSET Files
    BY DEF Anchors
  <2> QED BY <1>1, <2>1, EarliestIsIn DEF Expanded
<1>3. Earliest(Expanded(S)) \in Files
  BY <1>2, EarliestIsIn
<1>4. StartsWithBase(S) \in BOOLEAN
  BY DEF StartsWithBase
<1> QED BY <1>1, <1>3, <1>4 DEF JobFor, Targets, NoJob, Job, Steps

------------------------------------------------------------------------------
\* Types and the shape of jobs

Facts(a, g) ==
  /\ job[a][g] \in Job
  /\ job[a][g].step \notin {"none", "queued"} => Base(a, g) \in Files
  /\ job[a][g].todo # {} => Target(a, g) \in Files

LEMMA JobFacts ==
  ASSUME JobsOK, NEW a \in Actors, NEW g \in Groups
  PROVE  Facts(a, g)
BY TargetIsIn DEF Facts, JobsOK, JobShape, ShapeOf, Base

LEMMA ShapeInit == Init => TypeOK /\ JobShape
<1> SUFFICES ASSUME Init PROVE TypeOK /\ JobShape
  OBVIOUS
<1>1. NoJob \in Job /\ \A g \in Groups : ShapeOf(NoJob, g)
  BY DEF NoJob, Job, Steps, ShapeOf
<1>2. NoDelta \in Delta /\ Absent \in Row
  BY DEF Delta, Absent, Row, Status, Kind
<1> QED BY <1>1, <1>2, ConfigAssumption DEF Init, TypeOK, JobShape

LEMMA SpendType ==
  ASSUME budget \in [Bounds -> Nat], NEW b \in Bounds, Spend(b)
  PROVE  budget' \in [Bounds -> Nat]
BY DEF Spend

\* The part of TypeOK that is not about the jobs.
RestOK ==
  /\ delivered \subseteq Files
  /\ disk \in [Files -> Forms \cup {"none"}]
  /\ delta \in [Files -> Delta]
  /\ rows \in [Files -> Row]
  /\ durable \in [Files -> Row]
  /\ pc \in [Actors -> {"idle", "count", "list", "groups"}]
  /\ stop \in BOOLEAN
  /\ budget \in [Bounds -> Nat]

LEMMA Parts == TypeOK /\ JobShape <=> RestOK /\ JobsOK
BY DEF TypeOK, RestOK, JobsOK

LEMMA IngestShape ==
  ASSUME RestOK, JobsOK, NEW a \in Actors, Ingest(a)
  PROVE  RestOK' /\ JobsOK'
<1> USE DEF RestOK, IngestVars, Enter
<1> Fresh \in Row /\ \A f \in Files : [rows[f] EXCEPT !.status = "pending"] \in Row
  BY DEF Fresh, Absent, Row, Status, Kind
<1> \A S : Register(S) => rows' \in [Files -> Row]
  BY DEF Register
<1>0. UNCHANGED job => JobsOK'
  BY DEF JobsOK, JobShape
<1>1. CASE StartIngest(a)
  BY <1>0, <1>1 DEF StartIngest
<1>2. CASE SkipIngest(a)
  BY <1>0, <1>2 DEF SkipIngest
<1>3. CASE Discover(a)
  BY <1>0, <1>3 DEF Discover
<1>4. CASE DiscoverFails(a)
  BY <1>0, <1>4, SpendType DEF DiscoverFails, Bounds
<1>5. CASE ListPending(a)
  <2>1. RestOK'
    BY <1>5 DEF ListPending
  <2>2. JobsOK'
    <3> DEFINE list == [g \in Groups |-> IF Members(a, g) = {} THEN NoJob
                                          ELSE JobFor(Members(a, g))]
    <3>1. ASSUME NEW g \in Groups
          PROVE  list[g] \in Job /\ ShapeOf(list[g], g)
      <4>1. TypeOK
        BY Parts
      <4>2. CASE Members(a, g) = {}
        BY <4>2 DEF NoJob, Job, Steps, ShapeOf
      <4>3. CASE Members(a, g) # {}
        BY <4>1, <4>3, JobForShape DEF ShapeOf
      <4> QED BY <4>2, <4>3
    <3>2. job' = [job EXCEPT ![a] = list]
      BY <1>5 DEF ListPending
    <3> HIDE DEF list
    <3>3. list \in [Groups -> Job]
      BY <3>1 DEF list
    <3>4. job' \in [Actors -> [Groups -> Job]]
      BY <3>2, <3>3 DEF JobsOK
    <3>5. ASSUME NEW b \in Actors, NEW g \in Groups
          PROVE  ShapeOf(job'[b][g], g)
      BY <3>1, <3>2 DEF JobsOK, JobShape
    <3> QED BY <3>4, <3>5 DEF JobsOK, JobShape
  <2> QED BY <2>1, <2>2
<1>6. CASE ToolsMissing(a)
  BY <1>0, <1>6, SpendType DEF ToolsMissing, Bounds
<1>7. CASE EndIngest(a)
  BY <1>0, <1>7 DEF EndIngest
<1> QED BY <1>1, <1>2, <1>3, <1>4, <1>5, <1>6, <1>7 DEF Ingest

LEMMA FailTargetShape ==
  ASSUME RestOK, JobsOK, NEW a \in Actors, NEW g \in Groups,
         job[a][g].todo # {}, Base(a, g) \in Files,
         FailTarget(a, g) \/ DeferTarget(a, g)
  PROVE  rows' \in [Files -> Row] /\ JobsOK'
<1>1. Target(a, g) \in Files
  BY TargetIsIn
<1>2. rows' \in [Files -> Row]
  BY <1>1, RowUpdate DEF FailTarget, DeferTarget, RestOK, Status
<1>3. DropTarget(a, g)
  BY DEF FailTarget, DeferTarget
<1> QED BY <1>2, <1>3, DropTargetShape

LEMMA StartSingletonShape ==
  ASSUME RestOK, JobsOK, NEW a \in Actors, NEW g \in Groups, StartSingleton(a, g)
  PROVE  RestOK' /\ JobsOK'
<1> DEFINE f == Earliest(job[a][g].todo)
<1>1. job[a][g] \in Job /\ ShapeOf(job[a][g], g) /\ job[a][g].todo # {}
  BY DEF JobsOK, JobShape, ShapeOf, StartSingleton, MayStart, At
<1>2. f \in Files
  BY <1>1, EarliestIsIn DEF Job
<1>3. rows' \in [Files -> Row]
  BY <1>2, RowUpdate DEF RestOK, StartSingleton, Status, Kind
<1>4. JobsOK'
  <2>1. CASE GroupBases(f) # {}
    <3> DEFINE j == [job[a][g] EXCEPT !.step = "targets", !.base = Latest(GroupBases(f))]
    <3>1. Latest(GroupBases(f)) \in Files
      BY <2>1, LatestIsIn DEF GroupBases
    <3>2. j \in Job /\ ShapeOf(j, g)
      BY <1>1, <3>1 DEF Job, ShapeOf, Steps
    <3>3. job' = [job EXCEPT ![a] = [job[a] EXCEPT ![g] = j]]
      BY <2>1 DEF StartSingleton, JobsOK, Job
    <3> QED BY <3>2, <3>3, OneJobShape
  <2>2. CASE GroupBases(f) = {}
    BY <2>2, EndJobShape DEF StartSingleton
  <2> QED BY <2>1, <2>2
<1> QED BY <1>3, <1>4 DEF RestOK, StartSingleton, JobVars

\* The raise out of the pool ends the job and those that wait.
LEMMA RaiseShape ==
  ASSUME JobsOK, NEW a \in Actors, NEW g \in Groups,
         job' = [job EXCEPT ![a] =
                  [h \in Groups |-> IF h = g \/ At(a, h, "queued") THEN NoJob ELSE job[a][h]]]
  PROVE  JobsOK'
<1>1. NoJob \in Job /\ \A h \in Groups : ShapeOf(NoJob, h)
  BY DEF NoJob, Job, Steps, ShapeOf
<1>2. job' \in [Actors -> [Groups -> Job]]
  BY <1>1 DEF JobsOK
<1>3. ASSUME NEW b \in Actors, NEW h \in Groups
      PROVE  ShapeOf(job'[b][h], h)
  BY <1>1 DEF JobsOK, JobShape
<1> QED BY <1>2, <1>3 DEF JobsOK, JobShape

LEMMA GroupJobShape ==
  ASSUME RestOK, JobsOK, NEW a \in Actors, NEW g \in Groups, GroupJob(a, g)
  PROVE  RestOK' /\ JobsOK'
<1> USE DEF RestOK, JobVars, At
<1> Facts(a, g)
  BY JobFacts
<1> {"base", "markBase", "targets", "encode", "verify", "remove", "mark", "compress"}
      \subseteq Steps \ {"none", "queued"}
  BY DEF Steps
<1>1. CASE StartGroup(a, g)
  <2>1. Base(a, g) \in Files
    BY <1>1 DEF StartGroup, MayStart, JobsOK, JobShape, ShapeOf, Base
  <2> QED BY <1>1, <2>1, GotoShape DEF StartGroup
<1>2. CASE StartSingleton(a, g)
  BY <1>2, StartSingletonShape
<1>3. CASE CancelJob(a, g)
  BY <1>3, EndJobShape DEF CancelJob
<1>4. CASE RejectBase(a, g)
  BY <1>4, EndJobShape, RowUpdate DEF RejectBase, Facts, Status
<1>5. CASE AbandonGroup(a, g)
  BY <1>5, EndJobShape DEF AbandonGroup
<1>6. CASE ReuseBase(a, g)
  BY <1>6, GotoShape DEF ReuseBase, Facts
<1>7. CASE PreprocessBase(a, g)
  BY <1>7, GotoShape, EndJobShape, RowUpdate, SpendType
     DEF PreprocessBase, Facts, Status, Forms, Bounds
<1>8. CASE MarkBase(a, g)
  BY <1>8, GotoShape, RowUpdate DEF MarkBase, Facts, Kind
<1>9. CASE EndTargets(a, g)
  BY <1>9, GotoShape, EndJobShape DEF EndTargets, Facts
<1>10. CASE PrepareTarget(a, g)
  BY <1>10, GotoShape, FailTargetShape DEF PrepareTarget, HasTarget, Facts
<1>11. CASE Encode(a, g)
  <2>1. job[a][g].todo # {} /\ Base(a, g) \in Files /\ Target(a, g) \in Files
    BY <1>11 DEF Encode, Facts, JobsOK, JobShape, ShapeOf
  <2>2. Against(Base(a, g), disk[Base(a, g)]) \in Delta
    BY <2>1 DEF Against, Delta
  <2> QED BY <1>11, <2>1, <2>2, GotoShape, FailTargetShape DEF Encode
<1>12. CASE EncodeWrong(a, g)
  <2>1. job[a][g].todo # {} /\ Base(a, g) \in Files
    BY <1>12 DEF EncodeWrong, Facts, JobsOK, JobShape, ShapeOf
  <2>2. Broken \in Delta
    BY DEF Delta
  <2> QED BY <1>12, <2>1, <2>2, GotoShape, SpendType DEF EncodeWrong, Bounds
<1>13. CASE Verify(a, g)
  <2>1. job[a][g].todo # {} /\ Base(a, g) \in Files
    BY <1>13 DEF Verify, Facts, JobsOK, JobShape, ShapeOf
  <2>2. NoDelta \in Delta
    BY DEF Delta
  <2> QED BY <1>13, <2>1, <2>2, GotoShape, FailTargetShape DEF Verify
<1>14. CASE TargetInterrupted(a, g)
  <2>1. job[a][g].todo # {} /\ Base(a, g) \in Files
    BY <1>14 DEF TargetInterrupted, Facts, JobsOK, JobShape, ShapeOf
  <2>2. Broken \in Delta
    BY DEF Delta
  <2>3. budget' \in [Bounds -> Nat]
    BY <1>14, SpendType DEF TargetInterrupted, Bounds
  <2>4. delta' \in [Files -> Delta]
    BY <1>14, <2>2 DEF TargetInterrupted
  <2>5. rows' \in [Files -> Row] /\ JobsOK'
    BY <1>14, <2>1, FailTargetShape DEF TargetInterrupted
  <2> QED BY <1>14, <2>3, <2>4, <2>5 DEF TargetInterrupted
<1>15. CASE RemoveOriginal(a, g)
  <2>1. job[a][g].todo # {} /\ Base(a, g) \in Files
    BY <1>15 DEF RemoveOriginal, Facts, JobsOK, JobShape, ShapeOf
  <2> QED BY <1>15, <2>1, GotoShape, FailTargetShape DEF RemoveOriginal
<1>16. CASE MarkDelta(a, g)
  <2>1. job[a][g].todo # {} /\ Base(a, g) \in Files /\ Target(a, g) \in Files
    BY <1>16 DEF MarkDelta, Facts, JobsOK, JobShape, ShapeOf
  <2> QED BY <1>16, <2>1, RowUpdate, DropTargetShape, FailTargetShape DEF MarkDelta, Kind
<1>17. CASE FinishGroup(a, g)
  <2>1. Base(a, g) \in Files
    BY <1>17 DEF FinishGroup, Facts
  <2>2. budget' \in [Bounds -> Nat]
    BY <1>17, SpendType DEF FinishGroup, Bounds
  <2>3. rows' \in [Files -> Row]
    BY <1>17, <2>1, RowUpdate DEF FinishGroup, Status
  <2>4. disk' \in [Files -> Forms \cup {"none"}]
    BY <1>17 DEF FinishGroup, Forms
  <2>5. JobsOK'
    BY <1>17, EndJobShape, RaiseShape DEF FinishGroup
  <2> QED BY <1>17, <2>2, <2>3, <2>4, <2>5 DEF FinishGroup
<1> QED BY <1>1, <1>2, <1>3, <1>4, <1>5, <1>6, <1>7, <1>8, <1>9, <1>10, <1>11, <1>12,
           <1>13, <1>14, <1>15, <1>16, <1>17 DEF GroupJob

LEMMA ProcessShape ==
  ASSUME RestOK, JobsOK,
         \/ \E f \in Files : Deliver(f)
         \/ IndexerCommits \/ IndexerRollsBack \/ RequestStop \/ Restart
  PROVE  RestOK' /\ JobsOK'
<1> USE DEF RestOK, ProcessVars
<1>0. UNCHANGED job => JobsOK'
  BY DEF JobsOK, JobShape
<1>1. CASE \E f \in Files : Deliver(f)
  BY <1>0, <1>1 DEF Deliver, Forms
<1>2. CASE IndexerCommits
  BY <1>0, <1>2, SpendType DEF IndexerCommits, Bounds
<1>3. CASE IndexerRollsBack
  BY <1>0, <1>3, SpendType DEF IndexerRollsBack, Bounds
<1>4. CASE RequestStop
  BY <1>0, <1>4, SpendType DEF RequestStop, Bounds
<1>5. CASE Restart
  <2>1. NoJob \in Job /\ \A g \in Groups : ShapeOf(NoJob, g)
    BY DEF NoJob, Job, Steps, ShapeOf
  <2>2. JobsOK'
    BY <1>5, <2>1 DEF Restart, JobsOK, JobShape
  <2> QED BY <1>5, <2>2, SpendType DEF Restart, Bounds
<1> QED BY <1>1, <1>2, <1>3, <1>4, <1>5

LEMMA ShapeStep ==
  ASSUME TypeOK, JobShape, [Next]_vars
  PROVE  TypeOK' /\ JobShape'
<1>0. RestOK /\ JobsOK
  BY Parts
<1>1. CASE UNCHANGED vars
  BY <1>1 DEF vars, TypeOK, JobShape, ShapeOf
<1>2. CASE Next
  <2>1. RestOK' /\ JobsOK'
    BY <1>0, <1>2, IngestShape, GroupJobShape, ProcessShape DEF Next
  <2> QED BY <2>1 DEF TypeOK, RestOK, JobsOK, JobShape
<1> QED BY <1>1, <1>2

\* Every variable keeps its type, whatever the actors, the groups and the budgets.
THEOREM TypeCorrect == Spec => []TypeOK
<1>1. Init => TypeOK /\ JobShape
  BY ShapeInit
<1>2. TypeOK /\ JobShape /\ [Next]_vars => (TypeOK /\ JobShape)'
  BY ShapeStep
<1> QED BY <1>1, <1>2, PTL DEF Spec

------------------------------------------------------------------------------
\* Patches: who owns one, and when it is final

\* The jobs other than (a, g) own after the step what they owned before.
OthersKeep(a, g) ==
  \A b \in Actors, h \in Groups, f \in Files : (b # a \/ h # g) /\ OwnsPatch(b, h, f)' =>
    OwnsPatch(b, h, f) /\ job'[b][h].step = job[b][h].step

\* What a step of a job may do to the patches: it goes on with the patch it owns or
\* takes one that was not there, and touches no other.
OwnSteps(a, g) ==
  /\ \A f \in Files : OwnsPatch(a, g, f)' =>
       /\ OwnsPatch(a, g, f) \/ delta[f] = NoDelta
       /\ delta'[f] # NoDelta
       /\ job'[a][g].step \in {"remove", "mark"} => delta'[f].kind = "whole"
  /\ \A f \in Files : delta'[f] # delta[f] => delta[f] = NoDelta \/ OwnsPatch(a, g, f)

\* And to the rows: a file becomes a delta only when its owner lets go of a whole patch.
Seals(a, g) ==
  \A f \in Files : rows'[f].kind = "delta" =>
    \/ rows[f].kind = "delta"
    \/ /\ delta'[f] = delta[f] /\ delta[f].kind = "whole"
       /\ OwnsPatch(a, g, f) /\ ~OwnsPatch(a, g, f)'

PatchesOK == OneOwner /\ Held /\ Sealed

LEMMA JobKeepsPatches ==
  ASSUME PatchesOK, NEW a \in Actors, NEW g \in Groups,
         OthersKeep(a, g), OwnSteps(a, g), Seals(a, g), durable' = durable
  PROVE  PatchesOK'
<1>1. ASSUME NEW b \in Actors, NEW h \in Groups, NEW f \in Files,
             b # a \/ h # g, OwnsPatch(b, h, f)
      PROVE  ~OwnsPatch(a, g, f) /\ delta[f] # NoDelta /\ delta'[f] = delta[f]
  BY <1>1 DEF PatchesOK, OneOwner, Held, OwnSteps
<1>2. OneOwner'
  <2> SUFFICES ASSUME NEW b \in Actors, NEW c \in Actors, NEW h \in Groups, NEW i \in Groups,
                      NEW f \in Files, OwnsPatch(b, h, f)', OwnsPatch(c, i, f)'
               PROVE  b = c /\ h = i
    BY DEF OneOwner
  <2>1. CASE (b = a /\ h = g) /\ (c # a \/ i # g)
    BY <1>1, <2>1 DEF OthersKeep, OwnSteps
  <2>2. CASE (b # a \/ h # g) /\ (c = a /\ i = g)
    BY <1>1, <2>2 DEF OthersKeep, OwnSteps
  <2>3. CASE (b # a \/ h # g) /\ (c # a \/ i # g)
    BY <2>3 DEF OthersKeep, PatchesOK, OneOwner
  <2> QED BY <2>1, <2>2, <2>3
<1>3. Held'
  <2> SUFFICES ASSUME NEW b \in Actors, NEW h \in Groups, NEW f \in Files, OwnsPatch(b, h, f)'
               PROVE  /\ delta'[f] # NoDelta
                      /\ job'[b][h].step \in {"remove", "mark"} => delta'[f].kind = "whole"
    BY DEF Held, NoDelta
  <2>1. CASE b = a /\ h = g
    BY <2>1 DEF OwnSteps
  <2>2. CASE b # a \/ h # g
    BY <1>1, <2>2 DEF OthersKeep, PatchesOK, Held
  <2> QED BY <2>1, <2>2
<1>4. Sealed'
  <2> SUFFICES ASSUME NEW f \in Files, rows'[f].kind = "delta" \/ durable'[f].kind = "delta"
               PROVE  /\ delta'[f].kind = "whole"
                      /\ \A b \in Actors, h \in Groups : ~OwnsPatch(b, h, f)'
    BY DEF Sealed, OwnsPatch, Target
  <2>1. CASE rows[f].kind = "delta" \/ durable[f].kind = "delta"
    <3>1. /\ delta[f].kind = "whole"
          /\ \A b \in Actors, h \in Groups : ~OwnsPatch(b, h, f)
      BY <2>1 DEF PatchesOK, Sealed
    <3>2. delta[f] # NoDelta
      BY <3>1 DEF NoDelta
    <3> QED BY <3>1, <3>2 DEF OwnSteps, OthersKeep
  <2>2. CASE ~(rows[f].kind = "delta" \/ durable[f].kind = "delta")
    BY <1>1, <2>2 DEF Seals, OthersKeep
  <2> QED BY <2>1, <2>2
<1> QED BY <1>2, <1>3, <1>4 DEF PatchesOK

\* A step that gives no job a patch, leaves the patches alone and marks no delta that
\* neither table had.
LEMMA OthersKeepPatches ==
  ASSUME PatchesOK, delta' = delta,
         \A a \in Actors, g \in Groups, f \in Files : OwnsPatch(a, g, f)' =>
           OwnsPatch(a, g, f) /\ job'[a][g].step = job[a][g].step,
         \A f \in Files : rows'[f].kind = "delta" \/ durable'[f].kind = "delta" =>
           rows[f].kind = "delta" \/ durable[f].kind = "delta"
  PROVE  PatchesOK'
<1>1. OneOwner'
  BY DEF PatchesOK, OneOwner
<1>2. Held'
  BY DEF PatchesOK, Held, NoDelta
<1>3. Sealed'
  BY DEF PatchesOK, Sealed
<1> QED BY <1>1, <1>2, <1>3 DEF PatchesOK

LEMMA RowKinds ==
  ASSUME rows \in [Files -> Row], NEW f \in Files, NEW h \in Files
  PROVE  /\ \A s \in Status : WithStatus(f, s)[h].kind = rows[h].kind
         /\ \A k \in Kind, b \in Files \cup {NoFile} :
              Done(f, k, b)[h].kind = "delta" => rows[h].kind = "delta" \/ (k = "delta" /\ h = f)
BY DEF WithStatus, Done, Update, Row

LEMMA GotoOwner ==
  ASSUME JobsOK, NEW a \in Actors, NEW g \in Groups, NEW s \in Steps, Goto(a, g, s)
  PROVE  /\ OthersKeep(a, g)
         /\ job'[a][g].step = s
         /\ \A f \in Files : OwnsPatch(a, g, f)' <=>
              s \in {"verify", "remove", "mark"} /\ job[a][g].todo # {} /\ Target(a, g) = f
BY DEF JobsOK, Job, Goto, OthersKeep, OwnsPatch, Target

LEMMA EndJobOwner ==
  ASSUME JobsOK, NEW a \in Actors, NEW g \in Groups, EndJob(a, g) \/ DropTarget(a, g)
  PROVE  OthersKeep(a, g) /\ \A f \in Files : ~OwnsPatch(a, g, f)'
BY DEF JobsOK, Job, EndJob, DropTarget, NoJob, OthersKeep, OwnsPatch, Target

\* A step that leaves the patches alone and lets go of the job's own, or never had it.
LEMMA LettingGo ==
  ASSUME NEW a \in Actors, NEW g \in Groups,
         \A f \in Files : ~OwnsPatch(a, g, f)',
         \A f \in Files : delta'[f] # delta[f] => delta[f] = NoDelta \/ OwnsPatch(a, g, f)
  PROVE  OwnSteps(a, g)
BY DEF OwnSteps

LEMMA KindsKept ==
  ASSUME NEW a \in Actors, NEW g \in Groups,
         \A f \in Files : rows'[f].kind = "delta" => rows[f].kind = "delta"
  PROVE  Seals(a, g)
BY DEF Seals

LEMMA FailTargetKeeps ==
  ASSUME RestOK, JobsOK, NEW a \in Actors, NEW g \in Groups, job[a][g].todo # {},
         FailTarget(a, g) \/ DeferTarget(a, g)
  PROVE  /\ OthersKeep(a, g) /\ Seals(a, g)
         /\ \A f \in Files : ~OwnsPatch(a, g, f)'
<1>1. Target(a, g) \in Files
  BY TargetIsIn
<1>2. \A f \in Files : rows'[f].kind = rows[f].kind
  BY <1>1, RowKinds DEF FailTarget, DeferTarget, RestOK, Status
<1> QED BY <1>2, KindsKept, EndJobOwner DEF FailTarget, DeferTarget

\* The steps of a job that work on no patch.
LEMMA BaseStepKeeps ==
  ASSUME RestOK, JobsOK, NEW a \in Actors, NEW g \in Groups,
         \/ StartGroup(a, g) \/ StartSingleton(a, g) \/ CancelJob(a, g) \/ RejectBase(a, g)
         \/ AbandonGroup(a, g) \/ ReuseBase(a, g) \/ PreprocessBase(a, g) \/ MarkBase(a, g)
         \/ EndTargets(a, g) \/ PrepareTarget(a, g) \/ FinishGroup(a, g)
  PROVE  OthersKeep(a, g) /\ OwnSteps(a, g) /\ Seals(a, g)
<1> Facts(a, g)
  BY JobFacts
<1> {"base", "markBase", "targets", "encode", "compress"} \subseteq Steps
  BY DEF Steps
<1> {"error", "deferred"} \subseteq Status /\ Kind = {"full", "base", "delta"}
  BY DEF Status, Kind
<1> rows \in [Files -> Row]
  BY DEF RestOK
<1> SUFFICES ASSUME delta' = delta
             PROVE  /\ OthersKeep(a, g) /\ Seals(a, g)
                    /\ \A f \in Files : ~OwnsPatch(a, g, f)'
  BY LettingGo DEF StartGroup, StartSingleton, CancelJob, RejectBase, AbandonGroup, ReuseBase,
       PreprocessBase, MarkBase, EndTargets, PrepareTarget, FinishGroup
<1>1. CASE StartGroup(a, g)
  BY <1>1, GotoOwner, KindsKept DEF StartGroup
<1>2. CASE StartSingleton(a, g)
  <2> DEFINE f == Earliest(job[a][g].todo)
  <2>1. f \in Files
    BY <1>2, EarliestIsIn DEF JobsOK, JobShape, ShapeOf, StartSingleton, MayStart, At, Job
  <2>2. \A h \in Files : rows'[h].kind = "delta" => rows[h].kind = "delta"
    BY <1>2, <2>1, RowKinds DEF StartSingleton
  <2>3. CASE GroupBases(f) # {}
    <3>1. job' = [job EXCEPT ![a][g].step = "targets", ![a][g].base = Latest(GroupBases(f))]
      BY <1>2, <2>3 DEF StartSingleton
    <3>2. OthersKeep(a, g) /\ \A h \in Files : ~OwnsPatch(a, g, h)'
      BY <3>1 DEF JobsOK, Job, OthersKeep, OwnsPatch, Target
    <3> QED BY <2>2, <3>2, KindsKept
  <2>4. CASE GroupBases(f) = {}
    BY <1>2, <2>2, <2>4, EndJobOwner, KindsKept DEF StartSingleton
  <2> QED BY <2>3, <2>4
<1>3. CASE CancelJob(a, g)
  BY <1>3, EndJobOwner, KindsKept DEF CancelJob
<1>4. CASE RejectBase(a, g)
  BY <1>4, EndJobOwner, KindsKept, RowKinds DEF RejectBase, Facts, At
<1>5. CASE AbandonGroup(a, g)
  BY <1>5, EndJobOwner, KindsKept DEF AbandonGroup
<1>6. CASE ReuseBase(a, g)
  BY <1>6, GotoOwner, KindsKept DEF ReuseBase
<1>7. CASE PreprocessBase(a, g)
  <2>1. \A h \in Files : rows'[h].kind = rows[h].kind
    BY <1>7, RowKinds DEF PreprocessBase, Facts, At
  <2>2. OthersKeep(a, g) /\ \A f \in Files : ~OwnsPatch(a, g, f)'
    <3> Goto(a, g, "markBase") \/ EndJob(a, g)
      BY <1>7 DEF PreprocessBase
    <3> QED BY GotoOwner, EndJobOwner
  <2> QED BY <2>1, <2>2, KindsKept
<1>8. CASE MarkBase(a, g)
  BY <1>8, GotoOwner, KindsKept, RowKinds DEF MarkBase, Facts, At
<1>9. CASE EndTargets(a, g)
  BY <1>9, GotoOwner, EndJobOwner, KindsKept DEF EndTargets
<1>10. CASE PrepareTarget(a, g)
  BY <1>10, GotoOwner, FailTargetKeeps, KindsKept DEF PrepareTarget, HasTarget
<1>11. CASE FinishGroup(a, g)
  <2>1. \A h \in Files : rows'[h].kind = rows[h].kind
    BY <1>11, RowKinds DEF FinishGroup, Facts, At
  <2>2. CASE EndJob(a, g)
    BY <2>1, <2>2, EndJobOwner, KindsKept
  <2>3. CASE job' = [job EXCEPT ![a] =
               [h \in Groups |-> IF h = g \/ At(a, h, "queued") THEN NoJob ELSE job[a][h]]]
    <3>1. OthersKeep(a, g) /\ \A f \in Files : ~OwnsPatch(a, g, f)'
      BY <2>3 DEF JobsOK, Job, NoJob, OthersKeep, OwnsPatch, Target
    <3> QED BY <2>1, <3>1, KindsKept
  <2> QED BY <1>11, <2>2, <2>3 DEF FinishGroup
<1> QED BY <1>1, <1>2, <1>3, <1>4, <1>5, <1>6, <1>7, <1>8, <1>9, <1>10, <1>11

\* The steps of a job that work on the patch of its target.
LEMMA TargetStepKeeps ==
  ASSUME RestOK, JobsOK, PatchesOK, NEW a \in Actors, NEW g \in Groups,
         \/ Encode(a, g) \/ EncodeWrong(a, g) \/ Verify(a, g) \/ TargetInterrupted(a, g)
         \/ RemoveOriginal(a, g) \/ MarkDelta(a, g)
  PROVE  OthersKeep(a, g) /\ OwnSteps(a, g) /\ Seals(a, g)
<1> DEFINE t == Target(a, g)
<1> rows \in [Files -> Row] /\ delta \in [Files -> Delta]
  BY DEF RestOK
<1> {"verify", "remove", "mark"} \subseteq Steps
  BY DEF Steps
<1>0. job[a][g].todo # {} /\ t \in Files
  BY TargetIsIn DEF JobsOK, JobShape, ShapeOf, At, Encode, EncodeWrong, Verify,
     TargetInterrupted, RemoveOriginal, MarkDelta
<1>1. job[a][g].step \in {"verify", "remove", "mark"} =>
        /\ OwnsPatch(a, g, t) /\ delta[t] # NoDelta
        /\ job[a][g].step \in {"remove", "mark"} => delta[t].kind = "whole"
  BY <1>0 DEF OwnsPatch, PatchesOK, Held
<1>2. (FailTarget(a, g) \/ DeferTarget(a, g)) /\ (\A f \in Files : delta'[f] # delta[f] =>
         delta[f] = NoDelta \/ OwnsPatch(a, g, f))
      => OthersKeep(a, g) /\ OwnSteps(a, g) /\ Seals(a, g)
  BY <1>0, FailTargetKeeps, LettingGo
<1>3. CASE Encode(a, g)
  <2>1. CASE delta[t] # NoDelta \/ ~OnDisk(Base(a, g))
    BY <1>2, <1>3, <2>1 DEF Encode
  <2>2. CASE ~(delta[t] # NoDelta \/ ~OnDisk(Base(a, g)))
    <3>1. /\ delta' = [delta EXCEPT ![t] = Against(Base(a, g), disk[Base(a, g)])]
          /\ Goto(a, g, "verify") /\ rows' = rows /\ delta[t] = NoDelta
      BY <1>3, <2>2 DEF Encode
    <3>2. Against(Base(a, g), disk[Base(a, g)]) # NoDelta
      BY DEF Against, NoDelta
    <3> QED BY <1>0, <3>1, <3>2, GotoOwner, KindsKept DEF OwnSteps
  <2> QED BY <2>1, <2>2
<1>4. CASE EncodeWrong(a, g)
  <2>1. /\ delta' = [delta EXCEPT ![t] = Broken]
        /\ Goto(a, g, "verify") /\ rows' = rows /\ delta[t] = NoDelta
    BY <1>4 DEF EncodeWrong
  <2>2. Broken # NoDelta
    BY DEF Broken, NoDelta
  <2> QED BY <1>0, <2>1, <2>2, GotoOwner, KindsKept DEF OwnSteps
<1>5. CASE Verify(a, g)
  <2>1. OwnsPatch(a, g, t) /\ delta[t] # NoDelta
    BY <1>1, <1>5 DEF Verify, At
  <2>2. CASE OnDisk(Base(a, g)) /\ delta[t] = Against(Base(a, g), disk[Base(a, g)])
    <3>1. delta' = delta /\ rows' = rows /\ Goto(a, g, "remove")
      BY <1>5, <2>2 DEF Verify
    <3>2. delta[t].kind = "whole"
      BY <2>2 DEF Against
    <3> QED BY <1>0, <2>1, <3>1, <3>2, GotoOwner, KindsKept DEF OwnSteps
  <2>3. CASE ~(OnDisk(Base(a, g)) /\ delta[t] = Against(Base(a, g), disk[Base(a, g)]))
    <3>1. FailTarget(a, g) /\ \A f \in Files : delta'[f] # delta[f] => f = t
      BY <1>5, <2>3 DEF Verify
    <3> QED BY <1>2, <2>1, <3>1
  <2> QED BY <2>2, <2>3
<1>6. CASE TargetInterrupted(a, g)
  BY <1>2, <1>6 DEF TargetInterrupted
<1>7. CASE RemoveOriginal(a, g)
  <2>1. OwnsPatch(a, g, t) /\ delta[t] # NoDelta /\ delta[t].kind = "whole" /\ delta' = delta
    BY <1>1, <1>7 DEF RemoveOriginal, At
  <2>2. CASE OnDisk(t)
    <3>1. rows' = rows /\ Goto(a, g, "mark")
      BY <1>7, <2>2 DEF RemoveOriginal
    <3> QED BY <1>0, <2>1, <3>1, GotoOwner, KindsKept DEF OwnSteps
  <2>3. CASE ~OnDisk(t)
    BY <1>2, <1>7, <2>1, <2>3 DEF RemoveOriginal
  <2> QED BY <2>2, <2>3
<1>8. CASE MarkDelta(a, g)
  <2>1. OwnsPatch(a, g, t) /\ delta[t] # NoDelta /\ delta[t].kind = "whole" /\ delta' = delta
    BY <1>1, <1>8 DEF MarkDelta, At
  <2>2. rows' = Done(t, "delta", Base(a, g)) /\ DropTarget(a, g)
    BY <1>8, <2>1 DEF MarkDelta
  <2>3. OthersKeep(a, g) /\ \A f \in Files : ~OwnsPatch(a, g, f)'
    BY <2>2, EndJobOwner
  <2>4. Base(a, g) \in Files
    BY <1>8, JobFacts DEF MarkDelta, At, Facts
  <2>5. \A f \in Files : rows'[f].kind = "delta" => rows[f].kind = "delta" \/ f = t
    BY <1>0, <2>2, <2>4, RowKinds DEF Kind
  <2> QED BY <2>1, <2>3, <2>5, LettingGo DEF Seals
<1> QED BY <1>3, <1>4, <1>5, <1>6, <1>7, <1>8

\* The steps of an ingest outside its jobs, and those of the process.
LEMMA OutsideKeeps ==
  ASSUME RestOK, JobsOK, PatchesOK,
         \/ \E a \in Actors : Ingest(a)
         \/ \E f \in Files : Deliver(f)
         \/ IndexerCommits \/ IndexerRollsBack \/ RequestStop \/ Restart
  PROVE  PatchesOK' /\ delta' = delta
<1> SUFFICES
      /\ delta' = delta
      /\ \A a \in Actors, g \in Groups, f \in Files : OwnsPatch(a, g, f)' =>
           OwnsPatch(a, g, f) /\ job'[a][g].step = job[a][g].step
      /\ \A f \in Files : rows'[f].kind = "delta" \/ durable'[f].kind = "delta" =>
           rows[f].kind = "delta" \/ durable[f].kind = "delta"
  BY OthersKeepPatches
<1> USE DEF IngestVars, ProcessVars, RestOK
<1>0. UNCHANGED job => \A a \in Actors, g \in Groups, f \in Files : OwnsPatch(a, g, f)' =>
        OwnsPatch(a, g, f) /\ job'[a][g].step = job[a][g].step
  BY DEF OwnsPatch, Target
<1>1. ASSUME NEW S, Register(S), NEW f \in Files, rows'[f].kind = "delta"
      PROVE  rows[f].kind = "delta"
  BY <1>1 DEF Register, Fresh, Absent
<1>2. ASSUME NEW a \in Actors, Ingest(a)
      PROVE  /\ delta' = delta /\ durable' = durable
             /\ \A f \in Files : rows'[f].kind = "delta" => rows[f].kind = "delta"
             /\ \A b \in Actors, g \in Groups, f \in Files : OwnsPatch(b, g, f)' =>
                  OwnsPatch(b, g, f) /\ job'[b][g].step = job[b][g].step
  <2>1. CASE StartIngest(a)
    BY <1>0, <2>1 DEF StartIngest, Row
  <2>2. CASE SkipIngest(a) \/ ToolsMissing(a) \/ EndIngest(a)
    BY <1>0, <2>2 DEF SkipIngest, ToolsMissing, EndIngest
  <2>3. CASE Discover(a) \/ DiscoverFails(a)
    BY <1>0, <1>1, <2>3 DEF Discover, DiscoverFails
  <2>4. CASE ListPending(a)
    <3> DEFINE list == [g \in Groups |-> IF Members(a, g) = {} THEN NoJob
                                          ELSE JobFor(Members(a, g))]
    <3>1. \A g \in Groups : list[g].step \in {"none", "queued"}
      <4>1. TypeOK
        BY Parts
      <4> QED BY <4>1, JobForShape DEF NoJob
    <3>2. job' = [job EXCEPT ![a] = list] /\ UNCHANGED <<delta, durable, rows>>
      BY <2>4 DEF ListPending
    <3> HIDE DEF list
    <3> QED BY <3>1, <3>2 DEF OwnsPatch, Target, JobsOK
  <2> QED BY <1>2, <2>1, <2>2, <2>3, <2>4 DEF Ingest
<1>3. CASE \E a \in Actors : Ingest(a)
  BY <1>2, <1>3
<1>4. CASE \E f \in Files : Deliver(f)
  BY <1>0, <1>4 DEF Deliver
<1>5. CASE IndexerCommits \/ IndexerRollsBack \/ RequestStop
  BY <1>0, <1>5 DEF IndexerCommits, IndexerRollsBack, RequestStop
<1>6. CASE Restart
  BY <1>6 DEF Restart, OwnsPatch, NoJob
<1> QED BY <1>3, <1>4, <1>5, <1>6

LEMMA PatchInit == Init => PatchesOK
BY DEF Init, PatchesOK, OneOwner, Held, Sealed, OwnsPatch, NoJob, Absent

LEMMA PatchStep ==
  ASSUME TypeOK, JobShape, PatchesOK, [Next]_vars
  PROVE  PatchesOK'
<1>0. RestOK /\ JobsOK
  BY Parts
<1>1. CASE UNCHANGED vars
  BY <1>1 DEF vars, PatchesOK, OneOwner, Held, Sealed, OwnsPatch, Target
<1>2. ASSUME NEW a \in Actors, NEW g \in Groups, GroupJob(a, g)
      PROVE  PatchesOK'
  <2>1. OthersKeep(a, g) /\ OwnSteps(a, g) /\ Seals(a, g)
    BY <1>0, <1>2, BaseStepKeeps, TargetStepKeeps DEF GroupJob
  <2>2. durable' = durable
    BY <1>2 DEF GroupJob, JobVars, StartGroup, StartSingleton, CancelJob, RejectBase,
         AbandonGroup, ReuseBase, PreprocessBase, MarkBase, EndTargets, PrepareTarget,
         Encode, EncodeWrong, Verify, TargetInterrupted, RemoveOriginal, MarkDelta, FinishGroup
  <2> QED BY <2>1, <2>2, JobKeepsPatches
<1> QED BY <1>0, <1>1, <1>2, OutsideKeeps DEF Next

LEMMA PatchInvariant == Spec => []PatchInv
<1>1. Init => PatchInv
  BY ShapeInit, PatchInit DEF PatchInv, PatchesOK
<1>2. PatchInv /\ [Next]_vars => PatchInv'
  BY ShapeStep, PatchStep DEF PatchInv, PatchesOK
<1> QED BY <1>1, <1>2, PTL DEF Spec

\* Two jobs never work on the patch of one file at the same time, however many ingests
\* and workers run, and whatever is rolled back or restarted meanwhile.
THEOREM OneOwnerEver == Spec => []OneOwner
<1>1. PatchInv => OneOwner
  BY DEF PatchInv
<1> QED BY <1>1, PatchInvariant, PTL

\* An original leaves the disk only beside a whole patch that stays.
THEOREM OriginalsLeavePatches == Spec => RemovalLeavesPatch
<1> DEFINE Leaves == \A f \in Files : OnDisk(f) /\ disk'[f] = "none"
                       => delta[f].kind = "whole" /\ delta'[f] = delta[f]
<1>1. PatchInv /\ [Next]_vars => [Leaves]_vars
  <2> SUFFICES ASSUME PatchInv, Next PROVE Leaves
    OBVIOUS
  <2> USE DEF PatchInv, TypeOK, OnDisk
  <2>1. ASSUME NEW a \in Actors, NEW g \in Groups, RemoveOriginal(a, g)
        PROVE  Leaves
    <3>1. job[a][g].todo # {} /\ At(a, g, "remove")
      BY <2>1 DEF RemoveOriginal, At, JobShape, ShapeOf
    <3>2. Target(a, g) \in Files
      BY <3>1, TargetIsIn DEF JobsOK
    <3>3. delta[Target(a, g)].kind = "whole" /\ delta' = delta
      BY <2>1, <3>1, <3>2 DEF RemoveOriginal, OwnsPatch, Held, At
    <3> QED BY <2>1, <3>2, <3>3 DEF RemoveOriginal
  <2>2. ASSUME NEW a \in Actors, NEW g \in Groups, GroupJob(a, g), ~RemoveOriginal(a, g)
        PROVE  \A f \in Files : OnDisk(f) => disk'[f] # "none"
    BY <2>2 DEF GroupJob, JobVars, StartGroup, StartSingleton, CancelJob, RejectBase,
         AbandonGroup, ReuseBase, PreprocessBase, MarkBase, EndTargets, PrepareTarget,
         Encode, EncodeWrong, Verify, TargetInterrupted, MarkDelta, FinishGroup
  <2>3. ASSUME NEW a \in Actors, Ingest(a)
        PROVE  disk' = disk
    BY <2>3 DEF Ingest, IngestVars, StartIngest, SkipIngest, Discover, DiscoverFails,
         ListPending, ToolsMissing, EndIngest
  <2>4. ASSUME \/ \E f \in Files : Deliver(f)
               \/ IndexerCommits \/ IndexerRollsBack \/ RequestStop \/ Restart
        PROVE  \A f \in Files : OnDisk(f) => disk'[f] # "none"
    BY <2>4 DEF ProcessVars, Deliver, IndexerCommits, IndexerRollsBack, RequestStop, Restart
  <2> QED BY <2>1, <2>2, <2>3, <2>4 DEF Next
<1> QED BY <1>1, PatchInvariant, PTL DEF Spec, RemovalLeavesPatch

\* The patch of a file stored as a delta never changes.
THEOREM PatchesAreFinal == Spec => PatchIsFinal
<1> DEFINE Final == \A f \in Files : rows[f].kind = "delta" /\ rows'[f].kind = "delta"
                      => delta'[f] = delta[f]
<1>1. PatchInv /\ [Next]_vars => [Final]_vars
  <2> SUFFICES ASSUME PatchInv, Next PROVE Final
    OBVIOUS
  <2>1. RestOK /\ JobsOK /\ PatchesOK
    BY Parts DEF PatchInv, PatchesOK
  <2>2. \A f \in Files : rows[f].kind = "delta" =>
          /\ delta[f] # NoDelta
          /\ \A a \in Actors, g \in Groups : ~OwnsPatch(a, g, f)
    BY DEF PatchInv, Sealed, NoDelta
  <2>3. ASSUME NEW a \in Actors, NEW g \in Groups, GroupJob(a, g)
        PROVE  OwnSteps(a, g)
    BY <2>1, <2>3, BaseStepKeeps, TargetStepKeeps DEF GroupJob
  <2> QED BY <2>1, <2>2, <2>3, OutsideKeeps DEF Next, OwnSteps
<1> QED BY <1>1, PatchInvariant, PTL DEF Spec, PatchIsFinal
============================================================================
