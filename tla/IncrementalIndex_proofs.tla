---------------------- MODULE IncrementalIndex_proofs ----------------------
(***************************************************************************)
(* What holds of the index for any files, builds, pools and budgets.       *)
(***************************************************************************)
EXTENDS IncrementalIndex, TLAPS

\* What a job holds at each of its steps.
JobShape ==
  \A p \in Elf :
    /\ job[p].step \in {"read", "parsed"} => job[p].build \in Builds
    /\ job[p].step = "read" => IdOf[job[p].build] # NoId
    /\ job[p].step = "parsed" /\ IdOf[job[p].build] # NoId => job[p].mtime \in Times

TypeInv == TypeOK /\ JobShape

\* A time that is on the disk or in a table is one the file has had, so that a write
\* gives it one that no table knows.
Known(t) == \A p \in Files : t.scanned[p] = None \/ t.scanned[p] \in used[p]
TimesAreUsed ==
  /\ \A p \in Files : mtime[p] = Gone \/ mtime[p] \in used[p]
  /\ Known(db) /\ Known(durable)

\* What a scan has in hand of a file is what the file is, if it is there.
HandIsTrue ==
  \A p \in Elf :
    InHand(p) /\ Present(p)
      => /\ job[p].build = build[p]
         /\ job[p].step = "parsed" /\ IdOf[job[p].build] # NoId => job[p].mtime = mtime[p]

RaceInv ==
  /\ budget["race"] <= Budget["race"]
  /\ Unraced => HandIsTrue /\ Justified(db) /\ Justified(durable)

IndexInv == TypeInv /\ TimesAreUsed /\ RaceInv

------------------------------------------------------------------------------
\* Type correctness

LEMMA JobTypes ==
  /\ \A x \in {"none", "listed", "sent"} : JobAt(x) \in Job
  /\ NoJob \in Job /\ NoJobs \in [Elf -> Job]
BY DEF JobAt, NoJob, NoJobs, Job

LEMMA InitType == Init => TypeInv
<1> SUFFICES ASSUME Init PROVE TypeInv
  OBVIOUS
<1>1. (CHOOSE b \in Builds : TRUE) \in Builds
  BY BuildsAssumption
<1>2. build \in [Elf -> Builds]
  BY <1>1 DEF Init
<1>3. db \in Tables /\ durable \in Tables
  BY DEF Init, Tables, Row
<1>4. job \in [Elf -> Job] /\ JobShape
  BY JobTypes DEF Init, JobShape, NoJobs, NoJob, JobAt
<1> QED BY <1>2, <1>3, <1>4, PoolAssumption DEF Init, TypeInv, TypeOK

LEMMA SpendType ==
  ASSUME TypeOK, NEW b \in Bounds, Spend(b)
  PROVE  budget' \in [Bounds -> Nat]
BY DEF TypeOK, Spend, Bounds

LEMMA TouchType ==
  ASSUME TypeOK, NEW p \in Files, NEW t \in Times, Touch(p, t)
  PROVE  mtime' \in [Files -> Times \cup {Gone}] /\ used' \in [Files -> SUBSET Times]
BY DEF TypeOK, Touch

\* Giving up a job, or all of them.
LEMMA AppliedType ==
  ASSUME TypeInv, NEW p \in Elf, Applied(p)
  PROVE  /\ pc' \in {"idle", "collect", "index"} /\ todo' \subseteq Elf
         /\ job' \in [Elf -> Job] /\ JobShape'
<1>1. \A q \in Elf : job'[q] = NoJob \/ job'[q] = job[q]
  BY DEF Applied, NoJobs, TypeInv, TypeOK
<1>2. job' \in [Elf -> Job]
  BY JobTypes DEF Applied, TypeInv, TypeOK
<1>3. JobShape'
  BY <1>1 DEF TypeInv, JobShape, NoJob, JobAt
<1> QED BY <1>2, <1>3 DEF Applied, TypeInv, TypeOK

\* A new job in the place of one.
LEMMA JobType ==
  ASSUME TypeInv, NEW p \in Elf, NEW x \in Job, job' = [job EXCEPT ![p] = x],
         x.step \in {"read", "parsed"} => x.build \in Builds,
         x.step = "read" => IdOf[x.build] # NoId,
         x.step = "parsed" /\ IdOf[x.build] # NoId => x.mtime \in Times
  PROVE  job' \in [Elf -> Job] /\ JobShape'
<1>1. \A q \in Elf : job'[q] = IF q = p THEN x ELSE job[q]
  BY DEF TypeInv, TypeOK
<1> QED BY <1>1 DEF TypeInv, TypeOK, JobShape

LEMMA MarkType ==
  ASSUME TypeOK, NEW scanned \in [Files -> Times \cup {None}], NEW S,
         \A q \in Files : q \in S => Present(q)
  PROVE  Mark(scanned, S) \in [Files -> Times \cup {None}]
BY DEF TypeOK, Mark, Present

LEMMA UpsertType ==
  ASSUME NEW artifact \in [Ids -> Row \cup {None}], NEW id \in Ids, NEW row \in Row
  PROVE  /\ Upsert(artifact, id, row) \in [Ids -> Row \cup {None}]
         /\ Upsert(artifact, id, row)[id] # None
         /\ Upsert(artifact, id, row)[id].mtime >= row.mtime
         /\ \A k \in Ids : artifact[k] # None
              => /\ Upsert(artifact, id, row)[k] # None
                 /\ Upsert(artifact, id, row)[k].mtime >= artifact[k].mtime
<1> DEFINE new == Upsert(artifact, id, row)
<1>1. None \notin Row /\ Times \subseteq Nat
  BY BuildsAssumption DEF Row
<1>2. row.mtime \in Nat /\ row # None
  BY <1>1 DEF Row
<1>3. \A k \in Ids : artifact[k] # None => artifact[k].mtime \in Nat
  BY <1>1 DEF Row
<1>4. CASE artifact[id] = None \/ row.mtime >= artifact[id].mtime
  <2>1. new = [artifact EXCEPT ![id] = row]
    BY <1>4 DEF Upsert
  <2>2. \A k \in Ids : new[k] = IF k = id THEN row ELSE artifact[k]
    BY <2>1
  <2> QED BY <1>2, <1>3, <1>4, <2>1, <2>2
<1>5. CASE ~(artifact[id] = None \/ row.mtime >= artifact[id].mtime)
  <2>1. new = artifact
    BY <1>5 DEF Upsert
  <2> QED BY <1>2, <1>3, <1>5, <2>1
<1> QED BY <1>4, <1>5

LEMMA ResultType ==
  ASSUME TypeInv, NEW p \in Elf, job[p].step = "parsed", IdOf[job[p].build] # NoId,
         Present(p)
  PROVE  Result(p) \in Tables
<1> DEFINE id == IdOf[job[p].build]
           new == [path |-> p, mtime |-> job[p].mtime]
<1>1. id \in Ids /\ new \in Row
  BY BuildsAssumption DEF TypeInv, JobShape, Row
<1>2. NewSources(p) \subseteq Src /\ \A q \in NewSources(p) : Present(q)
  BY DEF NewSources, NeedsScan, TypeInv, TypeOK, Job
<1>3. Mark(db.scanned, {p} \cup NewSources(p)) \in [Files -> Times \cup {None}]
  BY <1>2, MarkType DEF TypeInv, TypeOK, Tables
<1>4. Upsert(db.artifact, id, new) \in [Ids -> Row \cup {None}]
  BY <1>1, UpsertType DEF TypeInv, TypeOK, Tables
<1>5. db.sources \cup ({id} \X NewSources(p)) \in SUBSET (Ids \X Src)
  BY <1>1, <1>2 DEF TypeInv, TypeOK, Tables
<1> QED BY <1>3, <1>4, <1>5 DEF Result, Tables

LEMMA NextType ==
  ASSUME TypeInv, [Next]_vars
  PROVE  TypeInv'
<1> USE DEF TypeInv
<1>1. CASE UNCHANGED vars
  BY <1>1 DEF vars, diskVars, scanVars, dedupVars, TypeOK, JobShape
<1>2. CASE StartScan
  BY <1>2 DEF StartScan, diskVars, dedupVars, TypeOK, JobShape
<1>3. CASE StartBatch
  BY <1>3 DEF StartBatch, diskVars, dedupVars, TypeOK, JobShape
<1>4. CASE EndBatch
  BY <1>4 DEF EndBatch, diskVars, dedupVars, TypeOK, JobShape
<1>5. CASE EndScan
  BY <1>5 DEF EndScan, diskVars, dedupVars, TypeOK, JobShape
<1>6. CASE CancelScan
  <2>1. job' \in [Elf -> Job] /\ JobShape'
    BY <1>6, JobTypes DEF CancelScan, NoJobs, NoJob, JobAt, JobShape
  <2> QED BY <1>6, <2>1 DEF CancelScan, diskVars, dedupVars, TypeOK
<1>7. ASSUME NEW p \in Elf, Collect(p)
      PROVE  TypeInv'
  <2>1. CASE job' = job
    BY <1>7, <2>1 DEF Collect, diskVars, dedupVars, TypeOK, JobShape
  <2>2. CASE job' = [job EXCEPT ![p] = JobAt("listed")]
    <3>1. JobAt("listed") \in Job /\ JobAt("listed").step = "listed"
      BY JobTypes DEF JobAt
    <3>2. job' \in [Elf -> Job] /\ JobShape'
      BY <2>2, <3>1, JobType
    <3> QED BY <1>7, <3>2 DEF Collect, diskVars, dedupVars, TypeOK
  <2> QED BY <1>7, <2>1, <2>2 DEF Collect
<1>8. ASSUME NEW p \in Elf, Submit(p)
      PROVE  TypeInv'
  <2>1. JobAt("sent") \in Job /\ JobAt("sent").step = "sent"
    BY JobTypes DEF JobAt
  <2>2. job' \in [Elf -> Job] /\ JobShape'
    BY <1>8, <2>1, JobType DEF Submit
  <2> QED BY <1>8, <2>2 DEF Submit, diskVars, dedupVars, TypeOK
<1>9. ASSUME NEW p \in Elf, ReadNotes(p)
      PROVE  TypeInv'
  <2> DEFINE x == [step |-> IF IdOf[build[p]] = NoId THEN "parsed" ELSE "read",
                   build |-> build[p], mtime |-> None, sources |-> {}]
  <2>1. build[p] \in Builds
    BY DEF TypeOK
  <2>2. x \in Job
    BY <2>1 DEF Job
  <2>3. job' \in [Elf -> Job] /\ JobShape'
    BY <1>9, <2>1, <2>2, JobType DEF ReadNotes
  <2> QED BY <1>9, <2>3 DEF ReadNotes, diskVars, dedupVars, TypeOK
<1>10. ASSUME NEW p \in Elf, ReadSources(p)
       PROVE  TypeInv'
  <2> DEFINE x == [step |-> "parsed", build |-> job[p].build, mtime |-> mtime[p],
                   sources |-> {s \in SrcOf[job[p].build] : Present(s)}]
  <2>1. job[p].build \in Builds /\ mtime[p] \in Times
    BY <1>10 DEF ReadSources, JobShape, TypeOK, Present, Files
  <2>2. x.sources \subseteq Src
    BY <2>1, BuildsAssumption
  <2>3. x \in Job
    BY <2>1, <2>2 DEF Job
  <2>4. job' \in [Elf -> Job] /\ JobShape'
    BY <1>10, <2>1, <2>3, JobType DEF ReadSources
  <2> QED BY <1>10, <2>4 DEF ReadSources, diskVars, dedupVars, TypeOK
<1>11. ASSUME NEW p \in Elf, ParseFails(p)
       PROVE  TypeInv'
  <2>1. NoJob \in Job /\ NoJob.step = "none"
    BY JobTypes DEF NoJob, JobAt
  <2>2. job' \in [Elf -> Job] /\ JobShape'
    BY <1>11, <2>1, JobType DEF ParseFails
  <2>3. budget' \in [Bounds -> Nat]
    BY <1>11, SpendType DEF ParseFails, Bounds, TypeOK
  <2> QED BY <1>11, <2>2, <2>3 DEF ParseFails, diskVars, dedupVars, TypeOK
<1>12. ASSUME NEW p \in Elf, ApplyNoId(p)
       PROVE  TypeInv'
  <2>1. db' \in Tables
    <3>1. CASE Present(p)
      <4>1. Mark(db.scanned, {p}) \in [Files -> Times \cup {None}]
        BY <3>1, MarkType DEF TypeOK, Tables
      <4> QED BY <1>12, <3>1, <4>1 DEF ApplyNoId, TypeOK, Tables
    <3> QED BY <1>12, <3>1 DEF ApplyNoId, TypeOK
  <2> QED BY <1>12, <2>1, AppliedType DEF ApplyNoId, diskVars, dedupVars, TypeOK
<1>13. ASSUME NEW p \in Elf, ApplyElf(p)
       PROVE  TypeInv'
  <2>1. Result(p) \in Tables
    BY <1>13, ResultType DEF ApplyElf
  <2> QED BY <1>13, <2>1, AppliedType DEF ApplyElf, diskVars, dedupVars, TypeOK
<1>14. ASSUME NEW p \in Elf, ApplyFails(p)
       PROVE  TypeInv'
  <2>1. budget' \in [Bounds -> Nat]
    BY <1>14, SpendType DEF ApplyFails, Bounds, TypeOK
  <2> QED BY <1>14, <2>1, AppliedType DEF ApplyFails, diskVars, dedupVars, TypeOK
<1>15. CASE Stop
  <2>1. budget' \in [Bounds -> Nat]
    BY <1>15, SpendType DEF Stop, Bounds
  <2> QED BY <1>15, <2>1 DEF Stop, diskVars, scanVars, dedupVars, TypeOK, JobShape
<1>16. CASE Restart
  <2>1. budget' \in [Bounds -> Nat]
    BY <1>16, SpendType DEF Restart, Bounds
  <2>2. job' \in [Elf -> Job] /\ JobShape'
    BY <1>16, JobTypes DEF Restart, NoJobs, NoJob, JobAt, JobShape
  <2> QED BY <1>16, <2>1, <2>2 DEF Restart, diskVars, TypeOK
<1>17. CASE PackEnds
  <2>1. mtime' \in [Files -> Times \cup {Gone}]
    BY <1>17 DEF PackEnds, TypeOK
  <2> QED BY <1>17, <2>1 DEF PackEnds, scanVars, TypeOK, JobShape
<1>18. ASSUME NEW p \in Elf, Remove(p)
       PROVE  TypeInv'
  <2>1. budget' \in [Bounds -> Nat] /\ mtime' \in [Files -> Times \cup {Gone}]
    BY <1>18, SpendType DEF Remove, Bounds, TypeOK
  <2> QED BY <1>18, <2>1 DEF Remove, scanVars, dedupVars, TypeOK, JobShape
<1>19. ASSUME NEW p \in Elf, PackRemoves(p)
       PROVE  TypeInv'
  <2>1. mtime' \in [Files -> Times \cup {Gone}]
    BY <1>19 DEF PackRemoves, TypeOK
  <2> QED BY <1>19, <2>1 DEF PackRemoves, scanVars, TypeOK, JobShape
<1>20. ASSUME NEW p \in Elf, NEW t \in Times, PackCopies(p, t)
       PROVE  TypeInv'
  <2>1. mtime' \in [Files -> Times \cup {Gone}] /\ used' \in [Files -> SUBSET Times]
    BY <1>20, TouchType, BuildsAssumption DEF PackCopies, Files
  <2>2. budget' \in [Bounds -> Nat]
    BY <1>20, SpendType DEF PackCopies, Bounds
  <2>3. todo' \subseteq Elf
    BY <1>20, BuildsAssumption DEF PackCopies, Appears, TypeOK
  <2> QED BY <1>20, <2>1, <2>2, <2>3 DEF PackCopies, TypeOK, JobShape
<1>21. ASSUME NEW p \in Elf, NEW t \in Times, NEW b \in Builds, Write(p, b, t)
       PROVE  TypeInv'
  <2>1. mtime' \in [Files -> Times \cup {Gone}] /\ used' \in [Files -> SUBSET Times]
    BY <1>21, TouchType DEF Write, Files
  <2>2. budget' \in [Bounds -> Nat]
    BY <1>21, SpendType DEF Write, Bounds, TypeOK
  <2>3. todo' \subseteq Elf
    BY <1>21 DEF Write, Appears, TypeOK
  <2> QED BY <1>21, <2>1, <2>2, <2>3 DEF Write, dedupVars, TypeOK, JobShape
<1>22. ASSUME NEW s \in Src, NEW t \in SrcTimes, WriteSource(s, t)
       PROVE  TypeInv'
  <2>1. mtime' \in [Files -> Times \cup {Gone}] /\ used' \in [Files -> SUBSET Times]
    BY <1>22, TouchType, BuildsAssumption DEF WriteSource, Files
  <2> QED BY <1>22, <2>1 DEF WriteSource, scanVars, dedupVars, TypeOK, JobShape
<1> QED
  BY <1>1, <1>2, <1>3, <1>4, <1>5, <1>6, <1>7, <1>8, <1>9, <1>10, <1>11, <1>12, <1>13,
     <1>14, <1>15, <1>16, <1>17, <1>18, <1>19, <1>20, <1>21, <1>22
  DEF Next, Scan, Worker, Main, Environment

\* TypeOK holds for any files, builds, times, pools and budgets.
THEOREM TypeCorrect == Spec => []TypeOK
<1>1. Init => TypeInv
  BY InitType
<1>2. TypeInv /\ [Next]_vars => TypeInv'
  BY NextType
<1>3. TypeInv => TypeOK
  BY DEF TypeInv
<1> QED BY <1>1, <1>2, <1>3, PTL DEF Spec

------------------------------------------------------------------------------
\* Sources

LEMMA MarkedNext ==
  ASSUME TypeInv, MarkedSourceIsFound, [Next]_vars
  PROVE  MarkedSourceIsFound'
<1> USE DEF MarkedSourceIsFound, Found
<1>1. CASE UNCHANGED <<db, durable>>
  BY <1>1
<1>2. CASE db' = durable /\ durable' = durable
  BY <1>2
<1>3. ASSUME NEW p \in Elf, ApplyNoId(p)
      PROVE  MarkedSourceIsFound'
  <2>1. durable' = durable /\ db'.sources = db.sources
    BY <1>3 DEF ApplyNoId, TypeInv, TypeOK, Tables
  <2>2. \A s \in Src : db'.scanned[s] = db.scanned[s]
    BY <1>3, BuildsAssumption DEF ApplyNoId, Mark, Files, TypeInv, TypeOK, Tables
  <2> QED BY <2>1, <2>2
<1>4. ASSUME NEW p \in Elf, ApplyElf(p)
      PROVE  MarkedSourceIsFound'
  <2> DEFINE id == IdOf[job[p].build]
  <2>1. id \in Ids
    BY <1>4, BuildsAssumption DEF ApplyElf, TypeInv, JobShape
  <2>2. db' = Result(p) /\ durable' = Result(p)
    BY <1>4 DEF ApplyElf
  <2>3. Result(p).sources = db.sources \cup ({id} \X NewSources(p))
    BY DEF Result
  <2>4. \A s \in Src : s \notin NewSources(p) => Result(p).scanned[s] = db.scanned[s]
    BY BuildsAssumption DEF Result, Mark, Files
  <2>5. ASSUME NEW s \in Src, Result(p).scanned[s] # None
        PROVE  \E k \in Ids : <<k, s>> \in Result(p).sources
    <3>1. CASE s \in NewSources(p)
      BY <2>1, <2>3, <3>1
    <3>2. CASE s \notin NewSources(p)
      BY <2>3, <2>4, <2>5, <3>2
    <3> QED BY <3>1, <3>2
  <2> QED BY <2>2, <2>5
<1> QED
  BY <1>1, <1>2, <1>3, <1>4
  DEF Next, Scan, Worker, Main, Environment, vars, StartScan, StartBatch, EndBatch, EndScan,
      CancelScan, Collect, Submit, ReadNotes, ReadSources, ParseFails, ApplyFails, Stop,
      Restart, PackEnds, Remove, PackRemoves, PackCopies, Write, WriteSource

\* The source route finds a row of every source that the index skips, whichever results,
\* rollbacks and restarts came before.
THEOREM MarkedIsFound == Spec => []MarkedSourceIsFound
<1>1. Init => MarkedSourceIsFound
  BY DEF Init, MarkedSourceIsFound, Found, Files
<1>2. Init => TypeInv
  BY InitType
<1>3. TypeInv /\ MarkedSourceIsFound /\ [Next]_vars => TypeInv' /\ MarkedSourceIsFound'
  BY NextType, MarkedNext
<1> QED BY <1>1, <1>2, <1>3, PTL DEF Spec

------------------------------------------------------------------------------
\* Times

\* Of what the tables know nothing is lost when a file gets another time.
LEMMA TouchKeeps ==
  ASSUME TypeInv, TimesAreUsed, NEW p \in Files, NEW t \in Times, Touch(p, t),
         UNCHANGED <<db, durable>>
  PROVE  TimesAreUsed'
<1>1. \A q \in Files : used[q] \subseteq used'[q] /\ mtime'[q] = IF q = p THEN t ELSE mtime[q]
  BY DEF Touch, TypeInv, TypeOK
<1>2. t \in used'[p]
  BY DEF Touch, TypeInv, TypeOK
<1> QED BY <1>1, <1>2 DEF TimesAreUsed, Known

LEMMA RemovalKeeps ==
  ASSUME TypeInv, TimesAreUsed, NEW p \in Files, mtime' = [mtime EXCEPT ![p] = Gone],
         UNCHANGED <<used, db, durable>>
  PROVE  TimesAreUsed'
<1>1. \A q \in Files : mtime'[q] = IF q = p THEN Gone ELSE mtime[q]
  BY DEF TypeInv, TypeOK
<1> QED BY <1>1 DEF TimesAreUsed, Known

LEMMA TimesNext ==
  ASSUME TypeInv, TimesAreUsed, [Next]_vars
  PROVE  TimesAreUsed'
<1>1. CASE UNCHANGED <<diskVars, db, durable>>
  BY <1>1 DEF diskVars, TimesAreUsed, Known
<1>2. CASE db' = durable /\ durable' = durable /\ UNCHANGED diskVars
  BY <1>2 DEF diskVars, TimesAreUsed, Known
<1>3. ASSUME NEW p \in Elf, ApplyNoId(p)
      PROVE  TimesAreUsed'
  <2>1. durable' = durable /\ UNCHANGED diskVars
    BY <1>3 DEF ApplyNoId
  <2>2. \A q \in Files : db'.scanned[q] = db.scanned[q]
                         \/ (q = p /\ Present(p) /\ db'.scanned[q] = mtime[q])
    BY <1>3 DEF ApplyNoId, Mark, Files, TypeInv, TypeOK, Tables
  <2> QED BY <2>1, <2>2 DEF TimesAreUsed, Known, Present, diskVars
<1>4. ASSUME NEW p \in Elf, ApplyElf(p)
      PROVE  TimesAreUsed'
  <2>1. db' = Result(p) /\ durable' = Result(p) /\ UNCHANGED diskVars /\ Present(p)
    BY <1>4 DEF ApplyElf
  <2>2. \A q \in NewSources(p) : Present(q)
    BY DEF NewSources, NeedsScan
  <2>3. \A q \in Files : Result(p).scanned[q] = db.scanned[q]
                         \/ (Present(q) /\ Result(p).scanned[q] = mtime[q])
    BY <2>1, <2>2 DEF Result, Mark
  <2> QED BY <2>1, <2>3 DEF TimesAreUsed, Known, Present, diskVars
<1>5. ASSUME NEW p \in Elf, Remove(p) \/ PackRemoves(p)
      PROVE  TimesAreUsed'
  BY <1>5, RemovalKeeps DEF Remove, PackRemoves, Files
<1>6. CASE PackEnds
  BY <1>6, RemovalKeeps, BuildsAssumption DEF PackEnds, Files
<1>7. ASSUME NEW p \in Elf, NEW t \in Times, PackCopies(p, t)
      PROVE  TimesAreUsed'
  BY <1>7, TouchKeeps, BuildsAssumption DEF PackCopies, Files
<1>8. ASSUME NEW p \in Elf, NEW t \in Times, NEW b \in Builds, Write(p, b, t)
      PROVE  TimesAreUsed'
  BY <1>8, TouchKeeps DEF Write, Files
<1>9. ASSUME NEW s \in Src, NEW t \in SrcTimes, WriteSource(s, t)
      PROVE  TimesAreUsed'
  BY <1>9, TouchKeeps, BuildsAssumption DEF WriteSource, Files
<1> QED
  BY <1>1, <1>2, <1>3, <1>4, <1>5, <1>6, <1>7, <1>8, <1>9
  DEF Next, Scan, Worker, Main, Environment, vars, StartScan, StartBatch, EndBatch, EndScan,
      CancelScan, Collect, Submit, ReadNotes, ReadSources, ParseFails, ApplyFails, Stop,
      Restart

------------------------------------------------------------------------------
\* Skipped files

LEMMA SpendLess ==
  ASSUME TypeInv, NEW b \in Bounds, Spend(b)
  PROVE  /\ budget'["race"] <= budget["race"]
         /\ b = "race" => budget'["race"] < budget["race"]
BY DEF Spend, TypeInv, TypeOK, Bounds

LEMMA BudgetNext ==
  ASSUME TypeInv, [Next]_vars
  PROVE  budget'["race"] <= budget["race"]
<1>1. CASE budget' = budget
  BY <1>1 DEF TypeInv, TypeOK, Bounds
<1>2. ASSUME NEW b \in Bounds, Spend(b)
      PROVE  budget'["race"] <= budget["race"]
  BY <1>2, SpendLess
<1>3. budget' = budget \/ \E b \in Bounds : Spend(b)
  BY DEF Bounds, Next, Scan, Worker, Main, Environment, vars, StartScan, StartBatch,
         EndBatch, EndScan, CancelScan, Collect, Submit, ReadNotes, ReadSources, ParseFails,
         ApplyNoId, ApplyElf, ApplyFails, Stop, Restart, PackEnds, Remove, PackRemoves,
         PackCopies, Write, WriteSource
<1> QED BY <1>1, <1>2, <1>3

\* What an action that leaves the disk alone may do to the jobs, ...
LEMMA HandKept ==
  ASSUME TypeInv, HandIsTrue, UNCHANGED diskVars,
         \A q \in Elf : \/ job'[q] = job[q]
                        \/ job'[q].step \notin {"read", "parsed"}
  PROVE  HandIsTrue'
BY DEF HandIsTrue, InHand, At, Present, diskVars

LEMMA AppliedJobs ==
  ASSUME TypeInv, NEW p \in Elf, Applied(p)
  PROVE  \A q \in Elf : job'[q] = job[q] \/ job'[q].step \notin {"read", "parsed"}
BY DEF Applied, NoJobs, NoJob, JobAt, TypeInv, TypeOK

\* ... and what a write or a removal does to what is skipped and in hand.
LEMMA DiskKeeps ==
  ASSUME TypeInv, TimesAreUsed, HandIsTrue, Justified(db), Justified(durable),
         UNCHANGED <<db, durable, job>>, NEW p \in Files,
         \A q \in Elf : q # p => build'[q] = build[q] /\ mtime'[q] = mtime[q],
         p \in Elf => \/ mtime'[p] = Gone
                      \/ mtime'[p] \in Times \ used[p] /\ ~InHand(p)
  PROVE  HandIsTrue' /\ Justified(db)' /\ Justified(durable)'
<1>1. HandIsTrue'
  BY DEF HandIsTrue, InHand, At, Present
<1>2. ASSUME NEW q \in Elf, mtime'[q] # Gone,
             db.scanned[q] = mtime'[q] \/ durable.scanned[q] = mtime'[q]
      PROVE  build'[q] = build[q] /\ mtime'[q] = mtime[q]
  <2>1. CASE q # p
    BY <2>1
  <2>2. CASE q = p
    BY <1>2, <2>2, BuildsAssumption DEF TimesAreUsed, Known, Files
  <2> QED BY <2>1, <2>2
<1> QED BY <1>1, <1>2 DEF Justified, NeedsScan, Present

LEMMA NoIdKeeps ==
  ASSUME IndexInv, Unraced, NEW p \in Elf, ApplyNoId(p)
  PROVE  Justified(db)' /\ Justified(durable)'
<1>1. HandIsTrue /\ Justified(db) /\ Justified(durable)
  BY DEF IndexInv, RaceInv
<1>2. durable' = durable /\ UNCHANGED diskVars
  BY DEF ApplyNoId
<1>3. db'.artifact = db.artifact
  BY DEF ApplyNoId, IndexInv, TypeInv, TypeOK, Tables
<1>4. \A q \in Elf : q # p => db'.scanned[q] = db.scanned[q]
  BY DEF ApplyNoId, Mark, Files, IndexInv, TypeInv, TypeOK, Tables
<1>5. Present(p) => IdOf[build[p]] = NoId
  BY <1>1 DEF ApplyNoId, HandIsTrue, InHand, At
<1>6. Justified(durable)'
  BY <1>1, <1>2 DEF Justified, NeedsScan, Present, diskVars
<1>7. Justified(db)'
  BY <1>1, <1>2, <1>3, <1>4, <1>5 DEF Justified, NeedsScan, Present, diskVars
<1> QED BY <1>6, <1>7

LEMMA ElfKeeps ==
  ASSUME IndexInv, Unraced, NEW p \in Elf, ApplyElf(p)
  PROVE  Justified(db)' /\ Justified(durable)'
<1> DEFINE id == IdOf[job[p].build]
           new == [path |-> p, mtime |-> job[p].mtime]
<1>1. HandIsTrue /\ Justified(db)
  BY DEF IndexInv, RaceInv
<1>2. db' = Result(p) /\ durable' = Result(p) /\ UNCHANGED diskVars
  BY DEF ApplyElf
<1>3. job[p].build = build[p] /\ job[p].mtime = mtime[p]
  BY <1>1 DEF ApplyElf, HandIsTrue, InHand, At
<1>4. id \in Ids /\ new \in Row
  BY BuildsAssumption DEF ApplyElf, IndexInv, TypeInv, JobShape, Row
<1>5. db.artifact \in [Ids -> Row \cup {None}]
  BY DEF IndexInv, TypeInv, TypeOK, Tables
<1>6. /\ Result(p).artifact[id] # None
      /\ Result(p).artifact[id].mtime >= mtime[p]
      /\ \A k \in Ids : db.artifact[k] # None
           => /\ Result(p).artifact[k] # None
              /\ Result(p).artifact[k].mtime >= db.artifact[k].mtime
  <2> DEFINE up == Upsert(db.artifact, id, new)
  <2>1. Result(p).artifact = up
    BY DEF Result
  <2>2. new.mtime = mtime[p]
    BY <1>3
  <2> HIDE DEF id, new
  <2>3. /\ up[id] # None /\ up[id].mtime >= new.mtime
        /\ \A k \in Ids : db.artifact[k] # None
             => up[k] # None /\ up[k].mtime >= db.artifact[k].mtime
    BY <1>4, <1>5, UpsertType
  <2> HIDE DEF up
  <2> QED BY <2>1, <2>2, <2>3
<1>7. \A q \in Elf : q # p => Result(p).scanned[q] = db.scanned[q]
  BY BuildsAssumption DEF Result, Mark, Files, NewSources, IndexInv, TypeInv, TypeOK, Job
<1>8. ASSUME NEW q \in Elf, Present(q), ~NeedsScan(Result(p), q), IdOf[build[q]] # NoId
      PROVE  /\ Result(p).artifact[IdOf[build[q]]] # None
             /\ Result(p).artifact[IdOf[build[q]]].mtime >= mtime[q]
  <2>1. CASE q = p
    BY <1>3, <1>6, <2>1
  <2>2. CASE q # p
    <3> DEFINE k == IdOf[build[q]]
    <3>1. k \in Ids
      BY <1>8, BuildsAssumption DEF IndexInv, TypeInv, TypeOK
    <3>2. db.artifact[k] # None /\ db.artifact[k].mtime >= mtime[q]
      BY <1>1, <1>7, <1>8, <2>2 DEF Justified, NeedsScan
    <3>3. /\ mtime[q] \in Nat /\ db.artifact[k].mtime \in Nat
          /\ Result(p).artifact[k].mtime \in Nat
      <4>1. Result(p).artifact \in [Ids -> Row \cup {None}]
        BY <1>4, <1>5, UpsertType DEF Result
      <4> QED
        BY <1>5, <1>6, <1>8, <3>1, <3>2, <4>1, BuildsAssumption
        DEF Row, Present, Files, IndexInv, TypeInv, TypeOK
    <3> QED BY <1>6, <3>1, <3>2, <3>3
  <2> QED BY <2>1, <2>2
<1>9. Justified(Result(p))
  BY <1>8 DEF Justified
<1> QED BY <1>2, <1>9 DEF Justified, NeedsScan, Present, diskVars

LEMMA RaceNext ==
  ASSUME IndexInv, [Next]_vars
  PROVE  RaceInv'
<1> USE DEF IndexInv
<1>1. budget'["race"] <= budget["race"] /\ budget["race"] <= Budget["race"]
  BY BudgetNext DEF RaceInv
<1>2. budget["race"] \in Nat /\ budget'["race"] \in Nat /\ Budget["race"] \in Nat
  BY NextType, PoolAssumption DEF TypeInv, TypeOK, Bounds
<1>3. (budget["race"] <= Budget["race"])'
  BY <1>1, <1>2
<1>4. SUFFICES ASSUME Unraced'
               PROVE  HandIsTrue' /\ Justified(db)' /\ Justified(durable)'
  BY <1>3 DEF RaceInv
<1>5. Unraced /\ budget'["race"] = budget["race"]
  BY <1>1, <1>2, <1>4 DEF Unraced
<1>6. HandIsTrue /\ Justified(db) /\ Justified(durable)
  BY <1>5 DEF RaceInv
<1> DEFINE Goal == HandIsTrue' /\ Justified(db)' /\ Justified(durable)'
<1>7. ASSUME UNCHANGED <<diskVars, db, durable>>, HandIsTrue'
      PROVE  Goal
  BY <1>6, <1>7 DEF Justified, NeedsScan, Present, diskVars
<1>8. ASSUME UNCHANGED diskVars, db' = durable, durable' = durable, HandIsTrue'
      PROVE  Goal
  BY <1>6, <1>8 DEF Justified, NeedsScan, Present, diskVars
<1>9. ASSUME UNCHANGED <<diskVars, db, durable, job>>
      PROVE  Goal
  BY <1>6, <1>7, <1>9, HandKept
<1>10. ASSUME UNCHANGED diskVars, job' = NoJobs
       PROVE  HandIsTrue'
  BY <1>6, <1>10, HandKept DEF NoJobs, NoJob, JobAt
<1>11. ASSUME NEW p \in Elf, Collect(p) \/ Submit(p) \/ ParseFails(p)
       PROVE  Goal
  <2>1. \A q \in Elf : job'[q] = job[q] \/ job'[q].step \notin {"read", "parsed"}
    BY <1>11 DEF Collect, Submit, ParseFails, JobAt, NoJob, TypeInv, TypeOK
  <2>2. UNCHANGED <<diskVars, db, durable>>
    BY <1>11 DEF Collect, Submit, ParseFails
  <2> QED BY <1>6, <1>7, <2>1, <2>2, HandKept
<1>12. ASSUME NEW p \in Elf, ReadNotes(p)
       PROVE  Goal
  <2>1. \A q \in Elf : q # p => job'[q] = job[q]
    BY <1>12 DEF ReadNotes, TypeInv, TypeOK
  <2>2. /\ job'[p].build = build[p]
        /\ job'[p].step = "parsed" => IdOf[job'[p].build] = NoId
    BY <1>12 DEF ReadNotes, TypeInv, TypeOK
  <2>3. UNCHANGED <<diskVars, db, durable>>
    BY <1>12 DEF ReadNotes
  <2>4. HandIsTrue'
    BY <1>6, <2>1, <2>2, <2>3 DEF HandIsTrue, InHand, At, Present, diskVars
  <2> QED BY <1>7, <2>3, <2>4
<1>13. ASSUME NEW p \in Elf, ReadSources(p)
       PROVE  Goal
  <2>1. \A q \in Elf : q # p => job'[q] = job[q]
    BY <1>13 DEF ReadSources, TypeInv, TypeOK
  <2>2. job'[p].build = job[p].build /\ job'[p].mtime = mtime[p] /\ InHand(p)
    BY <1>13 DEF ReadSources, TypeInv, TypeOK, InHand, At
  <2>3. UNCHANGED <<diskVars, db, durable>>
    BY <1>13 DEF ReadSources
  <2>4. HandIsTrue'
    BY <1>6, <2>1, <2>2, <2>3 DEF HandIsTrue, InHand, At, Present, diskVars
  <2> QED BY <1>7, <2>3, <2>4
<1>14. ASSUME NEW p \in Elf, ApplyNoId(p) \/ ApplyElf(p) \/ ApplyFails(p)
       PROVE  HandIsTrue'
  <2>1. Applied(p) /\ UNCHANGED diskVars
    BY <1>14 DEF ApplyNoId, ApplyElf, ApplyFails
  <2> QED BY <1>6, <2>1, AppliedJobs, HandKept
<1>15. ASSUME NEW p \in Elf, ApplyNoId(p)
       PROVE  Goal
  BY <1>5, <1>14, <1>15, NoIdKeeps
<1>16. ASSUME NEW p \in Elf, ApplyElf(p)
       PROVE  Goal
  BY <1>5, <1>14, <1>16, ElfKeeps
<1>17. ASSUME NEW p \in Elf, ApplyFails(p)
       PROVE  Goal
  BY <1>8, <1>14, <1>17 DEF ApplyFails
<1>18. CASE Restart
  BY <1>8, <1>10, <1>18 DEF Restart
<1>19. CASE CancelScan
  BY <1>7, <1>10, <1>19 DEF CancelScan
<1>20. CASE StartScan \/ StartBatch \/ EndBatch \/ EndScan \/ Stop \/ UNCHANGED vars
  BY <1>9, <1>20 DEF StartScan, StartBatch, EndBatch, EndScan, Stop, scanVars, vars
<1>21. ASSUME NEW p \in Elf, Remove(p) \/ PackRemoves(p)
       PROVE  Goal
  <2>1. /\ UNCHANGED <<db, durable, job>>
        /\ \A q \in Elf : build'[q] = build[q] /\ (q # p => mtime'[q] = mtime[q])
        /\ mtime'[p] = Gone
    BY <1>21 DEF Remove, PackRemoves, scanVars, Files, TypeInv, TypeOK
  <2> QED BY <1>6, <2>1, DiskKeeps DEF Files
<1>22. CASE PackEnds
  <2>1. /\ UNCHANGED <<db, durable, job>>
        /\ \A q \in Elf : build'[q] = build[q] /\ (q # Work => mtime'[q] = mtime[q])
        /\ mtime'[Work] = Gone
    BY <1>22, BuildsAssumption DEF PackEnds, scanVars, Files, TypeInv, TypeOK
  <2> QED BY <1>6, <2>1, DiskKeeps, BuildsAssumption DEF Files
<1>23. ASSUME NEW p \in Elf, NEW t \in Times, PackCopies(p, t)
       PROVE  Goal
  <2>1. /\ UNCHANGED <<db, durable, job>>
        /\ \A q \in Elf : q # Work => build'[q] = build[q] /\ mtime'[q] = mtime[q]
        /\ mtime'[Work] \in Times \ used[Work] /\ ~InHand(Work)
    BY <1>23, BuildsAssumption DEF PackCopies, Touch, Files, TypeInv, TypeOK
  <2> QED BY <1>6, <2>1, DiskKeeps, BuildsAssumption DEF Files
<1>24. ASSUME NEW p \in Elf, NEW t \in Times, NEW b \in Builds, Write(p, b, t)
       PROVE  Goal
  <2>1. ~InHand(p)
    BY <1>1, <1>2, <1>5, <1>24, SpendLess DEF Write, Bounds
  <2>2. /\ UNCHANGED <<db, durable, job>>
        /\ \A q \in Elf : q # p => build'[q] = build[q] /\ mtime'[q] = mtime[q]
        /\ mtime'[p] \in Times \ used[p]
    BY <1>24 DEF Write, Touch, Files, TypeInv, TypeOK
  <2> QED BY <1>6, <2>1, <2>2, DiskKeeps DEF Files
<1>25. ASSUME NEW s \in Src, NEW t \in SrcTimes, WriteSource(s, t)
       PROVE  Goal
  <2>1. /\ UNCHANGED <<db, durable, job>> /\ s \notin Elf
        /\ \A q \in Elf : build'[q] = build[q] /\ mtime'[q] = mtime[q]
    BY <1>25, BuildsAssumption DEF WriteSource, Touch, scanVars, Files, TypeInv, TypeOK
  <2> QED BY <1>6, <2>1, DiskKeeps DEF Files
<1> QED
  BY <1>11, <1>12, <1>13, <1>15, <1>16, <1>17, <1>18, <1>19, <1>20, <1>21, <1>22, <1>23,
     <1>24, <1>25
  DEF Next, Scan, Worker, Main, Environment

LEMMA InitIndex == Init => IndexInv
<1> SUFFICES ASSUME Init PROVE IndexInv
  OBVIOUS
<1>1. TypeInv
  BY InitType
<1>2. TimesAreUsed
  BY DEF Init, TimesAreUsed, Known
<1>3. HandIsTrue
  BY DEF Init, HandIsTrue, InHand, At, NoJobs, NoJob, JobAt
<1>4. \A p \in Elf : ~Present(p)
  BY DEF Init, Present, Files
<1>5. budget["race"] <= Budget["race"]
  BY PoolAssumption DEF Init, Bounds
<1> QED BY <1>1, <1>2, <1>3, <1>4, <1>5 DEF IndexInv, RaceInv, Justified

\* What a scan skips is indexed, in the tables and in the last commit, for any number of
\* copies of a program, workers, batches, failures, stops and restarts.
THEOREM SkipsAreJustified == Spec => []SkipIsJustified
<1>1. IndexInv /\ [Next]_vars => IndexInv'
  BY NextType, TimesNext, RaceNext DEF IndexInv
<1>2. IndexInv => SkipIsJustified
  BY DEF IndexInv, RaceInv, SkipIsJustified
<1> QED BY InitIndex, <1>1, <1>2, PTL DEF Spec

------------------------------------------------------------------------------
\* The refinement of IndexTables

\* What waits for a commit are marks of programs, and nothing else.
OnlyMarksWait ==
  /\ db.artifact = durable.artifact /\ db.sources = durable.sources
  /\ \A s \in Src : db.scanned[s] = durable.scanned[s]
  /\ \A f \in Files : durable.scanned[f] # None => db.scanned[f] # None

LEMMA MarkOf ==
  ASSUME NEW scanned, NEW S, NEW f \in Files
  PROVE  Mark(scanned, S)[f] = IF f \in S THEN mtime[f] ELSE scanned[f]
BY DEF Mark

LEMMA WaitingNext ==
  ASSUME TypeInv, OnlyMarksWait, [Next]_vars
  PROVE  OnlyMarksWait'
<1>1. CASE UNCHANGED <<db, durable>>
  BY <1>1 DEF OnlyMarksWait
<1>2. CASE db' = durable /\ durable' = durable
  BY <1>2 DEF OnlyMarksWait
<1>3. ASSUME NEW p \in Elf, ApplyNoId(p)
      PROVE  OnlyMarksWait'
  <2>1. CASE Present(p)
    <3>1. /\ durable' = durable /\ db'.artifact = db.artifact /\ db'.sources = db.sources
          /\ db'.scanned = Mark(db.scanned, {p})
      BY <1>3, <2>1 DEF ApplyNoId, TypeInv, TypeOK, Tables
    <3>2. \A f \in Files : db'.scanned[f] = IF f = p THEN mtime[p] ELSE db.scanned[f]
      BY <3>1, MarkOf
    <3>3. mtime[p] # None /\ p \notin Src
      BY <2>1, BuildsAssumption DEF Present, Files, TypeInv, TypeOK
    <3> QED BY <3>1, <3>2, <3>3 DEF OnlyMarksWait, Files
  <2>2. CASE ~Present(p)
    BY <1>3, <2>2 DEF ApplyNoId, OnlyMarksWait
  <2> QED BY <2>1, <2>2
<1>4. ASSUME NEW p \in Elf, ApplyElf(p)
      PROVE  OnlyMarksWait'
  BY <1>4 DEF ApplyElf, OnlyMarksWait
<1> QED
  BY <1>1, <1>2, <1>3, <1>4
  DEF Next, Scan, Worker, Main, Environment, vars, StartScan, StartBatch, EndBatch, EndScan,
      CancelScan, Collect, Submit, ReadNotes, ReadSources, ParseFails, ApplyFails, Stop,
      Restart, PackEnds, Remove, PackRemoves, PackCopies, Write, WriteSource

\* A transaction publishes what its file is and what was found for it.
LEMMA ApplyPublishes ==
  ASSUME TypeInv, OnlyMarksWait, NEW p \in Elf, ApplyElf(p)
  PROVE  Committed!Publish(p, IdOf[job[p].build], NewSources(p))
<1> DEFINE id == IdOf[job[p].build]
           row == [path |-> p, mtime |-> job[p].mtime]
           S == NewSources(p)
<1>1. durable' = Result(p) /\ Present(p)
  BY DEF ApplyElf
<1>2. id \in Ids /\ row \in Row /\ row # None
  BY BuildsAssumption DEF ApplyElf, TypeInv, JobShape, Row
<1>3. /\ durable'.scanned = Mark(db.scanned, {p} \cup S)
      /\ durable'.artifact = Upsert(db.artifact, id, row)
      /\ durable'.sources = db.sources \cup ({id} \X S)
  BY <1>1 DEF Result
<1>4. durable' \in Tables
  BY <1>1, ResultType DEF ApplyElf
<1>5. \A f \in Files : durable'.scanned[f] = IF f \in {p} \cup S THEN mtime[f] ELSE db.scanned[f]
  BY <1>3, MarkOf
<1>6. \A f \in {p} \cup S : f \in Files /\ mtime[f] # None
  <2>1. \A f \in {p} \cup S : f \in Files /\ mtime[f] # Gone
    BY <1>1 DEF NewSources, NeedsScan, Present, TypeInv, TypeOK, Job, Files
  <2> QED BY <2>1, BuildsAssumption DEF TypeInv, TypeOK
<1>7. /\ db.artifact \in [Ids -> Row \cup {None}] /\ db.artifact = durable.artifact
      /\ db.sources = durable.sources
      /\ \A s \in Src : db.scanned[s] = durable.scanned[s]
      /\ \A f \in Files : durable.scanned[f] # None => db.scanned[f] # None
  BY DEF OnlyMarksWait, TypeInv, TypeOK, Tables
<1>8. /\ \A k \in Ids \ {id} : durable'.artifact[k] = durable.artifact[k]
      /\ durable'.artifact[id] = durable.artifact[id] \/ durable'.artifact[id] = row
  BY <1>2, <1>3, <1>7 DEF Upsert
<1>9. /\ durable'.artifact[id] # None
      /\ durable.artifact[id] # None => durable'.artifact[id].mtime >= durable.artifact[id].mtime
  <2> HIDE DEF id, row
  <2> QED BY <1>2, <1>3, <1>7, UpsertType
<1>10. durable'.artifact[id] = durable.artifact[id] \/ durable'.artifact[id].path = p
  BY <1>8
<1>11. /\ durable'.scanned \in [Elf \cup Src -> Times \cup {None}]
       /\ \A f \in {p} \cup S : durable'.scanned[f] # None
       /\ \A f \in Elf : durable.scanned[f] # None => durable'.scanned[f] # None
       /\ \A s \in Src \ S : durable'.scanned[s] = durable.scanned[s]
  <2>1. p \notin Src
    BY BuildsAssumption
  <2> QED BY <1>4, <1>5, <1>6, <1>7, <2>1 DEF Tables, Files
<1>12. durable'.sources = durable.sources \cup ({id} \X S)
  BY <1>3, <1>7
<1>13. Committed!Publish(p, id, S)
  <2> HIDE DEF id, S
  <2> QED BY <1>8, <1>9, <1>10, <1>11, <1>12 DEF Committed!Publish, Committed!AtLeastAsNew
<1> QED BY <1>13

\* What was committed implements IndexTables, for any number of copies, workers, batches,
\* failures, rollbacks, stops and restarts: nothing that was found is lost or gets older.
THEOREM TablesOnlyAdvance == Spec => CommittedIndex
<1>1. Init => TypeInv /\ OnlyMarksWait
  BY InitType DEF Init, OnlyMarksWait
<1>2. TypeInv /\ OnlyMarksWait /\ [Next]_vars => TypeInv' /\ OnlyMarksWait'
  BY NextType, WaitingNext
<1>3. Init => Committed!Init
  BY DEF Init, Committed!Init, Files
<1>4. TypeInv /\ OnlyMarksWait /\ [Next]_vars => [Committed!Next]_(Committed!tables)
  <2> SUFFICES ASSUME TypeInv, OnlyMarksWait, [Next]_vars
               PROVE  [Committed!Next]_(Committed!tables)
    OBVIOUS
  <2>1. ASSUME NEW p \in Elf, ApplyElf(p)
        PROVE  Committed!Next
    <3>1. IdOf[job[p].build] \in Ids /\ NewSources(p) \in SUBSET Src
      BY <2>1, BuildsAssumption DEF ApplyElf, TypeInv, JobShape, NewSources, TypeOK, Job
    <3>2. Committed!Publish(p, IdOf[job[p].build], NewSources(p))
      BY <2>1, ApplyPublishes
    <3> QED BY <3>1, <3>2 DEF Committed!Next
  <2>2. (\E p \in Elf : ApplyElf(p)) \/ durable' = durable
    BY DEF Next, Scan, Worker, Main, Environment, vars, StartScan, StartBatch, EndBatch,
           EndScan, CancelScan, Collect, Submit, ReadNotes, ReadSources, ParseFails,
           ApplyNoId, ApplyFails, Stop, Restart, PackEnds, Remove, PackRemoves, PackCopies,
           Write, WriteSource
  <2>3. CASE durable' = durable
    BY <2>3 DEF Committed!tables
  <2> QED BY <2>1, <2>2, <2>3
<1> QED BY <1>1, <1>2, <1>3, <1>4, PTL DEF Spec, CommittedIndex, Committed!Spec

------------------------------------------------------------------------------
\* The delta that is found

\* The opposite of what IndexCopy shows: the scan passes by the copies that dedup works on,
\* and only dedup takes a file away or lets its path hold another build.
FilesStay ==
  [][\A p \in Elf \ {Work} : Present(p)
       => build'[p] = build[p] /\ (Present(p)' \/ p \in packed')]_vars

Kept(p) == Present(p) \/ p \in packed

\* A row of the index names a path that holds its artifact or its delta, and what is marked
\* has a row.
TableStands(t) ==
  /\ \A id \in Ids : t.artifact[id] # None
       => LET q == t.artifact[id].path
          IN  q # Work /\ Kept(q) /\ IdOf[build[q]] = id
  /\ \A p \in Elf : t.scanned[p] # None
       => /\ p # Work /\ Kept(p)
          /\ IdOf[build[p]] # NoId => t.artifact[IdOf[build[p]]] # None

HandStands ==
  \A p \in Elf :
    /\ job[p].step # "none" => p # Work
    /\ InHand(p) => Kept(p) /\ job[p].build = build[p]

StandInv == TypeInv /\ TableStands(db) /\ TableStands(durable) /\ HandStands

LEMMA KeptStays ==
  ASSUME TypeInv, Next, NEW p \in Elf \ {Work}, Kept(p),
         Present(p) => build'[p] = build[p] /\ (Present(p)' \/ p \in packed')
  PROVE  Kept(p)' /\ build'[p] = build[p]
<1>1. packed \subseteq packed'
  BY DEF Next, Scan, Worker, Main, Environment, StartScan, StartBatch, EndBatch, EndScan,
         CancelScan, Collect, Submit, ReadNotes, ReadSources, ParseFails, ApplyNoId, ApplyElf,
         ApplyFails, Stop, Restart, PackEnds, Remove, PackRemoves, PackCopies, Write,
         WriteSource, dedupVars
<1>2. ASSUME p \in packed PROVE build'[p] = build[p]
  <2>1. ASSUME NEW q \in Elf, NEW t \in Times, NEW b \in Builds, Write(q, b, t)
        PROVE  build'[p] = build[p]
    BY <1>2, <2>1 DEF Write, TypeInv, TypeOK
  <2>2. ASSUME NEW q \in Elf, NEW t \in Times, PackCopies(q, t)
        PROVE  build'[p] = build[p]
    BY <2>2 DEF PackCopies, TypeInv, TypeOK
  <2>3. CASE build' = build
    BY <2>3
  <2> QED BY <2>1, <2>2, <2>3
          DEF Next, Scan, Worker, Main, Environment, StartScan, StartBatch, EndBatch, EndScan,
              CancelScan, Collect, Submit, ReadNotes, ReadSources, ParseFails, ApplyNoId,
              ApplyElf, ApplyFails, Stop, Restart, PackEnds, Remove, PackRemoves, WriteSource,
              diskVars
<1> QED BY <1>1, <1>2 DEF Kept

\* What is kept on the disk keeps the tables true.
LEMMA TablesKept ==
  ASSUME TypeInv, \A p \in Elf \ {Work} : Kept(p) => Kept(p)' /\ build'[p] = build[p]
  PROVE  /\ db' = db /\ TableStands(db) => TableStands(db)'
         /\ db' = durable /\ TableStands(durable) => TableStands(db)'
         /\ durable' = durable /\ TableStands(durable) => TableStands(durable)'
<1>1. /\ \A id \in Ids : db.artifact[id] # None => db.artifact[id].path \in Elf
      /\ \A id \in Ids : durable.artifact[id] # None => durable.artifact[id].path \in Elf
  BY DEF TypeInv, TypeOK, Tables, Row
<1>2. db' = db /\ TableStands(db) => TableStands(db)'
  BY <1>1 DEF TableStands
<1>3. db' = durable /\ TableStands(durable) => TableStands(db)'
  BY <1>1 DEF TableStands
<1>4. durable' = durable /\ TableStands(durable) => TableStands(durable)'
  BY <1>1 DEF TableStands
<1> QED BY <1>2, <1>3, <1>4

LEMMA StandNext ==
  ASSUME StandInv, Work \notin todo, Next,
         \A p \in Elf \ {Work} :
           Present(p) => build'[p] = build[p] /\ (Present(p)' \/ p \in packed')
  PROVE  StandInv'
<1> USE DEF StandInv
<1>0. TypeInv'
  BY NextType
<1>a. \A p \in Elf \ {Work} : Kept(p) => Kept(p)' /\ build'[p] = build[p]
  BY KeptStays
\* A job is dropped, or sent on as far as it was.
<1>b. ASSUME \A q \in Elf : \/ job'[q] = job[q] \/ job'[q].step = "none"
                            \/ q # Work /\ job'[q].step \notin {"read", "parsed"}
      PROVE  HandStands'
  BY <1>a, <1>b DEF HandStands, InHand, At
<1>c. ASSUME NEW p \in Elf, Applied(p)
      PROVE  HandStands'
  <2>1. \A q \in Elf : job'[q] = job[q] \/ job'[q].step = "none"
    BY <1>c DEF Applied, NoJobs, NoJob, JobAt, TypeInv, TypeOK
  <2> QED BY <1>b, <2>1
<1>d. ASSUME UNCHANGED <<db, durable>>, HandStands'
      PROVE  StandInv'
  BY <1>0, <1>a, <1>d, TablesKept
<1>1. ASSUME NEW p \in Elf, ReadNotes(p) \/ ReadSources(p)
      PROVE  StandInv'
  <2>1. /\ \A q \in Elf : q # p => job'[q] = job[q]
        /\ Present(p) /\ job[p].step \in {"sent", "read"} /\ build' = build
        /\ job'[p].build = IF job[p].step = "sent" THEN build[p] ELSE job[p].build
        /\ UNCHANGED <<db, durable>>
    BY <1>1 DEF ReadNotes, ReadSources, TypeInv, TypeOK, diskVars
  <2>2. p # Work /\ Kept(p)' /\ job'[p].build = build'[p]
    BY <1>a, <2>1 DEF HandStands, Kept, InHand, At
  <2>3. HandStands'
    BY <1>a, <2>1, <2>2 DEF HandStands, InHand, At
  <2> QED BY <1>d, <2>1, <2>3
<1>2. ASSUME NEW p \in Elf, Collect(p) \/ Submit(p) \/ ParseFails(p)
      PROVE  StandInv'
  <2>1. \A q \in Elf : \/ job'[q] = job[q] \/ job'[q].step = "none"
                       \/ q # Work /\ job'[q].step \notin {"read", "parsed"}
    BY <1>2 DEF Collect, Submit, ParseFails, HandStands, JobAt, NoJob, TypeInv, TypeOK
  <2>2. UNCHANGED <<db, durable>>
    BY <1>2 DEF Collect, Submit, ParseFails
  <2> QED BY <1>b, <1>d, <2>1, <2>2
<1>3. ASSUME NEW p \in Elf, ApplyNoId(p)
      PROVE  StandInv'
  <2>1. durable' = durable /\ build' = build /\ HandStands'
    BY <1>3, <1>c DEF ApplyNoId, diskVars
  <2>2. p # Work /\ Kept(p) /\ IdOf[build[p]] = NoId
    BY <1>3 DEF ApplyNoId, HandStands, InHand, At
  <2>3. db'.artifact = db.artifact
    BY <1>3 DEF ApplyNoId, TypeInv, TypeOK, Tables
  <2>4. \A q \in Elf : q # p => db'.scanned[q] = db.scanned[q]
    BY <1>3 DEF ApplyNoId, Mark, Files, TypeInv, TypeOK, Tables
  <2>5. \A id \in Ids : db.artifact[id] # None => db.artifact[id].path \in Elf
    BY DEF TypeInv, TypeOK, Tables, Row
  <2>6. TableStands(db)'
    BY <1>a, <2>1, <2>2, <2>3, <2>4, <2>5 DEF TableStands
  <2> QED BY <1>0, <1>a, <2>1, <2>6, TablesKept
<1>4. ASSUME NEW p \in Elf, ApplyElf(p)
      PROVE  StandInv'
  <2> DEFINE id == IdOf[job[p].build]
             row == [path |-> p, mtime |-> job[p].mtime]
  <2>1. db' = Result(p) /\ durable' = Result(p) /\ build' = build /\ HandStands'
    BY <1>4, <1>c DEF ApplyElf, diskVars
  <2>2. p # Work /\ Kept(p) /\ IdOf[build[p]] = id /\ id \in Ids
    BY <1>4, BuildsAssumption DEF ApplyElf, HandStands, InHand, At, TypeInv, JobShape
  <2>3. row \in Row /\ row # None /\ row.path = p
    BY <1>4, BuildsAssumption DEF ApplyElf, TypeInv, JobShape, Row
  <2>4. db.artifact \in [Ids -> Row \cup {None}]
    BY DEF TypeInv, TypeOK, Tables
  <2>5. /\ db'.artifact = Upsert(db.artifact, id, row)
        /\ db'.scanned = Mark(db.scanned, {p} \cup NewSources(p))
    BY <2>1 DEF Result
  <2>6. \A k \in Ids : \/ db'.artifact[k] = db.artifact[k]
                       \/ k = id /\ db'.artifact[k] = row
    BY <2>2, <2>4, <2>5 DEF Upsert
  <2>7. /\ db'.artifact[id] # None
        /\ \A k \in Ids : db.artifact[k] # None => db'.artifact[k] # None
    <3> HIDE DEF id, row
    <3> QED BY <2>2, <2>3, <2>4, <2>5, UpsertType
  <2>8. \A q \in Elf : q # p => db'.scanned[q] = db.scanned[q]
    BY <2>5, BuildsAssumption DEF Mark, Files, NewSources, TypeInv, TypeOK, Job
  <2>9. \A k \in Ids : db.artifact[k] # None => db.artifact[k].path \in Elf
    BY <2>4 DEF Row
  <2>10. Kept(p)' /\ \A q \in Elf : IdOf[build[q]] \in Ids \cup {NoId}
    BY <1>a, <2>2, BuildsAssumption DEF TypeInv, TypeOK
  <2> HIDE DEF id, row
  <2>11. ASSUME NEW k \in Ids, db'.artifact[k] # None,
                NEW q \in Elf, q = db'.artifact[k].path
         PROVE  q # Work /\ Kept(q)' /\ IdOf[build'[q]] = k
    <3>1. CASE db'.artifact[k] = db.artifact[k]
      <4>1. q # Work /\ Kept(q) /\ IdOf[build[q]] = k
        BY <2>11, <3>1 DEF TableStands
      <4> QED BY <1>a, <2>1, <4>1
    <3>2. CASE k = id /\ db'.artifact[k] = row
      BY <2>1, <2>2, <2>3, <2>10, <2>11, <3>2
    <3> QED BY <2>6, <3>1, <3>2
  <2>12. ASSUME NEW q \in Elf, db'.scanned[q] # None
         PROVE  /\ q # Work /\ Kept(q)'
                /\ IdOf[build'[q]] # NoId => db'.artifact[IdOf[build'[q]]] # None
    <3>1. CASE q = p
      BY <2>1, <2>2, <2>7, <2>10, <3>1
    <3>2. CASE q # p
      BY <1>a, <2>1, <2>7, <2>8, <2>10, <2>12, <3>2 DEF TableStands
    <3> QED BY <3>1, <3>2
  <2>13. TableStands(db)'
    <3>1. \A k \in Ids : db'.artifact[k] # None => db'.artifact[k].path \in Elf
      BY <2>2, <2>3, <2>6, <2>9
    <3> QED BY <2>11, <2>12, <3>1 DEF TableStands
  <2>14. TableStands(durable)'
    BY <2>1, <2>13 DEF TableStands
  <2> QED BY <1>0, <2>1, <2>13, <2>14
<1>5. ASSUME NEW p \in Elf, ApplyFails(p)
      PROVE  StandInv'
  <2>1. db' = durable /\ durable' = durable /\ HandStands'
    BY <1>5, <1>c DEF ApplyFails
  <2> QED BY <1>0, <1>a, <2>1, TablesKept
<1>6. CASE Restart
  <2>1. db' = durable /\ durable' = durable /\ \A q \in Elf : job'[q].step = "none"
    BY <1>6 DEF Restart, NoJobs, NoJob, JobAt
  <2> QED BY <1>0, <1>a, <1>b, <2>1, TablesKept
<1>7. CASE CancelScan
  <2>1. UNCHANGED <<db, durable>> /\ \A q \in Elf : job'[q].step = "none"
    BY <1>7 DEF CancelScan, NoJobs, NoJob, JobAt
  <2> QED BY <1>b, <1>d, <2>1
<1>8. CASE UNCHANGED <<db, durable, job>>
  BY <1>8, <1>b, <1>d
<1> QED
  BY <1>1, <1>2, <1>3, <1>4, <1>5, <1>6, <1>7, <1>8
  DEF Next, Scan, Worker, Main, Environment, StartScan, StartBatch, EndBatch, EndScan, Stop,
      PackEnds, Remove, PackRemoves, PackCopies, Write, WriteSource, scanVars

\* As long as the scan does not list the copies of dedup and only dedup takes files away,
\* every delta that was indexed is found for its build-id, whatever fails, is rolled back,
\* stopped or restarted, and however many copies of a program there are: the copy in
\* dedup-prep-* is all there is to the finding of IndexCopy.
THEOREM DeltasAreReachable ==
  Spec /\ [](Work \notin todo) /\ FilesStay => []DeltaIsReachable
<1> DEFINE Stays == \A p \in Elf \ {Work} :
                      Present(p) => build'[p] = build[p] /\ (Present(p)' \/ p \in packed')
<1>1. Init => StandInv
  <2> SUFFICES ASSUME Init PROVE StandInv
    OBVIOUS
  <2>1. TypeInv
    BY InitType
  <2>2. /\ db = durable /\ \A p \in Elf : job[p].step = "none"
        /\ \A p \in Elf : db.scanned[p] = None
        /\ \A id \in Ids : db.artifact[id] = None
    BY DEF Init, NoJobs, NoJob, JobAt, Files
  <2> QED BY <2>1, <2>2 DEF StandInv, TableStands, HandStands, InHand, At
<1>2. StandInv /\ Work \notin todo /\ [Next]_vars /\ [Stays]_vars => StandInv'
  <2>1. CASE vars' = vars
    BY <2>1 DEF vars, diskVars, scanVars, dedupVars, StandInv, TypeInv, TypeOK, JobShape, TableStands,
                HandStands, InHand, At, Kept, Present, Tables
  <2>2. CASE ~(vars' = vars)
    BY <2>2, StandNext
  <2> QED BY <2>1, <2>2
<1>3. StandInv => DeltaIsReachable
  <2> SUFFICES ASSUME StandInv, NEW p \in packed, db.scanned[p] # None,
                      IdOf[build[p]] # NoId
               PROVE  Serves(IdOf[build[p]])
    BY DEF DeltaIsReachable
  <2>1. p \in Elf /\ IdOf[build[p]] \in Ids
    BY BuildsAssumption DEF StandInv, TypeInv, TypeOK
  <2> QED BY <2>1 DEF StandInv, TableStands, Serves, Kept
<1> QED BY <1>1, <1>2, <1>3, PTL DEF Spec, FilesStay
============================================================================
