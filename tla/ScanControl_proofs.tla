------------------------ MODULE ScanControl_proofs ------------------------
(***************************************************************************)
(* What holds of the scan control for any callers, threads, files and      *)
(* budgets. One lemma per inductive invariant, one step per                 *)
(* group of actions that touch the same variables.                         *)
(***************************************************************************)
EXTENDS ScanControl, TLAPS

\* The flag is set while a scan is in its critical section.
FlagIsSet == \A c \in Callers : InScan(c) => scanning

\* DedupRunner knows of the thread that runs an ingest.
RunnerKnows == \A t \in Threads : Ingesting(t) => inProgress

\* A walk has looked at everything that was there at the start or has it before it; a scan
\* that was not cancelled and is past its walk has looked at it.
WalkCovers ==
  \A c \in Callers :
    /\ pc[c] = "walk" => initial \subseteq seen \cup scan[c].todo
    /\ pc[c] \in {"close", "uninstall", "hook", "free", "publish"} /\ ~scan[c].cancelled
         => initial \subseteq seen

\* Whoever is going to end the progress: a scan that has begun it, or a thread with metrics.
Owes(c) == pc[c] \in {"open", "install", "walk", "close", "uninstall", "hook", "free",
                      "publish", "cancel", "phase", "schedule", "closeRaised",
                      "uninstallRaised", "raised"}
Reporting(t) == thread[t].step # "none" /\ thread[t].reports
ProgressIsOwed ==
  phase # "idle" => (\E c \in Callers : Owes(c)) \/ \E t \in Threads : Reporting(t)

------------------------------------------------------------------------------
\* Type correctness

LEMMA InitType == Init => TypeOK
<1> SUFFICES ASSUME Init PROVE TypeOK
  OBVIOUS
<1>1. NoScan \in Scan /\ NoThread \in Thread
  BY DEF NoScan, Scan, NoThread, Thread
<1>2. scan \in [Callers -> Scan] /\ thread \in [Threads -> Thread]
  BY <1>1 DEF Init
<1>3. pc \in [Callers -> Places] /\ budget \in [Bounds -> Nat]
  BY ThreadsAssumption DEF Init, Places
<1> QED BY <1>2, <1>3 DEF Init, TypeOK

LEMMA ScheduleType ==
  ASSUME TypeOK, NEW c \in Callers, NEW reports \in BOOLEAN, Schedule(c, reports)
  PROVE  /\ inProgress' \in BOOLEAN /\ thread' \in [Threads -> Thread]
         /\ phase' \in {"idle", "indexing", "dedup"}
<1>1. CASE inProgress
  BY <1>1 DEF Schedule, TypeOK, dedupVars
<1>2. CASE ~inProgress
  <2> DEFINE new == [step |-> "count", indexed |-> scan[c].indexed, reports |-> reports]
  <2>1. new \in Thread
    BY DEF TypeOK, Scan, Thread
  <2>2. PICK t \in Threads : thread' = [thread EXCEPT ![t] = new]
    BY <1>2 DEF Schedule
  <2> QED BY <1>2, <2>1, <2>2 DEF Schedule, TypeOK
<1> QED BY <1>1, <1>2

LEMMA NextType ==
  ASSUME TypeOK, [Next]_vars
  PROVE  TypeOK'
<1> USE DEF TypeOK, Callers, Places, Scan, NoScan, Thread, NoThread, Bounds, fileVars,
        runnerVars, poolVars, dedupVars, stopVars, BeforeVars, ScanVars, AfterVars,
        IngestVars
<1>1. ASSUME NEW c \in Callers, TurnedAway(c)
      PROVE  TypeOK'
  BY <1>1 DEF TurnedAway, Step, MayEnter
<1>2. ASSUME NEW c \in Callers, EnterScan(c)
      PROVE  TypeOK'
  BY <1>2 DEF EnterScan, Step, MayEnter
<1>3. ASSUME NEW c \in Callers, BeginScan(c)
      PROVE  TypeOK'
  BY <1>3 DEF BeginScan, Step, MayEnter
<1>4. ASSUME NEW c \in Callers, ScanNothing(c)
      PROVE  TypeOK'
  <2> DEFINE new == [scan[c] EXCEPT !.cancelled = TRUE]
  <2>1. scan[c] \in Scan /\ TRUE \in BOOLEAN
    OBVIOUS
  <2>2. new \in Scan
    BY <2>1, Zenon
  <2>3. scan' = [scan EXCEPT ![c] = new]
    BY <1>4, Zenon DEF ScanNothing
  <2> HIDE DEF new
  <2>4. scan' \in [Callers -> Scan]
    BY <2>2, <2>3
  <2>5. /\ Step(c, "open", "free")
        /\ UNCHANGED <<fileVars, ScanVars, poolVars, budget>>
    BY <1>4, Zenon DEF ScanNothing
  <2> QED BY <2>4, <2>5 DEF Step
<1>5. ASSUME NEW c \in Callers, InstallPool(c)
      PROVE  TypeOK'
  BY <1>5 DEF InstallPool, Step, Unlocked
<1>6. ASSUME NEW c \in Callers, EndWalk(c)
      PROVE  TypeOK'
  BY <1>6 DEF EndWalk, Step, Unlocked
<1>7. ASSUME NEW c \in Callers, ClosePool(c)
      PROVE  TypeOK'
  BY <1>7 DEF ClosePool, Step, Unlocked
<1>8. ASSUME NEW c \in Callers,
             \/ LockExecutor(c, "open", "install")
             \/ LockExecutor(c, "close", "uninstall")
             \/ LockExecutor(c, "closeRaised", "uninstallRaised")
      PROVE  TypeOK'
  BY <1>8 DEF LockExecutor, Step
<1>9. ASSUME NEW c \in Callers, NEW f \in Files, Visit(c, f)
      PROVE  TypeOK'
  BY <1>9 DEF Visit, Walking, Spend
<1>10. ASSUME NEW c \in Callers, Hook(c)
      PROVE  TypeOK'
  <2>1. CASE stop
    BY <1>10, <2>1 DEF Hook, Step
  <2>2. CASE ~stop
    <3>1. pc' \in [Callers -> Places]
      BY <1>10 DEF Hook, Step
    <3> QED BY <1>10, <2>2, <3>1, ScheduleType DEF Hook
  <2> QED BY <2>1, <2>2
<1>11. ASSUME NEW c \in Callers, FreeScan(c)
      PROVE  TypeOK'
  BY <1>11 DEF FreeScan, Step
<1>12. ASSUME NEW c \in Callers, Publish(c)
      PROVE  TypeOK'
  BY <1>12 DEF Publish, Step
<1>13. ASSUME NEW c \in Callers, SetPhase(c)
      PROVE  TypeOK'
  BY <1>13 DEF SetPhase, Step
<1>14. ASSUME NEW c \in Callers, EndRaised(c)
      PROVE  TypeOK'
  BY <1>14 DEF EndRaised, Step
<1>15. ASSUME NEW c \in Callers, FreeRaised(c)
      PROVE  TypeOK'
  BY <1>15 DEF FreeRaised, Step
<1>16. ASSUME NEW c \in Callers, EndCancelled(c)
      PROVE  TypeOK'
  BY <1>16 DEF EndCancelled, Rest, Step
<1>17. ASSUME NEW c \in Callers, ScheduleAgain(c)
      PROVE  TypeOK'
  <2>1. pc' \in [Callers -> Places] /\ scan' \in [Callers -> Scan]
    BY <1>17 DEF ScheduleAgain, Rest, Step
  <2> QED BY <1>17, <2>1, ScheduleType DEF ScheduleAgain
<1>18. ASSUME NEW c \in Callers, Trigger(c)
      PROVE  TypeOK'
  BY <1>18 DEF Trigger, Step, Spend
<1>19. ASSUME NEW c \in Callers, Raise(c)
      PROVE  TypeOK'
  BY <1>19 DEF Raise, Step, Spend
<1>20. ASSUME NEW t \in Threads, SkipIngest(t)
      PROVE  TypeOK'
  BY <1>20 DEF SkipIngest, Advance
<1>21. ASSUME NEW t \in Threads, Discover(t)
      PROVE  TypeOK'
  BY <1>21 DEF Discover, Advance
<1>22. ASSUME NEW t \in Threads, Finish(t)
      PROVE  TypeOK'
  BY <1>22 DEF Finish, Advance
<1>23. ASSUME NEW t \in Threads, Report(t)
      PROVE  TypeOK'
  BY <1>23 DEF Report, Advance
<1>24. ASSUME NEW t \in Threads, Work(t)
      PROVE  TypeOK'
  BY <1>24 DEF Work, Advance, Spend, Settled
<1>25. ASSUME NEW t \in Threads, FailIngest(t)
      PROVE  TypeOK'
  BY <1>25 DEF FailIngest, Advance, Spend, Settled
<1>26. ASSUME NEW f \in Files, Deliver(f)
      PROVE  TypeOK'
  BY <1>26 DEF Deliver
<1>27. ASSUME Wake \/ LoopEnds
      PROVE  TypeOK'
  BY <1>27 DEF Wake, LoopEnds, Step
<1>28. ASSUME Signal
      PROVE  TypeOK'
  BY <1>28 DEF Signal, Spend
<1>29. ASSUME HandlerEnds
      PROVE  TypeOK'
  BY <1>29 DEF HandlerEnds, Spend
<1>30. CASE UNCHANGED vars
  BY <1>30 DEF vars
<1> QED BY <1>1, <1>2, <1>3, <1>4, <1>5, <1>6, <1>7, <1>8, <1>9, <1>10, <1>11, <1>12,
        <1>13, <1>14, <1>15, <1>16, <1>17, <1>18, <1>19, <1>20, <1>21, <1>22, <1>23,
        <1>24, <1>25, <1>26, <1>27, <1>28, <1>29, <1>30 DEF Next, CallerNext, ThreadNext

\* Every variable of the scan control keeps its type, whatever callers, threads and files
\* there are.
THEOREM TypeCorrect == Spec => []TypeOK
<1>1. TypeOK /\ [Next]_vars => TypeOK'
  BY NextType
<1> QED BY <1>1, InitType, PTL DEF Spec

------------------------------------------------------------------------------
\* One scan at a time

LEMMA NextScan ==
  ASSUME TypeOK, OneScan, FlagIsSet, [Next]_vars
  PROVE  (OneScan /\ FlagIsSet)'
<1> USE DEF TypeOK, OneScan, FlagIsSet, InScan, Callers, fileVars, runnerVars, poolVars,
        dedupVars, stopVars, BeforeVars, ScanVars, AfterVars, IngestVars
<1>1. ASSUME NEW c \in Callers, TurnedAway(c)
      PROVE  (OneScan /\ FlagIsSet)'
  BY <1>1 DEF TurnedAway, Step, MayEnter
<1>2. ASSUME NEW c \in Callers, EnterScan(c)
      PROVE  (OneScan /\ FlagIsSet)'
  BY <1>2 DEF EnterScan, Step, MayEnter
<1>3. ASSUME NEW c \in Callers, BeginScan(c)
      PROVE  (OneScan /\ FlagIsSet)'
  BY <1>3 DEF BeginScan, Step, MayEnter
<1>4. ASSUME NEW c \in Callers, ScanNothing(c)
      PROVE  (OneScan /\ FlagIsSet)'
  BY <1>4 DEF ScanNothing, Step, Unlocked
<1>5. ASSUME NEW c \in Callers, InstallPool(c)
      PROVE  (OneScan /\ FlagIsSet)'
  BY <1>5 DEF InstallPool, Step, Unlocked
<1>6. ASSUME NEW c \in Callers, EndWalk(c)
      PROVE  (OneScan /\ FlagIsSet)'
  BY <1>6 DEF EndWalk, Step, Unlocked
<1>7. ASSUME NEW c \in Callers, ClosePool(c)
      PROVE  (OneScan /\ FlagIsSet)'
  BY <1>7 DEF ClosePool, Step, Unlocked
<1>8. ASSUME NEW c \in Callers,
             \/ LockExecutor(c, "open", "install")
             \/ LockExecutor(c, "close", "uninstall")
             \/ LockExecutor(c, "closeRaised", "uninstallRaised")
      PROVE  (OneScan /\ FlagIsSet)'
  BY <1>8 DEF LockExecutor, Step
<1>9. ASSUME NEW c \in Callers, NEW f \in Files, Visit(c, f)
      PROVE  (OneScan /\ FlagIsSet)'
  BY <1>9 DEF Visit, Walking, Spend
<1>10. ASSUME NEW c \in Callers, Hook(c)
      PROVE  (OneScan /\ FlagIsSet)'
  BY <1>10 DEF Hook, Step, Schedule
<1>11. ASSUME NEW c \in Callers, FreeScan(c)
      PROVE  (OneScan /\ FlagIsSet)'
  BY <1>11 DEF FreeScan, Step
<1>12. ASSUME NEW c \in Callers, Publish(c)
      PROVE  (OneScan /\ FlagIsSet)'
  BY <1>12 DEF Publish, Step
<1>13. ASSUME NEW c \in Callers, SetPhase(c)
      PROVE  (OneScan /\ FlagIsSet)'
  BY <1>13 DEF SetPhase, Step
<1>14. ASSUME NEW c \in Callers, EndRaised(c)
      PROVE  (OneScan /\ FlagIsSet)'
  BY <1>14 DEF EndRaised, Step
<1>15. ASSUME NEW c \in Callers, FreeRaised(c)
      PROVE  (OneScan /\ FlagIsSet)'
  BY <1>15 DEF FreeRaised, Step
<1>16. ASSUME NEW c \in Callers, EndCancelled(c)
      PROVE  (OneScan /\ FlagIsSet)'
  BY <1>16 DEF EndCancelled, Rest, Step
<1>17. ASSUME NEW c \in Callers, ScheduleAgain(c)
      PROVE  (OneScan /\ FlagIsSet)'
  BY <1>17 DEF ScheduleAgain, Rest, Step, Schedule
<1>18. ASSUME NEW c \in Callers, Trigger(c) \/ Raise(c)
      PROVE  (OneScan /\ FlagIsSet)'
  BY <1>18 DEF Trigger, Raise, Step, Spend
<1>19. ASSUME NEW t \in Threads, SkipIngest(t) \/ Discover(t) \/ Finish(t) \/ Report(t)
      PROVE  (OneScan /\ FlagIsSet)'
  BY <1>19 DEF SkipIngest, Discover, Finish, Report, Advance
<1>20. ASSUME NEW t \in Threads, Work(t) \/ FailIngest(t)
      PROVE  (OneScan /\ FlagIsSet)'
  BY <1>20 DEF Work, FailIngest, Advance, Spend, Settled
<1>21. ASSUME NEW f \in Files, Deliver(f)
      PROVE  (OneScan /\ FlagIsSet)'
  BY <1>21 DEF Deliver
<1>22. ASSUME Wake \/ LoopEnds
      PROVE  (OneScan /\ FlagIsSet)'
  BY <1>22 DEF Wake, LoopEnds, Step
<1>23. ASSUME Signal \/ HandlerEnds
      PROVE  (OneScan /\ FlagIsSet)'
  BY <1>23 DEF Signal, HandlerEnds, Spend
<1>24. CASE UNCHANGED vars
  BY <1>24 DEF vars
<1> QED BY <1>1, <1>2, <1>3, <1>4, <1>5, <1>6, <1>7, <1>8, <1>9, <1>10, <1>11, <1>12,
        <1>13, <1>14, <1>15, <1>16, <1>17, <1>18, <1>19, <1>20, <1>21, <1>22, <1>23, <1>24
        DEF Next, CallerNext, ThreadNext

\* At most one scan is in its critical section, however many threads call run_once.
THEOREM OneScanEver == Spec => []OneScan
<1>1. Init => OneScan /\ FlagIsSet
  BY DEF Init, OneScan, FlagIsSet, InScan
<1>2. TypeOK /\ OneScan /\ FlagIsSet /\ [Next]_vars => (OneScan /\ FlagIsSet)'
  BY NextScan
<1> QED BY <1>1, <1>2, TypeCorrect, PTL DEF Spec

------------------------------------------------------------------------------
\* One background ingest at a time

LEMMA NextIngest ==
  ASSUME TypeOK, OneIngest, RunnerKnows, [Next]_vars
  PROVE  (OneIngest /\ RunnerKnows)'
<1> USE DEF TypeOK, OneIngest, RunnerKnows, Ingesting, Thread, NoThread, fileVars,
        runnerVars, poolVars, dedupVars, stopVars, BeforeVars, ScanVars, AfterVars,
        IngestVars
<1>1. ASSUME NEW c \in Callers, TurnedAway(c) \/ EnterScan(c) \/ BeginScan(c)
      PROVE  (OneIngest /\ RunnerKnows)'
  BY <1>1 DEF TurnedAway, EnterScan, BeginScan, Step, MayEnter
<1>2. ASSUME NEW c \in Callers, 
             ScanNothing(c) \/ InstallPool(c) \/ EndWalk(c) \/ ClosePool(c)
      PROVE  (OneIngest /\ RunnerKnows)'
  BY <1>2 DEF ScanNothing, InstallPool, EndWalk, ClosePool, Step, Unlocked
<1>3. ASSUME NEW c \in Callers,
             \/ LockExecutor(c, "open", "install")
             \/ LockExecutor(c, "close", "uninstall")
             \/ LockExecutor(c, "closeRaised", "uninstallRaised")
      PROVE  (OneIngest /\ RunnerKnows)'
  BY <1>3 DEF LockExecutor, Step
<1>4. ASSUME NEW c \in Callers, NEW f \in Files, Visit(c, f)
      PROVE  (OneIngest /\ RunnerKnows)'
  BY <1>4 DEF Visit, Walking, Spend
<1>5. ASSUME NEW c \in Callers, Hook(c)
      PROVE  (OneIngest /\ RunnerKnows)'
  BY <1>5 DEF Hook, Step, Schedule
<1>6. ASSUME NEW c \in Callers, 
             FreeScan(c) \/ Publish(c) \/ SetPhase(c) \/ EndRaised(c) \/ FreeRaised(c)
      PROVE  (OneIngest /\ RunnerKnows)'
  BY <1>6 DEF FreeScan, Publish, SetPhase, EndRaised, FreeRaised, Step
<1>7. ASSUME NEW c \in Callers, EndCancelled(c)
      PROVE  (OneIngest /\ RunnerKnows)'
  BY <1>7 DEF EndCancelled, Rest, Step
<1>8. ASSUME NEW c \in Callers, ScheduleAgain(c)
      PROVE  (OneIngest /\ RunnerKnows)'
  BY <1>8 DEF ScheduleAgain, Rest, Step, Schedule
<1>9. ASSUME NEW c \in Callers, Trigger(c) \/ Raise(c)
      PROVE  (OneIngest /\ RunnerKnows)'
  BY <1>9 DEF Trigger, Raise, Step, Spend
<1>10. ASSUME NEW t \in Threads, SkipIngest(t)
      PROVE  (OneIngest /\ RunnerKnows)'
  BY <1>10 DEF SkipIngest, Advance
<1>11. ASSUME NEW t \in Threads, Discover(t)
      PROVE  (OneIngest /\ RunnerKnows)'
  BY <1>11 DEF Discover, Advance
<1>12. ASSUME NEW t \in Threads, Finish(t)
      PROVE  (OneIngest /\ RunnerKnows)'
  BY <1>12 DEF Finish, Advance
<1>13. ASSUME NEW t \in Threads, Report(t)
      PROVE  (OneIngest /\ RunnerKnows)'
  BY <1>13 DEF Report, Advance
<1>14. ASSUME NEW t \in Threads, Work(t)
      PROVE  (OneIngest /\ RunnerKnows)'
  BY <1>14 DEF Work, Advance, Spend, Settled
<1>15. ASSUME NEW t \in Threads, FailIngest(t)
      PROVE  (OneIngest /\ RunnerKnows)'
  BY <1>15 DEF FailIngest, Advance, Spend, Settled
<1>16. ASSUME NEW f \in Files, Deliver(f)
      PROVE  (OneIngest /\ RunnerKnows)'
  BY <1>16 DEF Deliver
<1>17. ASSUME Wake \/ LoopEnds
      PROVE  (OneIngest /\ RunnerKnows)'
  BY <1>17 DEF Wake, LoopEnds, Step
<1>18. ASSUME Signal \/ HandlerEnds
      PROVE  (OneIngest /\ RunnerKnows)'
  BY <1>18 DEF Signal, HandlerEnds, Spend
<1>19. CASE UNCHANGED vars
  BY <1>19 DEF vars
<1> QED BY <1>1, <1>2, <1>3, <1>4, <1>5, <1>6, <1>7, <1>8, <1>9, <1>10, <1>11, <1>12,
        <1>13, <1>14, <1>15, <1>16, <1>17, <1>18, <1>19 DEF Next, CallerNext, ThreadNext

\* At most one thread of DedupRunner runs an ingest, however often scans ask for one.
THEOREM OneIngestEver == Spec => []OneIngest
<1>1. Init => OneIngest /\ RunnerKnows
  BY DEF Init, OneIngest, RunnerKnows, Ingesting, NoThread
<1>2. TypeOK /\ OneIngest /\ RunnerKnows /\ [Next]_vars => (OneIngest /\ RunnerKnows)'
  BY NextIngest
<1> QED BY <1>1, <1>2, TypeCorrect, PTL DEF Spec

------------------------------------------------------------------------------
\* The two slots

\* Nobody is turned away by a flag that a scan, or an ingest, has left behind.
FlagHasScan == scanning => \E c \in Callers : InScan(c)
FlagHasIngest == inProgress => \E t \in Threads : Ingesting(t)

\* A step of the scan control takes the slot of the scans, leaves it, or leaves it alone.
LEMMA ScanTurn ==
  ASSUME TypeOK, OneScan, FlagIsSet, FlagHasScan, [Next]_vars
  PROVE  [ScanSlot!Next]_<<{c \in Callers : InScan(c)}, scanning>>
<1> DEFINE inside == {c \in Callers : InScan(c)}
<1> SUFFICES [ScanSlot!Next]_<<inside, scanning>>
  OBVIOUS
<1>a. pc \in [Callers -> Places]
  BY DEF TypeOK
<1>b. (\A c \in Callers : InScan(c)' <=> InScan(c)) /\ scanning' = scanning
        => [ScanSlot!Next]_<<inside, scanning>>
  <2> SUFFICES ASSUME \A c \in Callers : InScan(c)' <=> InScan(c), scanning' = scanning
               PROVE  inside' = inside /\ scanning' = scanning
    OBVIOUS
  <2>1. \A c : c \in inside' <=> c \in inside
    OBVIOUS
  <2> QED BY <2>1
\* The caller c moves from one place to another.
<1>c. ASSUME NEW c \in Callers, NEW from, NEW to, Step(c, from, to), scanning' = scanning,
             LET Inside == {"begin", "open", "install", "walk", "close", "uninstall", "hook",
                            "free", "closeRaised", "uninstallRaised", "raised", "freeRaised"}
             IN  from \in Inside <=> to \in Inside
      PROVE  [ScanSlot!Next]_<<inside, scanning>>
  <2>1. ASSUME NEW d \in Callers PROVE InScan(d)' <=> InScan(d)
    BY <1>a, <1>c DEF Step, InScan
  <2> QED BY <1>b, <1>c, <2>1
<1>d. ASSUME pc' = pc, scanning' = scanning
      PROVE  [ScanSlot!Next]_<<inside, scanning>>
  <2>1. \A d \in Callers : InScan(d)' <=> InScan(d)
    BY <1>d DEF InScan
  <2> QED BY <1>b, <1>d, <2>1
<1> USE DEF fileVars, runnerVars, poolVars, dedupVars, stopVars, BeforeVars, ScanVars,
        AfterVars, IngestVars
<1>1. ASSUME NEW c \in Callers, EnterScan(c)
      PROVE  ScanSlot!Take(c)
  <2>1. Step(c, "enter", "begin") /\ ~scanning /\ scanning' = TRUE
    BY <1>1 DEF EnterScan, MayEnter
  <2>2. inside = {}
    BY <2>1 DEF FlagIsSet
  <2>3. \A d \in Callers : InScan(d)' <=> d = c
    BY <1>a, <2>1, <2>2 DEF Step, InScan
  <2>4. \A d : d \in inside' <=> d = c
    BY <2>3
  <2>5. inside' = {c}
    BY <2>4
  <2> QED BY <2>1, <2>2, <2>5 DEF ScanSlot!Take
<1>2. ASSUME NEW c \in Callers, FreeScan(c) \/ FreeRaised(c)
      PROVE  ScanSlot!Leave(c)
  <2>1. /\ pc[c] \in {"free", "freeRaised"} /\ pc' = [pc EXCEPT ![c] = pc'[c]]
        /\ pc'[c] \in {"publish", "dead", "idle"} /\ scanning' = FALSE
    BY <1>2, <1>a DEF FreeScan, FreeRaised, Step
  <2>2. InScan(c)
    BY <2>1 DEF InScan
  <2>3. \A d : d \in inside <=> d = c
    BY <2>2 DEF OneScan
  <2>4. \A d \in Callers : ~InScan(d)'
    BY <1>a, <2>1, <2>3 DEF InScan
  <2>5. inside = {c} /\ inside' = {}
    BY <2>3, <2>4
  <2> QED BY <2>1, <2>5 DEF ScanSlot!Leave
<1>3. ASSUME NEW c \in Callers, CallerNext(c) \/ Trigger(c) \/ Raise(c)
      PROVE  [ScanSlot!Next]_<<inside, scanning>>
  <2>1. CASE EnterScan(c) \/ FreeScan(c) \/ FreeRaised(c)
    BY <1>1, <1>2, <2>1 DEF ScanSlot!Next
  <2>2. CASE TurnedAway(c) \/ BeginScan(c) \/ ScanNothing(c) \/ EndWalk(c) \/ Hook(c)
    BY <1>c, <2>2 DEF TurnedAway, BeginScan, ScanNothing, EndWalk, Hook, Schedule
  <2>3. CASE InstallPool(c) \/ ClosePool(c)
    BY <1>c, <2>3 DEF InstallPool, ClosePool, Unlocked
  <2>4. CASE \/ LockExecutor(c, "open", "install") \/ LockExecutor(c, "close", "uninstall")
             \/ LockExecutor(c, "closeRaised", "uninstallRaised")
    BY <1>c, <2>4 DEF LockExecutor
  <2>5. CASE \E f \in Files : Visit(c, f)
    BY <1>d, <2>5 DEF Visit
  <2>6. CASE Publish(c) \/ EndCancelled(c) \/ SetPhase(c) \/ ScheduleAgain(c) \/ EndRaised(c)
    BY <1>c, <2>6 DEF Publish, EndCancelled, SetPhase, ScheduleAgain, EndRaised, Rest, Schedule
  <2>7. CASE Trigger(c) \/ Raise(c)
    BY <1>c, <2>7 DEF Trigger, Raise
  <2> QED BY <1>3, <2>1, <2>2, <2>3, <2>4, <2>5, <2>6, <2>7 DEF CallerNext
<1>4. CASE Wake \/ LoopEnds
  BY <1>4, <1>c DEF Wake, LoopEnds, Callers
<1>5. ASSUME NEW t \in Threads, ThreadNext(t) \/ FailIngest(t)
      PROVE  [ScanSlot!Next]_<<inside, scanning>>
  BY <1>5, <1>d DEF ThreadNext, SkipIngest, Discover, Work, FailIngest, Finish, Report
<1>6. CASE Signal \/ HandlerEnds \/ (\E f \in Files : Deliver(f)) \/ UNCHANGED vars
  BY <1>6, <1>d DEF Signal, HandlerEnds, Deliver, vars
<1> QED BY <1>3, <1>4, <1>5, <1>6 DEF Next

\* The same for the slot of the ingests.
LEMMA IngestTurn ==
  ASSUME TypeOK, OneIngest, RunnerKnows, FlagHasIngest, [Next]_vars
  PROVE  [IngestSlot!Next]_<<{t \in Threads : Ingesting(t)}, inProgress>>
<1> DEFINE inside == {t \in Threads : Ingesting(t)}
<1> SUFFICES [IngestSlot!Next]_<<inside, inProgress>>
  OBVIOUS
<1>a. thread \in [Threads -> Thread]
  BY DEF TypeOK
<1>b. (\A t \in Threads : Ingesting(t)' <=> Ingesting(t)) /\ inProgress' = inProgress
        => [IngestSlot!Next]_<<inside, inProgress>>
  <2> SUFFICES ASSUME \A t \in Threads : Ingesting(t)' <=> Ingesting(t), inProgress' = inProgress
               PROVE  inside' = inside /\ inProgress' = inProgress
    OBVIOUS
  <2>1. \A t : t \in inside' <=> t \in inside
    OBVIOUS
  <2> QED BY <2>1
<1>c. UNCHANGED dedupVars => [IngestSlot!Next]_<<inside, inProgress>>
  <2> SUFFICES ASSUME UNCHANGED dedupVars PROVE [IngestSlot!Next]_<<inside, inProgress>>
    OBVIOUS
  <2>1. \A t \in Threads : Ingesting(t)' <=> Ingesting(t)
    BY DEF dedupVars, Ingesting
  <2> QED BY <1>b, <2>1 DEF dedupVars
<1>1. ASSUME NEW c \in Callers, NEW reports \in BOOLEAN, Schedule(c, reports)
      PROVE  [IngestSlot!Next]_<<inside, inProgress>>
  <2>1. CASE inProgress
    BY <1>1, <1>c, <2>1 DEF Schedule
  <2>2. CASE ~inProgress
    <3> DEFINE first == [step |-> "count", indexed |-> scan[c].indexed, reports |-> reports]
    <3>1. inProgress' = TRUE
      BY <1>1, <2>2 DEF Schedule
    <3>2. PICK t \in Threads : thread' = [thread EXCEPT ![t] = first]
      BY <1>1, <2>2 DEF Schedule
    <3>3. inside = {}
      BY <2>2 DEF RunnerKnows
    <3>4. \A u \in Threads : Ingesting(u)' <=> u = t
      BY <1>a, <3>2, <3>3 DEF Ingesting
    <3>5. \A u : u \in inside' <=> u = t
      BY <3>4
    <3>6. inside' = {t}
      BY <3>5
    <3>7. IngestSlot!Take(t)
      BY <2>2, <3>1, <3>3, <3>6 DEF IngestSlot!Take
    <3> QED BY <3>7 DEF IngestSlot!Next
  <2> QED BY <2>1, <2>2
<1>2. ASSUME NEW t \in Threads, Finish(t)
      PROVE  [IngestSlot!Next]_<<inside, inProgress>>
  <2>1. /\ thread[t].step = "finish" /\ inProgress' = FALSE
        /\ thread' = [thread EXCEPT ![t].step = "report"]
    BY <1>2 DEF Finish, Advance
  <2>2. \A u : u \in inside <=> u = t
    BY <2>1 DEF OneIngest, Ingesting
  <2>3. \A u \in Threads : ~Ingesting(u)'
    BY <1>a, <2>1, <2>2 DEF Ingesting, Thread
  <2>4. inside = {t} /\ inside' = {}
    BY <2>2, <2>3
  <2>5. IngestSlot!Leave(t)
    BY <2>1, <2>4 DEF IngestSlot!Leave
  <2> QED BY <2>5 DEF IngestSlot!Next
\* A thread goes from one step of its ingest to the next.
<1>3. ASSUME NEW t \in Threads, SkipIngest(t) \/ Discover(t) \/ Work(t) \/ FailIngest(t)
      PROVE  [IngestSlot!Next]_<<inside, inProgress>>
  <2>1. PICK to \in {"work", "finish"} :
           /\ thread[t].step \in {"count", "work"} /\ inProgress' = inProgress
           /\ thread' = [thread EXCEPT ![t].step = to]
    BY <1>3 DEF SkipIngest, Discover, Work, FailIngest, Advance
  <2>2. \A u \in Threads : Ingesting(u)' <=> Ingesting(u)
    BY <1>a, <2>1 DEF Ingesting, Thread
  <2> QED BY <1>b, <2>1, <2>2
<1>4. ASSUME NEW t \in Threads, Report(t)
      PROVE  [IngestSlot!Next]_<<inside, inProgress>>
  <2>1. /\ thread[t].step = "report" /\ inProgress' = inProgress
        /\ thread' = [thread EXCEPT ![t] = NoThread]
    BY <1>4 DEF Report
  <2>2. \A u \in Threads : Ingesting(u)' <=> Ingesting(u)
    BY <1>a, <2>1 DEF Ingesting, Thread, NoThread
  <2> QED BY <1>b, <2>1, <2>2
<1>5. ASSUME NEW c \in Callers, CallerNext(c) \/ Trigger(c) \/ Raise(c)
      PROVE  [IngestSlot!Next]_<<inside, inProgress>>
  <2>1. CASE Hook(c)
    BY <1>1, <1>c, <2>1 DEF Hook
  <2>2. CASE ScheduleAgain(c)
    BY <1>1, <2>2 DEF ScheduleAgain
  <2>3. CASE UNCHANGED dedupVars
    BY <1>c, <2>3
  <2> QED BY <1>5, <2>1, <2>2, <2>3
          DEF CallerNext, TurnedAway, EnterScan, BeginScan, ScanNothing, LockExecutor,
              InstallPool, Visit, EndWalk, ClosePool, FreeScan, Publish, EndCancelled,
              SetPhase, EndRaised, FreeRaised, Trigger, Raise, BeforeVars, ScanVars, AfterVars
<1>6. CASE Wake \/ LoopEnds \/ Signal \/ HandlerEnds \/ (\E f \in Files : Deliver(f))
             \/ UNCHANGED vars
  BY <1>6, <1>c DEF Wake, LoopEnds, Signal, HandlerEnds, Deliver, vars, BeforeVars
<1> QED BY <1>2, <1>3, <1>4, <1>5, <1>6 DEF Next, ThreadNext

LEMMA FlagKept ==
  /\ FlagHasScan /\ [ScanSlot!Next]_<<{c \in Callers : InScan(c)}, scanning>> => FlagHasScan'
  /\ FlagHasIngest /\ [IngestSlot!Next]_<<{t \in Threads : Ingesting(t)}, inProgress>>
       => FlagHasIngest'
<1>1. FlagHasScan <=> (scanning => {c \in Callers : InScan(c)} # {})
  BY DEF FlagHasScan
<1>2. FlagHasScan' <=> (scanning' => {c \in Callers : InScan(c)}' # {})
  BY DEF FlagHasScan
<1>3. FlagHasIngest <=> (inProgress => {t \in Threads : Ingesting(t)} # {})
  BY DEF FlagHasIngest
<1>4. FlagHasIngest' <=> (inProgress' => {t \in Threads : Ingesting(t)}' # {})
  BY DEF FlagHasIngest
<1> QED BY <1>1, <1>2, <1>3, <1>4
        DEF ScanSlot!Next, ScanSlot!Take, ScanSlot!Leave,
            IngestSlot!Next, IngestSlot!Take, IngestSlot!Leave

\* A scan finds the slot of ScanRunner free, and its flag is set exactly as long as a scan is
\* between run_once's two looks at it, whatever fails and whoever else asks.
THEOREM ScansTakeTurnsEver == Spec => ScansTakeTurns
<1>1. Init => OneScan /\ FlagIsSet /\ FlagHasScan /\ ScanSlot!Init
  BY DEF Init, OneScan, FlagIsSet, FlagHasScan, InScan, ScanSlot!Init
<1>2. TypeOK /\ OneScan /\ FlagIsSet /\ FlagHasScan /\ [Next]_vars
        => /\ (OneScan /\ FlagIsSet /\ FlagHasScan)'
           /\ [ScanSlot!Next]_<<{c \in Callers : InScan(c)}, scanning>>
  BY NextScan, ScanTurn, FlagKept
<1>3. ScanSlot!Spec <=>
        ScanSlot!Init /\ [][ScanSlot!Next]_<<{c \in Callers : InScan(c)}, scanning>>
  BY DEF ScanSlot!Spec, ScanSlot!slot
<1> QED BY <1>1, <1>2, <1>3, TypeCorrect, PTL DEF Spec, ScansTakeTurns

\* The same for DedupRunner: an ingest begins when none is under way, and the flag falls with
\* the ingest that has set it.
THEOREM IngestsTakeTurnsEver == Spec => IngestsTakeTurns
<1>1. Init => OneIngest /\ RunnerKnows /\ FlagHasIngest /\ IngestSlot!Init
  BY DEF Init, OneIngest, RunnerKnows, FlagHasIngest, Ingesting, NoThread, IngestSlot!Init
<1>2. TypeOK /\ OneIngest /\ RunnerKnows /\ FlagHasIngest /\ [Next]_vars
        => /\ (OneIngest /\ RunnerKnows /\ FlagHasIngest)'
           /\ [IngestSlot!Next]_<<{t \in Threads : Ingesting(t)}, inProgress>>
  BY NextIngest, IngestTurn, FlagKept
<1>3. IngestSlot!Spec <=>
        IngestSlot!Init /\ [][IngestSlot!Next]_<<{t \in Threads : Ingesting(t)}, inProgress>>
  BY DEF IngestSlot!Spec, IngestSlot!slot
<1> QED BY <1>1, <1>2, <1>3, TypeCorrect, PTL DEF Spec, IngestsTakeTurns

------------------------------------------------------------------------------
\* Readiness

LEMMA NextReady ==
  ASSUME TypeOK, ReadyMeansScanned, WalkCovers, [Next]_vars
  PROVE  (ReadyMeansScanned /\ WalkCovers)'
<1> USE DEF TypeOK, ReadyMeansScanned, WalkCovers, Callers, Scan, NoScan, fileVars,
        runnerVars, poolVars, dedupVars, stopVars, BeforeVars, ScanVars, AfterVars,
        IngestVars
<1>1. ASSUME NEW c \in Callers, TurnedAway(c)
      PROVE  (ReadyMeansScanned /\ WalkCovers)'
  BY <1>1 DEF TurnedAway, Step, MayEnter
<1>2. ASSUME NEW c \in Callers, EnterScan(c)
      PROVE  (ReadyMeansScanned /\ WalkCovers)'
  BY <1>2 DEF EnterScan, Step, MayEnter
<1>3. ASSUME NEW c \in Callers, BeginScan(c)
      PROVE  (ReadyMeansScanned /\ WalkCovers)'
  BY <1>3 DEF BeginScan, Step, MayEnter
<1>4. ASSUME NEW c \in Callers, ScanNothing(c)
      PROVE  (ReadyMeansScanned /\ WalkCovers)'
  BY <1>4 DEF ScanNothing, Step, Unlocked
<1>5. ASSUME NEW c \in Callers, InstallPool(c)
      PROVE  (ReadyMeansScanned /\ WalkCovers)'
  BY <1>5 DEF InstallPool, Step, Unlocked
<1>6. ASSUME NEW c \in Callers, EndWalk(c)
      PROVE  (ReadyMeansScanned /\ WalkCovers)'
  BY <1>6 DEF EndWalk, Step, Unlocked
<1>7. ASSUME NEW c \in Callers, ClosePool(c)
      PROVE  (ReadyMeansScanned /\ WalkCovers)'
  BY <1>7 DEF ClosePool, Step, Unlocked
<1>8. ASSUME NEW c \in Callers,
             \/ LockExecutor(c, "open", "install")
             \/ LockExecutor(c, "close", "uninstall")
             \/ LockExecutor(c, "closeRaised", "uninstallRaised")
      PROVE  (ReadyMeansScanned /\ WalkCovers)'
  BY <1>8 DEF LockExecutor, Step
<1>9. ASSUME NEW c \in Callers, NEW f \in Files, Visit(c, f)
      PROVE  (ReadyMeansScanned /\ WalkCovers)'
  BY <1>9 DEF Visit, Walking, Spend
<1>10. ASSUME NEW c \in Callers, Hook(c)
      PROVE  (ReadyMeansScanned /\ WalkCovers)'
  BY <1>10 DEF Hook, Step, Schedule
<1>11. ASSUME NEW c \in Callers, FreeScan(c)
      PROVE  (ReadyMeansScanned /\ WalkCovers)'
  BY <1>11 DEF FreeScan, Step
<1>12. ASSUME NEW c \in Callers, Publish(c)
      PROVE  (ReadyMeansScanned /\ WalkCovers)'
  BY <1>12 DEF Publish, Step
<1>13. ASSUME NEW c \in Callers, SetPhase(c)
      PROVE  (ReadyMeansScanned /\ WalkCovers)'
  BY <1>13 DEF SetPhase, Step
<1>14. ASSUME NEW c \in Callers, EndRaised(c)
      PROVE  (ReadyMeansScanned /\ WalkCovers)'
  BY <1>14 DEF EndRaised, Step
<1>15. ASSUME NEW c \in Callers, FreeRaised(c)
      PROVE  (ReadyMeansScanned /\ WalkCovers)'
  BY <1>15 DEF FreeRaised, Step
<1>16. ASSUME NEW c \in Callers, EndCancelled(c)
      PROVE  (ReadyMeansScanned /\ WalkCovers)'
  BY <1>16 DEF EndCancelled, Rest, Step
<1>17. ASSUME NEW c \in Callers, ScheduleAgain(c)
      PROVE  (ReadyMeansScanned /\ WalkCovers)'
  BY <1>17 DEF ScheduleAgain, Rest, Step, Schedule
<1>18. ASSUME NEW c \in Callers, Trigger(c) \/ Raise(c)
      PROVE  (ReadyMeansScanned /\ WalkCovers)'
  BY <1>18 DEF Trigger, Raise, Step, Spend
<1>19. ASSUME NEW t \in Threads, SkipIngest(t) \/ Discover(t) \/ Finish(t) \/ Report(t)
      PROVE  (ReadyMeansScanned /\ WalkCovers)'
  BY <1>19 DEF SkipIngest, Discover, Finish, Report, Advance
<1>20. ASSUME NEW t \in Threads, Work(t) \/ FailIngest(t)
      PROVE  (ReadyMeansScanned /\ WalkCovers)'
  BY <1>20 DEF Work, FailIngest, Advance, Spend, Settled
<1>21. ASSUME NEW f \in Files, Deliver(f)
      PROVE  (ReadyMeansScanned /\ WalkCovers)'
  BY <1>21 DEF Deliver
<1>22. ASSUME Wake \/ LoopEnds
      PROVE  (ReadyMeansScanned /\ WalkCovers)'
  BY <1>22 DEF Wake, LoopEnds, Step
<1>23. ASSUME Signal \/ HandlerEnds
      PROVE  (ReadyMeansScanned /\ WalkCovers)'
  BY <1>23 DEF Signal, HandlerEnds, Spend
<1>24. CASE UNCHANGED vars
  BY <1>24 DEF vars
<1> QED BY <1>1, <1>2, <1>3, <1>4, <1>5, <1>6, <1>7, <1>8, <1>9, <1>10, <1>11, <1>12,
        <1>13, <1>14, <1>15, <1>16, <1>17, <1>18, <1>19, <1>20, <1>21, <1>22, <1>23, <1>24
        DEF Next, CallerNext, ThreadNext

\* The server is ready only after the files it started with have been looked at.
THEOREM ReadyIsEarned == Spec => []ReadyMeansScanned
<1>1. Init => ReadyMeansScanned /\ WalkCovers
  BY DEF Init, ReadyMeansScanned, WalkCovers
<1>2. TypeOK /\ ReadyMeansScanned /\ WalkCovers /\ [Next]_vars
        => (ReadyMeansScanned /\ WalkCovers)'
  BY NextReady
<1> QED BY <1>1, <1>2, TypeCorrect, PTL DEF Spec

------------------------------------------------------------------------------
\* The end of the progress

LEMMA NextOwed ==
  ASSUME TypeOK, ProgressIsOwed, [Next]_vars
  PROVE  ProgressIsOwed'
<1> USE DEF TypeOK, ProgressIsOwed, Owes, Reporting, Callers, Thread, NoThread, fileVars,
        runnerVars, poolVars, dedupVars, stopVars, BeforeVars, ScanVars, AfterVars,
        IngestVars
<1>1. ASSUME NEW c \in Callers, TurnedAway(c)
      PROVE  ProgressIsOwed'
  BY <1>1 DEF TurnedAway, Step, MayEnter
<1>2. ASSUME NEW c \in Callers, EnterScan(c)
      PROVE  ProgressIsOwed'
  BY <1>2 DEF EnterScan, Step, MayEnter
<1>3. ASSUME NEW c \in Callers, BeginScan(c)
      PROVE  ProgressIsOwed'
  BY <1>3 DEF BeginScan, Step, MayEnter
<1>4. ASSUME NEW c \in Callers, ScanNothing(c)
      PROVE  ProgressIsOwed'
  BY <1>4 DEF ScanNothing, Step, Unlocked
<1>5. ASSUME NEW c \in Callers, InstallPool(c)
      PROVE  ProgressIsOwed'
  BY <1>5 DEF InstallPool, Step, Unlocked
<1>6. ASSUME NEW c \in Callers, EndWalk(c)
      PROVE  ProgressIsOwed'
  BY <1>6 DEF EndWalk, Step, Unlocked
<1>7. ASSUME NEW c \in Callers, ClosePool(c)
      PROVE  ProgressIsOwed'
  BY <1>7 DEF ClosePool, Step, Unlocked
<1>8. ASSUME NEW c \in Callers,
             \/ LockExecutor(c, "open", "install")
             \/ LockExecutor(c, "close", "uninstall")
             \/ LockExecutor(c, "closeRaised", "uninstallRaised")
      PROVE  ProgressIsOwed'
  BY <1>8 DEF LockExecutor, Step
<1>9. ASSUME NEW c \in Callers, NEW f \in Files, Visit(c, f)
      PROVE  ProgressIsOwed'
  BY <1>9 DEF Visit, Walking, Spend
<1>10. ASSUME NEW c \in Callers, Hook(c)
      PROVE  ProgressIsOwed'
  BY <1>10 DEF Hook, Step, Schedule
<1>11. ASSUME NEW c \in Callers, FreeScan(c)
      PROVE  ProgressIsOwed'
  BY <1>11 DEF FreeScan, Step
<1>12. ASSUME NEW c \in Callers, Publish(c)
      PROVE  ProgressIsOwed'
  BY <1>12 DEF Publish, Step
<1>13. ASSUME NEW c \in Callers, SetPhase(c)
      PROVE  ProgressIsOwed'
  BY <1>13 DEF SetPhase, Step
<1>14. ASSUME NEW c \in Callers, EndRaised(c)
      PROVE  ProgressIsOwed'
  BY <1>14 DEF EndRaised, Step
<1>15. ASSUME NEW c \in Callers, FreeRaised(c)
      PROVE  ProgressIsOwed'
  BY <1>15 DEF FreeRaised, Step
<1>16. ASSUME NEW c \in Callers, EndCancelled(c)
      PROVE  ProgressIsOwed'
  BY <1>16 DEF EndCancelled, Rest, Step
<1>17. ASSUME NEW c \in Callers, ScheduleAgain(c)
      PROVE  ProgressIsOwed'
  BY <1>17 DEF ScheduleAgain, Rest, Step, Schedule
<1>18. ASSUME NEW c \in Callers, Trigger(c) \/ Raise(c)
      PROVE  ProgressIsOwed'
  BY <1>18 DEF Trigger, Raise, Step, Spend
<1>19. ASSUME NEW t \in Threads, SkipIngest(t)
      PROVE  ProgressIsOwed'
  BY <1>19 DEF SkipIngest, Advance
<1>20. ASSUME NEW t \in Threads, Discover(t)
      PROVE  ProgressIsOwed'
  BY <1>20 DEF Discover, Advance
<1>21. ASSUME NEW t \in Threads, Finish(t)
      PROVE  ProgressIsOwed'
  BY <1>21 DEF Finish, Advance
<1>22. ASSUME NEW t \in Threads, Report(t)
      PROVE  ProgressIsOwed'
  BY <1>22 DEF Report, Advance
<1>23. ASSUME NEW t \in Threads, Work(t) \/ FailIngest(t)
      PROVE  ProgressIsOwed'
  BY <1>23 DEF Work, FailIngest, Advance, Spend, Settled
<1>24. ASSUME NEW f \in Files, Deliver(f)
      PROVE  ProgressIsOwed'
  BY <1>24 DEF Deliver
<1>25. ASSUME Wake \/ LoopEnds
      PROVE  ProgressIsOwed'
  BY <1>25 DEF Wake, LoopEnds, Step
<1>26. ASSUME Signal \/ HandlerEnds
      PROVE  ProgressIsOwed'
  BY <1>26 DEF Signal, HandlerEnds, Spend
<1>27. CASE UNCHANGED vars
  BY <1>27 DEF vars
<1> QED BY <1>1, <1>2, <1>3, <1>4, <1>5, <1>6, <1>7, <1>8, <1>9, <1>10, <1>11, <1>12,
        <1>13, <1>14, <1>15, <1>16, <1>17, <1>18, <1>19, <1>20, <1>21, <1>22, <1>23,
        <1>24, <1>25, <1>26, <1>27 DEF Next, CallerNext, ThreadNext

\* With no scan and no ingest under way the dashboard shows none.
THEOREM ProgressEnds == Spec => []QuietIsIdle
<1>1. Init => ProgressIsOwed
  BY DEF Init, ProgressIsOwed
<1>2. TypeOK /\ ProgressIsOwed /\ [Next]_vars => ProgressIsOwed'
  BY NextOwed
<1>3. ProgressIsOwed => QuietIsIdle
  BY DEF ProgressIsOwed, QuietIsIdle, Owes, Reporting
<1> QED BY <1>1, <1>2, <1>3, TypeCorrect, PTL DEF Spec
============================================================================
