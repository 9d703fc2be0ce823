----------------------- MODULE MemoryGovernor_proofs -----------------------
(***************************************************************************)
(* What holds of the memory governor for every choice of jobs, limits and  *)
(* memory: types, the accounts of the budgets, the gate, the recovery.     *)
(***************************************************************************)
EXTENDS MemoryGovernor, TLAPS, FiniteSetTheorems, SequenceTheorems

LEMMA SizesFacts ==
  /\ Len(Sizes) \in Nat
  /\ \A j \in Jobs : Len(Sizes[j]) \in Nat \ {0}
<1>1. Sizes \in Seq(Seq(Nat)) /\ \A j \in Jobs : Sizes[j] # <<>>
  BY GovernorAssumption
<1>2. Len(Sizes) \in Nat /\ \A j \in Jobs : Sizes[j] \in Seq(Nat)
  BY <1>1 DEF Jobs
<1>3. \A j \in Jobs : Len(Sizes[j]) \in Nat
  BY <1>2
<1>4. \A j \in Jobs : Len(Sizes[j]) # 0
  BY <1>1, <1>2, EmptySeq
<1> QED BY <1>2, <1>3, <1>4

LEMMA LargestIsNat == ASSUME NEW S \in SUBSET Nat PROVE LargestOf(S) \in Nat
<1>1. CASE \E x \in S : IsLargest(x, S)
  BY <1>1 DEF LargestOf
<1>2. CASE ~\E x \in S : IsLargest(x, S)
  BY <1>2 DEF LargestOf
<1> QED BY <1>1, <1>2

LEMMA PeakIsNat == ASSUME NEW n \in Nat PROVE Peak(n) \in Nat
<1>1. Larger(DecompressFactor, 20) \in Nat
  BY GovernorAssumption DEF Larger
<1>2. n * Larger(DecompressFactor, 20) \in Nat /\ n * PeakFactor \in Nat
  BY <1>1, GovernorAssumption
<1> QED BY <1>2 DEF Peak

LEMMA JobPeakIsNat == ASSUME NEW j \in Jobs PROVE JobPeak(j) \in Nat
<1>1. \A i \in DOMAIN Sizes[j] : Sizes[j][i] \in Nat
  BY GovernorAssumption DEF Jobs
<1>2. {Peak(Sizes[j][i]) : i \in DOMAIN Sizes[j]} \in SUBSET Nat
  BY <1>1, PeakIsNat
<1> QED BY <1>2, LargestIsNat DEF JobPeak

LEMMA WidthIsNat ==
  ASSUME load \in Load, use = 0, reserved = 0
  PROVE  PoolWidth \in Nat
<1>1. \A j \in Jobs : JobPeak(j) \in Nat
  BY JobPeakIsNat
<1>2. LargestPeak \in Nat
  BY <1>1, LargestIsNat DEF LargestPeak
<1>3. Free - reserved \in Int
  BY GovernorAssumption DEF Free, Avail, Larger, Load
<1> DEFINE p == LargestPeak
           h == Free - reserved
<1>4. p \in Nat /\ h \in Int
  BY <1>2, <1>3
<1>5. EffectiveWorkers(p) = IF p = 0 THEN Workers ELSE IF h <= 0 THEN 1
                            ELSE Larger(1, Smaller(Workers, h \div p))
  BY DEF EffectiveWorkers
<1> HIDE DEF p, h
<1>6. EffectiveWorkers(p) \in Nat
  <2>1. p > 0 => h \div p \in Int
    BY <1>4
  <2> QED BY <1>4, <1>5, <2>1, GovernorAssumption DEF Larger, Smaller
<1>7. EffectiveWorkers(LargestPeak) \in Nat
  BY <1>6 DEF p
<1> QED BY <1>7 DEF PoolWidth

\* A budget that is granted fits, together with what is reserved, into what is free.
LEMMA GrantFits ==
  ASSUME load \in Load, use \in Nat, reserved \in Nat, NEW p \in Nat, ~Pressure(p)
  PROVE  Free \in Nat /\ reserved + p <= Free
<1>1. Avail \in Nat
  BY DEF Avail, Larger, Load
<1>2. ~(Free < p + reserved /\ (MinAvailable > 0 \/ p + reserved > 0))
  BY DEF Pressure
<1> QED BY <1>1, <1>2, GovernorAssumption DEF Free

------------------------------------------------------------------------------
\* Types

LEMMA InitType == Init => TypeOK
<1> SUFFICES ASSUME Init PROVE TypeOK
  OBVIOUS
<1>1. width \in Nat
  BY WidthIsNat, GovernorAssumption DEF Init
<1>2. load \in Load /\ ScanFiles \in Nat \ {0}
  BY GovernorAssumption DEF Init
<1>3. \A j \in Jobs : 1 \in 1..(Len(Sizes[j]) + 1)
  BY SizesFacts
<1>4. 1 \in 1..(Len(Sizes) + 1)
  BY SizesFacts
<1>5. at = [j \in Jobs |-> 1] /\ \A j \in Jobs : at[j] \in 1..(Len(Sizes[j]) + 1)
  BY <1>3 DEF Init
<1>6. "todo" \in Places /\ 0 \in 0..StablePolls /\ StablePolls \in 0..StablePolls
  BY DEF Places, StablePolls
<1>7. scanLeft \in 0..ScanFiles
  BY <1>2 DEF Init
<1>8. /\ use \in Nat /\ reserved \in Nat /\ granted \in Nat
      /\ budget \in [Jobs -> Nat] /\ pending \subseteq Jobs
  BY DEF Init
<1>9. /\ pc \in [Jobs -> Places] /\ at \in [Jobs -> Nat]
      /\ tool \in [Jobs -> {"no", "runs", "hangs", "ended", "recovers"}]
      /\ streak \in [Jobs -> 0..StablePolls] /\ calm \in 0..StablePolls
  BY <1>6 DEF Init
<1>10. /\ gate \in Jobs \cup {Nobody} /\ stop \in BOOLEAN
       /\ sub \in {"pick", "wait", "collect", "join", "end"} /\ scan \in {"submit", "end"}
       /\ next \in 1..(Len(Sizes) + 1) /\ (sub = "wait" => next > 1)
  BY <1>4 DEF Init
<1> QED BY <1>1, <1>2, <1>5, <1>7, <1>8, <1>9, <1>10 DEF TypeOK

LEMMA NextType == TypeOK /\ [Next]_vars => TypeOK'
<1> SUFFICES ASSUME TypeOK, [Next]_vars PROVE TypeOK'
  OBVIOUS
<1> USE DEF TypeOK, memVars, jobVars, toolVars, poolVars, scanVars
<1>a. Len(Sizes) \in Nat /\ \A j \in Jobs : Len(Sizes[j]) \in Nat \ {0}
  BY SizesFacts
<1>b. \A j \in Jobs : JobPeak(j) \in Nat
  BY JobPeakIsNat
<1>c. ToolPlaces \cup WaitPlaces \cup Settled \subseteq Places
  BY DEF Places
<1>d. \A j \in Jobs : {Leave(j), AfterTool(j), AfterTransient(j)} \subseteq Places
  BY DEF Leave, AfterTool, AfterTransient, Places, WaitPlaces, ToolPlaces, Settled
<1>e. \A j \in Jobs : AfterWait(j) \subseteq Places
  BY DEF AfterWait, Places, WaitPlaces, ToolPlaces
<1>1. ASSUME NEW j \in Jobs, AcquireBudget(j) PROVE TypeOK'
  <2>1. Free \in Nat
    BY <1>1, <1>b, GrantFits DEF AcquireBudget
  <2>2. "baseWait" \in Places
    BY DEF Places, WaitPlaces
  <2>3. reserved' \in Nat /\ granted' \in Nat /\ budget' \in [Jobs -> Nat]
    BY <1>1, <1>b, <2>1 DEF AcquireBudget
  <2> QED BY <1>1, <2>1, <2>2, <2>3 DEF AcquireBudget, Goto
<1>2. ASSUME NEW j \in Jobs, AcquireStopped(j) PROVE TypeOK'
  BY <1>2 DEF AcquireStopped, Goto, Places, Settled
<1>3. ASSUME NEW j \in Jobs, ReleaseBudget(j) PROVE TypeOK'
  <2>1. Larger(0, reserved - budget[j]) \in Nat
    BY DEF Larger
  <2> QED BY <1>3, <2>1 DEF ReleaseBudget, Goto, Places, Settled
<1>4. ASSUME NEW j \in Jobs, WaitForPeak(j) PROVE TypeOK'
  BY <1>4, <1>e DEF WaitForPeak, Goto
<1>5. ASSUME NEW j \in Jobs, WaitStopped(j) PROVE TypeOK'
  BY <1>5, <1>d DEF WaitStopped, Goto, Places
<1>6. ASSUME NEW j \in Jobs, NextFile(j) PROVE TypeOK'
  <2>0. at[j] \in 1..(Len(Sizes[j]) + 1) /\ Len(Sizes[j]) \in Nat
    BY <1>a
  <2> DEFINE new == at'[j]
  <2>3. new \in Nat /\ new \in 1..(Len(Sizes[j]) + 1) /\ at' = [at EXCEPT ![j] = new]
    <3>1. CASE ~stop /\ at[j] < Len(Sizes[j])
      BY <1>6, <2>0, <3>1 DEF NextFile
    <3>2. CASE ~(~stop /\ at[j] < Len(Sizes[j]))
      BY <1>6, <2>0, <3>2 DEF NextFile
    <3> QED BY <3>1, <3>2
  <2> HIDE DEF new
  <2>1. at' \in [Jobs -> Nat] /\ \A i \in Jobs : at'[i] \in 1..(Len(Sizes[i]) + 1)
    BY <2>3
  <2>2. pc' \in [Jobs -> Places]
    BY <1>6 DEF NextFile, Goto, Places, WaitPlaces
  <2> QED BY <1>6, <2>1, <2>2 DEF NextFile
<1>7. ASSUME NEW j \in Jobs, StartTool(j) PROVE TypeOK'
  BY <1>7, <1>b DEF StartTool
<1>8. ASSUME NEW j \in Jobs, FinishTool(j) PROVE TypeOK'
  BY <1>8, <1>d DEF FinishTool, Goto
<1>9. ASSUME NEW j \in Jobs, StopTool(j) PROVE TypeOK'
  <2>1. calm' \in 0..StablePolls
    BY <1>9 DEF StopTool, StablePolls
  <2>2. "recover" \in Places
    BY DEF Places, ToolPlaces
  <2>3. streak' \in [Jobs -> 0..StablePolls]
    BY <1>9 DEF StopTool, StablePolls
  <2>4. pc' \in [Jobs -> Places]
    BY <1>9, <1>d, <2>2 DEF StopTool, Goto
  <2> QED BY <1>9, <2>1, <2>3, <2>4 DEF StopTool
<1>10. ASSUME NEW j \in Jobs, PollRecovery(j) PROVE TypeOK'
  <2>0. streak[j] \in 0..StablePolls /\ streak[j] < StablePolls
    BY <1>10 DEF PollRecovery
  <2>3. 0 \in 0..StablePolls /\ streak[j] + 1 \in 0..StablePolls
    BY <2>0 DEF StablePolls
  <2>1. streak' \in [Jobs -> 0..StablePolls]
    BY <1>10, <2>3 DEF PollRecovery
  <2>2. calm' \in 0..StablePolls
    BY <1>10 DEF PollRecovery, StablePolls, Smaller
  <2> QED BY <1>10, <2>1, <2>2 DEF PollRecovery
<1>11. ASSUME NEW j \in Jobs, EndRecovery(j) PROVE TypeOK'
  <2>1. streak' \in [Jobs -> 0..StablePolls]
    BY <1>11 DEF EndRecovery, StablePolls
  <2>2. pc' \in [Jobs -> Places]
    BY <1>11, <1>d DEF EndRecovery, Goto
  <2> QED BY <1>11, <2>1, <2>2 DEF EndRecovery
<1>12. ASSUME NEW j \in Jobs, BeginJob(j) \/ MarkSingle(j) PROVE TypeOK'
  BY <1>12 DEF BeginJob, MarkSingle, Goto, Places, WaitPlaces, Settled
<1>13. ASSUME NEW j \in Jobs, ToolEnds(j) PROVE TypeOK'
  BY <1>13 DEF ToolEnds
<1>20. ASSUME NEW j \in Jobs, ToolHangs(j) PROVE TypeOK'
  BY <1>20 DEF ToolHangs
<1>14. CASE PickJob \/ SubmitStopped \/ CollectNone \/ JoinPool
  <2>1. /\ sub' \in {"pick", "wait", "collect", "join", "end"}
        /\ next' \in 1..(Len(Sizes) + 1) /\ (sub' = "wait" => next' > 1)
    BY <1>14, <1>a DEF PickJob, SubmitStopped, CollectNone, JoinPool
  <2> QED BY <1>14, <2>1 DEF PickJob, SubmitStopped, CollectNone, JoinPool
<1>15. CASE SubmitJob
  <2>1. next - 1 \in Jobs
    BY <1>15, <1>a DEF SubmitJob, Jobs
  <2> QED BY <1>15, <2>1 DEF SubmitJob, Goto, Places
<1>16. ASSUME NEW j \in Jobs, CollectJob(j) PROVE TypeOK'
  BY <1>16 DEF CollectJob, Places, Settled
<1>17. CASE ScanStep
  <2>1. scan' \in {"submit", "end"}
    BY <1>17 DEF ScanStep, ScanFile, ScanStopped
  <2>2. scanLeft' \in 0..ScanFiles
    <3>1. ScanFiles \in Nat
      BY GovernorAssumption
    <3>2. scanLeft' = scanLeft \/ (scanLeft > 0 /\ scanLeft' = scanLeft - 1)
      BY <1>17 DEF ScanStep, ScanFile, ScanStopped
    <3> QED BY <3>1, <3>2
  <2> QED BY <1>17, <2>1, <2>2 DEF ScanStep, ScanFile, ScanStopped
<1>18. CASE ChangeLoad \/ Stop
  BY <1>18, GovernorAssumption DEF ChangeLoad, Stop
<1>19. CASE UNCHANGED vars
  BY <1>19 DEF vars
<1> QED BY <1>1, <1>2, <1>3, <1>4, <1>5, <1>6, <1>7, <1>8, <1>9, <1>10, <1>11, <1>12,
        <1>13, <1>14, <1>15, <1>16, <1>17, <1>18, <1>19, <1>20 DEF Next, JobStep, PoolStep

\* Every variable of the governor, its jobs and its pool keeps its type.
THEOREM TypeCorrect == Spec => []TypeOK
<1> QED BY InitType, NextType, PTL DEF Spec

------------------------------------------------------------------------------
\* The gate and the recovery

\* A job with a tool is at a place that runs one.
ToolPlace == \A j \in Jobs : tool[j] # "no" => pc[j] \in ToolPlaces

\* The jobs from next on, and the one the submitting thread waits for, are untouched.
Unsubmitted ==
  \A j \in Jobs : j >= next \/ (sub = "wait" /\ j = next - 1) => pc[j] = "todo"

GateInv == OneTool /\ ToolPlace /\ Unsubmitted

LEMMA InitGate == Init => GateInv
<1> QED BY GovernorAssumption DEF Init, GateInv, OneTool, ToolPlace, Unsubmitted

LEMMA NextGate == TypeOK /\ GateInv /\ [Next]_vars => GateInv'
<1> SUFFICES ASSUME TypeOK, GateInv, [Next]_vars PROVE GateInv'
  OBVIOUS
<1> USE DEF GateInv, OneTool, ToolPlace, Unsubmitted, memVars, jobVars, toolVars, poolVars, scanVars
<1>a. pc \in [Jobs -> Places] /\ gate \in Jobs \cup {Nobody} /\ Nobody \notin Jobs
      /\ tool \in [Jobs -> {"no", "runs", "hangs", "ended", "recovers"}]
  BY GovernorAssumption DEF TypeOK
\* Outside the tools a step moves only jobs that are at no place of a tool.
<1>b. ASSUME NEW j \in Jobs, pc[j] \notin ToolPlaces, pc[j] # "todo",
             UNCHANGED <<gate, tool, sub, next>>, NEW place, Goto(j, place)
      PROVE  GateInv'
  BY <1>a, <1>b DEF Goto
\* A tool that is given up frees the gate.
<1>c. ASSUME NEW j \in Jobs, tool[j] # "no", tool' = [tool EXCEPT ![j] = "no"],
             gate' = Nobody, UNCHANGED <<sub, next>>, NEW place, Goto(j, place)
      PROVE  GateInv'
  <2>1. gate = j /\ pc[j] # "todo"
    BY <1>c DEF ToolPlaces
  <2>2. \A i \in Jobs : tool'[i] = "no"
    BY <1>a, <1>c, <2>1
  <2>3. Unsubmitted'
    BY <1>a, <1>c, <2>1 DEF Goto
  <2> QED BY <1>a, <1>c, <2>2, <2>3
<1>1. ASSUME NEW j \in Jobs, AcquireBudget(j) PROVE GateInv'
  BY <1>1, <1>b DEF AcquireBudget, ToolPlaces
<1>2. ASSUME NEW j \in Jobs, AcquireStopped(j) PROVE GateInv'
  BY <1>2, <1>b DEF AcquireStopped, ToolPlaces
<1>3. ASSUME NEW j \in Jobs, ReleaseBudget(j) PROVE GateInv'
  BY <1>3, <1>b DEF ReleaseBudget, ToolPlaces
<1>4. ASSUME NEW j \in Jobs, WaitForPeak(j) PROVE GateInv'
  <2>1. PICK place \in AfterWait(j) : Goto(j, place)
    BY <1>4 DEF WaitForPeak
  <2>2. pc[j] \notin ToolPlaces /\ pc[j] # "todo" /\ UNCHANGED <<gate, tool, sub, next>>
    BY <1>4 DEF WaitForPeak, WaitPlaces, ToolPlaces
  <2> QED BY <1>b, <2>1, <2>2
<1>5. ASSUME NEW j \in Jobs, WaitStopped(j) PROVE GateInv'
  <2>1. pc[j] \notin ToolPlaces /\ pc[j] # "todo" /\ UNCHANGED <<gate, tool, sub, next>>
    BY <1>5 DEF WaitStopped, WaitPlaces, ToolPlaces
  <2> QED BY <1>5, <1>b, <2>1 DEF WaitStopped
<1>6. ASSUME NEW j \in Jobs, NextFile(j) PROVE GateInv'
  <2>1. pc[j] \notin ToolPlaces /\ pc[j] # "todo" /\ UNCHANGED <<gate, tool, sub, next>>
    BY <1>6 DEF NextFile, ToolPlaces
  <2>2. \E place : Goto(j, place)
    BY <1>6 DEF NextFile
  <2> QED BY <1>b, <2>1, <2>2
<1>7. ASSUME NEW j \in Jobs, StartTool(j) PROVE GateInv'
  BY <1>7, <1>a DEF StartTool
<1>8. ASSUME NEW j \in Jobs, FinishTool(j) PROVE GateInv'
  <2>1. \E place : Goto(j, place)
    BY <1>8 DEF FinishTool
  <2>2. tool[j] # "no" /\ tool' = [tool EXCEPT ![j] = "no"] /\ gate' = Nobody
        /\ UNCHANGED <<sub, next>>
    BY <1>8 DEF FinishTool
  <2> QED BY <1>c, <2>1, <2>2
<1>9. ASSUME NEW j \in Jobs, StopTool(j) PROVE GateInv'
  <2>1. tool[j] # "no" /\ UNCHANGED <<sub, next>>
    BY <1>9 DEF StopTool
  <2>2. CASE tool' = [tool EXCEPT ![j] = "recovers"] /\ UNCHANGED <<pc, gate>>
    BY <1>a, <2>1, <2>2
  <2>3. ASSUME tool' = [tool EXCEPT ![j] = "no"], gate' = Nobody, NEW place, Goto(j, place)
        PROVE  GateInv'
    BY <1>c, <2>1, <2>3
  <2> QED BY <1>9, <2>2, <2>3 DEF StopTool
<1>10. ASSUME NEW j \in Jobs, PollRecovery(j) PROVE GateInv'
  BY <1>10 DEF PollRecovery
<1>11. ASSUME NEW j \in Jobs, EndRecovery(j) PROVE GateInv'
  <2>1. CASE tool[j] = "recovers"
    <3>1. /\ tool' = [tool EXCEPT ![j] = "no"] /\ gate' = Nobody
          /\ Goto(j, AfterTransient(j)) /\ UNCHANGED <<sub, next>>
      BY <1>11, <2>1 DEF EndRecovery
    <3> QED BY <1>c, <2>1, <3>1
  <2>2. CASE tool[j] # "recovers"
    <3>1. /\ pc[j] \notin ToolPlaces /\ pc[j] # "todo" /\ Goto(j, Leave(j))
          /\ UNCHANGED <<gate, tool, sub, next>>
      BY <1>11, <2>2 DEF EndRecovery, Recovering, ToolPlaces
    <3> QED BY <1>b, <3>1
  <2> QED BY <2>1, <2>2
<1>12. ASSUME NEW j \in Jobs, BeginJob(j) \/ MarkSingle(j) PROVE GateInv'
  <2>1. pc[j] \notin ToolPlaces /\ pc[j] # "todo" /\ UNCHANGED <<gate, tool, sub, next>>
    BY <1>12 DEF BeginJob, MarkSingle, ToolPlaces
  <2>2. \E place : Goto(j, place)
    BY <1>12 DEF BeginJob, MarkSingle
  <2> QED BY <1>b, <2>1, <2>2
<1>13. ASSUME NEW j \in Jobs, ToolEnds(j) PROVE GateInv'
  BY <1>13, <1>a DEF ToolEnds
<1>14. ASSUME NEW j \in Jobs, ToolHangs(j) PROVE GateInv'
  BY <1>14, <1>a DEF ToolHangs
<1>15. CASE PickJob \/ SubmitStopped \/ CollectNone \/ JoinPool
  <2>1. UNCHANGED <<pc, gate, tool>>
    BY <1>15 DEF PickJob, SubmitStopped, CollectNone, JoinPool
  <2>2. Unsubmitted'
    BY <1>15, <2>1, SizesFacts DEF PickJob, SubmitStopped, CollectNone, JoinPool, TypeOK, Jobs
  <2> QED BY <2>1, <2>2
<1>16. CASE SubmitJob
  <2>1. next - 1 \in Jobs /\ pc[next - 1] = "todo" /\ next \in Nat
    BY <1>16, SizesFacts DEF SubmitJob, TypeOK, Jobs
  <2>2. tool[next - 1] = "no"
    BY <2>1 DEF ToolPlaces
  <2>3. OneTool'
    BY <1>16 DEF SubmitJob
  <2>4. ToolPlace'
    BY <1>16, <1>a, <2>1, <2>2 DEF SubmitJob, Goto
  <2>5. Unsubmitted'
    BY <1>16, <1>a, <2>1 DEF SubmitJob, Goto, Jobs
  <2> QED BY <2>3, <2>4, <2>5
<1>17. ASSUME NEW j \in Jobs, CollectJob(j) PROVE GateInv'
  <2>1. \A i \in Jobs : pc'[i] = pc[i] \/ pc[i] = "queued"
    BY <1>17, <1>a DEF CollectJob
  <2>2. sub' # "wait" /\ sub # "wait" /\ UNCHANGED <<gate, tool, next>>
    BY <1>17 DEF CollectJob
  <2>3. OneTool' /\ Unsubmitted'
    BY <2>1, <2>2
  <2>4. ToolPlace'
    BY <2>1, <2>2 DEF ToolPlaces
  <2> QED BY <2>3, <2>4
<1>18. CASE ScanStep \/ ChangeLoad \/ Stop
  BY <1>18 DEF ScanStep, ScanFile, ScanStopped, ChangeLoad, Stop
<1>19. CASE UNCHANGED vars
  BY <1>19 DEF vars
<1> QED BY <1>1, <1>2, <1>3, <1>4, <1>5, <1>6, <1>7, <1>8, <1>9, <1>10, <1>11, <1>12,
        <1>13, <1>14, <1>15, <1>16, <1>17, <1>18, <1>19 DEF Next, JobStep, PoolStep

\* However many jobs there are, one tool at most runs or is recovered from, and its job
\* holds the gate.
THEOREM OneToolEver == Spec => []OneTool
<1>1. GateInv => OneTool
  BY DEF GateInv
<1> QED BY <1>1, InitGate, NextGate, TypeCorrect, PTL DEF Spec

------------------------------------------------------------------------------
\* The budgets

\* Only a group of several files asks for a budget; what has one is inside its with block.
BudgetsInv ==
  /\ IsFiniteSet(HeldUnits)
  /\ BudgetsAccounted
  /\ BudgetsFit
  /\ \A j \in Jobs : pc[j] = "acquire" => ~IsSingle(j)

\* n units of one job are n units.
LEMMA UnitsOfOne ==
  ASSUME NEW j, NEW n \in Nat
  PROVE  IsFiniteSet({j} \X (1..n)) /\ Cardinality({j} \X (1..n)) = n
<1>1. IsFiniteSet(1..n) /\ Cardinality(1..n) = n
  BY FS_Interval
<1>2. IsFiniteSet({j}) /\ Cardinality({j}) = 1
  BY FS_Singleton
<1>3. Cardinality({j} \X (1..n)) = 1 * n
  BY <1>1, <1>2, FS_Product
<1>4. IsFiniteSet({j} \X (1..n))
  BY <1>1, <1>2, FS_Product
<1> QED BY <1>3, <1>4

\* A grant adds the units of its job, a release takes them away.
LEMMA GrantUnits ==
  ASSUME NEW j \in Jobs, budget \in [Jobs -> Nat], budget[j] = 0, NEW n \in Nat,
         budget' = [budget EXCEPT ![j] = n], IsFiniteSet(HeldUnits)
  PROVE  IsFiniteSet(HeldUnits') /\ Cardinality(HeldUnits') = Cardinality(HeldUnits) + n
<1> DEFINE U == {j} \X (1..n)
<1>1. HeldUnits' = HeldUnits \cup U
  BY DEF HeldUnits
<1>2. HeldUnits \cap U = {}
  BY DEF HeldUnits
<1>3. IsFiniteSet(U) /\ Cardinality(U) = n
  BY UnitsOfOne
<1> HIDE DEF U
<1>4. IsFiniteSet(HeldUnits \cup U)
      /\ Cardinality(HeldUnits \cup U)
           = Cardinality(HeldUnits) + Cardinality(U) - Cardinality(HeldUnits \cap U)
  BY <1>3, FS_Union
<1>5. Cardinality(HeldUnits \cap U) = 0 /\ Cardinality(HeldUnits) \in Nat
  BY <1>2, FS_EmptySet, FS_CardinalityType
<1> QED BY <1>1, <1>3, <1>4, <1>5

LEMMA ReleaseUnits ==
  ASSUME NEW j \in Jobs, budget \in [Jobs -> Nat],
         budget' = [budget EXCEPT ![j] = 0], IsFiniteSet(HeldUnits)
  PROVE  /\ IsFiniteSet(HeldUnits')
         /\ Cardinality(HeldUnits') = Cardinality(HeldUnits) - budget[j]
<1> DEFINE U == {j} \X (1..budget[j])
<1>1. HeldUnits' = HeldUnits \ U
  BY DEF HeldUnits
<1>2. HeldUnits \cap U = U
  BY DEF HeldUnits
<1>3. IsFiniteSet(U) /\ Cardinality(U) = budget[j]
  BY UnitsOfOne
<1> HIDE DEF U
<1>4. IsFiniteSet(HeldUnits \ U)
      /\ Cardinality(HeldUnits \ U) = Cardinality(HeldUnits) - Cardinality(HeldUnits \cap U)
  BY FS_Difference
<1> QED BY <1>1, <1>2, <1>3, <1>4

LEMMA InitBudgets == Init => BudgetsInv
<1> SUFFICES ASSUME Init PROVE BudgetsInv
  OBVIOUS
<1>1. budget = [j \in Jobs |-> 0] /\ reserved = 0 /\ granted = 0
      /\ pc = [j \in Jobs |-> "todo"]
  BY DEF Init
<1>2. HeldUnits = {}
  BY <1>1 DEF HeldUnits
<1>3. IsFiniteSet(HeldUnits) /\ Cardinality(HeldUnits) = 0
  BY <1>2, FS_EmptySet
<1> QED BY <1>1, <1>3 DEF BudgetsInv, BudgetsAccounted, BudgetsFit

LEMMA NextBudgets == TypeOK /\ GateInv /\ BudgetsInv /\ [Next]_vars => BudgetsInv'
<1> SUFFICES ASSUME TypeOK, GateInv, BudgetsInv, [Next]_vars PROVE BudgetsInv'
  OBVIOUS
<1> USE DEF memVars, jobVars, toolVars, poolVars, scanVars
<1>a. /\ pc \in [Jobs -> Places] /\ budget \in [Jobs -> Nat]
      /\ reserved \in Nat /\ granted \in Nat
      /\ load \in Load /\ use \in Nat
  BY DEF TypeOK
<1>b. /\ IsFiniteSet(HeldUnits) /\ reserved = Cardinality(HeldUnits)
      /\ \A j \in Jobs : budget[j] > 0 => InBudget(j)
      /\ reserved <= granted
      /\ \A j \in Jobs : pc[j] = "acquire" => ~IsSingle(j)
  BY DEF BudgetsInv, BudgetsAccounted, BudgetsFit
<1> DEFINE Out == {"todo", "queued", "acquire"} \cup Settled
           Moves(i, new) == \/ new = pc[i]
                            \/ ~IsSingle(i) /\ pc[i] \notin Out /\ new \notin Out
                            \/ IsSingle(i) /\ new # "acquire"
                            \/ pc[i] \in Out /\ (new = "acquire" => ~IsSingle(i))
\* A step that leaves the budgets alone may move a job anywhere inside its with block, and
\* one outside it anywhere but, for a single file, to the request of a budget.
<1>c. ASSUME UNCHANGED memVars, \A i \in Jobs : Moves(i, pc'[i])
      PROVE  BudgetsInv'
  <2>1. HeldUnits' = HeldUnits
    BY <1>c DEF HeldUnits
  <2>2. \A i \in Jobs : budget'[i] > 0 => InBudget(i)'
    BY <1>b, <1>c DEF InBudget
  <2>3. \A i \in Jobs : pc'[i] = "acquire" => ~IsSingle(i)
    BY <1>b, <1>c DEF InBudget
  <2>4. BudgetsAccounted'
    BY <1>b, <1>c, <2>1, <2>2 DEF BudgetsAccounted
  <2>5. BudgetsFit' /\ IsFiniteSet(HeldUnits')
    BY <1>b, <1>c, <2>1 DEF BudgetsFit
  <2> QED BY <2>3, <2>4, <2>5 DEF BudgetsInv, IsSingle
\* The same for a step that moves one job.
<1>d. ASSUME UNCHANGED memVars, NEW j \in Jobs, NEW place, Goto(j, place), Moves(j, place)
      PROVE  BudgetsInv'
  <2>1. pc'[j] = place /\ \A i \in Jobs : i # j => pc'[i] = pc[i]
    BY <1>a, <1>d DEF Goto
  <2>2. \A i \in Jobs : Moves(i, pc'[i])
    BY <1>d, <2>1
  <2> QED BY <1>c, <1>d, <2>2
\* And for one that moves none.
<1>h. ASSUME UNCHANGED <<memVars, pc>>
      PROVE  BudgetsInv'
  BY <1>c, <1>h
<1>e. ToolPlaces \cap Out = {} /\ WaitPlaces \cap Out = {}
  BY DEF ToolPlaces, WaitPlaces, Settled
<1>f. \A j \in Jobs : /\ AfterTool(j) # "acquire" /\ Leave(j) # "acquire"
                      /\ ~IsSingle(j) => AfterTool(j) \notin Out /\ Leave(j) \notin Out
  BY DEF AfterTool, Leave, Settled
<1>g. \A j \in Jobs : /\ AfterTransient(j) # "acquire"
                      /\ ~IsSingle(j) => AfterTransient(j) \notin Out
  BY DEF AfterTransient, Settled
<1>1. ASSUME NEW j \in Jobs, AcquireBudget(j) PROVE BudgetsInv'
  <2>1. JobPeak(j) \in Nat
    BY JobPeakIsNat
  <2>2. ~IsSingle(j) /\ ~InBudget(j) /\ budget[j] = 0
    BY <1>1, <1>a, <1>b DEF AcquireBudget, InBudget
  <2>3. IsFiniteSet(HeldUnits') /\ Cardinality(HeldUnits') = reserved'
    BY <1>1, <1>a, <1>b, <2>1, <2>2, GrantUnits DEF AcquireBudget
  <2>4. reserved' <= granted'
    BY <1>1, <1>a, <2>1, GrantFits DEF AcquireBudget
  <2>5. pc' = [pc EXCEPT ![j] = "baseWait"] /\ budget' = [budget EXCEPT ![j] = JobPeak(j)]
    BY <1>1 DEF AcquireBudget, Goto
  <2>6. InBudget(j)'
    BY <1>a, <2>2, <2>5 DEF InBudget, Settled, IsSingle
  <2>7. \A i \in Jobs : budget'[i] > 0 => InBudget(i)'
    BY <1>a, <1>b, <2>5, <2>6 DEF InBudget
  <2>8. \A i \in Jobs : pc'[i] = "acquire" => ~IsSingle(i)
    BY <1>a, <1>b, <2>5
  <2> QED BY <2>3, <2>4, <2>7, <2>8 DEF BudgetsInv, BudgetsAccounted, BudgetsFit, IsSingle
<1>2. ASSUME NEW j \in Jobs, AcquireStopped(j) PROVE BudgetsInv'
  BY <1>2, <1>d DEF AcquireStopped
<1>3. ASSUME NEW j \in Jobs, ReleaseBudget(j) PROVE BudgetsInv'
  <2>1. budget' = [budget EXCEPT ![j] = 0] /\ pc' = [pc EXCEPT ![j] = "done"]
        /\ granted' = granted
    BY <1>3 DEF ReleaseBudget, Goto
  <2>2. IsFiniteSet(HeldUnits') /\ Cardinality(HeldUnits') = reserved - budget[j]
    BY <1>a, <1>b, <2>1, ReleaseUnits
  <2>3. Cardinality(HeldUnits') \in Nat
    BY <2>2, FS_CardinalityType
  <2>4. reserved' = reserved - budget[j] /\ reserved' <= granted'
    BY <1>3, <1>a, <1>b, <2>1, <2>2, <2>3 DEF ReleaseBudget, Larger
  <2>5. \A i \in Jobs : budget'[i] > 0 => InBudget(i)'
    BY <1>a, <1>b, <2>1 DEF InBudget
  <2>6. \A i \in Jobs : pc'[i] = "acquire" => ~IsSingle(i)
    BY <1>a, <1>b, <2>1
  <2> QED BY <2>2, <2>4, <2>5, <2>6 DEF BudgetsInv, BudgetsAccounted, BudgetsFit, IsSingle
<1>4. ASSUME NEW j \in Jobs, WaitForPeak(j) PROVE BudgetsInv'
  <2>1. PICK place \in AfterWait(j) : Goto(j, place)
    BY <1>4 DEF WaitForPeak
  <2>2. pc[j] \notin Out /\ UNCHANGED memVars
    BY <1>4, <1>e DEF WaitForPeak
  <2>3. place \notin Out
    BY <2>1 DEF AfterWait, Settled
  <2> QED BY <1>d, <2>1, <2>2, <2>3
<1>5. ASSUME NEW j \in Jobs, WaitStopped(j) PROVE BudgetsInv'
  <2>1. pc[j] \notin Out /\ UNCHANGED memVars
    BY <1>5, <1>e DEF WaitStopped
  <2>2. "release" \notin Out
    BY DEF Settled
  <2> DEFINE place == IF IsTarget(j) THEN AfterTransient(j) ELSE "release"
  <2>3. Goto(j, place)
    BY <1>5 DEF WaitStopped
  <2>4. place # "acquire" /\ (~IsSingle(j) => place \notin Out)
    BY <1>g, <2>2
  <2> QED BY <1>d, <2>1, <2>3, <2>4
<1>6. ASSUME NEW j \in Jobs, NextFile(j) PROVE BudgetsInv'
  <2>1. pc[j] = "next" /\ UNCHANGED memVars
    BY <1>6 DEF NextFile
  <2>2. PICK place \in {"targetWait", "compressWait", "release"} : Goto(j, place)
    BY <1>6 DEF NextFile
  <2> QED BY <1>d, <2>1, <2>2 DEF Settled
<1>7. ASSUME NEW j \in Jobs, StartTool(j) \/ PollRecovery(j) PROVE BudgetsInv'
  BY <1>7, <1>h DEF StartTool, PollRecovery
<1>8. ASSUME NEW j \in Jobs, FinishTool(j) PROVE BudgetsInv'
  <2>1. PICK place \in {AfterTool(j), Leave(j)} : Goto(j, place)
    BY <1>8 DEF FinishTool
  <2>2. UNCHANGED memVars /\ pc[j] \notin Out
    BY <1>8, <1>e DEF FinishTool, GateInv, ToolPlace
  <2> QED BY <1>d, <1>f, <2>1, <2>2
<1>9. ASSUME NEW j \in Jobs, StopTool(j) PROVE BudgetsInv'
  <2>1. UNCHANGED memVars /\ pc[j] \notin Out
    BY <1>9, <1>e DEF StopTool, GateInv, ToolPlace
  <2>2. CASE UNCHANGED pc
    BY <1>h, <2>1, <2>2
  <2>3. CASE Goto(j, AfterTransient(j))
    BY <1>d, <1>g, <2>1, <2>3
  <2>4. CASE Goto(j, Leave(j))
    BY <1>d, <1>f, <2>1, <2>4
  <2> QED BY <1>9, <2>2, <2>3, <2>4 DEF StopTool
<1>10. ASSUME NEW j \in Jobs, EndRecovery(j) PROVE BudgetsInv'
  <2>1. UNCHANGED memVars /\ pc[j] \notin Out
    BY <1>10, <1>e DEF EndRecovery, Recovering, GateInv, ToolPlace, Settled
  <2>2. CASE Goto(j, AfterTransient(j))
    BY <1>d, <1>g, <2>1, <2>2
  <2>3. CASE Goto(j, Leave(j))
    BY <1>d, <1>f, <2>1, <2>3
  <2> QED BY <1>10, <2>2, <2>3 DEF EndRecovery
<1>11. ASSUME NEW j \in Jobs, BeginJob(j) \/ MarkSingle(j) PROVE BudgetsInv'
  BY <1>11, <1>d DEF BeginJob, MarkSingle
<1>12. ASSUME NEW j \in Jobs, ToolEnds(j) \/ ToolHangs(j) PROVE BudgetsInv'
  BY <1>12, <1>h DEF ToolEnds, ToolHangs
<1>13. CASE PickJob \/ SubmitStopped \/ CollectNone \/ JoinPool
  BY <1>13, <1>h DEF PickJob, SubmitStopped, CollectNone, JoinPool
<1>14. CASE SubmitJob
  <2>1. next - 1 \in Jobs /\ pc[next - 1] = "todo"
    BY <1>14, SizesFacts DEF SubmitJob, TypeOK, Jobs, GateInv, Unsubmitted
  <2> QED BY <1>14, <1>d, <2>1 DEF SubmitJob
<1>15. ASSUME NEW j \in Jobs, CollectJob(j) PROVE BudgetsInv'
  <2>1. UNCHANGED memVars
    BY <1>15 DEF CollectJob
  <2>2. \A i \in Jobs : pc'[i] = pc[i] \/ (pc[i] = "queued" /\ pc'[i] = "cancelled")
    BY <1>15, <1>a DEF CollectJob
  <2>3. \A i \in Jobs : Moves(i, pc'[i])
    BY <2>2
  <2> QED BY <1>c, <2>1, <2>3
<1>16. CASE ScanStep \/ ChangeLoad \/ Stop
  BY <1>16, <1>h DEF ScanStep, ScanFile, ScanStopped, ChangeLoad, Stop
<1>17. CASE UNCHANGED vars
  BY <1>17, <1>h DEF vars
<1> QED BY <1>1, <1>2, <1>3, <1>4, <1>5, <1>6, <1>7, <1>8, <1>9, <1>10, <1>11, <1>12,
        <1>13, <1>14, <1>15, <1>16, <1>17 DEF Next, JobStep, PoolStep

\* The inductive invariant of the budgets, with the gate.
LEMMA BudgetsInvariant == Spec => []BudgetsInv
  BY InitGate, NextGate, InitBudgets, NextBudgets, TypeCorrect, PTL DEF Spec

\* However many jobs there are, what is reserved is what the jobs inside their with block
\* have been granted: no way out of a job leaks its budget or gives it back twice.
THEOREM BudgetsBalance == Spec => []BudgetsAccounted
<1>1. BudgetsInv => BudgetsAccounted
  BY DEF BudgetsInv
<1> QED BY <1>1, BudgetsInvariant, PTL

\* However many jobs ask at the same time, what they hold together fitted into the memory
\* that was free above the minimum when the last of them was granted its budget.
THEOREM BudgetsHold == Spec => []BudgetsFit
<1>1. BudgetsInv => BudgetsFit
  BY DEF BudgetsInv
<1> QED BY <1>1, BudgetsInvariant, PTL

------------------------------------------------------------------------------
\* The recovery

\* The job that recovers with the gate held counts the good polls; when nobody does, and no
\* stop has cut a recovery short, the last one came to its end.
CalmInv ==
  /\ \A j \in Jobs : tool[j] = "recovers" => calm = streak[j]
  /\ ~stop /\ (\A j \in Jobs : tool[j] # "recovers") => calm = StablePolls

LEMMA NextCalm == TypeOK /\ GateInv /\ CalmInv /\ [Next]_vars => CalmInv'
<1> SUFFICES ASSUME TypeOK, GateInv, CalmInv, [Next]_vars PROVE CalmInv'
  OBVIOUS
<1> USE DEF CalmInv, memVars, jobVars, toolVars, poolVars, scanVars
<1>a. /\ tool \in [Jobs -> {"no", "runs", "hangs", "ended", "recovers"}]
      /\ streak \in [Jobs -> 0..StablePolls] /\ calm \in 0..StablePolls
  BY DEF TypeOK
<1>b. \A i, j \in Jobs : tool[i] # "no" /\ tool[j] # "no" => i = j
  BY DEF GateInv, OneTool
<1>1. ASSUME NEW j \in Jobs, StartTool(j) PROVE CalmInv'
  BY <1>1, <1>a DEF StartTool
<1>2. ASSUME NEW j \in Jobs, FinishTool(j) PROVE CalmInv'
  BY <1>2, <1>a DEF FinishTool
<1>3. ASSUME NEW j \in Jobs, StopTool(j) PROVE CalmInv'
  <2>0. tool[j] \notin {"no", "recovers"} /\ \A i \in Jobs : i # j => tool[i] = "no"
    BY <1>3, <1>a, <1>b DEF StopTool
  <2>1. CASE /\ tool' = [tool EXCEPT ![j] = "recovers"] /\ streak' = [streak EXCEPT ![j] = 0]
             /\ calm' = 0
    BY <1>a, <2>0, <2>1
  <2>2. CASE tool' = [tool EXCEPT ![j] = "no"] /\ UNCHANGED <<streak, calm>>
    <3>1. (\A i \in Jobs : tool[i] # "recovers") /\ stop' = stop
      BY <1>3, <2>0 DEF StopTool
    <3>2. \A i \in Jobs : tool'[i] # "recovers"
      BY <1>a, <2>0, <2>2
    <3> QED BY <2>2, <3>1, <3>2
  <2> QED BY <1>3, <2>1, <2>2 DEF StopTool
<1>4. ASSUME NEW j \in Jobs, PollRecovery(j) PROVE CalmInv'
  <2>1. CASE tool[j] = "recovers"
    <3>1. \A i \in Jobs : i # j => tool[i] = "no"
      BY <1>a, <1>b, <2>1
    <3>2. calm = streak[j] /\ tool' = tool
      BY <1>4, <2>1 DEF PollRecovery
    <3>3. calm' = streak'[j]
      BY <1>4, <1>a, <2>1, <3>2 DEF PollRecovery, StablePolls, Smaller
    <3> QED BY <2>1, <3>1, <3>2, <3>3
  <2>2. CASE tool[j] # "recovers"
    BY <1>4, <1>a, <2>2 DEF PollRecovery
  <2> QED BY <2>1, <2>2
<1>5. ASSUME NEW j \in Jobs, EndRecovery(j) PROVE CalmInv'
  <2>1. CASE tool[j] = "recovers"
    <3>1. \A i \in Jobs : tool'[i] = "no"
      BY <1>5, <1>a, <1>b, <2>1 DEF EndRecovery
    <3>2. ~stop => calm = StablePolls
      BY <1>5, <2>1 DEF EndRecovery
    <3>3. calm' = calm /\ stop' = stop
      BY <1>5 DEF EndRecovery
    <3> QED BY <3>1, <3>2, <3>3 DEF StablePolls
  <2>2. CASE tool[j] # "recovers"
    BY <1>5, <1>a, <2>2 DEF EndRecovery
  <2> QED BY <2>1, <2>2
<1>6. ASSUME NEW j \in Jobs, ToolEnds(j) PROVE CalmInv'
  BY <1>6, <1>a DEF ToolEnds
<1>7. ASSUME NEW j \in Jobs, ToolHangs(j) PROVE CalmInv'
  BY <1>7, <1>a DEF ToolHangs
<1>8. CASE Stop
  BY <1>8 DEF Stop
<1>9. CASE UNCHANGED <<tool, streak, calm, stop>>
  BY <1>9
<1>10. ASSUME NEW j \in Jobs,
              \/ AcquireBudget(j) \/ AcquireStopped(j) \/ ReleaseBudget(j) \/ WaitForPeak(j)
              \/ WaitStopped(j) \/ NextFile(j) \/ BeginJob(j) \/ MarkSingle(j)
       PROVE  CalmInv'
  BY <1>9, <1>10 DEF AcquireBudget, AcquireStopped, ReleaseBudget, WaitForPeak, WaitStopped,
                     NextFile, BeginJob, MarkSingle
<1>11. CASE PoolStep \/ ScanStep \/ ChangeLoad \/ UNCHANGED vars
  BY <1>9, <1>11 DEF PoolStep, PickJob, SubmitJob, SubmitStopped, CollectJob, CollectNone,
                     JoinPool, ScanStep, ScanFile, ScanStopped, ChangeLoad, vars
<1> QED BY <1>1, <1>2, <1>3, <1>4, <1>5, <1>6, <1>7, <1>8, <1>10, <1>11 DEF Next, JobStep

\* No tool starts after one was stopped for memory, and ended in time, before the memory
\* has been found within its limits three times in a row; a tool that was killed between
\* two recoveries is not one that cuts the count short.
THEOREM RecoveryComesFirst == Spec => RecoveredBeforeNext
<1>1. Init => CalmInv
  BY DEF Init, CalmInv
<1>2. TypeOK /\ GateInv /\ CalmInv /\ [Next]_vars => CalmInv'
  BY NextCalm
<1>3. TypeOK /\ GateInv /\ CalmInv /\ [Next]_vars
        => [\A j \in Jobs : tool[j] = "no" /\ tool'[j] = "runs" => calm = StablePolls \/ stop]_vars
  <2> SUFFICES ASSUME TypeOK, GateInv, CalmInv, Next, NEW j \in Jobs,
                      tool[j] = "no", tool'[j] = "runs", ~stop
               PROVE  calm = StablePolls
    OBVIOUS
  <2>1. tool \in [Jobs -> {"no", "runs", "hangs", "ended", "recovers"}]
    BY DEF TypeOK
  <2>2. gate = Nobody
    <3>1. ASSUME NEW i \in Jobs, StartTool(i) PROVE gate = Nobody
      BY <3>1 DEF StartTool
    <3>2. ASSUME NEW i \in Jobs,
                 \/ FinishTool(i) \/ StopTool(i) \/ EndRecovery(i) \/ ToolEnds(i) \/ ToolHangs(i)
          PROVE  FALSE
      BY <2>1, <3>2 DEF FinishTool, StopTool, EndRecovery, ToolEnds, ToolHangs
    <3>3. tool' # tool
      OBVIOUS
    <3> QED BY <3>1, <3>2, <3>3
            DEF Next, JobStep, PoolStep, ScanStep, AcquireBudget, AcquireStopped,
                ReleaseBudget, WaitForPeak, WaitStopped, NextFile, PollRecovery, BeginJob,
                MarkSingle, PickJob, SubmitJob, SubmitStopped, CollectJob, CollectNone,
                JoinPool, ScanFile, ScanStopped, ChangeLoad, Stop, toolVars
  <2>3. \A i \in Jobs : tool[i] = "no"
    BY <2>2, GovernorAssumption DEF GateInv, OneTool
  <2> QED BY <2>3 DEF CalmInv
<1> QED BY <1>1, <1>2, <1>3, InitGate, NextGate, TypeCorrect, PTL DEF Spec, RecoveredBeforeNext

------------------------------------------------------------------------------
\* The way to the end after a stop

\* How far a job that is at a place still is from its end, once the stop event is set: every
\* step leads to a place of a lower rank. A target that recovers has the head of the loop
\* before it, the base that is compressed again only the end.
Rank(place, target) ==
  CASE place = "todo"         -> 15
    [] place = "queued"       -> 14
    [] place = "acquire"      -> 13
    [] place = "baseWait"     -> 12
    [] place = "baseTool"     -> 11
    [] place = "targetWait"   -> 10
    [] place = "targetTool"   -> 9
    [] place = "xdeltaWait"   -> 8
    [] place = "xdeltaTool"   -> 7
    [] place = "recover"      -> IF target THEN 6 ELSE 2
    [] place = "next"         -> 5
    [] place = "compressWait" -> 4
    [] place = "compressTool" -> 3
    [] place = "release"      -> 1
    [] OTHER                  -> 0

ToolRank(t) == CASE t = "no" -> 4 [] t = "runs" -> 3 [] t \in {"hangs", "ended"} -> 2 [] OTHER -> 1

JobLeft(j) == 5 * Rank(pc[j], IsTarget(j)) + ToolRank(tool[j])

PoolLeft == CASE sub = "wait" -> 4 [] sub = "pick" -> 3 [] sub = "collect" -> 2
              [] sub = "join" -> 1 [] OTHER -> 0

ScanLeft == IF scan = "submit" THEN 1 ELSE 0

\* After a stop no step takes a job, the thread that submits them or the scan away from its
\* end, and every step that is not a change of the load brings one of them nearer: none of the
\* loops of the waits, the recovery, the poll or the pool goes round once more.
Descends ==
  /\ \A j \in Jobs : JobLeft(j)' <= JobLeft(j)
  /\ PoolLeft' <= PoolLeft /\ ScanLeft' <= ScanLeft
  /\ \/ \E j \in Jobs : JobLeft(j)' < JobLeft(j)
     \/ PoolLeft' < PoolLeft \/ ScanLeft' < ScanLeft
     \/ UNCHANGED <<memVars, jobVars, toolVars, poolVars, scanVars, stop>>
StopRunsDown == [][stop => Descends]_vars

\* A job, and the thread that submits the jobs, that can go on after a stop: the guards of
\* JobStep, ToolEnds and PoolStep. The only thing a job waits for is the gate.
Goes(j) ==
  \/ pc[j] \in {"queued", "acquire", "next", "recover", "release"} \cup WaitPlaces
  \/ tool[j] # "no"
  \/ pc[j] \in ToolPlaces /\ gate = Nobody
PoolGoes ==
  \/ sub \in {"pick", "wait"}
  \/ sub = "collect" /\ (pending = {} \/ \E j \in pending : pc[j] = "done")
  \/ sub = "join" /\ \A j \in Submitted : pc[j] \in Settled

\* After a stop somebody can go on until all is over: whoever waits for the gate waits for a
\* job that can go on, and the pool waits for jobs that have not ended.
StopIsHeard ==
  stop => /\ \A j \in Jobs : \/ pc[j] \in Settled \cup {"todo"} \/ Goes(j)
                             \/ pc[j] \in ToolPlaces /\ gate \in Jobs /\ Goes(gate)
          /\ \/ AllSettled /\ scan = "end"
             \/ PoolGoes \/ scan = "submit"
             \/ \E j \in Jobs : Goes(j)

\* The base is compressed after the last target, and a job that is not collected has been
\* submitted and not cancelled.
StopInv ==
  /\ \A j \in Jobs : pc[j] \in {"compressWait", "compressTool"} => ~IsTarget(j)
  /\ \A j \in pending : pc[j] \notin {"todo", "cancelled"}

LEMMA InitStop == Init => StopInv
BY DEF Init, StopInv

LEMMA NextStop == TypeOK /\ GateInv /\ StopInv /\ [Next]_vars => StopInv'
<1> SUFFICES ASSUME TypeOK, GateInv, StopInv, [Next]_vars PROVE StopInv'
  OBVIOUS
<1> USE DEF memVars, jobVars, toolVars, poolVars, scanVars
<1>a. /\ pc \in [Jobs -> Places] /\ at \in [Jobs -> Nat] /\ pending \subseteq Jobs
      /\ \A j \in Jobs : pc[j] \in {"compressWait", "compressTool"} => ~IsTarget(j)
      /\ \A j \in pending : pc[j] \notin {"todo", "cancelled"}
  BY DEF TypeOK, StopInv
\* A job that is moved goes neither to the compression nor back.
<1>b. ASSUME NEW j \in Jobs, NEW place, Goto(j, place), UNCHANGED <<at, pending>>,
             place \notin {"todo", "cancelled", "compressWait"},
             place = "compressTool" => pc[j] = "compressWait"
      PROVE  StopInv'
  BY <1>a, <1>b DEF Goto, StopInv, IsTarget, IsSingle
<1>c. ASSUME UNCHANGED <<pc, at>>, pending' \subseteq pending
      PROVE  StopInv'
  BY <1>a, <1>c DEF StopInv, IsTarget, IsSingle
<1>d. \A j \in Jobs : {Leave(j), AfterTransient(j)}
                          \cap {"todo", "cancelled", "compressWait", "compressTool"} = {}
  BY DEF Leave, AfterTransient
<1>e. \A j \in Jobs : AfterTool(j) \notin {"todo", "cancelled", "compressWait", "compressTool"}
  BY <1>d DEF AfterTool
<1>1. ASSUME NEW j \in Jobs, AcquireBudget(j) \/ AcquireStopped(j) \/ ReleaseBudget(j)
      PROVE  StopInv'
  BY <1>1, <1>b DEF AcquireBudget, AcquireStopped, ReleaseBudget
<1>2. ASSUME NEW j \in Jobs, WaitForPeak(j) PROVE StopInv'
  <2>1. PICK place \in AfterWait(j) : Goto(j, place)
    BY <1>2 DEF WaitForPeak
  <2>2. pc[j] \in WaitPlaces /\ UNCHANGED <<at, pending>>
    BY <1>2 DEF WaitForPeak
  <2>3. /\ place \notin {"todo", "cancelled", "compressWait"}
        /\ place = "compressTool" => pc[j] = "compressWait"
    BY <2>1, <2>2 DEF AfterWait, WaitPlaces
  <2> QED BY <1>b, <2>1, <2>2, <2>3
<1>3. ASSUME NEW j \in Jobs, WaitStopped(j) PROVE StopInv'
  <2> DEFINE place == IF IsTarget(j) THEN AfterTransient(j) ELSE "release"
  <2>1. Goto(j, place) /\ UNCHANGED <<at, pending>>
    BY <1>3 DEF WaitStopped
  <2>2. place \notin {"todo", "cancelled", "compressWait", "compressTool"}
    BY <1>d
  <2> HIDE DEF place
  <2> QED BY <1>b, <2>1, <2>2
<1>4. ASSUME NEW j \in Jobs, NextFile(j) PROVE StopInv'
  <2>1. CASE ~stop /\ at[j] < Len(Sizes[j])
    <3>1. /\ Goto(j, "targetWait") /\ pending' = pending
          /\ \A i \in Jobs : i # j => at'[i] = at[i]
      BY <1>4, <1>a, <2>1 DEF NextFile
    <3> QED BY <1>a, <3>1 DEF StopInv, IsTarget, IsSingle, Goto
  <2>2. CASE ~(~stop /\ at[j] < Len(Sizes[j]))
    <3>1. /\ at' = [at EXCEPT ![j] = Len(Sizes[j]) + 1] /\ pending' = pending
          /\ Goto(j, IF CompressBase THEN "compressWait" ELSE "release")
      BY <1>4, <2>2 DEF NextFile
    <3>2. ~IsTarget(j)'
      BY <1>a, <3>1, SizesFacts DEF IsTarget
    <3>3. \A i \in Jobs : i # j => at'[i] = at[i] /\ pc'[i] = pc[i]
      BY <1>a, <3>1 DEF Goto
    <3>4. pc'[j] \in {"compressWait", "release"}
      BY <1>a, <3>1 DEF Goto
    <3> QED BY <1>a, <3>1, <3>2, <3>3, <3>4 DEF StopInv, IsTarget, IsSingle
  <2> QED BY <2>1, <2>2
<1>5. ASSUME NEW j \in Jobs, StartTool(j) \/ PollRecovery(j) \/ ToolEnds(j) \/ ToolHangs(j)
      PROVE  StopInv'
  BY <1>5, <1>c DEF StartTool, PollRecovery, ToolEnds, ToolHangs
<1>6. ASSUME NEW j \in Jobs, FinishTool(j) PROVE StopInv'
  <2>1. PICK place \in {AfterTool(j), Leave(j)} : Goto(j, place)
    BY <1>6 DEF FinishTool
  <2>2. UNCHANGED <<at, pending>>
    BY <1>6 DEF FinishTool
  <2> QED BY <1>b, <1>d, <1>e, <2>1, <2>2
<1>7. ASSUME NEW j \in Jobs, StopTool(j) PROVE StopInv'
  <2>1. UNCHANGED <<at, pending>>
    BY <1>7 DEF StopTool
  <2>2. CASE UNCHANGED pc
    BY <1>c, <2>1, <2>2
  <2>3. CASE Goto(j, AfterTransient(j))
    BY <1>b, <1>d, <2>1, <2>3
  <2>4. CASE Goto(j, Leave(j))
    BY <1>b, <1>d, <2>1, <2>4
  <2> QED BY <1>7, <2>2, <2>3, <2>4 DEF StopTool
<1>8. ASSUME NEW j \in Jobs, EndRecovery(j) PROVE StopInv'
  <2>1. UNCHANGED <<at, pending>>
    BY <1>8 DEF EndRecovery
  <2>2. CASE Goto(j, AfterTransient(j))
    BY <1>b, <1>d, <2>1, <2>2
  <2>3. CASE Goto(j, Leave(j))
    BY <1>b, <1>d, <2>1, <2>3
  <2> QED BY <1>8, <2>2, <2>3 DEF EndRecovery
<1>9. ASSUME NEW j \in Jobs, BeginJob(j) \/ MarkSingle(j) PROVE StopInv'
  BY <1>9, <1>b DEF BeginJob, MarkSingle
<1>10. CASE PickJob \/ SubmitStopped \/ CollectNone \/ JoinPool
  BY <1>10, <1>c DEF PickJob, SubmitStopped, CollectNone, JoinPool
<1>11. CASE SubmitJob
  <2>1. /\ next - 1 \in Jobs /\ at' = at /\ pc' = [pc EXCEPT ![next - 1] = "queued"]
        /\ pending' = pending \cup {next - 1}
    BY <1>11, SizesFacts DEF SubmitJob, TypeOK, Jobs, Goto
  <2> QED BY <1>a, <2>1 DEF StopInv, IsTarget, IsSingle
<1>12. ASSUME NEW j \in Jobs, CollectJob(j) PROVE StopInv'
  <2>1. CASE stop
    <3>1. /\ pending' = {} /\ at' = at
          /\ \A i \in Jobs : pc'[i] = pc[i] \/ pc'[i] = "cancelled"
      BY <1>12, <2>1 DEF CollectJob
    <3> QED BY <1>a, <3>1 DEF StopInv, IsTarget, IsSingle
  <2>2. CASE ~stop
    BY <1>12, <1>c, <2>2 DEF CollectJob
  <2> QED BY <2>1, <2>2
<1>13. CASE ScanStep \/ ChangeLoad \/ Stop \/ UNCHANGED vars
  BY <1>13, <1>c DEF ScanStep, ScanFile, ScanStopped, ChangeLoad, Stop, vars
<1> QED BY <1>1, <1>2, <1>3, <1>4, <1>5, <1>6, <1>7, <1>8, <1>9, <1>10, <1>11, <1>12,
        <1>13 DEF Next, JobStep, PoolStep

LEMMA RankType ==
  ASSUME NEW place, NEW target \in BOOLEAN
  PROVE  Rank(place, target) \in 0..15
BY DEF Rank

LEMMA ToolRankType == ASSUME NEW t PROVE ToolRank(t) \in 1..4
BY DEF ToolRank

\* A lower place outweighs the tool.
LEMMA LowerPlace ==
  ASSUME NEW j \in Jobs, Rank(pc[j], IsTarget(j))' < Rank(pc[j], IsTarget(j))
  PROVE  JobLeft(j)' < JobLeft(j)
<1>1. IsTarget(j) \in BOOLEAN /\ IsTarget(j)' \in BOOLEAN
  BY DEF IsTarget, IsSingle
<1>2. /\ Rank(pc[j], IsTarget(j)) \in 0..15 /\ Rank(pc'[j], IsTarget(j)') \in 0..15
      /\ ToolRank(tool[j]) \in 1..4 /\ ToolRank(tool'[j]) \in 1..4
  BY <1>1, RankType, ToolRankType
<1>3. Rank(pc'[j], IsTarget(j)') < Rank(pc[j], IsTarget(j))
  OBVIOUS
<1>4. /\ JobLeft(j) = 5 * Rank(pc[j], IsTarget(j)) + ToolRank(tool[j])
      /\ JobLeft(j)' = 5 * Rank(pc'[j], IsTarget(j)') + ToolRank(tool'[j])
  BY DEF JobLeft
<1>5. \A m, n \in 0..15, t, u \in 1..4 : n < m => 5 * n + u < 5 * m + t
  OBVIOUS
<1> QED BY <1>2, <1>3, <1>4, <1>5

\* What a tool that ends leaves its job with, and what one that is stopped does.
LEMMA ToolDown ==
  ASSUME TypeOK, StopInv, NEW j \in Jobs, pc[j] \in ToolPlaces, at' = at,
         pc'[j] \in {AfterTool(j), Leave(j), AfterTransient(j)}
  PROVE  Rank(pc[j], IsTarget(j))' < Rank(pc[j], IsTarget(j))
<1>1. IsTarget(j)' = IsTarget(j) /\ IsTarget(j) \in BOOLEAN
  BY DEF IsTarget, IsSingle
<1>2. pc[j] = "compressTool" => ~IsTarget(j)
  BY DEF StopInv
<1> DEFINE new == pc'[j]
<1>3. new \in {AfterTool(j), Leave(j), AfterTransient(j)}
  OBVIOUS
<1> HIDE DEF new
<1>4. CASE new = Leave(j)
  <2>1. Rank(new, IsTarget(j)) < Rank(pc[j], IsTarget(j))
    BY <1>1, <1>2, <1>4 DEF Leave, Rank, ToolPlaces
  <2> QED BY <1>1, <2>1 DEF new
<1>5. CASE new = AfterTransient(j)
  <2>1. Rank(new, IsTarget(j)) < Rank(pc[j], IsTarget(j))
    BY <1>1, <1>2, <1>5 DEF AfterTransient, Rank, ToolPlaces
  <2> QED BY <1>1, <2>1 DEF new
<1>6. CASE new = AfterTool(j) /\ new # Leave(j)
  <2>1. Rank(new, IsTarget(j)) < Rank(pc[j], IsTarget(j))
    BY <1>1, <1>6 DEF AfterTool, Rank, ToolPlaces
  <2> QED BY <1>1, <2>1 DEF new
<1> QED BY <1>3, <1>4, <1>5, <1>6

LEMMA LeftType ==
  /\ \A j \in Jobs : JobLeft(j) \in Nat /\ JobLeft(j)' \in Nat
  /\ PoolLeft \in Nat /\ PoolLeft' \in Nat /\ ScanLeft \in Nat /\ ScanLeft' \in Nat
<1>1. ASSUME NEW j \in Jobs
      PROVE  JobLeft(j) \in Nat /\ JobLeft(j)' \in Nat
  <2>1. IsTarget(j) \in BOOLEAN /\ IsTarget(j)' \in BOOLEAN
    BY DEF IsTarget, IsSingle
  <2>2. /\ Rank(pc[j], IsTarget(j)) \in 0..15 /\ Rank(pc[j], IsTarget(j))' \in 0..15
        /\ ToolRank(tool[j]) \in 1..4 /\ ToolRank(tool[j])' \in 1..4
    BY <2>1, RankType, ToolRankType
  <2> QED BY <2>2 DEF JobLeft
<1> QED BY <1>1 DEF PoolLeft, ScanLeft

LEMMA StopDescends ==
  ASSUME TypeOK, GateInv, StopInv, stop, [Next]_vars
  PROVE  Descends
<1> USE DEF memVars, jobVars, toolVars, poolVars, scanVars
<1>a. /\ pc \in [Jobs -> Places] /\ at \in [Jobs -> Nat] /\ pending \subseteq Jobs
      /\ tool \in [Jobs -> {"no", "runs", "hangs", "ended", "recovers"}]
      /\ \A j \in Jobs : pc[j] \in {"compressWait", "compressTool"} => ~IsTarget(j)
      /\ \A j \in Jobs : tool[j] # "no" => pc[j] \in ToolPlaces
  BY DEF TypeOK, StopInv, GateInv, ToolPlace
<1>b. \A j \in Jobs : IsTarget(j) \in BOOLEAN /\ IsTarget(j)' \in BOOLEAN
  BY DEF IsTarget, IsSingle
\* One job moves, or its tool does, and all else stays.
<1>c. ASSUME NEW j \in Jobs, JobLeft(j)' < JobLeft(j), UNCHANGED <<poolVars, scanVars>>,
             \A i \in Jobs : i # j => pc'[i] = pc[i] /\ at'[i] = at[i] /\ tool'[i] = tool[i]
      PROVE  Descends
  <2>1. \A i \in Jobs : i # j => JobLeft(i)' = JobLeft(i)
    BY <1>c DEF JobLeft, IsTarget, IsSingle
  <2>2. PoolLeft' = PoolLeft /\ ScanLeft' = ScanLeft
    BY <1>c DEF PoolLeft, ScanLeft
  <2>3. ASSUME NEW i \in Jobs PROVE JobLeft(i)' <= JobLeft(i)
    <3>1. JobLeft(i) \in Nat /\ JobLeft(i)' \in Nat
      BY LeftType
    <3>2. CASE i = j
      BY <1>c, <3>1, <3>2
    <3>3. CASE i # j
      BY <2>1, <3>1, <3>3
    <3> QED BY <3>2, <3>3
  <2>4. PoolLeft' <= PoolLeft /\ ScanLeft' <= ScanLeft
    BY <2>2, LeftType
  <2>5. \E i \in Jobs : JobLeft(i)' < JobLeft(i)
    BY <1>c
  <2> QED BY <2>3, <2>4, <2>5 DEF Descends
<1>d. ASSUME NEW j \in Jobs, NEW place, Goto(j, place), UNCHANGED <<at, tool, poolVars, scanVars>>,
             Rank(place, IsTarget(j)) < Rank(pc[j], IsTarget(j))
      PROVE  Descends
  <2>1. pc'[j] = place /\ \A i \in Jobs : i # j => pc'[i] = pc[i]
    BY <1>a, <1>d DEF Goto
  <2>2. IsTarget(j)' = IsTarget(j)
    BY <1>d DEF IsTarget, IsSingle
  <2>3. JobLeft(j)' < JobLeft(j)
    BY <1>d, <2>1, <2>2, LowerPlace
  <2> QED BY <1>c, <1>d, <2>1, <2>3
<1>e. ASSUME NEW j \in Jobs, NEW t, tool' = [tool EXCEPT ![j] = t],
             ToolRank(t) < ToolRank(tool[j]), UNCHANGED <<pc, at, poolVars, scanVars>>
      PROVE  Descends
  <2>1. tool'[j] = t /\ \A i \in Jobs : i # j => tool'[i] = tool[i]
    BY <1>a, <1>e
  <2>2. Rank(pc[j], IsTarget(j))' = Rank(pc[j], IsTarget(j))
    BY <1>e DEF IsTarget, IsSingle
  <2>3. JobLeft(j)' < JobLeft(j)
    <3> DEFINE r == Rank(pc[j], IsTarget(j))
    <3>1. r \in 0..15 /\ r' = r
      BY <1>b, <2>2, RankType
    <3>2. JobLeft(j) = 5 * r + ToolRank(tool[j]) /\ JobLeft(j)' = 5 * r' + ToolRank(t)
      BY <2>1 DEF JobLeft
    <3>3. ToolRank(tool[j]) \in 1..4 /\ ToolRank(t) \in 1..4
      BY ToolRankType
    <3> HIDE DEF r
    <3> QED BY <1>e, <3>1, <3>2, <3>3
  <2> QED BY <1>c, <1>e, <2>1, <2>3
\* A tool that is given up takes its job on.
<1>f. ASSUME NEW j \in Jobs, pc[j] \in ToolPlaces, tool' = [tool EXCEPT ![j] = "no"],
             NEW place \in {AfterTool(j), Leave(j), AfterTransient(j)}, Goto(j, place),
             UNCHANGED <<at, poolVars, scanVars>>
      PROVE  Descends
  <2>1. pc'[j] = place /\ \A i \in Jobs : i # j => pc'[i] = pc[i] /\ tool'[i] = tool[i]
    BY <1>a, <1>f DEF Goto
  <2>2. JobLeft(j)' < JobLeft(j)
    BY <1>f, <2>1, LowerPlace, ToolDown
  <2> QED BY <1>c, <1>f, <2>1, <2>2
<1>1. ASSUME NEW j \in Jobs, AcquireBudget(j) \/ PollRecovery(j)
      PROVE  Descends
  BY <1>1 DEF AcquireBudget, PollRecovery
<1>2. ASSUME NEW j \in Jobs, AcquireStopped(j) \/ ReleaseBudget(j) \/ MarkSingle(j)
      PROVE  Descends
  <2>1. /\ Goto(j, "done") /\ pc[j] \in {"acquire", "release", "queued"}
        /\ UNCHANGED <<at, tool, poolVars, scanVars>>
    BY <1>2 DEF AcquireStopped, ReleaseBudget, MarkSingle
  <2>2. Rank("done", IsTarget(j)) < Rank(pc[j], IsTarget(j))
    BY <2>1 DEF Rank
  <2> QED BY <1>d, <2>1, <2>2
<1>3. ASSUME NEW j \in Jobs, WaitForPeak(j) PROVE Descends
  <2>1. PICK place \in AfterWait(j) : Goto(j, place)
    BY <1>3 DEF WaitForPeak
  <2>2. pc[j] \in WaitPlaces /\ UNCHANGED <<at, tool, poolVars, scanVars>>
    BY <1>3 DEF WaitForPeak
  <2>3. Rank(place, IsTarget(j)) < Rank(pc[j], IsTarget(j))
    <3>1. CASE pc[j] = "baseWait"
      BY <2>1, <3>1 DEF AfterWait, Rank
    <3>2. CASE pc[j] = "targetWait"
      BY <2>1, <3>2 DEF AfterWait, Rank
    <3>3. CASE pc[j] = "xdeltaWait"
      BY <2>1, <3>3 DEF AfterWait, Rank
    <3>4. CASE pc[j] = "compressWait"
      BY <2>1, <3>4 DEF AfterWait, Rank
    <3> QED BY <2>2, <3>1, <3>2, <3>3, <3>4 DEF WaitPlaces
  <2> QED BY <1>d, <2>1, <2>2, <2>3
<1>4. ASSUME NEW j \in Jobs, WaitStopped(j) PROVE Descends
  <2> DEFINE place == IF IsTarget(j) THEN AfterTransient(j) ELSE "release"
  <2>1. Goto(j, place) /\ pc[j] \in WaitPlaces /\ UNCHANGED <<at, tool, poolVars, scanVars>>
    BY <1>4 DEF WaitStopped
  <2>2. Rank(place, IsTarget(j)) < Rank(pc[j], IsTarget(j))
    <3>1. CASE IsTarget(j)
      BY <1>a, <2>1, <3>1 DEF AfterTransient, Rank, WaitPlaces
    <3>2. CASE ~IsTarget(j)
      BY <2>1, <3>2 DEF Rank, WaitPlaces
    <3> QED BY <3>1, <3>2
  <2> HIDE DEF place
  <2> QED BY <1>d, <2>1, <2>2
<1>5. ASSUME NEW j \in Jobs, NextFile(j) PROVE Descends
  <2> DEFINE place == IF CompressBase THEN "compressWait" ELSE "release"
  <2>1. /\ pc[j] = "next" /\ Goto(j, place) /\ at' = [at EXCEPT ![j] = Len(Sizes[j]) + 1]
        /\ UNCHANGED <<tool, poolVars, scanVars>>
    BY <1>5 DEF NextFile
  <2>2. \A i \in Jobs : i # j => pc'[i] = pc[i] /\ at'[i] = at[i] /\ tool'[i] = tool[i]
    BY <1>a, <2>1 DEF Goto
  <2>3. pc'[j] \in {"compressWait", "release"}
    BY <1>a, <2>1 DEF Goto
  <2>4. Rank(pc[j], IsTarget(j))' < Rank(pc[j], IsTarget(j))
    BY <2>1, <2>3 DEF Rank
  <2> QED BY <1>c, <2>1, <2>2, <2>4, LowerPlace
<1>6. ASSUME NEW j \in Jobs, StartTool(j) \/ ToolEnds(j) \/ ToolHangs(j) PROVE Descends
  <2>1. PICK t : /\ tool' = [tool EXCEPT ![j] = t] /\ ToolRank(t) < ToolRank(tool[j])
                 /\ UNCHANGED <<pc, at, poolVars, scanVars>>
    <3>1. CASE StartTool(j)
      <4>1. /\ tool[j] = "no" /\ tool' = [tool EXCEPT ![j] = "runs"]
            /\ UNCHANGED <<pc, at, poolVars, scanVars>>
        BY <3>1 DEF StartTool
      <4>2. ToolRank("runs") < ToolRank(tool[j])
        BY <4>1 DEF ToolRank
      <4> QED BY <4>1, <4>2
    <3>2. CASE ToolEnds(j)
      <4>1. /\ tool[j] = "runs" /\ tool' = [tool EXCEPT ![j] = "ended"]
            /\ UNCHANGED <<pc, at, poolVars, scanVars>>
        BY <3>2 DEF ToolEnds
      <4>2. ToolRank("ended") < ToolRank(tool[j])
        BY <4>1 DEF ToolRank
      <4> QED BY <4>1, <4>2
    <3>3. CASE ToolHangs(j)
      <4>1. /\ tool[j] = "runs" /\ tool' = [tool EXCEPT ![j] = "hangs"]
            /\ UNCHANGED <<pc, at, poolVars, scanVars>>
        BY <3>3 DEF ToolHangs
      <4>2. ToolRank("hangs") < ToolRank(tool[j])
        BY <4>1 DEF ToolRank
      <4> QED BY <4>1, <4>2
    <3> QED BY <1>6, <3>1, <3>2, <3>3
  <2> QED BY <1>e, <2>1
<1>7. ASSUME NEW j \in Jobs, FinishTool(j) PROVE Descends
  <2>1. PICK place \in {AfterTool(j), Leave(j)} : Goto(j, place)
    BY <1>7 DEF FinishTool
  <2>2. /\ pc[j] \in ToolPlaces /\ tool' = [tool EXCEPT ![j] = "no"]
        /\ UNCHANGED <<at, poolVars, scanVars>>
    BY <1>7, <1>a DEF FinishTool
  <2> QED BY <1>f, <2>1, <2>2
<1>8. ASSUME NEW j \in Jobs, StopTool(j) PROVE Descends
  <2>1. PICK place \in {Leave(j), AfterTransient(j)} : Goto(j, place)
    BY <1>8 DEF StopTool
  <2>2. /\ pc[j] \in ToolPlaces /\ tool' = [tool EXCEPT ![j] = "no"]
        /\ UNCHANGED <<at, poolVars, scanVars>>
    BY <1>8, <1>a DEF StopTool
  <2> QED BY <1>f, <2>1, <2>2
<1>9. ASSUME NEW j \in Jobs, EndRecovery(j) PROVE Descends
  <2>1. CASE tool[j] = "recovers"
    <3>1. /\ pc[j] \in ToolPlaces /\ tool' = [tool EXCEPT ![j] = "no"]
          /\ Goto(j, AfterTransient(j)) /\ UNCHANGED <<at, poolVars, scanVars>>
      BY <1>9, <1>a, <2>1 DEF EndRecovery
    <3> QED BY <1>f, <3>1
  <2>2. CASE tool[j] # "recovers"
    <3>1. pc[j] = "recover" /\ Goto(j, Leave(j)) /\ UNCHANGED <<at, tool, poolVars, scanVars>>
      BY <1>9, <2>2 DEF EndRecovery, Recovering
    <3>2. Rank(Leave(j), IsTarget(j)) < Rank(pc[j], IsTarget(j))
      BY <1>b, <3>1 DEF Leave, Rank
    <3> QED BY <1>d, <3>1, <3>2
  <2> QED BY <2>1, <2>2
<1>10. ASSUME NEW j \in Jobs, BeginJob(j) PROVE Descends
  <2> DEFINE place == IF IsSingle(j) THEN "targetWait" ELSE "acquire"
  <2>1. /\ Goto(j, place) /\ pc[j] = "queued" /\ UNCHANGED <<at, tool, poolVars, scanVars>>
    BY <1>10 DEF BeginJob
  <2>2. Rank(place, IsTarget(j)) < Rank(pc[j], IsTarget(j))
    BY <2>1 DEF Rank
  <2> HIDE DEF place
  <2> QED BY <1>d, <2>1, <2>2
\* The thread that submits the jobs; what it does to a job takes it on, too.
<1>g. (/\ PoolLeft' < PoolLeft /\ UNCHANGED <<at, tool, scanVars>>
       /\ \A i \in Jobs : \/ pc'[i] = pc[i]
                          \/ pc[i] = "todo" /\ pc'[i] = "queued"
                          \/ pc[i] = "queued" /\ pc'[i] = "cancelled")
      => Descends
  <2> SUFFICES ASSUME PoolLeft' < PoolLeft, UNCHANGED <<at, tool, scanVars>>,
                      \A i \in Jobs : \/ pc'[i] = pc[i]
                                      \/ pc[i] = "todo" /\ pc'[i] = "queued"
                                      \/ pc[i] = "queued" /\ pc'[i] = "cancelled"
               PROVE  Descends
    OBVIOUS
  <2>1. ASSUME NEW i \in Jobs
        PROVE  JobLeft(i)' <= JobLeft(i)
    <3>1. CASE pc'[i] = pc[i]
      <4>1. JobLeft(i)' = JobLeft(i)
        BY <3>1 DEF JobLeft, IsTarget, IsSingle
      <4> QED BY <4>1, LeftType
    <3>2. CASE pc'[i] # pc[i]
      <4>1. Rank(pc[i], IsTarget(i))' < Rank(pc[i], IsTarget(i))
        BY <3>2 DEF Rank
      <4> QED BY <4>1, LowerPlace, LeftType
    <3> QED BY <3>1, <3>2
  <2>2. ScanLeft' = ScanLeft /\ ScanLeft \in Nat
    BY LeftType DEF ScanLeft
  <2>3. PoolLeft' <= PoolLeft /\ ScanLeft' <= ScanLeft
    BY <2>2, LeftType
  <2> QED BY <2>1, <2>3 DEF Descends
<1>11. CASE PickJob \/ SubmitStopped \/ CollectNone \/ JoinPool
  <2>1. PoolLeft' < PoolLeft
    <3>1. CASE PickJob
      BY <3>1 DEF PickJob, PoolLeft
    <3>2. CASE SubmitStopped
      BY <3>2 DEF SubmitStopped, PoolLeft
    <3>3. CASE CollectNone
      BY <3>3 DEF CollectNone, PoolLeft
    <3>4. CASE JoinPool
      BY <3>4 DEF JoinPool, PoolLeft
    <3> QED BY <1>11, <3>1, <3>2, <3>3, <3>4
  <2>2. UNCHANGED <<pc, at, tool, scanVars>>
    BY <1>11 DEF PickJob, SubmitStopped, CollectNone, JoinPool
  <2> QED BY <1>g, <2>1, <2>2
<1>12. CASE SubmitJob
  <2>1. /\ next - 1 \in Jobs /\ pc[next - 1] = "todo" /\ pc' = [pc EXCEPT ![next - 1] = "queued"]
        /\ UNCHANGED <<at, tool, scanVars>>
    BY <1>12, SizesFacts DEF SubmitJob, TypeOK, Jobs, Goto, GateInv, Unsubmitted
  <2>2. PoolLeft' < PoolLeft
    <3>1. sub = "wait" /\ sub' \in {"pick", "collect"}
      BY <1>12 DEF SubmitJob
    <3> QED BY <3>1 DEF PoolLeft
  <2>3. \A i \in Jobs : pc'[i] = pc[i] \/ (pc[i] = "todo" /\ pc'[i] = "queued")
    BY <1>a, <2>1
  <2> QED BY <1>g, <2>1, <2>2, <2>3
<1>13. ASSUME NEW j \in Jobs, CollectJob(j) PROVE Descends
  <2>1. /\ sub = "collect" /\ sub' = "join" /\ UNCHANGED <<at, tool, scanVars>>
        /\ pc' = [i \in Jobs |-> IF i \in pending /\ pc[i] = "queued"
                                THEN "cancelled" ELSE pc[i]]
    BY <1>13 DEF CollectJob
  <2>2. PoolLeft' < PoolLeft
    BY <2>1 DEF PoolLeft
  <2>3. \A i \in Jobs : pc'[i] = pc[i] \/ (pc[i] = "queued" /\ pc'[i] = "cancelled")
    BY <2>1
  <2> QED BY <1>g, <2>1, <2>2, <2>3
<1>14. CASE ScanStep
  <2>1. ScanStopped
    BY <1>14 DEF ScanStep, ScanFile
  <2>2. /\ ScanLeft' < ScanLeft /\ PoolLeft' = PoolLeft
        /\ \A i \in Jobs : JobLeft(i)' = JobLeft(i)
    BY <2>1 DEF ScanStopped, ScanLeft, PoolLeft, JobLeft, IsTarget, IsSingle
  <2>3. /\ \A i \in Jobs : JobLeft(i)' <= JobLeft(i)
        /\ PoolLeft' <= PoolLeft /\ ScanLeft' <= ScanLeft
    <3>1. ASSUME NEW i \in Jobs PROVE JobLeft(i)' <= JobLeft(i)
      BY <2>2, LeftType
    <3>2. PoolLeft' <= PoolLeft /\ ScanLeft' <= ScanLeft
      BY <2>2, LeftType
    <3> QED BY <3>1, <3>2
  <2> QED BY <2>2, <2>3 DEF Descends
<1>15. CASE ChangeLoad \/ Stop \/ UNCHANGED vars
  <2>1. UNCHANGED <<memVars, jobVars, toolVars, poolVars, scanVars, stop>>
    BY <1>15 DEF ChangeLoad, Stop, vars
  <2>2. /\ ScanLeft' = ScanLeft /\ PoolLeft' = PoolLeft
        /\ \A i \in Jobs : JobLeft(i)' = JobLeft(i)
    BY <2>1 DEF ScanLeft, PoolLeft, JobLeft, IsTarget, IsSingle
  <2> QED BY <2>1, <2>2, LeftType DEF Descends
<1> QED BY <1>1, <1>2, <1>3, <1>4, <1>5, <1>6, <1>7, <1>8, <1>9, <1>10, <1>11, <1>12,
        <1>13, <1>14, <1>15 DEF Next, JobStep, PoolStep

LEMMA StopInvariant == Spec => [](TypeOK /\ GateInv /\ StopInv)
  BY InitType, NextType, InitGate, NextGate, InitStop, NextStop, PTL DEF Spec

\* However many jobs, workers and tools there are, and whatever the memory looks like: from a
\* stop on, the run goes nowhere but towards its end, in at most 75 steps of each job.
THEOREM StopComesNearer == Spec => StopRunsDown
<1>1. TypeOK /\ GateInv /\ StopInv /\ [Next]_vars => [stop => Descends]_vars
  BY StopDescends
<1> QED BY <1>1, StopInvariant, PTL DEF Spec, StopRunsDown

\* After a stop nobody waits in a circle: all is over or somebody can go on, even with a tool
\* that hangs, a short memory and every job queued at the gate.
THEOREM StopNeverStalls == Spec => []StopIsHeard
<1>1. TypeOK /\ GateInv /\ StopInv => StopIsHeard
  <2> SUFFICES ASSUME TypeOK, GateInv, StopInv PROVE StopIsHeard
    OBVIOUS
  <2>1. /\ pc \in [Jobs -> Places] /\ gate \in Jobs \cup {Nobody} /\ pending \subseteq Jobs
        /\ scan \in {"submit", "end"} /\ sub \in {"pick", "wait", "collect", "join", "end"}
    BY DEF TypeOK
  <2>2. gate \in Jobs => Goes(gate)
    BY DEF GateInv, OneTool, Goes
  <2>3. \A j \in Jobs : \/ pc[j] \in Settled \cup {"todo"} \/ Goes(j)
                        \/ pc[j] \in ToolPlaces /\ gate \in Jobs /\ Goes(gate)
    <3> SUFFICES ASSUME NEW j \in Jobs, pc[j] \in ToolPlaces PROVE Goes(j) \/ gate \in Jobs
      BY <2>1, <2>2 DEF Goes, Places, Settled, WaitPlaces
    <3>1. gate \notin Jobs => gate = Nobody
      BY <2>1
    <3> QED BY <3>1 DEF Goes
  <2>4. ASSUME ~PoolGoes, scan # "submit", \A j \in Jobs : ~Goes(j)
        PROVE  AllSettled /\ scan = "end"
    <3>1. \A j \in Jobs : pc[j] \in Settled \cup {"todo"}
      BY <2>3, <2>4
    <3>2. sub # "join"
      BY <2>4, <3>1 DEF PoolGoes, Submitted
    <3>3. sub # "collect"
      BY <2>1, <2>4, <3>1 DEF PoolGoes, StopInv, Settled
    <3>4. sub = "end"
      BY <2>1, <2>4, <3>2, <3>3 DEF PoolGoes
    <3> QED BY <2>1, <2>4, <3>1, <3>4 DEF AllSettled
  <2> QED BY <2>3, <2>4 DEF StopIsHeard
<1> QED BY <1>1, StopInvariant, PTL
============================================================================
