--------------------------- MODULE MemoryGovernor ---------------------------
(***************************************************************************)
(* How memory limits throttle the heavy work: MemoryGovernor with the      *)
(* budgets it reserves, the waits for headroom and for recovery, the gate  *)
(* of run_subprocess_monitored, the pool of workers that packs groups, and *)
(* the scan that waits for headroom beside it.                             *)
(* A job is one group of files. What it does to the files and their rows   *)
(* is in DedupPipeline: here it only waits, runs tools, and reserves.      *)
(* Memory is counted in blocks of 64 MiB.                                  *)
(***************************************************************************)
EXTENDS Integers, Sequences, FiniteSets

CONSTANTS
  Sizes,        \* [job -> the sizes of the files of its group that are to be packed]
  Workers,      \* the configured number of workers
  SerialAbove,  \* DEDUP_SERIAL_ABOVE: a larger file makes the run sequential, 0 is off
  Decompress,   \* the strategy decompresses before it packs
  CompressBase, \* the base is compressed again after its targets
  PeakFactor,   \* DEDUP_PEAK_FACTOR
  DecompressFactor, \* DEDUP_PEAK_FACTOR_DECOMPRESS
  MaxRss, MaxSwap, MinAvailable, MaxUsedPct, \* the configured limits, 0 is off
  MemTotal,     \* the memory of the machine, 0 when /proc does not say
  Loads,        \* what everything but the tools may use: records of Load
  ScanFiles,    \* how many files the scan hands to its pool
  Hangs,        \* a tool may fill its pipe and wait for a reader
  SlowToDie,    \* a terminated tool may need more than ten seconds to end
  Nobody        \* no job

Jobs == 1..Len(Sizes)
Load == [rss : Nat, swap : Nat, swapGrowth : Nat, avail : Nat]

ASSUME GovernorAssumption ==
  /\ Sizes \in Seq(Seq(Nat)) /\ \A j \in Jobs : Sizes[j] # <<>>
  /\ Workers \in Nat \ {0} /\ SerialAbove \in Nat
  /\ Decompress \in BOOLEAN /\ CompressBase \in BOOLEAN
  /\ Hangs \in BOOLEAN /\ SlowToDie \in BOOLEAN
  /\ PeakFactor \in Nat \ {0} /\ DecompressFactor \in Nat
  /\ MaxRss \in Nat /\ MaxSwap \in Nat /\ MinAvailable \in Nat
  /\ MaxUsedPct \in Nat /\ MemTotal \in Nat
  /\ ScanFiles \in Nat \ {0}
  /\ Loads \subseteq Load
  /\ Nobody \notin Jobs

\* Some limit is on, as it is by default; without any the governor is never asked.
ASSUME LimitsAssumption == MinAvailable > 0 \/ (MaxUsedPct > 0 /\ MemTotal > 0)

VARIABLES
  load,     \* what everything but the tools uses
  use,      \* what the running tool uses
  reserved, \* MemoryGovernor._reserved_bytes
  granted,  \* history: what was free above the minimum when the last budget was granted
  budget,   \* [Jobs -> its JobBudget]
  pc,       \* [Jobs -> where the job is]
  at,       \* [Jobs -> the file it works on; past the last one it compresses the base]
  gate,     \* the job that holds _subprocess_gate, or Nobody
  tool,     \* [Jobs -> its tool]
  streak,   \* [Jobs -> ok_streak of its wait_for_recovery]
  calm,     \* history: the good polls in a row since a tool ended that was stopped for memory
  width,    \* the workers of the pool
  sub,      \* where the thread that submits the jobs is
  next,     \* the next job it submits
  pending,  \* the jobs it has submitted and not collected
  scan,     \* where the scan is
  scanLeft, \* the files the scan has not handed to its pool
  stop      \* the stop event

memVars == <<reserved, granted, budget>>
jobVars == <<pc, at>>
toolVars == <<use, gate, tool, streak, calm>>
poolVars == <<width, sub, next, pending>>
scanVars == <<scan, scanLeft>>
vars == <<load, memVars, jobVars, toolVars, poolVars, scanVars, stop>>

------------------------------------------------------------------------------
\* The limits and the estimates.
Larger(a, b) == IF a >= b THEN a ELSE b
Smaller(a, b) == IF a <= b THEN a ELSE b
IsLargest(x, S) == x \in S /\ \A y \in S : y <= x
LargestOf(S) == IF \E x \in S : IsLargest(x, S) THEN CHOOSE x \in S : IsLargest(x, S) ELSE 0

\* clamp_memory_limits caps the limit of the process tree to 35% of the memory, or to
\* 512 MiB when that is more.
RssLimit == IF MemTotal = 0 \/ MaxRss = 0 THEN MaxRss
            ELSE Smaller(MaxRss, Larger(8, (MemTotal * 35) \div 100))
UsedLimit == (MemTotal * (IF MaxUsedPct > 0 THEN MaxUsedPct ELSE 65)) \div 100
SoftRss == (RssLimit * 70) \div 100

Peak(size) == IF Decompress THEN size * Larger(DecompressFactor, 20) ELSE size * PeakFactor
XdeltaPeak(base, target) == ((base + target) * 3) \div 2

JobPeak(j) == LargestOf({Peak(Sizes[j][i]) : i \in DOMAIN Sizes[j]})
LargestFile == LargestOf(UNION {{Sizes[j][i] : i \in DOMAIN Sizes[j]} : j \in Jobs})
LargestPeak == LargestOf({JobPeak(j) : j \in Jobs})

------------------------------------------------------------------------------
\* What the governor sees, and what it makes of it.
Avail == Larger(0, load.avail - use)
Rss == load.rss + use

Free == Avail - MinAvailable
TooMuchUsed == UsedLimit > 0 /\ MemTotal - Avail >= UsedLimit
TooMuchSwap == MaxSwap > 0 /\ (load.swap >= MaxSwap \/ load.swapGrowth >= MaxSwap)
RssPressure(need) ==
  RssLimit > 0 /\ Rss + need > RssLimit /\ ~(need > 0 /\ Free >= need)

\* Mutant: what the others have reserved is not counted.
PressureNoReserve(peak) ==
  \/ TooMuchUsed
  \/ TooMuchSwap
  \/ Free < peak /\ (MinAvailable > 0 \/ peak > 0)
  \/ RssPressure(peak)

\* _job_pressure_reason: may a job with this peak start?
Pressure(peak) ==
  LET need == peak + reserved
  IN  \/ TooMuchUsed
      \/ TooMuchSwap
      \/ Free < need /\ (MinAvailable > 0 \/ need > 0)
      \/ RssPressure(need)

\* Mutant: the limits of the process tree hold for a scan too.
OverLimitTree(forScan) ==
  \/ TooMuchUsed \/ TooMuchSwap
  \/ RssLimit > 0 /\ Rss >= SoftRss
  \/ MinAvailable > 0 /\ Avail < MinAvailable

\* _over_limit: for a scan the process tree does not count.
OverLimit(forScan) ==
  \/ TooMuchUsed
  \/ ~forScan /\ RssLimit > 0 /\ Rss >= SoftRss
  \/ ~forScan /\ TooMuchSwap
  \/ MinAvailable > 0 /\ Avail < MinAvailable

EffectiveWorkers(largest) ==
  LET headroom == Free - reserved
  IN  IF largest = 0 THEN Workers
      ELSE IF headroom <= 0 THEN 1
      ELSE Larger(1, Smaller(Workers, headroom \div largest))

\* process_groups: how many jobs run at a time.
PoolWidth == IF SerialAbove > 0 /\ LargestFile > SerialAbove THEN 1
             ELSE EffectiveWorkers(LargestPeak)

------------------------------------------------------------------------------
\* The places of a job, in the order of process_group and compress_one; a group of one
\* file starts at "targetWait", has no budget, and is done when its file is.
ToolPlaces == {"baseTool", "targetTool", "xdeltaTool", "compressTool"}
WaitPlaces == {"baseWait", "targetWait", "xdeltaWait", "compressWait"}
Settled == {"done", "cancelled"}
Places == {"todo", "queued", "acquire", "next", "recover", "release"}
            \cup WaitPlaces \cup ToolPlaces \cup Settled

IsSingle(j) == Len(Sizes[j]) = 1
IsTarget(j) == at[j] <= Len(Sizes[j]) /\ (at[j] > 1 \/ IsSingle(j))

\* What each wait asks for. The base of a single file is as large as the file.
WaitPeak(j) ==
  CASE pc[j] = "targetWait" -> Peak(Sizes[j][at[j]])
    [] pc[j] = "xdeltaWait" -> XdeltaPeak(Sizes[j][1], Sizes[j][at[j]])
    [] OTHER                -> Peak(Sizes[j][1])

\* With the strategy "xdelta" nothing is preprocessed; a base that is done stays as it is.
AfterWait(j) ==
  CASE pc[j] = "baseWait"   -> IF Decompress THEN {"baseTool", "next"} ELSE {"next"}
    [] pc[j] = "targetWait" -> IF Decompress THEN {"targetTool"} ELSE {"xdeltaWait"}
    [] pc[j] = "xdeltaWait" -> {"xdeltaTool"}
    [] OTHER                -> {"compressTool"}

\* Where a file that is packed, or has failed, leaves the job.
Leave(j) == IF IsSingle(j) THEN "done" ELSE IF IsTarget(j) THEN "next" ELSE "release"
AfterTool(j) ==
  CASE pc[j] = "baseTool"   -> "next"
    [] pc[j] = "targetTool" -> "xdeltaWait"
    [] OTHER                -> Leave(j)

\* A transient error of a group is followed by a wait for recovery; _run_group_job marks a
\* single file at once.
AfterTransient(j) == IF IsSingle(j) THEN "done" ELSE "recover"

Goto(j, place) == pc' = [pc EXCEPT ![j] = place]

\* MemoryGovernor.acquire_peak_budget: the look at the memory and the reservation are one
\* step under the lock.
AcquireBudget(j) ==
  /\ pc[j] = "acquire" /\ ~stop
  /\ ~Pressure(JobPeak(j))
  /\ reserved' = reserved + JobPeak(j)
  /\ granted' = Free
  /\ budget' = [budget EXCEPT ![j] = JobPeak(j)]
  /\ Goto(j, "baseWait")
  /\ UNCHANGED <<load, at, toolVars, poolVars, scanVars, stop>>

AcquireStopped(j) ==
  /\ pc[j] = "acquire" /\ stop
  /\ Goto(j, "done")
  /\ UNCHANGED <<load, memVars, at, toolVars, poolVars, scanVars, stop>>

\* JobBudget.__exit__, on every way out of process_group.
ReleaseBudget(j) ==
  /\ pc[j] = "release"
  /\ reserved' = Larger(0, reserved - budget[j])
  /\ budget' = [budget EXCEPT ![j] = 0]
  /\ Goto(j, "done")
  /\ UNCHANGED <<load, granted, at, toolVars, poolVars, scanVars, stop>>

\* wait_for_peak_bytes inside a job: it looks and reserves nothing.
WaitForPeak(j) ==
  /\ pc[j] \in WaitPlaces
  /\ LET peak == WaitPeak(j)
     IN  peak = 0 \/ (~stop /\ ~Pressure(peak))
  /\ \E place \in AfterWait(j) : Goto(j, place)
  /\ UNCHANGED <<load, memVars, at, toolVars, poolVars, scanVars, stop>>

\* Mutant: a job that is stopped in a wait leaves without its with block.
WaitStoppedLeak(j) ==
  /\ pc[j] \in WaitPlaces /\ WaitPeak(j) > 0 /\ stop
  /\ Goto(j, IF IsTarget(j) THEN AfterTransient(j) ELSE "done")
  /\ UNCHANGED <<load, memVars, at, toolVars, poolVars, scanVars, stop>>

\* A stop ends the wait: the error of a target is transient, the others leave the group.
WaitStopped(j) ==
  /\ pc[j] \in WaitPlaces /\ WaitPeak(j) > 0 /\ stop
  /\ Goto(j, IF IsTarget(j) THEN AfterTransient(j) ELSE "release")
  /\ UNCHANGED <<load, memVars, at, toolVars, poolVars, scanVars, stop>>

\* The head of the loop over the targets, and what follows the loop.
NextFile(j) ==
  /\ pc[j] = "next"
  /\ IF ~stop /\ at[j] < Len(Sizes[j])
     THEN /\ at' = [at EXCEPT ![j] = @ + 1]
          /\ Goto(j, "targetWait")
     ELSE /\ at' = [at EXCEPT ![j] = Len(Sizes[j]) + 1]
          /\ Goto(j, IF CompressBase THEN "compressWait" ELSE "release")
  /\ UNCHANGED <<load, memVars, toolVars, poolVars, scanVars, stop>>

------------------------------------------------------------------------------
\* run_subprocess_monitored. The tools that one place runs one after the other are one run.

StartTool(j) ==
  /\ pc[j] \in ToolPlaces /\ tool[j] = "no"
  /\ gate = Nobody
  /\ gate' = j
  /\ tool' = [tool EXCEPT ![j] = "runs"]
  /\ use' = JobPeak(j)
  /\ UNCHANGED <<load, memVars, jobVars, streak, calm, poolVars, scanVars, stop>>

\* The tool ends by itself; or its error output fills the pipe, which is read when it has
\* ended and no earlier.
ToolEnds(j) ==
  /\ tool[j] = "runs"
  /\ tool' = [tool EXCEPT ![j] = "ended"]
  /\ use' = 0
  /\ UNCHANGED <<load, memVars, jobVars, gate, streak, calm, poolVars, scanVars, stop>>

ToolHangs(j) ==
  /\ Hangs /\ tool[j] = "runs"
  /\ tool' = [tool EXCEPT ![j] = "hangs"]
  /\ UNCHANGED <<load, memVars, jobVars, use, gate, streak, calm, poolVars, scanVars,
                 stop>>

\* The poll sees the end: a return code other than 0 is an error of the file for good.
FinishTool(j) ==
  /\ tool[j] = "ended"
  /\ gate' = Nobody
  /\ tool' = [tool EXCEPT ![j] = "no"]
  /\ \E place \in {AfterTool(j), Leave(j)} : Goto(j, place)
  /\ UNCHANGED <<load, memVars, at, use, streak, calm, poolVars, scanVars, stop>>

\* Mutant: a stop is looked for only when the tool makes progress.
StopToolRunning(j) ==
  /\ tool[j] = "runs"
  /\ stop \/ Pressure(0)
  /\ use' = 0
  /\ calm' = IF stop THEN calm ELSE 0
  /\ tool' = [tool EXCEPT ![j] = IF stop THEN "no" ELSE "recovers"]
  /\ streak' = [streak EXCEPT ![j] = 0]
  /\ gate' = IF stop THEN Nobody ELSE gate
  /\ pc' = IF stop THEN [pc EXCEPT ![j] = AfterTransient(j)] ELSE pc
  /\ UNCHANGED <<load, memVars, at, poolVars, scanVars, stop>>

\* The poll sees a stop or a pressure and terminates the tool. A tool that does not end in
\* time is killed, and the error is then that of the wait: it names neither the stop nor
\* the memory, so no ingest resets it, and nobody waits for recovery.
StopTool(j) ==
  /\ tool[j] \in {"runs", "hangs"}
  /\ stop \/ Pressure(0)
  /\ use' = 0
  /\ \E inTime \in IF SlowToDie THEN BOOLEAN ELSE {TRUE} :
       IF inTime /\ ~stop
       THEN /\ tool' = [tool EXCEPT ![j] = "recovers"]
            /\ streak' = [streak EXCEPT ![j] = 0]
            /\ calm' = 0
            /\ UNCHANGED <<pc, gate>>
       ELSE /\ tool' = [tool EXCEPT ![j] = "no"]
            /\ gate' = Nobody
            /\ Goto(j, IF inTime THEN AfterTransient(j) ELSE Leave(j))
            /\ UNCHANGED <<streak, calm>>
  /\ UNCHANGED <<load, memVars, at, poolVars, scanVars, stop>>

StablePolls == 3

\* wait_for_recovery, with the gate held inside run_subprocess_monitored, and without it
\* where process_group has caught the error.
Recovering(j) == tool[j] = "recovers" \/ pc[j] = "recover"

\* Mutant: a bad poll does not begin the count again.
PollRecoveryTotal(j) ==
  /\ Recovering(j) /\ ~stop /\ streak[j] < StablePolls
  /\ streak' = [streak EXCEPT ![j] = IF Pressure(0) THEN @ ELSE @ + 1]
  /\ calm' = IF tool[j] # "recovers" THEN calm
             ELSE IF Pressure(0) THEN 0 ELSE Smaller(StablePolls, calm + 1)
  /\ UNCHANGED <<load, memVars, jobVars, use, gate, tool, poolVars, scanVars, stop>>

\* Mutant: the count goes one poll too far.
PollRecoveryMore(j) ==
  /\ Recovering(j) /\ ~stop /\ streak[j] <= StablePolls
  /\ streak' = [streak EXCEPT ![j] = IF Pressure(0) THEN 0 ELSE @ + 1]
  /\ calm' = IF tool[j] # "recovers" THEN calm
             ELSE IF Pressure(0) THEN 0 ELSE Smaller(StablePolls, calm + 1)
  /\ UNCHANGED <<load, memVars, jobVars, use, gate, tool, poolVars, scanVars, stop>>

PollRecovery(j) ==
  /\ Recovering(j) /\ ~stop /\ streak[j] < StablePolls
  /\ streak' = [streak EXCEPT ![j] = IF Pressure(0) THEN 0 ELSE @ + 1]
  /\ calm' = IF tool[j] # "recovers" THEN calm
             ELSE IF Pressure(0) THEN 0 ELSE Smaller(StablePolls, calm + 1)
  /\ UNCHANGED <<load, memVars, jobVars, use, gate, tool, poolVars, scanVars, stop>>

EndRecovery(j) ==
  /\ Recovering(j)
  /\ stop \/ streak[j] = StablePolls
  /\ streak' = [streak EXCEPT ![j] = 0]
  /\ IF tool[j] = "recovers"
     THEN /\ tool' = [tool EXCEPT ![j] = "no"]
          /\ gate' = Nobody
          /\ Goto(j, AfterTransient(j))
     ELSE /\ Goto(j, Leave(j))
          /\ UNCHANGED <<tool, gate>>
  /\ UNCHANGED <<load, memVars, at, use, calm, poolVars, scanVars, stop>>

------------------------------------------------------------------------------
\* process_groups: a thread submits the jobs, at most width at a time, and waits for the
\* headroom of each before it does.
Submitted == {j \in Jobs : pc[j] # "todo"}

PickJob ==
  /\ sub = "pick"
  /\ IF stop \/ next > Len(Sizes)
     THEN sub' = "collect" /\ UNCHANGED next
     ELSE sub' = "wait" /\ next' = next + 1
  /\ UNCHANGED <<load, memVars, jobVars, toolVars, width, pending, scanVars, stop>>

SubmitJob ==
  /\ sub = "wait"
  /\ LET j == next - 1
     IN  /\ JobPeak(j) = 0 \/ (~stop /\ ~Pressure(JobPeak(j)))
         /\ Goto(j, "queued")
         /\ pending' = pending \cup {j}
  /\ sub' = IF Cardinality(pending') < width THEN "pick" ELSE "collect"
  /\ UNCHANGED <<load, memVars, at, toolVars, width, next, scanVars, stop>>

SubmitStopped ==
  /\ sub = "wait" /\ stop /\ JobPeak(next - 1) > 0
  /\ sub' = "collect"
  /\ UNCHANGED <<load, memVars, jobVars, toolVars, width, next, pending, scanVars, stop>>

\* Mutant: a job that is collected is not followed by the next one.
CollectJobOnly(j) ==
  /\ sub = "collect" /\ j \in pending /\ pc[j] = "done"
  /\ pending' = pending \ {j}
  /\ sub' = "collect"
  /\ UNCHANGED <<load, memVars, pc, at, toolVars, width, next, scanVars, stop>>

\* One job that is done makes room for one more; after a stop those that no thread has
\* begun are cancelled.
CollectJob(j) ==
  /\ sub = "collect" /\ j \in pending /\ pc[j] = "done"
  /\ IF stop
     THEN /\ pending' = {}
          /\ pc' = [i \in Jobs |-> IF i \in pending /\ pc[i] = "queued"
                                   THEN "cancelled" ELSE pc[i]]
          /\ sub' = "join"
     ELSE /\ pending' = pending \ {j}
          /\ sub' = "pick"
          /\ UNCHANGED pc
  /\ UNCHANGED <<load, memVars, at, toolVars, width, next, scanVars, stop>>

CollectNone ==
  /\ sub = "collect" /\ pending = {}
  /\ sub' = "join"
  /\ UNCHANGED <<load, memVars, jobVars, toolVars, width, next, pending, scanVars, stop>>

\* The pool ends when its threads have ended.
JoinPool ==
  /\ sub = "join"
  /\ \A j \in Submitted : pc[j] \in Settled
  /\ sub' = "end"
  /\ UNCHANGED <<load, memVars, jobVars, toolVars, width, next, pending, scanVars, stop>>

\* A thread of the pool takes a job: a group asks for its budget; a single file without a
\* base elsewhere is only marked.
BeginJob(j) ==
  /\ pc[j] = "queued"
  /\ Goto(j, IF IsSingle(j) THEN "targetWait" ELSE "acquire")
  /\ UNCHANGED <<load, memVars, at, toolVars, poolVars, scanVars, stop>>

MarkSingle(j) ==
  /\ pc[j] = "queued" /\ IsSingle(j)
  /\ Goto(j, "done")
  /\ UNCHANGED <<load, memVars, at, toolVars, poolVars, scanVars, stop>>

------------------------------------------------------------------------------
\* The scan beside it: wait_for_headroom before each file, then prepare_for_heavy_work,
\* which waits for nothing but time.
ScanFile ==
  /\ scan = "submit" /\ scanLeft > 0
  /\ ~stop /\ ~OverLimit(TRUE)
  /\ scanLeft' = scanLeft - 1
  /\ scan' = IF scanLeft = 1 THEN "end" ELSE scan
  /\ UNCHANGED <<load, memVars, jobVars, toolVars, poolVars, stop>>

ScanStopped ==
  /\ scan = "submit" /\ stop
  /\ scan' = "end"
  /\ UNCHANGED <<load, memVars, jobVars, toolVars, poolVars, scanLeft, stop>>

\* The environment.
ChangeLoad ==
  /\ load' \in Loads
  /\ UNCHANGED <<memVars, jobVars, toolVars, poolVars, scanVars, stop>>

Stop ==
  /\ ~stop
  /\ stop' = TRUE
  /\ UNCHANGED <<load, memVars, jobVars, toolVars, poolVars, scanVars>>

------------------------------------------------------------------------------
Init ==
  /\ load \in Loads
  /\ use = 0 /\ reserved = 0 /\ granted = 0
  /\ budget = [j \in Jobs |-> 0]
  /\ pc = [j \in Jobs |-> "todo"]
  /\ at = [j \in Jobs |-> 1]
  /\ gate = Nobody
  /\ tool = [j \in Jobs |-> "no"]
  /\ streak = [j \in Jobs |-> 0]
  /\ calm = StablePolls
  /\ width = PoolWidth
  /\ sub = "pick" /\ next = 1 /\ pending = {}
  /\ scan = "submit" /\ scanLeft = ScanFiles
  /\ stop = FALSE

JobStep(j) ==
  \/ AcquireBudget(j) \/ AcquireStopped(j) \/ ReleaseBudget(j)
  \/ WaitForPeak(j) \/ WaitStopped(j) \/ NextFile(j)
  \/ StartTool(j) \/ FinishTool(j) \/ StopTool(j)
  \/ PollRecovery(j) \/ EndRecovery(j) \/ BeginJob(j) \/ MarkSingle(j)
PoolStep == PickJob \/ SubmitJob \/ SubmitStopped \/ (\E j \in Jobs : CollectJob(j))
              \/ CollectNone \/ JoinPool
ScanStep == ScanFile \/ ScanStopped

Next ==
  \/ \E j \in Jobs : JobStep(j) \/ ToolEnds(j) \/ ToolHangs(j)
  \/ PoolStep
  \/ ScanStep
  \/ ChangeLoad
  \/ Stop

\* Every thread goes on when it can; a tool that has not hung ends.
Fairness == /\ \A j \in Jobs : WF_vars(JobStep(j)) /\ WF_vars(ToolEnds(j))
            /\ WF_vars(PoolStep)
            /\ WF_vars(ScanStep)

Spec == Init /\ [][Next]_vars /\ Fairness

------------------------------------------------------------------------------
\* Every variable keeps its type: the counters stay natural numbers, a job works on one of
\* its files, and only a job holds the gate.
TypeOK ==
  /\ load \in Load
  /\ use \in Nat /\ reserved \in Nat /\ granted \in Nat /\ width \in Nat
  /\ budget \in [Jobs -> Nat]
  /\ pc \in [Jobs -> Places]
  /\ at \in [Jobs -> Nat] /\ \A j \in Jobs : at[j] \in 1..(Len(Sizes[j]) + 1)
  /\ gate \in Jobs \cup {Nobody}
  /\ tool \in [Jobs -> {"no", "runs", "hangs", "ended", "recovers"}]
  /\ streak \in [Jobs -> 0..StablePolls]
  /\ calm \in 0..StablePolls
  /\ sub \in {"pick", "wait", "collect", "join", "end"}
  /\ next \in 1..(Len(Sizes) + 1) /\ (sub = "wait" => next > 1)
  /\ pending \subseteq Jobs
  /\ scan \in {"submit", "end"} /\ scanLeft \in 0..ScanFiles
  /\ stop \in BOOLEAN

\* The places of a job between acquire_peak_budget and the end of its with block.
InBudget(j) == ~IsSingle(j) /\ pc[j] \notin {"todo", "queued", "acquire"} \cup Settled

\* What is reserved is exactly what the jobs inside their with block have been granted, one
\* unit for each unit: nothing leaks on an error, a stop or a cancelled job, and nothing is
\* given back twice, so a run that is over leaves nothing reserved.
HeldUnits == UNION {{j} \X (1..budget[j]) : j \in Jobs}
BudgetsAccounted == /\ reserved = Cardinality(HeldUnits)
                    /\ \A j \in Jobs : budget[j] > 0 => InBudget(j)

\* The budgets of all jobs together never exceed what was free above the configured minimum
\* when the last of them was granted: two jobs that ask at the same time do not both get
\* the memory that is there once.
BudgetsFit == reserved <= granted

\* One tool at most is running, ending, or being waited for after a
\* pressure, and its job is the one that holds the gate.
OneTool == \A j \in Jobs : tool[j] # "no" <=> gate = j

\* After a tool was stopped for memory no tool starts, for whichever job, before three polls
\* in a row have found the memory within its limits; a stop ends the wait.
RecoveredBeforeNext ==
  [][\A j \in Jobs : (tool[j] = "no" /\ tool'[j] = "runs") => calm = StablePolls \/ stop]_vars

AllSettled == sub = "end" /\ \A j \in Jobs : pc[j] \in Settled \cup {"todo"}

\* A stop ends the whole run, whatever the memory looks like and even while a tool hangs on
\* its pipe: every wait, the recovery, the tool and the queue for the gate give up.
StopReturns == stop ~> (AllSettled /\ scan = "end")

\* Enough memory: the widest pool can hold its budgets and one job can ask once more for
\* the largest of its peaks on top of them.
AsksFor(j) == {JobPeak(j)} \cup {XdeltaPeak(Sizes[j][1], Sizes[j][i]) : i \in DOMAIN Sizes[j]}
LargestAsk == LargestOf(UNION {AsksFor(j) : j \in Jobs})
Ample == /\ load.avail - use >= MinAvailable + width * LargestPeak + LargestAsk
         /\ ~TooMuchUsed /\ ~TooMuchSwap
         /\ RssLimit = 0 \/ Rss <= RssLimit

\* When from some time on there is enough memory for that, and no tool hangs, every job is
\* submitted, gets through its waits and is done, unless a stop comes first.
JobsFinish == (<>[](Ample /\ \A j \in Jobs : tool[j] # "hangs"))
                 => <>(stop \/ \A j \in Jobs : pc[j] = "done")

\* The scan is not held up by what the process tree itself uses, its own pool included:
\* once the machine as a whole is within its limits it hands out all its files, even while
\* the waits of the jobs go on.
ScanGoesOn == (<>[](~TooMuchUsed /\ Avail >= MinAvailable)) => <>(scan = "end")

\* The documentation of the class says it pauses work until memory is within limits: with
\* memory that stays within the limits, every granted budget counted once, a run ends.
WithinLimits == ~TooMuchUsed /\ ~TooMuchSwap /\ Free >= reserved
                  /\ (RssLimit = 0 \/ Rss + reserved <= RssLimit)
PausesOnlyOverLimits ==
  (<>[](WithinLimits /\ \A j \in Jobs : tool[j] # "hangs"))
     => <>(stop \/ \A j \in Jobs : pc[j] = "done")
=============================================================================
