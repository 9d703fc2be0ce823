---------------------------- MODULE ScanControl ----------------------------
(***************************************************************************)
(* Who scans and who packs, and when: ScanRunner with its periodic loop,   *)
(* the triggers of the UI and the rescans of the administrator; the frame  *)
(* of Indexer.scan; DedupScanHook and DedupRunner, which start an ingest   *)
(* on a thread of its own; the progress that all of them write into one    *)
(* MetricsCollector; and the signal handler that stops them.               *)
(* What an ingest does to the files is in DedupPipeline: here it registers *)
(* the files it finds and settles their rows.                              *)
(***************************************************************************)
EXTENDS Integers, FiniteSets

CONSTANTS
  Files,      \* .debug files under build_* directories of the scan paths
  Anon,       \* those without a build-id
  Loop,       \* the thread of ScanRunner.start
  Others,     \* the other threads that scan: triggers and rescans
  MainThread, \* those of them that scan on the thread of the signal handler
  Nobody,     \* no thread
  Threads,    \* places for threads of DedupRunner
  Budget      \* how often each event of the environment may happen

\* The bounds cap triggers and rescans, and upsets: a file that cannot be read yet, an
\* exception, rows an ingest does not settle, a signal.
Bounds == {"trigger", "upset"}

ASSUME FilesAssumption == Anon \subseteq Files
ASSUME ThreadsAssumption == /\ Loop \notin Others
                            /\ Nobody \notin Others \cup {Loop}
                            /\ MainThread \subseteq Others
                            /\ IsFiniteSet(Threads)
                            /\ Budget \in [Bounds -> Nat]

Callers == Others \cup {Loop}

VARIABLES
  initial,    \* the files on disk when the process starts
  delivered,  \* the files on disk
  known,      \* the files whose row of scanned_files is current
  seen,       \* the files that some scan has looked at since the start
  status,     \* [Files -> status of the row in dedup_files]
  pc,         \* where each caller of run_once is
  scan,       \* [Callers -> its scan]
  scanning,   \* ScanRunner._scanning
  ready,      \* ScanRunner._ready
  executor,   \* the scan whose pool Indexer._executor holds, or Nobody
  execLock,   \* the owner of Indexer._executor_lock
  shut,       \* the scans whose pool request_stop has shut down
  inProgress, \* DedupRunner._in_progress
  thread,     \* [Threads -> a thread of DedupRunner]
  phase,      \* ScanProgress.phase, "idle" when it is not running
  stop,       \* the stop event
  handler,    \* the signal handler
  budget      \* what is left of Budget

fileVars == <<initial, delivered, known, seen, status>>
runnerVars == <<scanning, ready>>
poolVars == <<executor, execLock, shut>>
dedupVars == <<inProgress, thread>>
stopVars == <<stop, handler>>
vars == <<fileVars, pc, scan, runnerVars, poolVars, dedupVars, phase, stopVars, budget>>

------------------------------------------------------------------------------
\* "todo" is what the walk has not looked at yet.
NoScan == [todo |-> {}, indexed |-> FALSE, cancelled |-> FALSE]
Scan == [todo : SUBSET Files, indexed : BOOLEAN, cancelled : BOOLEAN]

\* "indexed" is scan_indexed > 0, "reports" that the thread was given the metrics.
NoThread == [step |-> "none", indexed |-> FALSE, reports |-> FALSE]
Thread == [step : {"none", "count", "work", "finish", "report"},
           indexed : BOOLEAN, reports : BOOLEAN]

\* Where a caller of run_once can be; the thread of the loop is "dead" after an exception.
Places == {"idle", "enter", "begin", "open", "install", "walk", "close", "uninstall", "hook",
           "free", "publish", "cancel", "phase", "schedule", "closeRaised",
           "uninstallRaised", "raised", "freeRaised", "dead", "ended"}

Spend(b) == budget[b] > 0 /\ budget' = [budget EXCEPT ![b] = @ - 1]

\* While its signal handler runs, the main thread does nothing else.
Runs(c) == c \in MainThread => handler # "locking"

Step(c, from, to) == /\ Runs(c)
                     /\ pc[c] = from
                     /\ pc' = [pc EXCEPT ![c] = to]

Init ==
  /\ initial \in SUBSET Files /\ delivered = initial
  /\ known = {} /\ seen = {}
  /\ status = [f \in Files |-> "absent"]
  /\ pc = [c \in Callers |-> "idle"]
  /\ scan = [c \in Callers |-> NoScan]
  /\ scanning = FALSE /\ ready = FALSE
  /\ executor = Nobody /\ execLock = Nobody /\ shut = {}
  /\ inProgress = FALSE
  /\ thread = [t \in Threads |-> NoThread]
  /\ phase = "idle"
  /\ stop = FALSE /\ handler = "none"
  /\ budget = Budget

------------------------------------------------------------------------------
\* Starting a scan: _loop, trigger, run_once

BeforeVars == <<fileVars, runnerVars, poolVars, dedupVars, phase, stopVars>>

\* The loop sleeps for the interval between two scans.
Wake ==
  /\ ~stop
  /\ Step(Loop, "idle", "enter")
  /\ UNCHANGED <<BeforeVars, scan, budget>>

LoopEnds ==
  /\ stop
  /\ Step(Loop, "idle", "ended")
  /\ UNCHANGED <<BeforeVars, scan, budget>>

\* A trigger looks at the flag before it starts its thread; a rescan calls run_once.
Trigger(c) ==
  /\ c \in Others
  /\ ~stop
  /\ ~scanning \/ c \in MainThread
  /\ Step(c, "idle", "enter")
  /\ Spend("trigger")
  /\ UNCHANGED <<BeforeVars, scan>>

MayEnter == ~stop /\ ~scanning

TurnedAway(c) ==
  /\ ~MayEnter
  /\ Step(c, "enter", "idle")
  /\ UNCHANGED <<BeforeVars, scan, budget>>

\* Mutant: the flag that trigger has tested is not tested again.
EnterUnchecked(c) ==
  /\ ~stop
  /\ Step(c, "enter", "begin")
  /\ scanning' = TRUE
  /\ UNCHANGED <<fileVars, scan, ready, poolVars, dedupVars, phase, stopVars, budget>>

EnterScan(c) ==
  /\ MayEnter
  /\ Step(c, "enter", "begin")
  /\ scanning' = TRUE
  /\ UNCHANGED <<fileVars, scan, ready, poolVars, dedupVars, phase, stopVars, budget>>

BeginScan(c) ==
  /\ Step(c, "begin", "open")
  /\ phase' = "indexing"
  /\ UNCHANGED <<fileVars, scan, runnerVars, poolVars, dedupVars, stopVars, budget>>

------------------------------------------------------------------------------
\* The scan itself: Indexer.scan

ScanVars == <<runnerVars, dedupVars, phase, stopVars>>

\* The executor is read and written under its lock. That a thread other than the main one
\* holds it makes the handler wait for a moment; the main thread holds it under the handler.
LockExecutor(c, from, to) ==
  /\ c \in MainThread /\ execLock = Nobody
  /\ Step(c, from, to)
  /\ execLock' = c
  /\ UNCHANGED <<fileVars, scan, ScanVars, executor, shut, budget>>

Unlocked(c, from, locked) == IF c \in MainThread THEN locked ELSE from

\* The stop event is already set when the scan begins.
ScanNothing(c) ==
  /\ stop
  /\ Step(c, "open", "free")
  /\ scan' = [scan EXCEPT ![c].cancelled = TRUE]
  /\ UNCHANGED <<fileVars, ScanVars, poolVars, budget>>

InstallPool(c) ==
  /\ Step(c, Unlocked(c, "open", "install"), "walk")
  /\ executor' = c
  /\ execLock' = Nobody
  /\ scan' = [scan EXCEPT ![c].todo = delivered]
  /\ UNCHANGED <<fileVars, ScanVars, shut, budget>>

Walking(c, f) == /\ Runs(c) /\ pc[c] = "walk" /\ f \in scan[c].todo
                 /\ seen' = seen \cup {f}

\* The result of a worker is applied: a file with a build-id counts as indexed; one
\* without is marked as scanned and counts as skipped, as one that has not changed.
Visit(c, f) ==
  /\ Walking(c, f)
  /\ \/ /\ known' = known \cup {f}
        /\ scan' = [scan EXCEPT ![c].todo = @ \ {f},
                                ![c].indexed = @ \/ f \notin known \cup Anon]
        /\ budget' = budget
     \/ /\ f \notin known
        /\ Spend("upset")
        /\ scan' = [scan EXCEPT ![c].todo = @ \ {f}]
        /\ known' = known
  /\ UNCHANGED <<initial, delivered, status, pc, ScanVars, poolVars>>

\* The walk ends when everything is looked at, or with the stop event.
EndWalk(c) ==
  /\ scan[c].todo = {} \/ stop
  /\ Step(c, "walk", "close")
  /\ scan' = [scan EXCEPT ![c].todo = {}, ![c].cancelled = stop]
  /\ UNCHANGED <<fileVars, ScanVars, poolVars, budget>>

\* The database fails, or the pool has been shut down under the walk.
Raise(c) ==
  /\ scan[c].todo # {}
  /\ Step(c, "walk", "closeRaised")
  /\ scan' = [scan EXCEPT ![c].todo = {}]
  /\ \/ c \in shut /\ budget' = budget
     \/ Spend("upset")
  /\ UNCHANGED <<fileVars, ScanVars, poolVars>>

\* After the shutdown of the pool the executor is given up.
ClosePool(c) ==
  /\ \/ Step(c, Unlocked(c, "close", "uninstall"),
             IF scan[c].cancelled THEN "free" ELSE "hook")
     \/ Step(c, Unlocked(c, "closeRaised", "uninstallRaised"), "raised")
  /\ executor' = IF executor = c THEN Nobody ELSE executor
  /\ execLock' = Nobody
  /\ shut' = shut \ {c}
  /\ UNCHANGED <<fileVars, scan, ScanVars, budget>>

------------------------------------------------------------------------------
\* Starting an ingest: DedupRunner.schedule_after_scan

\* Mutant: a second thread beside the one that runs.
StartBeside(c, reports) ==
  /\ \E t \in Threads :
       /\ thread[t].step = "none"
       /\ thread' = [thread EXCEPT ![t] = [step |-> "count", indexed |-> scan[c].indexed,
                                           reports |-> reports]]
  /\ inProgress' = TRUE
  /\ phase' = phase

\* A thread starts with the count of this scan, unless one runs: then the count
\* is lost, and a caller with metrics ends the progress.
Schedule(c, reports) ==
  \/ /\ ~inProgress
     /\ inProgress' = TRUE
     /\ \E t \in Threads :
          /\ thread[t].step = "none"
          /\ thread' = [thread EXCEPT ![t] = [step |-> "count", indexed |-> scan[c].indexed,
                                              reports |-> reports]]
     /\ phase' = phase
  \/ /\ inProgress
     /\ phase' = IF reports THEN "idle" ELSE phase
     /\ UNCHANGED dedupVars

\* The indexer's hook passes no metrics.
Hook(c) ==
  /\ Step(c, "hook", "free")
  /\ IF stop THEN UNCHANGED <<dedupVars, phase>> ELSE Schedule(c, FALSE)
  /\ UNCHANGED <<fileVars, scan, runnerVars, poolVars, stopVars, budget>>

------------------------------------------------------------------------------
\* Ending a scan: run_once

AfterVars == <<fileVars, poolVars, stopVars, budget>>

FreeScan(c) ==
  /\ Step(c, "free", "publish")
  /\ scanning' = FALSE
  /\ UNCHANGED <<AfterVars, scan, ready, dedupVars, phase>>

\* Mutant: a scan that was cancelled makes the server ready too.
PublishAny(c) ==
  /\ Step(c, "publish", IF scan[c].cancelled THEN "cancel" ELSE "phase")
  /\ ready' = TRUE
  /\ UNCHANGED <<AfterVars, scan, scanning, dedupVars, phase>>

Publish(c) ==
  /\ Step(c, "publish", IF scan[c].cancelled THEN "cancel" ELSE "phase")
  /\ ready' = (ready \/ ~scan[c].cancelled)
  /\ UNCHANGED <<AfterVars, scan, scanning, dedupVars, phase>>

Rest(c, s) == Step(c, s, "idle") /\ scan' = [scan EXCEPT ![c] = NoScan]

\* Mutant: a cancelled scan leaves the progress running.
LeaveCancelled(c) ==
  /\ Rest(c, "cancel")
  /\ UNCHANGED <<AfterVars, runnerVars, dedupVars, phase>>

EndCancelled(c) ==
  /\ Rest(c, "cancel")
  /\ phase' = "idle"
  /\ UNCHANGED <<AfterVars, runnerVars, dedupVars>>

SetPhase(c) ==
  /\ Step(c, "phase", "schedule")
  /\ phase' = IF phase = "idle" THEN "idle" ELSE "dedup"
  /\ UNCHANGED <<AfterVars, scan, runnerVars, dedupVars>>

ScheduleAgain(c) ==
  /\ Rest(c, "schedule")
  /\ Schedule(c, TRUE)
  /\ UNCHANGED <<AfterVars, runnerVars>>

\* Mutant: the progress ends in a phase that the dashboard has no name for.
EndRaisedOddly(c) ==
  /\ Step(c, "raised", "freeRaised")
  /\ phase' = "failed"
  /\ UNCHANGED <<AfterVars, scan, runnerVars, dedupVars>>

\* An exception passes through run_once.
EndRaised(c) ==
  /\ Step(c, "raised", "freeRaised")
  /\ phase' = "idle"
  /\ UNCHANGED <<AfterVars, scan, runnerVars, dedupVars>>

\* Mutant: the flag is only cleared after a scan that returns.
KeepScanning(c) ==
  /\ Step(c, "freeRaised", IF c = Loop THEN "dead" ELSE "idle")
  /\ scan' = [scan EXCEPT ![c] = NoScan]
  /\ UNCHANGED <<AfterVars, runnerVars, dedupVars, phase>>

\* Nothing catches it in the loop: its thread ends.
FreeRaised(c) ==
  /\ Step(c, "freeRaised", IF c = Loop THEN "dead" ELSE "idle")
  /\ scan' = [scan EXCEPT ![c] = NoScan]
  /\ scanning' = FALSE
  /\ UNCHANGED <<AfterVars, ready, dedupVars, phase>>

------------------------------------------------------------------------------
\* A thread of DedupRunner: _run, run_ingest_all

IngestVars == <<initial, delivered, known, seen, pc, scan, runnerVars, poolVars, stopVars>>

Advance(t, from, to) == /\ thread[t].step = from
                        /\ thread' = [thread EXCEPT ![t].step = to]

\* Nothing to do, says a scan that indexed nothing, unless a row waits.
SkipIngest(t) ==
  /\ ~thread[t].indexed
  /\ \A f \in Files : status[f] # "pending"
  /\ Advance(t, "count", "finish")
  /\ UNCHANGED <<IngestVars, status, inProgress, phase, budget>>

Discover(t) ==
  /\ thread[t].indexed \/ \E f \in Files : status[f] = "pending"
  /\ Advance(t, "count", "work")
  /\ status' = [f \in Files |-> IF f \in delivered /\ status[f] = "absent"
                                  THEN "pending" ELSE status[f]]
  /\ UNCHANGED <<IngestVars, inProgress, phase, budget>>

Settled(S) == [f \in Files |-> IF f \in S /\ status[f] = "pending" THEN "done" ELSE status[f]]

\* "pending" stands for every status but done, as the next ingest counts them: a stop, a
\* lack of memory or an error leaves some.
Work(t) ==
  /\ Advance(t, "work", "finish")
  /\ \/ status' = Settled(Files) /\ budget' = budget
     \/ status' = status /\ stop /\ budget' = budget
     \/ Spend("upset") /\ \E S \in SUBSET Files : status' = Settled(S)
  /\ UNCHANGED <<IngestVars, inProgress, phase>>

FailIngest(t) ==
  /\ Advance(t, "count", "finish")
  /\ Spend("upset")
  /\ UNCHANGED <<IngestVars, status, inProgress, phase>>

Finish(t) ==
  /\ Advance(t, "finish", "report")
  /\ inProgress' = FALSE
  /\ UNCHANGED <<IngestVars, status, phase, budget>>

Report(t) ==
  /\ thread[t].step = "report"
  /\ thread' = [thread EXCEPT ![t] = NoThread]
  /\ phase' = IF thread[t].reports THEN "idle" ELSE phase
  /\ UNCHANGED <<IngestVars, status, inProgress, budget>>

------------------------------------------------------------------------------
\* The environment

\* os.walk lists lazily: a scan under way may or may not come across the file.
Deliver(f) ==
  /\ f \notin delivered
  /\ delivered' = delivered \cup {f}
  /\ \E S \in SUBSET {c \in Callers : pc[c] = "walk"} :
       scan' = [c \in Callers |-> IF c \in S THEN [scan[c] EXCEPT !.todo = @ \cup {f}]
                                             ELSE scan[c]]
  /\ UNCHANGED <<initial, known, seen, status, pc, runnerVars, poolVars, dedupVars, phase,
                 stopVars, budget>>

\* SIGINT or SIGTERM: request_stop of the runner and of the indexer sets the event...
Signal ==
  /\ handler = "none"
  /\ Spend("upset")
  /\ stop' = TRUE
  /\ handler' = "locking"
  /\ UNCHANGED <<fileVars, pc, scan, runnerVars, poolVars, dedupVars, phase>>

\* ... and then takes the lock of the executor to shut its pool down.
HandlerEnds ==
  /\ handler = "locking"
  /\ execLock = Nobody
  /\ handler' = "done"
  /\ shut' = {executor} \ {Nobody}
  /\ UNCHANGED <<fileVars, pc, scan, runnerVars, executor, execLock, dedupVars, phase, stop,
                 budget>>

------------------------------------------------------------------------------
CallerNext(c) ==
  \/ TurnedAway(c) \/ EnterScan(c) \/ BeginScan(c)
  \/ ScanNothing(c) \/ LockExecutor(c, "open", "install") \/ InstallPool(c)
  \/ (\E f \in Files : Visit(c, f)) \/ EndWalk(c)
  \/ LockExecutor(c, "close", "uninstall")
  \/ LockExecutor(c, "closeRaised", "uninstallRaised") \/ ClosePool(c)
  \/ Hook(c) \/ FreeScan(c) \/ Publish(c) \/ EndCancelled(c) \/ SetPhase(c)
  \/ ScheduleAgain(c) \/ EndRaised(c) \/ FreeRaised(c)

ThreadNext(t) ==
  SkipIngest(t) \/ Discover(t) \/ Work(t) \/ Finish(t) \/ Report(t)

Next ==
  \/ Wake \/ LoopEnds \/ Signal \/ HandlerEnds
  \/ \E c \in Callers : CallerNext(c) \/ Trigger(c) \/ Raise(c)
  \/ \E t \in Threads : ThreadNext(t) \/ FailIngest(t)
  \/ \E f \in Files : Deliver(f)

Spec == Init /\ [][Next]_vars

\* Every thread is scheduled again and again and the timer of the loop fires.
\* Nothing makes a file arrive, a step fail, a user ask for a scan or a signal come.
Fairness == /\ WF_vars(Wake \/ LoopEnds)
            /\ WF_vars(HandlerEnds)
            /\ \A c \in Callers : WF_vars(CallerNext(c))
            /\ \A t \in Threads : WF_vars(ThreadNext(t))

FairSpec == Spec /\ Fairness

------------------------------------------------------------------------------
\* The type of every variable of the scan control.
TypeOK ==
  /\ initial \subseteq delivered /\ delivered \subseteq Files
  /\ known \subseteq Files /\ seen \subseteq Files
  /\ status \in [Files -> {"absent", "pending", "done"}]
  /\ pc \in [Callers -> Places]
  /\ scan \in [Callers -> Scan]
  /\ scanning \in BOOLEAN /\ ready \in BOOLEAN
  /\ executor \in Callers \cup {Nobody} /\ execLock \in Callers \cup {Nobody}
  /\ shut \subseteq Callers
  /\ inProgress \in BOOLEAN /\ thread \in [Threads -> Thread]
  /\ phase \in {"idle", "indexing", "dedup"}
  /\ stop \in BOOLEAN /\ handler \in {"none", "locking", "done"}
  /\ budget \in [Bounds -> Nat]

InScan(c) == pc[c] \in {"begin", "open", "install", "walk", "close", "uninstall", "hook",
                        "free", "closeRaised", "uninstallRaised", "raised", "freeRaised"}
Ingesting(t) == thread[t].step \in {"count", "work", "finish"}

\* At most one scan walks the tree, holds the executor and writes the index, however the
\* loop, triggers and rescans fall together: run_once tests and sets _scanning at once.
OneScan == \A c, d \in Callers : InScan(c) /\ InScan(d) => c = d

\* At most one thread of DedupRunner runs an ingest, though every scan asks for two.
OneIngest == \A t, u \in Threads : Ingesting(t) /\ Ingesting(u) => t = u

\* ScanRunner takes its scans one at a time: a scan finds the slot free, and _scanning, which
\* turns the others away, is set exactly as long as it walks, however it ends. A flag that
\* stayed behind an exception or a signal would turn away every scan there is.
ScanSlot == INSTANCE RunSlot WITH Users <- Callers, inside <- {c \in Callers : InScan(c)},
                                  busy <- scanning
ScansTakeTurns == ScanSlot!Spec

\* DedupRunner does the same for its ingests: _in_progress is set exactly as long as one of
\* its threads runs an ingest, and no thread takes over from another.
IngestSlot == INSTANCE RunSlot WITH Users <- Threads, inside <- {t \in Threads : Ingesting(t)},
                                    busy <- inProgress
IngestsTakeTurns == IngestSlot!Spec

\* ScanRunner.ready, one of the two things /readyz asks, is only set once every file that was
\* on disk at the start has been looked at: a scan cut short by a signal does not set it.
ReadyMeansScanned == ready => initial \subseteq seen

\* The progress of a scan ends: with no scan and no ingest the dashboard shows none,
\* whichever of run_once, schedule_after_scan and _run ended it.
QuietIsIdle ==
  (/\ \A c \in Callers : pc[c] \in {"idle", "enter", "ended", "dead"}
   /\ \A t \in Threads : thread[t].step = "none") => phase = "idle"

Closing == stop \/ pc[Loop] = "dead"

\* A file that is on disk is indexed by some scan, whatever is turned away, fails to be
\* read or raises elsewhere, as long as the loop lives and nobody stops the process.
FilesAreIndexed == \A f \in Files : f \in delivered ~> f \in known \/ Closing
============================================================================
