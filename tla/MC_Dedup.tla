------------------------------ MODULE MC_Dedup ------------------------------
\* An instance of DedupPipeline for TLC: one group of files from two exact
\* projects that normalise to the same key, and a file of another group.
EXTENDS DedupPipeline

CONSTANTS a1, a2, a3, b1, ga, gb, runner, backfill

MCGroup == [f \in Files |-> IF f = b1 THEN gb ELSE ga]
MCProject == [f \in Files |-> IF f = a3 THEN 2 ELSE 1]
MCOrder == [f \in Files |-> CASE f = a1 -> 1 [] f = a2 -> 2 [] f = a3 -> 3 [] f = b1 -> 4]

Whole == [a \in Actors |-> Files]

\* Budgets: how often TLC lets each event of the environment happen.
Nothing == [b \in Bounds |-> 0]
Faults == [Nothing EXCEPT !["transient"] = 1, !["permanent"] = 1,
                             !["ingest"] = 1, !["stop"] = 1]
Restarts == [Nothing EXCEPT !["transient"] = 1, !["permanent"] = 1,
                               !["commit"] = 2, !["restart"] = 1]
OneRestart == [Nothing EXCEPT !["restart"] = 1]
SharedRows == [Nothing EXCEPT !["rollback"] = 1, !["permanent"] = 1]
============================================================================
