------------------------------ MODULE MC_Index ------------------------------
\* An instance of IncrementalIndex for TLC: two programs that use one source, and a file
\* without a build-id.
EXTENDS IncrementalIndex

CONSTANTS a, work, s, prog, next, anon, i, j

IdsOf == [x \in Builds |-> IF x = prog THEN i ELSE IF x = next THEN j ELSE NoId]
OneSource == [x \in Builds |-> IF x = anon THEN {} ELSE {s}]
OneEach == [x \in Bounds |-> 1]
OnlyPack == [x \in Bounds |-> IF x = "pack" THEN 1 ELSE 0]
=============================================================================
