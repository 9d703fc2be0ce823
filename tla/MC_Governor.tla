---------------------------- MODULE MC_Governor ----------------------------
\* Instances of MemoryGovernor for TLC: 8 GiB of memory in blocks of 64 MiB.
EXTENDS MemoryGovernor

Usage(rss, swap, grown, avail) ==
  [rss |-> rss, swap |-> swap, swapGrowth |-> grown, avail |-> avail]

\* Two groups of a base and a target, and a single file.
MixedSizes == <<<<1, 1>>, <<1, 1>>, <<1>>>>
\* A quiet machine, and one whose memory is short.
MixedLoads == {Usage(10, 0, 0, 100), Usage(30, 1, 1, 46)}
OneGroup == <<<<1, 1>>>>
QuietLoad == {Usage(4, 0, 0, 46)}
=============================================================================
