------------------------------ MODULE MC_Scan ------------------------------
\* An instance of ScanControl for TLC: one file that is there from the start, one that
\* comes later, the loop and one other caller.
EXTENDS ScanControl

CONSTANTS old, new, other, t1, t2

Upset == [b \in Bounds |-> 1]
============================================================================
