------------------------------ MODULE MC_Web ------------------------------
\* Instances of the three modules about what clients are sent. They share no variable
\* and no property speaks of two of them, so that TLC explores one after the other
\* (focus) what would otherwise only be interleaved.
EXTENDS RestoreCache, UiCache, ArtifactPages

CONSTANT Foci
VARIABLE focus

\* A preprocessed file is larger than it was.
MCSize == [c \in Contents |-> IF c[2] = "prep" THEN 10 + c[1] ELSE c[1]]

\* Two artifacts of one build-id, and one of the next.
MCKey == [a \in Artifacts |-> a]
MCBuild == [a \in Artifacts |-> a \div 2]
MCType == [a \in Artifacts |-> a % 2]

webVars == <<focus, restoreVars, cacheVars, pagesVars>>

Init == RestoreInit /\ CacheInit /\ PagesInit /\ focus \in Foci

Restoring == focus = "restore" /\ RestoreNext /\ UNCHANGED <<focus, cacheVars, pagesVars>>
Caching == focus = "cache" /\ CacheNext /\ UNCHANGED <<focus, restoreVars, pagesVars>>
Listing == focus = "pages" /\ PagesNext /\ UNCHANGED <<focus, restoreVars, cacheVars>>

Next == Restoring \/ Caching \/ Listing

\* The fairness of UiCache, where it is in focus.
Fairness ==
  /\ WF_cacheVars(focus = "cache" /\ Tick)
  /\ \A t \in Threads : WF_cacheVars(focus = "cache" /\ ThreadStep(t))

Spec == Init /\ [][Next]_webVars /\ Fairness

WebTypeOK == focus \in Foci /\ RestoreTypeOK /\ CacheTypeOK /\ PagesTypeOK
===========================================================================
