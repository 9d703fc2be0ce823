--------------------------- MODULE MC_Web_proofs ---------------------------
(***************************************************************************)
(* The three modules about what clients are sent, taken together: whatever *)
(* is in focus, a step of MC_Web is a step of one of them and leaves the   *)
(* others alone, so that what is proved of each holds of the composition   *)
(* that TLC explores, for any values of the constants.                     *)
(***************************************************************************)
EXTENDS MC_Web, RestoreCache_proofs, WebUi_proofs

\* The web interface's caches without their fairness, which holds only in focus.
CacheSafety == CacheInit /\ [][CacheNext]_cacheVars

LEMMA CacheSafe == CacheSafety => []CacheInv
  BY InitCache, NextCache, PTL DEF CacheSafety

\* The composition implements the restore, the caches and the listings.
THEOREM PartsRunApart == Spec => RestoreSpec /\ CacheSafety /\ PagesSpec
<1>1. Init => RestoreInit /\ CacheInit /\ PagesInit
  BY DEF Init
<1>2. [Next]_webVars => [RestoreNext]_restoreVars /\ [CacheNext]_cacheVars /\ [PagesNext]_pagesVars
  <2> SUFFICES ASSUME [Next]_webVars
               PROVE  [RestoreNext]_restoreVars /\ [CacheNext]_cacheVars /\ [PagesNext]_pagesVars
    OBVIOUS
  <2>1. CASE Restoring
    BY <2>1 DEF Restoring
  <2>2. CASE Caching
    BY <2>2 DEF Caching
  <2>3. CASE Listing
    BY <2>3 DEF Listing
  <2>4. CASE UNCHANGED webVars
    BY <2>4 DEF webVars
  <2> QED BY <2>1, <2>2, <2>3, <2>4 DEF Next
<1> QED BY <1>1, <1>2, PTL DEF Spec, RestoreSpec, CacheSafety, PagesSpec

\* Every variable of the three modules keeps its type beside the two others, and the focus
\* stays where it is.
THEOREM WebTypeCorrect == Spec => []WebTypeOK
<1>1. Init => focus \in Foci
  BY DEF Init
<1>2. focus \in Foci /\ [Next]_webVars => (focus \in Foci)'
  BY DEF Next, Restoring, Caching, Listing, webVars
<1>3. CacheInv => CacheTypeOK
  BY DEF CacheInv
<1>4. focus \in Foci /\ RestoreTypeOK /\ CacheTypeOK /\ PagesTypeOK => WebTypeOK
  BY DEF WebTypeOK
<1> QED BY <1>1, <1>2, <1>3, <1>4, PartsRunApart, CacheSafe, RestoreTypeCorrect,
           PagesTypeCorrect, PTL DEF Spec

\* What is proved of the three parts holds of their composition.
THEOREM WebIsSafe ==
  Spec => /\ [](RestoredIsRecorded /\ QuietServedInTime /\ WrongLimitNeedsOverlap)
          /\ [](BuildidPagesAll /\ MissNeedsMove /\ TreeShowsAll /\ GroupsAreWhole)
          /\ HandedOutStays
<1>1. CacheInv => QuietServedInTime /\ WrongLimitNeedsOverlap
  BY DEF CacheInv, AnswerInv, QuietServedInTime, WrongLimitNeedsOverlap
<1> QED BY <1>1, PartsRunApart, CacheSafe, RecordedIsSent, HandedOutIsKept,
           BuildidPagesShowAll, MissesNeedMoves, TreeIsComplete, GroupsHaveAllRows, PTL
============================================================================
