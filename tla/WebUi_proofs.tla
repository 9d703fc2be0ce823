---------------------------- MODULE WebUi_proofs ----------------------------
(***************************************************************************)
(* What holds of the caches and the listings of the web interface for any  *)
(* number of threads, any tables, pages and limits, and any time to live.  *)
(* Caches: an answer that no overlap of two threads disturbed is as fresh  *)
(* and as long as it was asked to be. Listings: what a row that is still   *)
(* to come has before it, that the two queries of the browse tree miss     *)
(* nothing, and that a group is shown with all its rows.                   *)
(***************************************************************************)
EXTENDS UiCache, ArtifactPages, TLAPS, FiniteSetTheorems

------------------------------------------------------------------------------
\* The caches

\* What a request asks for fits the cache, and only the cache of scans has a limit.
WantInv ==
  \A t \in Threads :
    IF keyed THEN req[t].step # "idle" => req[t].want \in Limits
             ELSE req[t].want = NoLimit /\ req[t].step # "writeLimit"

\* What a thread has built is for its own limit, and no older than its request.
BuildInv ==
  \A t \in Threads :
    req[t].step \in {"writePayload", "writeExpires", "writeLimit"} =>
      /\ req[t].seen \in Payload
      /\ req[t].seen.limit = req[t].want
      /\ req[t].seen.age <= req[t].elapsed

\* A payload and what is left of it belong together; past the floor nothing is a hit.
Fresh(p, l) == p.age + l <= TTL \/ l = 0 - MaxRequest

\* The fields of the cache belong together.
Coherent == /\ payload \in Payload
            /\ payload.limit = IF keyed THEN limit ELSE NoLimit
            /\ Fresh(payload, left)

NobodyFills == \A t \in Threads : ~Filling(t)

\* A thread that fills the cache alone has put its own payload there.
FillInv ==
  ~mixed => \A t \in Threads : Filling(t) =>
    /\ Alone(t)
    /\ payload \in Payload /\ payload.limit = req[t].want
    /\ req[t].step = "writeExpires" => payload.age <= req[t].elapsed
    /\ req[t].step = "writeLimit" => Fresh(payload, left)

CoherentInv == ~mixed /\ NobodyFills /\ payload # None => Coherent

\* A quiet reader has what is in the cache, and the cache is as one thread left it.
Reading(t) == req[t].step \in {"limit", "test"}
ReadInv ==
  \A t \in Threads : Reading(t) /\ req[t].quiet =>
    /\ req[t].seen = payload /\ ~mixed /\ NobodyFills /\ Coherent
    /\ req[t].step = "test" /\ keyed => limit = req[t].want

AnswerInv ==
  \A t \in Threads : Asked(t, "answered") /\ req[t].quiet =>
    req[t].seen.limit = req[t].want /\ req[t].seen.age <= Bound

CacheInv == CacheTypeOK /\ WantInv /\ BuildInv /\ FillInv /\ CoherentInv /\ ReadInv /\ AnswerInv

------------------------------------------------------------------------------
\* What the actions do to the requests

\* Time makes a payload at most one older, and leaves the rest of it.
LEMMA OlderFacts ==
  ASSUME NEW p \in Payload \cup {None}
  PROVE  /\ Older(p) \in Payload \cup {None}
         /\ p = None => Older(p) = None
         /\ p \in Payload => /\ Older(p) \in Payload /\ Older(p).limit = p.limit
                             /\ Older(p).age \in {p.age, p.age + 1}
  BY CacheAssumption DEF Older, Payload, OldAge, Bound

LEMMA TickEffect ==
  ASSUME CacheTypeOK, Tick
  PROVE  /\ req' \in [Threads -> Request]
         /\ \A u \in Threads :
              /\ req'[u].step = req[u].step /\ req'[u].want = req[u].want
              /\ req'[u].quiet = req[u].quiet
              /\ Busy(u) => /\ req'[u].elapsed = req[u].elapsed + 1
                            /\ req'[u].seen = Older(req[u].seen)
              /\ ~Busy(u) => req'[u] = req[u]
<1>1. ASSUME NEW u \in Threads, Busy(u)
      PROVE  /\ [req[u] EXCEPT !.elapsed = @ + 1, !.seen = Older(@)] \in Request
             /\ req'[u] = [req[u] EXCEPT !.elapsed = @ + 1, !.seen = Older(@)]
  <2>1. req[u] \in Request /\ req[u].elapsed \in 0..MaxRequest /\ req[u].elapsed < MaxRequest
    BY <1>1 DEF CacheTypeOK, Tick, Request
  <2>2. Older(req[u].seen) \in Payload \cup {None}
    BY <2>1, OlderFacts DEF Request
  <2>3. req[u].elapsed + 1 \in 0..MaxRequest
    BY <2>1, CacheAssumption
  <2>4. [req[u] EXCEPT !.elapsed = req[u].elapsed + 1, !.seen = Older(req[u].seen)] \in Request
    BY <2>1, <2>2, <2>3 DEF Request
  <2>5. req'[u] = [req[u] EXCEPT !.elapsed = @ + 1, !.seen = Older(@)]
    BY <1>1 DEF Tick
  <2> QED BY <2>4, <2>5
<1>2. \A u \in Threads : req[u] \in Request
  BY DEF CacheTypeOK
<1>3. \A u \in Threads : ~Busy(u) => req'[u] = req[u]
  BY DEF Tick
<1>4. req' \in [Threads -> Request]
  BY <1>1, <1>2 DEF Tick
<1>5. ASSUME NEW u \in Threads, Busy(u)
      PROVE  /\ req'[u].step = req[u].step /\ req'[u].want = req[u].want
             /\ req'[u].quiet = req[u].quiet /\ req'[u].elapsed = req[u].elapsed + 1
             /\ req'[u].seen = Older(req[u].seen)
  BY <1>1, <1>2, <1>5 DEF Request
<1> QED BY <1>3, <1>4, <1>5

LEMMA WriteEffect ==
  ASSUME CacheTypeOK, NEW t \in Threads, NEW next \in Steps, req' = AfterWrite(t, next)
  PROVE  /\ req' \in [Threads -> Request]
         /\ req'[t].step = next /\ req'[t].want = req[t].want /\ req'[t].seen = req[t].seen
         /\ req'[t].quiet = req[t].quiet
         /\ next # "answered" => req'[t].elapsed = req[t].elapsed
         /\ \A u \in Threads \ {t} :
              /\ req'[u].step = req[u].step /\ req'[u].want = req[u].want
              /\ req'[u].seen = req[u].seen /\ req'[u].elapsed = req[u].elapsed
              /\ Reading(u) => req'[u].quiet = FALSE
              /\ ~Reading(u) => req'[u].quiet = req[u].quiet
<1>1. \A u \in Threads : req[u] \in Request
  BY DEF CacheTypeOK
<1>2. /\ req'[t] \in Request
      /\ req'[t].step = next /\ req'[t].want = req[t].want /\ req'[t].seen = req[t].seen
      /\ req'[t].quiet = req[t].quiet
      /\ next # "answered" => req'[t].elapsed = req[t].elapsed
  <2> DEFINE e == IF next = "answered" THEN 0 ELSE req[t].elapsed
  <2>1. req[t] \in Request /\ e \in 0..MaxRequest
    BY <1>1, CacheAssumption DEF Request
  <2>2. req'[t] = [req[t] EXCEPT !.step = next, !.elapsed = e]
    BY DEF AfterWrite
  <2> HIDE DEF e
  <2>3. /\ req'[t] \in Request
        /\ req'[t].step = next /\ req'[t].want = req[t].want /\ req'[t].seen = req[t].seen
        /\ req'[t].quiet = req[t].quiet /\ req'[t].elapsed = e
    BY <2>1, <2>2 DEF Request
  <2> QED BY <2>3 DEF e
<1>3. ASSUME NEW u \in Threads \ {t}
      PROVE  /\ req'[u] \in Request
             /\ req'[u].step = req[u].step /\ req'[u].want = req[u].want
             /\ req'[u].seen = req[u].seen /\ req'[u].elapsed = req[u].elapsed
             /\ Reading(u) => req'[u].quiet = FALSE
             /\ ~Reading(u) => req'[u].quiet = req[u].quiet
  <2>1. req'[u] = [req[u] EXCEPT !.quiet = @ /\ ~Reading(u)]
    BY DEF AfterWrite, Reading
  <2>2. req[u] \in Request /\ req[u].quiet \in BOOLEAN
    BY <1>1 DEF Request
  <2>3. CASE Reading(u)
    <3>1. req'[u] = [req[u] EXCEPT !.quiet = FALSE]
      BY <2>1, <2>2, <2>3
    <3> QED BY <2>2, <2>3, <3>1 DEF Request
  <2>4. CASE ~Reading(u)
    <3>1. req'[u] = [req[u] EXCEPT !.quiet = req[u].quiet]
      BY <2>1, <2>2, <2>4
    <3> QED BY <2>2, <2>4, <3>1 DEF Request
  <2> QED BY <2>3, <2>4
<1>4. req' \in [Threads -> Request]
  <2>1. \A u \in Threads : req'[u] \in Request
    BY <1>2, <1>3
  <2>2. \E r : req' = [u \in Threads |-> r[u]]
    <3>1. req' = [u \in Threads |-> req'[u]]
      BY DEF AfterWrite
    <3> QED BY <3>1
  <2> QED BY <2>1, <2>2
<1> QED BY <1>2, <1>3, <1>4

------------------------------------------------------------------------------
\* The invariant

LEMMA InitCache == CacheInit => CacheInv
<1> SUFFICES ASSUME CacheInit PROVE CacheInv
  OBVIOUS
<1>1. \A t \in Threads : /\ req[t].step = "idle" /\ req[t].want = NoLimit
                         /\ req[t].elapsed = 0 /\ req[t].seen = None /\ req[t].quiet = TRUE
  BY DEF CacheInit
<1>2. CacheTypeOK
  <2>1. 0 \in 0..MaxRequest /\ 0 \in (0 - MaxRequest)..TTL
    BY CacheAssumption
  <2>2. [step |-> "idle", want |-> NoLimit, elapsed |-> 0, seen |-> None, quiet |-> TRUE] \in Request
    BY <2>1 DEF Request, Steps
  <2> QED BY <2>1, <2>2 DEF CacheInit, CacheTypeOK
<1>3. payload = None /\ \A t \in Threads : ~Filling(t) /\ ~Reading(t) /\ ~Asked(t, "answered")
  BY <1>1 DEF CacheInit, Filling, Reading, Asked
<1>4. WantInv /\ BuildInv
  BY <1>1 DEF WantInv, BuildInv
<1> QED BY <1>2, <1>3, <1>4 DEF CacheInv, FillInv, CoherentInv, ReadInv, AnswerInv

\* A step of a thread that does not write to the cache: what its request is afterwards
\* decides.
LEMMA ReaderKeeps ==
  ASSUME CacheInv, NEW t \in Threads, NEW r \in Request, req' = [req EXCEPT ![t] = r],
         UNCHANGED <<keyed, data, payload, left, limit, mixed>>,
         ~Filling(t), r.step \notin {"writeExpires", "writeLimit"},
         IF keyed THEN r.want \in Limits ELSE r.want = NoLimit,
         r.step = "writePayload" =>
           r.seen \in Payload /\ r.seen.limit = r.want /\ r.seen.age <= r.elapsed,
         r.step \in {"limit", "test"} /\ r.quiet =>
           /\ r.seen = payload /\ ~mixed /\ NobodyFills /\ Coherent
           /\ r.step = "test" /\ keyed => limit = r.want,
         r.step = "answered" /\ r.quiet => r.seen.limit = r.want /\ r.seen.age <= Bound
  PROVE  CacheInv'
<1> USE DEF CacheInv
<1>1. CacheTypeOK'
  BY DEF CacheTypeOK
<1>2. req'[t] = r /\ \A u \in Threads \ {t} : req'[u] = req[u]
  BY DEF CacheTypeOK
<1>3. \A u \in Threads : Filling(u)' <=> Filling(u)
  BY <1>2 DEF Filling
<1>4. WantInv'
  BY <1>2 DEF WantInv
<1>5. BuildInv'
  BY <1>2 DEF BuildInv
<1>6. FillInv'
  <2>1. \A u \in Threads : Filling(u) => u # t
    OBVIOUS
  <2>2. \A u \in Threads : Alone(u) => Alone(u)'
    BY <1>3 DEF Alone
  <2> QED BY <1>2, <1>3, <2>1, <2>2 DEF FillInv, Fresh
<1>7. (NobodyFills' <=> NobodyFills) /\ (Coherent' <=> Coherent)
  BY <1>3 DEF NobodyFills, Coherent, Fresh
<1>8. CoherentInv'
  BY <1>7 DEF CoherentInv
<1>9. ReadInv'
  BY <1>2, <1>7 DEF ReadInv, Reading
<1>10. AnswerInv'
  BY <1>2 DEF AnswerInv, Asked
<1> QED BY <1>1, <1>4, <1>5, <1>6, <1>8, <1>9, <1>10

LEMMA MissKeeps ==
  ASSUME CacheInv, NEW t \in Threads, req' = [req EXCEPT ![t] = Miss(t)],
         UNCHANGED <<keyed, data, payload, left, limit, mixed>>,
         req[t].step \in {"payload", "limit", "test"}
  PROVE  CacheInv'
<1>1. req[t] \in Request
  BY DEF CacheInv, CacheTypeOK
<1>2. Miss(t) \in Request /\ Miss(t).step = "build" /\ Miss(t).want = req[t].want
  BY <1>1 DEF Miss, Request, Steps
<1>3. ~Filling(t) /\ IF keyed THEN req[t].want \in Limits ELSE req[t].want = NoLimit
  BY DEF Filling, CacheInv, WantInv
<1> QED BY <1>2, <1>3, ReaderKeeps

LEMMA ReadingSteps ==
  ASSUME CacheInv, NEW t \in Threads, Asking(t) \/ ReadPayload(t) \/ ReadLimit(t) \/ Test(t) \/ Build(t)
  PROVE  CacheInv'
<1>a. req \in [Threads -> Request] /\ req[t] \in Request /\ payload \in Payload \cup {None}
      /\ keyed \in BOOLEAN /\ data \in {0, 1} /\ mixed \in BOOLEAN
  BY DEF CacheInv, CacheTypeOK
<1>b. req[t].step # "idle" =>
        IF keyed THEN req[t].want \in Limits ELSE req[t].want = NoLimit
  BY DEF CacheInv, WantInv
<1>1. CASE Asking(t)
  <2>1. PICK l \in IF keyed THEN Limits ELSE {NoLimit} : Ask(t, l)
    BY <1>1 DEF Asking
  <2> DEFINE r == [step |-> "payload", want |-> l, elapsed |-> 0, seen |-> None, quiet |-> TRUE]
  <2>2. r \in Request /\ r.step = "payload" /\ r.want = l
    BY <2>1, CacheAssumption DEF Request, Steps
  <2>3. req' = [req EXCEPT ![t] = r] /\ UNCHANGED <<keyed, data, payload, left, limit, mixed>>
        /\ ~Filling(t)
    BY <2>1 DEF Ask, Filling
  <2>4. IF keyed THEN l \in Limits ELSE l = NoLimit
    BY <2>1
  <2> HIDE DEF r
  <2> QED BY <2>2, <2>3, <2>4, ReaderKeeps
<1>2. CASE ReadPayload(t)
  <2>1. CASE payload = None
    <3>1. req' = [req EXCEPT ![t] = Miss(t)]
          /\ UNCHANGED <<keyed, data, payload, left, limit, mixed>> /\ req[t].step = "payload"
      BY <1>2, <2>1 DEF ReadPayload, Asked
    <3> QED BY <3>1, MissKeeps
  <2>2. CASE payload # None
    <3> DEFINE q == ~mixed /\ NobodyFills
               r == [req[t] EXCEPT !.step = "limit", !.seen = payload, !.quiet = q]
    <3>1. req' = [req EXCEPT ![t] = r] /\ UNCHANGED <<keyed, data, payload, left, limit, mixed>>
          /\ req[t].step = "payload"
      BY <1>2, <2>2 DEF ReadPayload, Asked, NobodyFills
    <3>2. q \in BOOLEAN
      OBVIOUS
    <3>3. q => ~mixed /\ NobodyFills /\ Coherent
      BY <2>2 DEF CacheInv, CoherentInv
    <3> HIDE DEF q
    <3>4. r \in Request /\ r.step = "limit" /\ r.want = req[t].want /\ r.seen = payload
          /\ r.quiet = q
      BY <1>a, <3>2 DEF Request, Steps
    <3> HIDE DEF r
    <3>5. ~Filling(t)
      BY <3>1 DEF Filling
    <3> QED BY <1>b, <3>1, <3>3, <3>4, <3>5, ReaderKeeps
  <2> QED BY <2>1, <2>2
<1>3. CASE ReadLimit(t)
  <2>1. CASE keyed /\ limit # req[t].want
    <3>1. req' = [req EXCEPT ![t] = Miss(t)]
          /\ UNCHANGED <<keyed, data, payload, left, limit, mixed>> /\ req[t].step = "limit"
      BY <1>3, <2>1 DEF ReadLimit, Asked
    <3> QED BY <3>1, MissKeeps
  <2>2. CASE ~(keyed /\ limit # req[t].want)
    <3> DEFINE r == [req[t] EXCEPT !.step = "test"]
    <3>1. req' = [req EXCEPT ![t] = r] /\ UNCHANGED <<keyed, data, payload, left, limit, mixed>>
          /\ req[t].step = "limit"
      BY <1>3, <2>2 DEF ReadLimit, Asked
    <3>2. r \in Request /\ r.step = "test" /\ r.want = req[t].want /\ r.seen = req[t].seen
          /\ r.quiet = req[t].quiet
      BY <1>a DEF Request, Steps
    <3> HIDE DEF r
    <3>3. ~Filling(t) /\ Reading(t)
      BY <3>1 DEF Filling, Reading
    <3>4. r.quiet => /\ r.seen = payload /\ ~mixed /\ NobodyFills /\ Coherent
                     /\ keyed => limit = r.want
      BY <2>2, <3>2, <3>3 DEF CacheInv, ReadInv
    <3> QED BY <1>b, <3>1, <3>2, <3>3, <3>4, ReaderKeeps
  <2> QED BY <2>1, <2>2
<1>4. CASE Test(t)
  <2>1. CASE ~Hit(t)
    <3>1. req' = [req EXCEPT ![t] = Miss(t)]
          /\ UNCHANGED <<keyed, data, payload, left, limit, mixed>> /\ req[t].step = "test"
      BY <1>4, <2>1 DEF Test, Tested, Asked
    <3> QED BY <3>1, MissKeeps
  <2>2. CASE Hit(t)
    <3> DEFINE r == [req[t] EXCEPT !.step = "answered", !.elapsed = 0]
    <3>1. req' = [req EXCEPT ![t] = r] /\ UNCHANGED <<keyed, data, payload, left, limit, mixed>>
          /\ req[t].step = "test"
      BY <1>4, <2>2 DEF Test, Tested, Asked
    <3>2. r \in Request /\ r.step = "answered" /\ r.want = req[t].want /\ r.seen = req[t].seen
          /\ r.quiet = req[t].quiet
      <4>1. 0 \in 0..MaxRequest
        BY CacheAssumption
      <4> QED BY <1>a, <4>1 DEF Request, Steps
    <3> HIDE DEF r
    <3>3. ~Filling(t) /\ Reading(t)
      BY <3>1 DEF Filling, Reading
    <3>4. ASSUME r.quiet PROVE r.seen.limit = r.want /\ r.seen.age <= Bound
      <4>1. r.seen = payload /\ Coherent /\ (keyed => limit = r.want)
        BY <3>1, <3>2, <3>3, <3>4 DEF CacheInv, ReadInv
      <4>2. payload.limit = r.want
        BY <1>b, <3>1, <3>2, <4>1 DEF Coherent
      <4>3. payload.age + left <= TTL \/ left = 0 - MaxRequest
        BY <4>1 DEF Coherent, Fresh
      <4>4. payload.age \in Int /\ left \in Int /\ req[t].elapsed \in 0..MaxRequest
        BY <1>a, <4>1, CacheAssumption
        DEF Coherent, Payload, OldAge, Bound, CacheInv, CacheTypeOK, Request
      <4>5. payload.age <= TTL + MaxRequest
        BY <2>2, <4>3, <4>4, CacheAssumption DEF Hit
      <4> QED BY <4>1, <4>2, <4>5 DEF Bound
    <3> QED BY <1>b, <3>1, <3>2, <3>3, <3>4, ReaderKeeps
  <2> QED BY <2>1, <2>2
<1>5. CASE Build(t)
  <2> DEFINE b == [limit |-> req[t].want, age |-> 0, data |-> data]
             r == [req[t] EXCEPT !.step = "writePayload", !.seen = b]
  <2>1. req' = [req EXCEPT ![t] = r] /\ UNCHANGED <<keyed, data, payload, left, limit, mixed>>
        /\ req[t].step = "build"
    BY <1>5 DEF Build, Asked
  <2>2. b \in Payload /\ b.limit = req[t].want /\ b.age = 0
    BY <1>a, CacheAssumption DEF Payload, Request, OldAge, Bound
  <2> HIDE DEF b
  <2>3. r \in Request /\ r.step = "writePayload" /\ r.want = req[t].want /\ r.seen = b
        /\ r.elapsed \in 0..MaxRequest
    BY <1>a, <2>2 DEF Request, Steps
  <2> HIDE DEF r
  <2>4. ~Filling(t) /\ b.age <= r.elapsed
    BY <2>1, <2>2, <2>3, CacheAssumption DEF Filling
  <2> QED BY <1>b, <2>1, <2>2, <2>3, <2>4, ReaderKeeps
<1> QED BY <1>1, <1>2, <1>3, <1>4, <1>5

\* A step of a thread that writes a field: what the others read is no longer quiet.
LEMMA WritingSteps ==
  ASSUME CacheInv, NEW t \in Threads, WritePayload(t) \/ WriteExpires(t) \/ WriteLimit(t)
  PROVE  CacheInv'
<1> DEFINE next == IF req[t].step = "writePayload" THEN "writeExpires"
                   ELSE IF req[t].step = "writeExpires" /\ keyed THEN "writeLimit"
                   ELSE "answered"
<1>a. /\ req' = AfterWrite(t, next) /\ next \in Steps
      /\ req[t].step \in {"writePayload", "writeExpires", "writeLimit"}
      /\ keyed' = keyed /\ data' = data
  BY DEF WritePayload, WriteExpires, WriteLimit, Asked, Steps
<1>b. CacheTypeOK
  BY DEF CacheInv
<1>c. /\ req' \in [Threads -> Request]
      /\ req'[t].step = next /\ req'[t].want = req[t].want /\ req'[t].seen = req[t].seen
      /\ next # "answered" => req'[t].elapsed = req[t].elapsed
      /\ \A u \in Threads \ {t} :
           /\ req'[u].step = req[u].step /\ req'[u].want = req[u].want
           /\ req'[u].seen = req[u].seen /\ req'[u].elapsed = req[u].elapsed
           /\ Reading(u) => req'[u].quiet = FALSE
           /\ ~Reading(u) => req'[u].quiet = req[u].quiet
  BY <1>a, <1>b, WriteEffect
<1>d. /\ req[t].seen \in Payload /\ req[t].seen.limit = req[t].want
      /\ req[t].seen.age <= req[t].elapsed /\ req[t].elapsed \in 0..MaxRequest
      /\ IF keyed THEN req[t].want \in Limits
                  ELSE req[t].want = NoLimit /\ req[t].step # "writeLimit"
  BY <1>a, <1>b DEF CacheInv, BuildInv, WantInv, CacheTypeOK, Request
<1>e. \A u \in Threads \ {t} : Filling(u)' <=> Filling(u)
  BY <1>c DEF Filling
<1>f. Alone(t)' <=> Alone(t)
  BY <1>e DEF Alone
<1>g. mixed' = FALSE => Alone(t) /\ (req[t].step # "writePayload" => mixed = FALSE)
  BY <1>b DEF WritePayload, WriteExpires, WriteLimit, Asked, CacheTypeOK
<1>h. /\ req[t].step = "writePayload" => payload' = req[t].seen /\ left' = left /\ limit' = limit
      /\ req[t].step = "writeExpires" =>
           payload' = payload /\ left' = TTL - req[t].elapsed /\ limit' = limit
      /\ req[t].step = "writeLimit" => payload' = payload /\ left' = left /\ limit' = req[t].want
  BY DEF WritePayload, WriteExpires, WriteLimit, Asked
<1>i. /\ next = "writeExpires" <=> req[t].step = "writePayload"
      /\ next = "writeLimit" <=> req[t].step = "writeExpires" /\ keyed
      /\ next \in {"writeExpires", "writeLimit", "answered"}
  BY <1>a
<1> HIDE DEF next
<1>1. CacheTypeOK'
  <2>1. mixed' \in BOOLEAN
    BY <1>b DEF WritePayload, WriteExpires, WriteLimit, CacheTypeOK
  <2>2. TTL - req[t].elapsed \in (0 - MaxRequest)..TTL
    BY <1>d, CacheAssumption
  <2>3. limit' \in Limits \cup {None} /\ left' \in (0 - MaxRequest)..TTL
        /\ payload' \in Payload \cup {None}
    BY <1>a, <1>b, <1>d, <1>h, <2>2 DEF CacheTypeOK
  <2> QED BY <1>a, <1>b, <1>c, <2>1, <2>3 DEF CacheTypeOK
<1>2. WantInv'
  BY <1>a, <1>c, <1>d, <1>i DEF CacheInv, WantInv
<1>3. BuildInv'
  BY <1>a, <1>c, <1>d, <1>i DEF CacheInv, BuildInv
<1>4. ASSUME mixed' = FALSE
      PROVE  /\ \A u \in Threads \ {t} : ~Filling(u)'
             /\ payload' \in Payload /\ payload'.limit = req[t].want
             /\ next = "writeExpires" => payload'.age <= req[t].elapsed
             /\ next # "writeExpires" => Fresh(payload', left')
             /\ next = "answered" /\ keyed => limit' = req[t].want
  <2>1. \A u \in Threads \ {t} : ~Filling(u)'
    BY <1>e, <1>g, <1>4 DEF Alone
  <2>2. CASE req[t].step = "writePayload"
    BY <1>d, <1>h, <1>i, <2>1, <2>2
  <2>3. CASE req[t].step = "writeExpires"
    <3>1. payload \in Payload /\ payload.limit = req[t].want /\ payload.age <= req[t].elapsed
      BY <1>g, <1>4, <2>3 DEF CacheInv, FillInv, Filling
    <3>2. payload.age + (TTL - req[t].elapsed) <= TTL
      BY <1>d, <3>1, CacheAssumption DEF Payload, OldAge, Bound
    <3> QED BY <1>h, <1>i, <2>1, <2>3, <3>1, <3>2 DEF Fresh
  <2>4. CASE req[t].step = "writeLimit"
    <3>1. payload \in Payload /\ payload.limit = req[t].want /\ Fresh(payload, left)
      BY <1>g, <1>4, <2>4 DEF CacheInv, FillInv, Filling
    <3> QED BY <1>h, <1>i, <2>1, <2>4, <3>1
  <2> QED BY <1>a, <2>2, <2>3, <2>4
<1>5. mixed' \in BOOLEAN
  BY <1>1 DEF CacheTypeOK
<1>6. FillInv'
  <2> SUFFICES ASSUME mixed' = FALSE, NEW u \in Threads, Filling(u)'
               PROVE  /\ Alone(u)'
                      /\ payload' \in Payload /\ payload'.limit = req'[u].want
                      /\ req'[u].step = "writeExpires" => payload'.age <= req'[u].elapsed
                      /\ req'[u].step = "writeLimit" => Fresh(payload', left')
    BY <1>5 DEF FillInv, Fresh
  <2>1. u = t /\ Alone(t)'
    BY <1>4 DEF Alone
  <2> QED BY <1>4, <1>c, <2>1
<1>7. CoherentInv'
  <2> SUFFICES ASSUME mixed' = FALSE, NobodyFills' PROVE Coherent'
    BY <1>5 DEF CoherentInv
  <2>1. next = "answered"
    BY <1>c, <1>i DEF NobodyFills, Filling
  <2>2. payload'.limit = IF keyed' THEN limit' ELSE NoLimit
    BY <1>4, <1>a, <1>d, <2>1
  <2> QED BY <1>4, <2>1, <2>2 DEF Coherent, Fresh
<1>8. ReadInv'
  <2>1. \A u \in Threads : ~(Reading(u)' /\ req'[u].quiet)
    BY <1>c, <1>i DEF Reading
  <2> QED BY <2>1 DEF ReadInv
<1>9. AnswerInv'
  <2>1. \A u \in Threads \ {t} : Asked(u, "answered")' /\ req'[u].quiet =>
          req'[u].seen.limit = req'[u].want /\ req'[u].seen.age <= Bound
    BY <1>c DEF CacheInv, AnswerInv, Asked, Reading
  <2>2. req'[t].seen.limit = req'[t].want /\ req'[t].seen.age <= Bound
    <3>1. req[t].seen.age <= Bound
      BY <1>d, CacheAssumption DEF Payload, OldAge, Bound
    <3> QED BY <1>c, <1>d, <3>1
  <2> QED BY <2>1, <2>2 DEF AnswerInv, Asked
<1> QED BY <1>1, <1>2, <1>3, <1>6, <1>7, <1>8, <1>9 DEF CacheInv

\* Time passes for the cache and for what the requests have in hand alike.
LEMMA TickKeeps ==
  ASSUME CacheInv, Tick
  PROVE  CacheInv'
<1>a. CacheTypeOK
  BY DEF CacheInv
<1>b. /\ req' \in [Threads -> Request]
      /\ \A u \in Threads :
           /\ req'[u].step = req[u].step /\ req'[u].want = req[u].want
           /\ req'[u].quiet = req[u].quiet
           /\ Busy(u) => /\ req'[u].elapsed = req[u].elapsed + 1
                         /\ req'[u].seen = Older(req[u].seen)
           /\ ~Busy(u) => req'[u] = req[u]
  BY <1>a, TickEffect
<1>c. /\ payload' = Older(payload)
      /\ left' = IF left > 0 - MaxRequest THEN left - 1 ELSE left
      /\ UNCHANGED <<keyed, data, limit, mixed>>
  BY DEF Tick
<1>d. /\ payload' \in Payload \cup {None} /\ (payload = None => payload' = None)
      /\ payload \in Payload => /\ payload' \in Payload /\ payload'.limit = payload.limit
                                /\ payload'.age \in {payload.age, payload.age + 1}
                                /\ payload.age \in Int
  BY <1>a, <1>c, OlderFacts, CacheAssumption DEF CacheTypeOK, Payload, OldAge, Bound
<1>e. \A u \in Threads :
        /\ req[u].elapsed \in Int
        /\ req[u].seen \in Payload =>
             /\ Older(req[u].seen) \in Payload /\ Older(req[u].seen).limit = req[u].seen.limit
             /\ Older(req[u].seen).age \in {req[u].seen.age, req[u].seen.age + 1}
             /\ req[u].seen.age \in Int
  BY <1>a, OlderFacts, CacheAssumption DEF CacheTypeOK, Request, Payload, OldAge, Bound
<1>f. \A u \in Threads : Filling(u)' <=> Filling(u)
  BY <1>b DEF Filling
<1>g. NobodyFills' <=> NobodyFills
  BY <1>f DEF NobodyFills
<1>h. left \in (0 - MaxRequest)..TTL /\ left' \in (0 - MaxRequest)..TTL
  BY <1>a, <1>c, CacheAssumption DEF CacheTypeOK
<1>i. payload \in Payload /\ Fresh(payload, left) => Fresh(payload', left')
  BY <1>c, <1>d, <1>h, CacheAssumption DEF Fresh
<1>j. Coherent => Coherent'
  BY <1>c, <1>d, <1>i DEF Coherent, Fresh
<1>1. CacheTypeOK'
  BY <1>a, <1>b, <1>c, <1>d, <1>h DEF CacheTypeOK
<1>2. WantInv'
  BY <1>b, <1>c DEF CacheInv, WantInv
<1>3. BuildInv'
  <2> SUFFICES ASSUME NEW u \in Threads,
                      req'[u].step \in {"writePayload", "writeExpires", "writeLimit"}
               PROVE  /\ req'[u].seen \in Payload /\ req'[u].seen.limit = req'[u].want
                      /\ req'[u].seen.age <= req'[u].elapsed
    BY DEF BuildInv
  <2>1. Busy(u) /\ req[u].step \in {"writePayload", "writeExpires", "writeLimit"}
    BY <1>b DEF Busy
  <2>2. req[u].seen \in Payload /\ req[u].seen.limit = req[u].want
        /\ req[u].seen.age <= req[u].elapsed
    BY <2>1 DEF CacheInv, BuildInv
  <2> QED BY <1>b, <1>e, <2>1, <2>2
<1>4. FillInv'
  <2> SUFFICES ASSUME ~mixed, NEW u \in Threads, Filling(u)
               PROVE  /\ Alone(u)'
                      /\ payload' \in Payload /\ payload'.limit = req'[u].want
                      /\ req'[u].step = "writeExpires" => payload'.age <= req'[u].elapsed
                      /\ req'[u].step = "writeLimit" => Fresh(payload', left')
    BY <1>c, <1>f DEF FillInv, Fresh
  <2>1. /\ Alone(u) /\ payload \in Payload /\ payload.limit = req[u].want
        /\ req[u].step = "writeExpires" => payload.age <= req[u].elapsed
        /\ req[u].step = "writeLimit" => Fresh(payload, left)
    BY DEF CacheInv, FillInv
  <2>2. Busy(u) /\ Alone(u)'
    BY <1>f, <2>1 DEF Busy, Filling, Alone
  <2> QED BY <1>b, <1>d, <1>e, <1>i, <2>1, <2>2
<1>5. CoherentInv'
  BY <1>c, <1>d, <1>g, <1>j DEF CacheInv, CoherentInv
<1>6. ReadInv'
  <2> SUFFICES ASSUME NEW u \in Threads, Reading(u)', req'[u].quiet
               PROVE  /\ req'[u].seen = payload' /\ ~mixed' /\ NobodyFills' /\ Coherent'
                      /\ req'[u].step = "test" /\ keyed' => limit' = req'[u].want
    BY DEF ReadInv
  <2>1. Reading(u) /\ req[u].quiet /\ Busy(u)
    BY <1>b DEF Reading, Busy
  <2>2. /\ req[u].seen = payload /\ ~mixed /\ NobodyFills /\ Coherent
        /\ req[u].step = "test" /\ keyed => limit = req[u].want
    BY <2>1 DEF CacheInv, ReadInv
  <2> QED BY <1>b, <1>c, <1>g, <1>j, <2>1, <2>2
<1>7. AnswerInv'
  BY <1>b DEF CacheInv, AnswerInv, Asked, Busy
<1> QED BY <1>1, <1>2, <1>3, <1>4, <1>5, <1>6, <1>7 DEF CacheInv

LEMMA UnchangedKeeps ==
  ASSUME CacheInv, RecordScan \/ UNCHANGED cacheVars
  PROVE  CacheInv'
<1>1. UNCHANGED <<keyed, payload, left, limit, req, mixed>> /\ data' \in {0, 1}
  BY DEF RecordScan, cacheVars, CacheInv, CacheTypeOK
<1> QED BY <1>1 DEF CacheInv, CacheTypeOK, WantInv, BuildInv, FillInv, CoherentInv, ReadInv,
                    AnswerInv, Filling, Alone, Reading, Asked, NobodyFills, Coherent, Fresh

LEMMA NextCache == CacheInv /\ [CacheNext]_cacheVars => CacheInv'
  BY ReadingSteps, WritingSteps, TickKeeps, UnchangedKeeps DEF CacheNext, ThreadStep, Answering

LEMMA CacheInvariant == CacheSpec => []CacheInv
  BY InitCache, NextCache, PTL DEF CacheSpec

\* The dicts and the locals of the two functions keep their types.
THEOREM CacheTypeCorrect == CacheSpec => []CacheTypeOK
<1>1. CacheInv => CacheTypeOK
  BY DEF CacheInv
<1> QED BY <1>1, CacheInvariant, PTL

\* However many threads answer, an answer is no older than the time to live and what a
\* request takes, unless threads overlapped in filling the cache.
THEOREM AnswersAreInTime == CacheSpec => []QuietServedInTime
<1>1. CacheInv => QuietServedInTime
  BY DEF CacheInv, AnswerInv, QuietServedInTime
<1> QED BY <1>1, CacheInvariant, PTL

\* However many threads answer, an answer is for the limit that was asked for, unless
\* threads overlapped in filling the cache.
THEOREM AnswersFitTheLimit == CacheSpec => []WrongLimitNeedsOverlap
<1>1. CacheInv => WrongLimitNeedsOverlap
  BY DEF CacheInv, AnswerInv, WrongLimitNeedsOverlap
<1> QED BY <1>1, CacheInvariant, PTL

------------------------------------------------------------------------------
\* The listings

LEMMA PresentIsFinite == IsFiniteSet(Present) /\ IsFiniteSet(Matches)
<1>1. Present \in SUBSET Artifacts /\ Matches \in SUBSET Artifacts
  BY DEF Present, Matches
<1> QED BY <1>1, FS_Subset, PagesAssumption

\* A row that a page leaves out has all the rows of the page, and those of the pages
\* before, in front of it.
LEMMA LeftOutComesLater ==
  ASSUME NEW key, NEW M, IsFiniteSet(M), NEW offset \in Nat, NEW l \in Nat, NEW D, NEW S,
         IsPage(key, M, offset, l, D, S),
         NEW k \in M, k \notin S, ~Before(key, k, k),
         \A x \in M \ {k} : Before(key, x, k) \/ Before(key, k, x),
         offset <= Cardinality({x \in M : Before(key, x, k)})
  PROVE  /\ offset + Cardinality(S) <= Cardinality({x \in M : Before(key, x, k)})
         /\ offset + Cardinality(S) < Cardinality(M)
<1> DEFINE B == {x \in M : Before(key, x, k)}
<1>1. /\ IsFiniteSet(B) /\ IsFiniteSet(D) /\ IsFiniteSet(S) /\ D \in SUBSET M
      /\ B \in SUBSET (M \ {k}) /\ D \cap S = {}
  <2>1. D \in SUBSET M /\ S \in SUBSET M /\ B \in SUBSET M /\ D \cap S = {}
    BY DEF IsPage
  <2> QED BY <2>1, FS_Subset
<1>2. /\ Cardinality(B) \in Nat /\ Cardinality(D) \in Nat /\ Cardinality(S) \in Nat
      /\ Cardinality(M) \in Nat
  BY <1>1, FS_CardinalityType
<1>3. Cardinality(B) < Cardinality(M)
  <2>1. IsFiniteSet(M \ {k}) /\ Cardinality(M \ {k}) = Cardinality(M) - 1
    BY FS_RemoveElement
  <2>2. Cardinality(B) <= Cardinality(M \ {k})
    BY <1>1, <2>1, FS_Subset
  <2> QED BY <1>2, <2>1, <2>2
<1>4. Cardinality(D) = offset
  <2>1. Cardinality(D) = Least(offset, Cardinality(M))
    BY DEF IsPage
  <2> QED BY <1>2, <1>3, <2>1 DEF Least
<1>5. k \notin D
  <2> SUFFICES ASSUME k \in D PROVE FALSE
    OBVIOUS
  <2>1. B \in SUBSET (D \ {k})
    BY <1>1 DEF IsPage, Heads
  <2>2. IsFiniteSet(D \ {k}) /\ Cardinality(D \ {k}) = Cardinality(D) - 1
    BY <1>1, FS_RemoveElement
  <2>3. Cardinality(B) <= Cardinality(D \ {k})
    BY <2>1, <2>2, FS_Subset
  <2> QED BY <1>2, <1>4, <2>2, <2>3
<1>6. D \cup S \in SUBSET B
  <2> SUFFICES ASSUME NEW a \in D \cup S PROVE a \in B
    OBVIOUS
  <2>1. k \in M \ (D \cup S) /\ a \in M \ {k}
    BY <1>5 DEF IsPage
  <2>2. ~Before(key, k, a)
    BY <2>1 DEF IsPage, Heads
  <2> QED BY <2>1, <2>2
<1>7. Cardinality(D \cup S) = Cardinality(D) + Cardinality(S)
  <2>1. Cardinality(D \cap S) = 0
    BY <1>1, FS_EmptySet
  <2>2. Cardinality(D \cup S) = Cardinality(D) + Cardinality(S) - Cardinality(D \cap S)
    BY <1>1, FS_Union
  <2> QED BY <1>2, <2>1, <2>2
<1>8. Cardinality(D \cup S) <= Cardinality(B)
  BY <1>1, <1>6, FS_Subset
<1> QED BY <1>2, <1>3, <1>4, <1>7, <1>8

------------------------------------------------------------------------------
\* Types

LEMMA PagesInitType == PagesInit => PagesTypeOK
<1> SUFFICES ASSUME PagesInit PROVE PagesTypeOK
  OBVIOUS
<1>1. NoPage \in Page /\ NoTree \in Tree /\ 0 \in 0..MaxMoves
  BY PagesAssumption DEF NoPage, Page, NoTree, Tree
<1>2. NoGroups \in [limit : PageLimits \cup {0}, shown : SUBSET Artifacts, torn : SUBSET Artifacts]
  BY DEF NoGroups
<1> QED BY <1>1, <1>2 DEF PagesInit, PagesTypeOK

LEMMA PagesNextType == PagesTypeOK /\ [PagesNext]_pagesVars => PagesTypeOK'
<1> SUFFICES ASSUME PagesTypeOK, [PagesNext]_pagesVars PROVE PagesTypeOK'
  OBVIOUS
<1> USE DEF PagesTypeOK, tableVars
<1>a. MaxMoves \in Nat
  BY PagesAssumption
<1>1. ASSUME NEW a \in Artifacts, NEW p \in Paths, InsertArtifact(a, p) PROVE PagesTypeOK'
  BY <1>1 DEF InsertArtifact
<1>2. ASSUME NEW a \in Artifacts, NEW p \in Paths, MoveArtifact(a, p) PROVE PagesTypeOK'
  <2>1. moves' \in 0..MaxMoves
    BY <1>2, <1>a DEF MoveArtifact
  <2>2. page' \in Page
    BY <1>2 DEF MoveArtifact, Page
  <2> QED BY <1>2, <2>1, <2>2 DEF MoveArtifact
<1>3. ASSUME NEW p \in Paths, AddPacked(p) PROVE PagesTypeOK'
  BY <1>3 DEF AddPacked
<1>4. ASSUME NEW p \in Paths, DropPacked(p) PROVE PagesTypeOK'
  <2>1. moves' \in 0..MaxMoves
    BY <1>4, <1>a DEF DropPacked
  <2>2. tree' \in Tree
    BY <1>4 DEF DropPacked, Tree
  <2> QED BY <1>4, <2>1, <2>2 DEF DropPacked
<1>5. ASSUME NEW key \in {"buildid", "glob", "path"}, NEW l \in PageLimits,
             NEW ids \in SUBSET Artifacts, NEW paths \in SUBSET Paths,
             StartPages(key, ids, paths, l)
      PROVE  PagesTypeOK'
  <2>1. {a \in Present : a \in ids \/ place[a] \in paths} \in SUBSET Artifacts
    BY DEF Present
  <2>2. page' \in Page
    BY <1>5, <2>1 DEF StartPages, NoPage, Page
  <2> QED BY <1>5, <2>2 DEF StartPages
<1>6. ASSUME NEW D \in SUBSET Artifacts, NEW S \in SUBSET (Artifacts \ D), NextPage(D, S)
      PROVE  PagesTypeOK'
  <2>1. Cardinality(S) \in Nat
    BY PagesAssumption, FS_Subset, FS_CardinalityType
  <2>2. Following(S) \in Nat
    BY <2>1 DEF Following, Page
  <2>3. page' \in Page
    BY <1>6, <2>2 DEF NextPage, Page
  <2> QED BY <1>6, <2>3 DEF NextPage
<1>7. ASSUME NEW l \in PageLimits, NEW ids \in SUBSET Artifacts, NEW S \in SUBSET Artifacts,
             SearchGrouped(ids, l, S)
      PROVE  PagesTypeOK'
  <2> DEFINE shown == FirstGroups(S, l)
             torn == {a \in shown : \E b \in (Present \cap ids) \ shown : BuildOf[b] = BuildOf[a]}
  <2>1. groups' = [limit |-> l, shown |-> shown, torn |-> torn]
    BY <1>7 DEF SearchGrouped
  <2>2. shown \in SUBSET Artifacts /\ torn \in SUBSET Artifacts
    BY DEF FirstGroups
  <2> HIDE DEF shown, torn
  <2> QED BY <1>7, <2>1, <2>2 DEF SearchGrouped
<1>8. ASSUME NEW paths \in SUBSET Paths, NEW commit \in BOOLEAN, StartTree(paths, commit)
      PROVE  PagesTypeOK'
  <2> DEFINE t == [NoTree EXCEPT !.paths = paths, !.commit = commit]
             listed == {place[a] : a \in Listed(t)}
             standing == {p \in packed : TreeMatches(t, p, TRUE)}
  <2>1. listed \in SUBSET Paths
    BY DEF Listed, Present
  <2>2. Skipped(t) = listed
    BY DEF Skipped
  <2>3. t \in Tree
    BY DEF NoTree, Tree
  <2>4. standing \in SUBSET Paths
    OBVIOUS
  <2>5. tree' = [t EXCEPT !.step = "dedup", !.indexed = listed, !.skip = listed,
                          !.standing = standing]
    BY <1>8, <2>2 DEF StartTree
  <2> HIDE DEF t, listed, standing
  <2>6. tree' \in Tree
    BY <2>1, <2>3, <2>4, <2>5 DEF Tree
  <2> QED BY <1>8, <2>6 DEF StartTree
<1>9. CASE ReadPacked
  <2> DEFINE found == {p \in packed \ tree.skip : TreeMatches(tree, p, TRUE)}
  <2>1. found \in SUBSET Paths
    OBVIOUS
  <2>2. tree' = [tree EXCEPT !.step = "done", !.found = found]
    BY <1>9 DEF ReadPacked
  <2> HIDE DEF found
  <2>3. tree' \in Tree
    BY <2>1, <2>2 DEF Tree
  <2> QED BY <1>9, <2>3 DEF ReadPacked
<1>10. CASE EndPages \/ EndGrouped \/ EndTree
  <2>1. NoPage \in Page /\ NoTree \in Tree
    BY PagesAssumption DEF NoPage, Page, NoTree, Tree
  <2>2. NoGroups \in [limit : PageLimits \cup {0}, shown : SUBSET Artifacts,
                      torn : SUBSET Artifacts]
    BY DEF NoGroups
  <2> QED BY <1>10, <2>1, <2>2 DEF EndPages, EndGrouped, EndTree
<1>11. CASE UNCHANGED pagesVars
  BY <1>11 DEF pagesVars
<1> QED
  BY <1>1, <1>2, <1>3, <1>4, <1>5, <1>6, <1>7, <1>8, <1>9, <1>10, <1>11
  DEF PagesNext, TableStep, ReaderStep

------------------------------------------------------------------------------
\* Paging

\* Every row the client is still to see matches, and at least as many rows come before it
\* as the client has skipped over: the next page cannot begin behind it.
Ahead(k) ==
  /\ k \in Matches
  /\ page.offset <= Cardinality({x \in Matches : Before(page.key, x, k)})

PageInv ==
  page.key = "buildid" \/ ~page.disturbed =>
    /\ page.step = "reading" => \A k \in page.standing \ page.seen : Ahead(k)
    /\ page.step = "done" => page.standing \subseteq page.seen

LEMMA CountGrows ==
  ASSUME NEW B, IsFiniteSet(B), NEW A \in SUBSET B, NEW n \in Nat, n <= Cardinality(A)
  PROVE  n <= Cardinality(B)
<1>1. Cardinality(A) \in Nat /\ Cardinality(B) \in Nat /\ Cardinality(A) <= Cardinality(B)
  BY FS_Subset, FS_CardinalityType
<1> QED BY <1>1

\* Of two matching rows one comes first, unless rows share their path and their type.
LEMMA RowsAreOrdered ==
  ASSUME PagesTypeOK, page.key # "path" \/ ~Ties, NEW k \in Matches
  PROVE  /\ ~Before(page.key, k, k)
         /\ \A x \in Matches \ {k} : Before(page.key, x, k) \/ Before(page.key, k, x)
<1>1. \A x \in Matches : x \in Artifacts /\ place[x] \in Nat /\ TypeRank[x] \in Nat
                         /\ KeyRank[x] \in Nat
  <2> SUFFICES ASSUME NEW x \in Matches
               PROVE  /\ x \in Artifacts /\ place[x] \in Nat
                      /\ TypeRank[x] \in {0, 1} /\ KeyRank[x] \in Nat
    OBVIOUS
  <2> QED BY PagesAssumption DEF Matches, Present, PagesTypeOK
<1>2. ~ByKey(k, k) /\ ~ByPath(k, k)
  BY <1>1 DEF ByKey, ByPath
<1>3. ASSUME NEW x \in Matches \ {k} PROVE ByKey(x, k) \/ ByKey(k, x)
  BY <1>1, <1>3, PagesAssumption DEF ByKey
<1>4. ASSUME NEW x \in Matches \ {k}, ~Ties PROVE ByPath(x, k) \/ ByPath(k, x)
  <2>1. ~(place[x] = place[k] /\ TypeRank[x] = TypeRank[k])
    BY <1>4 DEF Ties
  <2> QED BY <1>1, <2>1 DEF ByPath
<1> QED BY <1>2, <1>3, <1>4 DEF Before

LEMMA TableStepPages == PagesTypeOK /\ PageInv /\ TableStep => PageInv'
<1> SUFFICES ASSUME PagesTypeOK, PageInv, TableStep PROVE PageInv'
  OBVIOUS
<1>a. /\ place \in [Artifacts -> Paths \cup {NoPath}] /\ page.offset \in Nat
      /\ NoPath \notin Paths
  BY PagesAssumption DEF PagesTypeOK, Page
<1>b. IsFiniteSet(Matches')
  <2>1. Matches' \in SUBSET Artifacts
    BY DEF Matches, Present
  <2> QED BY <2>1, FS_Subset, PagesAssumption
<1>c. ASSUME NEW k, Ahead(k), page' = page, Matches \subseteq Matches',
             \A x \in Matches : Before(page.key, x, k) => Before(page.key, x, k)'
      PROVE  Ahead(k)'
  <2> DEFINE A == {x \in Matches : Before(page.key, x, k)}
             B == {x \in Matches' : Before(page.key, x, k)'}
  <2>1. A \in SUBSET B /\ IsFiniteSet(B)
    BY <1>b, <1>c, FS_Subset
  <2>2. page.offset <= Cardinality(A) /\ k \in Matches'
    BY <1>c DEF Ahead
  <2>3. page.offset <= Cardinality(B)
    <3> HIDE DEF A, B
    <3> QED BY <1>a, <2>1, <2>2, CountGrows
  <2> QED BY <1>c, <2>2, <2>3 DEF Ahead
<1>1. ASSUME NEW a \in Artifacts, NEW p \in Paths, InsertArtifact(a, p) PROVE PageInv'
  <2>1. page' = page /\ \A x \in Present : x \in Present' /\ place'[x] = place[x]
    BY <1>1, <1>a DEF InsertArtifact, Present
  <2>2. Matches \subseteq Matches'
    BY <2>1 DEF Matches
  <2>3. ASSUME NEW k, Ahead(k) PROVE Ahead(k)'
    <3>1. \A x \in Matches : x \in Present /\ k \in Present
      BY <2>3 DEF Ahead, Matches
    <3>2. \A x \in Matches : Before(page.key, x, k) => Before(page.key, x, k)'
      BY <2>1, <3>1 DEF Before, ByKey, ByPath
    <3> QED BY <1>c, <2>1, <2>2, <2>3, <3>2
  <2> QED BY <2>1, <2>3 DEF PageInv
<1>2. ASSUME NEW a \in Artifacts, NEW p \in Paths, MoveArtifact(a, p) PROVE PageInv'
  <2>1. CASE page.step # "reading"
    BY <1>2, <2>1 DEF MoveArtifact, PageInv
  <2>2. CASE page.step = "reading" /\ page.key = "buildid"
    <3>1. Present' = Present
      BY <1>2, <1>a DEF MoveArtifact, Present
    <3>2. /\ page'.key = page.key /\ page'.step = page.step /\ page'.ids = page.ids
          /\ page'.offset = page.offset /\ page'.standing = page.standing
          /\ page'.seen = page.seen
      BY <1>2, <2>2 DEF MoveArtifact, PagesTypeOK, Page
    <3>3. Matches' = Matches
      BY <2>2, <3>1, <3>2 DEF Matches
    <3>4. \A x, k : Before("buildid", x, k)' <=> Before("buildid", x, k)
      BY DEF Before, ByKey
    <3>5. \A k : Ahead(k)' <=> Ahead(k)
      BY <2>2, <3>2, <3>3, <3>4 DEF Ahead
    <3> QED BY <2>2, <3>2, <3>5 DEF PageInv
  <2>3. CASE page.step = "reading" /\ page.key # "buildid"
    <3>1. page'.disturbed /\ page'.key = page.key
      BY <1>2, <2>3 DEF MoveArtifact, PagesTypeOK, Page
    <3> QED BY <2>3, <3>1 DEF PageInv
  <2> QED BY <2>1, <2>2, <2>3
<1>3. CASE UNCHANGED <<place, page>>
  BY <1>3 DEF PageInv, Ahead, Matches, Present, Before, ByKey, ByPath
<1> QED BY <1>1, <1>2, <1>3 DEF TableStep, AddPacked, DropPacked

LEMMA PageStep ==
  ASSUME PagesTypeOK, PageInv,
         NEW D \in SUBSET Artifacts, NEW S \in SUBSET (Artifacts \ D), NextPage(D, S)
  PROVE  PageInv'
<1> SUFFICES ASSUME page'.key = "buildid" \/ ~page'.disturbed
             PROVE  /\ page'.step = "reading" => \A k \in page'.standing \ page'.seen : Ahead(k)'
                    /\ page'.step = "done" => page'.standing \subseteq page'.seen
  BY DEF PageInv
<1>a. page \in Page /\ page.step = "reading" /\ page.offset \in Nat /\ place' = place
  BY DEF PagesTypeOK, Page, NextPage, tableVars
<1>b. /\ page'.key = page.key /\ page'.ids = page.ids /\ page'.paths = page.paths
      /\ page'.standing = page.standing /\ page'.seen = page.seen \cup S
      /\ page'.offset = page.offset + Cardinality(S)
      /\ page'.disturbed = (page.disturbed \/ (page.key = "path" /\ Ties))
      /\ page'.step = IF Following(S) >= Cardinality(Matches) THEN "done" ELSE "reading"
  BY <1>a DEF NextPage, Page, Following
<1>c. Matches' = Matches /\ \A x, k : Before(page.key, x, k)' <=> Before(page.key, x, k)
  BY <1>a, <1>b DEF Matches, Present, Before, ByKey, ByPath
<1>1. ASSUME NEW k \in page.standing \ (page.seen \cup S)
      PROVE  /\ k \in Matches
             /\ page.offset + Cardinality(S)
                  <= Cardinality({x \in Matches : Before(page.key, x, k)})
             /\ page.offset + Cardinality(S) < Cardinality(Matches)
  <2>1. Ahead(k) /\ k \notin S
    BY <1>1, <1>a, <1>b DEF PageInv
  <2>2. page.key # "path" \/ ~Ties
    BY <1>b
  <2>3. /\ ~Before(page.key, k, k)
        /\ \A x \in Matches \ {k} : Before(page.key, x, k) \/ Before(page.key, k, x)
    BY <2>1, <2>2, RowsAreOrdered DEF Ahead
  <2>4. IsPage(page.key, Matches, page.offset, page.limit, D, S)
    BY DEF NextPage
  <2>5. page.limit \in Nat
    <3>1. page.limit \in PageLimits \cup {0}
      BY <1>a DEF Page
    <3>2. \A l \in PageLimits : l \in Nat
      BY PagesAssumption
    <3> QED BY <3>1, <3>2
  <2>6. k \in Matches /\ page.offset <= Cardinality({x \in Matches : Before(page.key, x, k)})
    BY <2>1 DEF Ahead
  <2>7. IsFiniteSet(Matches) /\ k \notin S
    BY <2>1, PresentIsFinite
  <2> DEFINE M == Matches
             o == page.offset
             l == page.limit
             q == page.key
  <2>8. /\ IsFiniteSet(M) /\ o \in Nat /\ l \in Nat /\ IsPage(q, M, o, l, D, S)
        /\ k \in M /\ k \notin S /\ ~Before(q, k, k)
        /\ \A x \in M \ {k} : Before(q, x, k) \/ Before(q, k, x)
        /\ o <= Cardinality({x \in M : Before(q, x, k)})
    BY <1>a, <2>3, <2>4, <2>5, <2>6, <2>7
  <2> HIDE DEF M, o, l, q
  <2>9. /\ o + Cardinality(S) <= Cardinality({x \in M : Before(q, x, k)})
        /\ o + Cardinality(S) < Cardinality(M)
    BY <2>8, LeftOutComesLater
  <2> QED BY <2>6, <2>9 DEF M, o, q
<1>2. ASSUME NEW k \in page'.standing \ page'.seen PROVE Ahead(k)' /\ page'.step = "reading"
  <2>1. k \in page.standing \ (page.seen \cup S)
    BY <1>2, <1>b
  <2>2. Cardinality(Matches) \in Nat /\ Cardinality(S) \in Nat
    BY PresentIsFinite, FS_CardinalityType, FS_Subset, PagesAssumption
  <2>3. page.offset + Cardinality(S) < Cardinality(Matches)
    BY <1>1, <2>1
  <2>4. ~(Following(S) >= Cardinality(Matches))
    <3> DEFINE n == Cardinality(S)
               m == Cardinality(Matches)
               o == page.offset
    <3>1. o \in Nat /\ n \in Nat /\ m \in Nat /\ o + n < m /\ Following(S) = o + n
      BY <1>a, <2>2, <2>3 DEF Following
    <3> HIDE DEF n, m, o
    <3>2. ~(Following(S) >= m)
      BY <3>1
    <3> QED BY <3>2 DEF m
  <2> DEFINE A == {x \in Matches : Before(page.key, x, k)}
             B == {x \in Matches' : Before(page.key, x, k)'}
  <2>5. A = B
    BY <1>c
  <2>6. page'.offset <= Cardinality(A) /\ k \in Matches'
    BY <1>1, <1>b, <1>c, <2>1
  <2>7. page'.offset <= Cardinality(B)
    <3> HIDE DEF A, B
    <3> QED BY <2>5, <2>6
  <2> QED BY <1>b, <2>4, <2>6, <2>7 DEF Ahead
<1> QED BY <1>2

LEMMA NextPageInv == PagesTypeOK /\ PageInv /\ [PagesNext]_pagesVars => PageInv'
<1> SUFFICES ASSUME PagesTypeOK, PageInv, [PagesNext]_pagesVars PROVE PageInv'
  OBVIOUS
<1>1. ASSUME NEW key \in {"buildid", "glob", "path"}, NEW l \in PageLimits,
             NEW ids \in SUBSET Artifacts, NEW paths \in SUBSET Paths,
             StartPages(key, ids, paths, l)
      PROVE  PageInv'
  <2>1. /\ page'.step = "reading" /\ page'.key = key /\ page'.ids = ids
        /\ page'.paths = paths /\ page'.offset = 0 /\ page'.seen = {}
        /\ page'.standing = {a \in Present : a \in ids \/ place[a] \in paths}
    BY <1>1 DEF StartPages, NoPage
  <2>2. place' = place
    BY <1>1 DEF StartPages, tableVars
  <2>3. page'.standing \subseteq Matches'
    BY <1>1, <2>1, <2>2 DEF StartPages, Matches, Present
  <2>4. ASSUME NEW k \in Matches' PROVE Ahead(k)'
    <3> DEFINE A == {x \in Matches' : Before(page.key, x, k)'}
    <3>1. A \in SUBSET Artifacts
      BY DEF Matches, Present
    <3>2. Cardinality(A) \in Nat
      BY <3>1, FS_Subset, FS_CardinalityType, PagesAssumption
    <3>3. page'.offset <= Cardinality(A)
      <4> HIDE DEF A
      <4> QED BY <2>1, <3>2
    <3> QED BY <2>4, <3>3 DEF Ahead
  <2> QED BY <2>1, <2>3, <2>4 DEF PageInv
<1>2. ASSUME NEW D \in SUBSET Artifacts, NEW S \in SUBSET (Artifacts \ D), NextPage(D, S)
      PROVE  PageInv'
  BY <1>2, PageStep
<1>3. CASE EndPages
  BY <1>3 DEF EndPages, NoPage, PageInv
<1>4. CASE UNCHANGED <<place, page>>
  BY <1>4 DEF PageInv, Ahead, Matches, Present, Before, ByKey, ByPath
<1>5. CASE TableStep
  BY <1>5, TableStepPages
<1> QED
  BY <1>1, <1>2, <1>3, <1>4, <1>5
  DEF PagesNext, ReaderStep, SearchGrouped, StartTree, EndGrouped, ReadPacked, EndTree,
      tableVars, pagesVars

------------------------------------------------------------------------------
\* The browse tree

\* Between the two queries: the files that were there are still, and what the second
\* query is to skip the first one has listed.
TreeInv ==
  /\ tree.step = "dedup" =>
       /\ tree.standing \subseteq {p \in packed : TreeMatches(tree, p, TRUE)}
       /\ tree.skip \subseteq tree.indexed
  /\ tree.step = "done" => tree.standing \subseteq tree.indexed \cup tree.found

LEMMA NextTree == PagesTypeOK /\ TreeInv /\ [PagesNext]_pagesVars => TreeInv'
<1> SUFFICES ASSUME PagesTypeOK, TreeInv, [PagesNext]_pagesVars PROVE TreeInv'
  OBVIOUS
<1>a. tree \in Tree
  BY DEF PagesTypeOK
<1>1. ASSUME NEW p \in Paths, AddPacked(p) PROVE TreeInv'
  BY <1>1 DEF AddPacked, TreeInv, TreeMatches
<1>2. ASSUME NEW p \in Paths, DropPacked(p) PROVE TreeInv'
  <2>1. CASE tree.step = "dedup"
    <3>1. /\ tree'.step = "dedup" /\ tree'.standing = tree.standing \ {p}
          /\ tree'.skip = tree.skip /\ tree'.indexed = tree.indexed
          /\ tree'.paths = tree.paths /\ tree'.commit = tree.commit
      BY <1>2, <1>a, <2>1 DEF DropPacked, Tree
    <3>2. packed' = packed \ {p}
      BY <1>2 DEF DropPacked
    <3> QED BY <2>1, <3>1, <3>2 DEF TreeInv, TreeMatches
  <2>2. CASE tree.step # "dedup"
    BY <1>2, <2>2 DEF DropPacked, TreeInv, TreeMatches
  <2> QED BY <2>1, <2>2
<1>3. ASSUME NEW paths \in SUBSET Paths, NEW commit \in BOOLEAN, StartTree(paths, commit)
      PROVE  TreeInv'
  <2> DEFINE t == [NoTree EXCEPT !.paths = paths, !.commit = commit]
             listed == {place[a] : a \in Listed(t)}
             standing == {p \in packed : TreeMatches(t, p, TRUE)}
  <2>1. tree' = [t EXCEPT !.step = "dedup", !.indexed = listed, !.skip = listed,
                          !.standing = standing]
    BY <1>3 DEF StartTree, Skipped
  <2>2. packed' = packed
    BY <1>3 DEF StartTree, tableVars
  <2>3. /\ tree'.step = "dedup" /\ tree'.indexed = listed /\ tree'.skip = listed
        /\ tree'.standing = standing
        /\ tree'.paths = t.paths /\ tree'.commit = t.commit
    <3>1. t \in Tree
      BY DEF NoTree, Tree
    <3> HIDE DEF t, listed, standing
    <3> QED BY <2>1, <3>1 DEF Tree
  <2> HIDE DEF t, listed
  <2> QED BY <2>2, <2>3 DEF TreeInv, TreeMatches
<1>4. CASE ReadPacked
  <2> DEFINE found == {p \in packed \ tree.skip : TreeMatches(tree, p, TRUE)}
  <2>1. tree' = [tree EXCEPT !.step = "done", !.found = found]
    BY <1>4 DEF ReadPacked
  <2>2. /\ tree'.step = "done" /\ tree'.found = found
        /\ tree'.standing = tree.standing /\ tree'.indexed = tree.indexed
    <3> HIDE DEF found
    <3> QED BY <1>a, <2>1 DEF Tree
  <2>3. tree.standing \subseteq tree.indexed \cup found
    BY <1>4 DEF ReadPacked, TreeInv
  <2> HIDE DEF found
  <2> QED BY <2>2, <2>3 DEF TreeInv
<1>5. CASE EndTree
  BY <1>5 DEF EndTree, NoTree, TreeInv
<1>6. CASE UNCHANGED <<packed, tree>>
  BY <1>6 DEF TreeInv, TreeMatches
<1> QED
  BY <1>1, <1>2, <1>3, <1>4, <1>5, <1>6
  DEF PagesNext, TableStep, ReaderStep, InsertArtifact, MoveArtifact, StartPages, NextPage,
      SearchGrouped, EndPages, EndGrouped, tableVars, pagesVars

------------------------------------------------------------------------------
\* The search grouped by build-id

\* A build-id has at most two rows, as its type is one of two.
LEMMA TwoRowsOfABuild ==
  ASSUME NEW R \in SUBSET Artifacts, NEW B, IsFiniteSet(B), \A x \in R : BuildOf[x] \in B
  PROVE  Cardinality(R) <= 2 * Cardinality(B)
<1> DEFINE f == [x \in R |-> <<BuildOf[x], TypeRank[x]>>]
<1>1. IsFiniteSet({0, 1}) /\ Cardinality({0, 1}) = 2
  <2>1. IsFiniteSet({0}) /\ Cardinality({0}) = 1
    BY FS_Singleton
  <2>2. {0} \cup {1} = {0, 1} /\ 1 \notin {0}
    OBVIOUS
  <2>3. /\ IsFiniteSet({0} \cup {1})
        /\ Cardinality({0} \cup {1}) = IF 1 \in {0} THEN Cardinality({0}) ELSE Cardinality({0}) + 1
    BY <2>1, FS_AddElement
  <2> QED BY <2>1, <2>2, <2>3
<1>2. /\ IsFiniteSet(B \X {0, 1})
      /\ Cardinality(B \X {0, 1}) = Cardinality(B) * Cardinality({0, 1})
  BY <1>1, FS_Product
<1>3. f \in Injection(R, B \X {0, 1})
  <2>1. f \in [R -> B \X {0, 1}]
    BY PagesAssumption
  <2>2. \A x, y \in R : f[x] = f[y] => x = y
    BY PagesAssumption
  <2> HIDE DEF f
  <2> QED BY <2>1, <2>2 DEF Injection, IsInjective
<1>4. Cardinality(R) <= Cardinality(B \X {0, 1})
  <2> HIDE DEF f
  <2> QED BY <1>2, <1>3, FS_Injection
<1>5. Cardinality(B) \in Nat
  BY FS_CardinalityType
<1> QED BY <1>1, <1>2, <1>4, <1>5

\* When twice as many rows are fetched as groups are shown, a row that is not fetched
\* belongs to none of the groups shown.
LEMMA ShownIsFetched ==
  ASSUME NEW M \in SUBSET Artifacts, NEW S \in SUBSET M,
         NEW l \in Nat, NEW n \in Nat, 2 * l <= n,
         Cardinality(S) = Least(n, Cardinality(M)), HeadsByBuild(S, M),
         NEW a \in FirstGroups(S, l), NEW b \in M, BuildOf[b] = BuildOf[a]
  PROVE  b \in S
<1> SUFFICES ASSUME b \notin S PROVE FALSE
  OBVIOUS
<1> DEFINE L == {BuildOf[x] : x \in {c \in S : BuildOf[c] < BuildOf[a]}}
           R == S \cup {b}
           B == L \cup {BuildOf[a]}
<1>a. /\ BuildOf \in [Artifacts -> Nat] /\ IsFiniteSet(Artifacts)
      /\ a \in S /\ a \in Artifacts /\ BuildOf[a] \in Nat
  BY PagesAssumption DEF FirstGroups
<1>1. /\ IsFiniteSet(M) /\ IsFiniteSet(S)
      /\ Cardinality(M) \in Nat /\ Cardinality(S) \in Nat
  BY <1>a, FS_Subset, FS_CardinalityType
<1>2. Cardinality(S) = n
  <2>1. Cardinality(S) # Cardinality(M)
    BY <1>1, FS_Subset
  <2> QED BY <1>1, <2>1 DEF Least
<1>3. IsFiniteSet(L) /\ Cardinality(L) \in Nat /\ Cardinality(L) < l
  <2>1. L \in SUBSET Nat /\ \A k \in L : k <= BuildOf[a]
    BY <1>a
  <2>2. IsFiniteSet(L)
    <3> HIDE DEF L
    <3> QED BY <1>a, <2>1, FS_BoundedSetOfNaturals
  <2>3. Cardinality(L) < l
    BY DEF FirstGroups
  <2> HIDE DEF L
  <2> QED BY <2>2, <2>3, FS_CardinalityType
<1>4. IsFiniteSet(B) /\ Cardinality(B) \in Nat /\ Cardinality(B) <= Cardinality(L) + 1
  <2> HIDE DEF L
  <2>1. /\ IsFiniteSet(B)
        /\ Cardinality(B) = IF BuildOf[a] \in L THEN Cardinality(L) ELSE Cardinality(L) + 1
    BY <1>3, FS_AddElement
  <2> QED BY <1>3, <2>1
<1>5. \A x \in R : BuildOf[x] \in B
  <2> SUFFICES ASSUME NEW x \in R PROVE BuildOf[x] \in B
    OBVIOUS
  <2>1. CASE x = b
    BY <2>1
  <2>2. CASE x \in S
    <3>1. BuildOf[x] <= BuildOf[a] /\ BuildOf[x] \in Nat
      BY <1>a, <2>2 DEF HeadsByBuild
    <3> QED BY <1>a, <2>2, <3>1
  <2> QED BY <2>1, <2>2
<1>6. R \in SUBSET Artifacts /\ Cardinality(R) = Cardinality(S) + 1
  BY <1>1, FS_AddElement
<1>7. Cardinality(R) <= 2 * Cardinality(B)
  <2> HIDE DEF R, B
  <2> QED BY <1>4, <1>5, <1>6, TwoRowsOfABuild
<1> HIDE DEF R, B, L
<1> QED BY <1>1, <1>2, <1>3, <1>4, <1>6, <1>7

\* Of a build-id that is shown all rows that were fetched are shown.
LEMMA FetchedIsShown ==
  ASSUME NEW S, NEW l, NEW a \in FirstGroups(S, l), NEW b \in S, BuildOf[b] = BuildOf[a]
  PROVE  b \in FirstGroups(S, l)
BY DEF FirstGroups

LEMMA NextGroups ==
  PagesTypeOK /\ GroupsAreWhole /\ [PagesNext]_pagesVars => GroupsAreWhole'
<1> SUFFICES ASSUME GroupsAreWhole, [PagesNext]_pagesVars PROVE GroupsAreWhole'
  OBVIOUS
<1>1. ASSUME NEW l \in PageLimits, NEW ids \in SUBSET Artifacts, NEW S \in SUBSET Artifacts,
             SearchGrouped(ids, l, S)
      PROVE  GroupsAreWhole'
  <2> DEFINE M == Present \cap ids
             torn == {a \in FirstGroups(S, l) :
                        \E b \in M \ FirstGroups(S, l) : BuildOf[b] = BuildOf[a]}
  <2>1. groups'.limit = l /\ groups'.torn = torn
    BY <1>1 DEF SearchGrouped
  <2>2. /\ M \in SUBSET Artifacts /\ S \in SUBSET M /\ HeadsByBuild(S, M)
        /\ Cardinality(S) = Least(RawLimit(l), Cardinality(M))
    BY <1>1 DEF SearchGrouped, Present
  <2>3. ASSUME 2 * l <= RawCap, NEW a \in torn PROVE FALSE
    <3>1. l \in Nat /\ RawLimit(l) \in Nat /\ 2 * l <= RawLimit(l)
      BY <2>3, PagesAssumption DEF RawLimit, Least
    <3>2. PICK b \in M \ FirstGroups(S, l) : BuildOf[b] = BuildOf[a]
      OBVIOUS
    <3>3. a \in FirstGroups(S, l)
      OBVIOUS
    <3> HIDE DEF M, torn
    <3>4. b \in S
      BY <2>2, <3>1, <3>2, <3>3, ShownIsFetched
    <3> QED BY <3>2, <3>3, <3>4, FetchedIsShown
  <2> HIDE DEF torn
  <2> QED BY <2>1, <2>3 DEF GroupsAreWhole
<1>2. CASE EndGrouped
  BY <1>2 DEF EndGrouped, NoGroups, GroupsAreWhole
<1>3. CASE UNCHANGED groups
  BY <1>3 DEF GroupsAreWhole
<1> QED
  BY <1>1, <1>2, <1>3
  DEF PagesNext, TableStep, ReaderStep, InsertArtifact, MoveArtifact, AddPacked, DropPacked,
      StartPages, NextPage, StartTree, EndPages, ReadPacked, EndTree, pagesVars

------------------------------------------------------------------------------
\* Theorems

PagesInv == PagesTypeOK /\ PageInv /\ TreeInv /\ GroupsAreWhole

LEMMA PagesInvariant == PagesSpec => []PagesInv
<1>1. PagesInit => PagesInv
  <2>1. PagesInit => PageInv /\ TreeInv /\ GroupsAreWhole
    BY DEF PagesInit, PageInv, TreeInv, GroupsAreWhole, NoPage, NoTree, NoGroups
  <2> QED BY <2>1, PagesInitType DEF PagesInv
<1>2. PagesInv /\ [PagesNext]_pagesVars => PagesInv'
  BY PagesNextType, NextPageInv, NextTree, NextGroups DEF PagesInv
<1> QED BY <1>1, <1>2, PTL DEF PagesSpec

\* The rows, the clients and what they are told keep their types.
THEOREM PagesTypeCorrect == PagesSpec => []PagesTypeOK
<1>1. PagesInv => PagesTypeOK
  BY DEF PagesInv
<1> QED BY <1>1, PagesInvariant, PTL

\* For any table, any limits and any number of requests, paging by build-id shows every
\* row that was there from the beginning.
THEOREM BuildidPagesShowAll == PagesSpec => []BuildidPagesAll
<1>1. PagesInv => BuildidPagesAll
  BY DEF PagesInv, PageInv, BuildidPagesAll
<1> QED BY <1>1, PagesInvariant, PTL

\* A row that stays can only be missed when another moved, or when rows tie.
THEOREM MissesNeedMoves == PagesSpec => []MissNeedsMove
<1>1. PagesInv => MissNeedsMove
  BY DEF PagesInv, PageInv, MissNeedsMove
<1> QED BY <1>1, PagesInvariant, PTL

\* The two queries of the browse tree leave no file out that dedup knew all the time.
THEOREM TreeIsComplete == PagesSpec => []TreeShowsAll
<1>1. PagesInv => TreeShowsAll
  BY DEF PagesInv, TreeInv, TreeShowsAll
<1> QED BY <1>1, PagesInvariant, PTL

\* For any index and any limit that the cap on rows leaves room for, the grouped search
\* shows both rows of each build-id it shows.
THEOREM GroupsHaveAllRows == PagesSpec => []GroupsAreWhole
<1>1. PagesInv => GroupsAreWhole
  BY DEF PagesInv
<1> QED BY <1>1, PagesInvariant, PTL
=============================================================================
