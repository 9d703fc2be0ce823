------------------------------ MODULE UiCache ------------------------------
(***************************************************************************)
(* The caches of the web interface (webui/routes.py): the payload of       *)
(* /ui/api/scans, kept with the limit it was made for, and that of         *)
(* /ui/api/stats. Each is a dict that threads of asyncio.to_thread read    *)
(* and write field by field, without a lock.                               *)
(* Time is relative: ages count up, and what is left of a payload counts   *)
(* down, so that the clock itself is never written.                        *)
(***************************************************************************)
EXTENDS Integers

CONSTANTS
  Threads,     \* the threads that answer requests
  Limits,      \* the limits clients ask for
  NoLimit,     \* the limit of a request for statistics
  None,        \* no payload
  TTL,         \* how long a payload is good for
  MaxRequest   \* bound: the longest time a request takes

ASSUME CacheAssumption ==
  /\ TTL \in Nat \ {0} /\ MaxRequest \in Nat
  /\ NoLimit \notin Limits

VARIABLES
  keyed,    \* TRUE: the cache of scans, FALSE: the cache of statistics
  data,     \* what the database says: 0, or 1 once a scan has been recorded
  payload,  \* scans_cache["payload"]
  left,     \* scans_cache["expires_at"] - now
  limit,    \* scans_cache["limit"]
  req,      \* the request of each thread
  mixed     \* history: two threads were filling the cache when it was last filled

cacheVars == <<keyed, data, payload, left, limit, req, mixed>>

\* Ages above this one are not told apart.
Bound == TTL + MaxRequest
OldAge == Bound + 1

Payload == [limit : Limits \cup {NoLimit}, age : 0..OldAge, data : {0, 1}]

Steps == {"idle", "payload", "limit", "test", "build", "writePayload",
          "writeExpires", "writeLimit", "answered"}
Request == [step : Steps, want : Limits \cup {NoLimit}, elapsed : 0..MaxRequest,
            seen : Payload \cup {None}, quiet : BOOLEAN]

CacheInit ==
  /\ keyed \in BOOLEAN
  /\ data = 0 /\ mixed = FALSE
  /\ payload = None /\ left = 0 /\ limit = None
  /\ req = [t \in Threads |-> [step |-> "idle", want |-> NoLimit, elapsed |-> 0,
                               seen |-> None, quiet |-> TRUE]]

------------------------------------------------------------------------------
\* One request: _cached_scans_payload, _cached_stats_payload

Asked(t, s) == req[t].step = s
Filling(t) == req[t].step \in {"writeExpires", "writeLimit"}

\* seen is what the thread is going to return: what it read, or what it built. It is
\* quiet while nobody is filling the cache between its first read and its test, and one
\* thread alone had filled it last.
Ask(t, l) ==
  /\ req[t].step \in {"idle", "answered"}
  /\ req' = [req EXCEPT ![t] = [step |-> "payload", want |-> l, elapsed |-> 0,
                                seen |-> None, quiet |-> TRUE]]
  /\ UNCHANGED <<keyed, data, payload, left, limit, mixed>>

\* What was read is forgotten as soon as it cannot be returned any more.
Miss(t) == [req[t] EXCEPT !.step = "build", !.seen = None, !.quiet = TRUE]

ReadPayload(t) ==
  /\ Asked(t, "payload")
  /\ req' = [req EXCEPT ![t] = IF payload = None THEN Miss(t)
                ELSE [@ EXCEPT !.step = "limit", !.seen = payload,
                               !.quiet = ~mixed /\ \A u \in Threads : ~Filling(u)]]
  /\ UNCHANGED <<keyed, data, payload, left, limit, mixed>>

\* Mutant: the limit of the cache is not looked at.
ReadAnyLimit(t) ==
  /\ Asked(t, "limit")
  /\ req' = [req EXCEPT ![t] = [@ EXCEPT !.step = "test"]]
  /\ UNCHANGED <<keyed, data, payload, left, limit, mixed>>

ReadLimit(t) ==
  /\ Asked(t, "limit")
  /\ req' = [req EXCEPT ![t] = IF keyed /\ limit # req[t].want THEN Miss(t)
                ELSE [@ EXCEPT !.step = "test"]]
  /\ UNCHANGED <<keyed, data, payload, left, limit, mixed>>

\* now was read when the request began: now < expires_at.
Hit(t) == 0 - req[t].elapsed < left

Tested(t) == IF Hit(t) THEN [req[t] EXCEPT !.step = "answered", !.elapsed = 0] ELSE Miss(t)

\* Mutant: a payload that is asked for stays good.
TestAndKeep(t) ==
  /\ Asked(t, "test")
  /\ req' = [req EXCEPT ![t] = Tested(t)]
  /\ left' = IF Hit(t) THEN TTL ELSE left
  /\ UNCHANGED <<keyed, data, payload, limit, mixed>>

Test(t) ==
  /\ Asked(t, "test")
  /\ req' = [req EXCEPT ![t] = Tested(t)]
  /\ UNCHANGED <<keyed, data, payload, left, limit, mixed>>

\* The queries; the age of a payload is that of the first of them.
Build(t) ==
  /\ Asked(t, "build")
  /\ req' = [req EXCEPT ![t] = [@ EXCEPT !.step = "writePayload",
                !.seen = [limit |-> req[t].want, age |-> 0, data |-> data]]]
  /\ UNCHANGED <<keyed, data, payload, left, limit, mixed>>

\* A thread that writes disturbs those that are reading.
AfterWrite(t, next) ==
  [u \in Threads |->
     IF u = t THEN [req[t] EXCEPT !.step = next,
                                  !.elapsed = IF next = "answered" THEN 0 ELSE @]
     ELSE [req[u] EXCEPT !.quiet = @ /\ req[u].step \notin {"limit", "test"}]]
Alone(t) == \A u \in Threads \ {t} : ~Filling(u)

WritePayload(t) ==
  /\ Asked(t, "writePayload")
  /\ payload' = req[t].seen
  /\ req' = AfterWrite(t, "writeExpires")
  /\ mixed' = ~Alone(t)
  /\ UNCHANGED <<keyed, data, left, limit>>

\* Mutant: the time the request took is added to the time to live.
ExpireLate(t) ==
  /\ Asked(t, "writeExpires")
  /\ left' = TTL + req[t].elapsed
  /\ req' = AfterWrite(t, IF keyed THEN "writeLimit" ELSE "answered")
  /\ mixed' = (mixed \/ ~Alone(t))
  /\ UNCHANGED <<keyed, data, payload, limit>>

\* The time to live counts from the beginning of the request.
WriteExpires(t) ==
  /\ Asked(t, "writeExpires")
  /\ left' = TTL - req[t].elapsed
  /\ req' = AfterWrite(t, IF keyed THEN "writeLimit" ELSE "answered")
  /\ mixed' = (mixed \/ ~Alone(t))
  /\ UNCHANGED <<keyed, data, payload, limit>>

WriteLimit(t) ==
  /\ Asked(t, "writeLimit")
  /\ limit' = req[t].want
  /\ req' = AfterWrite(t, "answered")
  /\ mixed' = (mixed \/ ~Alone(t))
  /\ UNCHANGED <<keyed, data, payload, left>>

------------------------------------------------------------------------------
\* Time, and a scan that ends

Older(p) == IF p = None \/ p.age = OldAge THEN p ELSE [p EXCEPT !.age = @ + 1]
Busy(t) == req[t].step \notin {"idle", "answered"}

\* What has been answered is kept as it was at that moment.
Tick ==
  /\ \A t \in Threads : Busy(t) => req[t].elapsed < MaxRequest
  /\ payload' = Older(payload)
  /\ left' = IF left > 0 - MaxRequest THEN left - 1 ELSE left
  /\ req' = [t \in Threads |->
               IF Busy(t) THEN [req[t] EXCEPT !.elapsed = @ + 1, !.seen = Older(@)]
                          ELSE req[t]]
  /\ UNCHANGED <<keyed, data, limit, mixed>>

\* insert_scan_run, a dedup run, new artifacts.
RecordScan ==
  /\ data = 0
  /\ data' = 1
  /\ UNCHANGED <<keyed, payload, left, limit, req, mixed>>

Answering(t) ==
  \/ ReadPayload(t) \/ ReadLimit(t) \/ Test(t) \/ Build(t)
  \/ WritePayload(t) \/ WriteExpires(t) \/ WriteLimit(t)
Asking(t) == \E l \in IF keyed THEN Limits ELSE {NoLimit} : Ask(t, l)

ThreadStep(t) == Asking(t) \/ Answering(t)
CacheNext == (\E t \in Threads : ThreadStep(t)) \/ Tick \/ RecordScan

\* Threads go on, time passes, and the page polls: app.js sets an interval for each of
\* the two routes.
CacheFairness ==
  /\ WF_cacheVars(Tick)
  /\ \A t \in Threads : WF_cacheVars(ThreadStep(t))

CacheSpec == CacheInit /\ [][CacheNext]_cacheVars /\ CacheFairness

------------------------------------------------------------------------------
\* Properties

\* Every variable has its type (the two dicts and the locals of the two functions).
CacheTypeOK ==
  /\ keyed \in BOOLEAN /\ data \in {0, 1} /\ mixed \in BOOLEAN
  /\ payload \in Payload \cup {None}
  /\ left \in (0 - MaxRequest)..TTL
  /\ limit \in Limits \cup {None}
  /\ req \in [Threads -> Request]

\* An answer is made of data no older than the time to live (15 s and 30 s as documented)
\* and what a request takes, unless two threads were filling the cache at once when it was
\* last filled, or one was while this request read it: payload and expiry may then come
\* from two threads.
QuietServedInTime ==
  \A t \in Threads : Asked(t, "answered") /\ req[t].quiet => req[t].seen.age <= Bound

\* With the same exception a client gets the number of runs it asked for.
WrongLimitNeedsOverlap ==
  \A t \in Threads : Asked(t, "answered") /\ req[t].quiet => req[t].seen.limit = req[t].want

\* While clients go on asking, a scan that has been recorded is shown in the end.
ScanIsShown ==
  data = 1 ~> \E t \in Threads : Asked(t, "answered") /\ req[t].seen.data = 1
=============================================================================
