------------------------- MODULE FlexIngest_proofs -------------------------
(***************************************************************************)
(* Proofs, for every value of the constants, of the safety of FlexIngest.  *)
(***************************************************************************)
EXTENDS FlexIngest, TLAPS

---------------------------------------------------------------------------
(* What each statement of JobTable does to the row it writes. *)

\* The columns no UPDATE of claim.py or ingest.py touches.
SameJob(r, s) == s.kind = r.kind /\ s.src = r.src /\ s.hash = r.hash

\* A row as enqueue.py inserts it.
LEMMA NewRowFacts ==
    ASSUME NEW k \in Kinds, NEW src \in {"slot", "api", "catchup", "manual"}, NEW h \in 0..MaxHash,
           NEW s \in {"pending", "running"}, NEW n \in Nat
    PROVE  NewRow(k, src, h, s, n) \in Row
BY TableAssumption DEF TableAssumption, NewRow, Row, Category

\* claim_next on one row.
LEMMA ClaimedFacts ==
    ASSUME NEW r \in Row
    PROVE  /\ Claimed(r) \in Row /\ SameJob(r, Claimed(r))
           /\ Claimed(r).status = "running"
           /\ Claimed(r).attempts = r.attempts + 1
           /\ Claimed(r).age = 0
BY TableAssumption DEF TableAssumption, Set, Claimed, Row, SameJob

\* reclaim_stale_running on one row.
LEMMA ReclaimedFacts ==
    ASSUME NEW r \in Row
    PROVE  /\ Reclaimed(r) \in Row /\ SameJob(r, Reclaimed(r))
           /\ Reclaimed(r).attempts = r.attempts
           /\ Reclaimed(r).status = IF r.attempts < MaxOf(r) THEN "pending" ELSE "failed"
BY TableAssumption DEF TableAssumption, Set, Reclaimed, Requeued, GivenUp, Row, Category, SameJob

\* mark_done, mark_retry and mark_failed on one row.
LEMMA MarkedFacts ==
    ASSUME NEW r \in Row, NEW cat \in Category, NEW d \in Nat
    PROVE  /\ DoneRow(r) \in Row /\ SameJob(r, DoneRow(r))
           /\ DoneRow(r).status = "done" /\ DoneRow(r).attempts = r.attempts
           /\ Retried(r, cat, d) \in Row /\ SameJob(r, Retried(r, cat, d))
           /\ Retried(r, cat, d).status = "pending" /\ Retried(r, cat, d).attempts = r.attempts
           /\ Retried(r, cat, d).wait = d
           /\ Failed(r, cat) \in Row /\ SameJob(r, Failed(r, cat))
           /\ Failed(r, cat).status = "failed" /\ Failed(r, cat).attempts = r.attempts
           /\ DoneRow(r).age = 0 /\ Retried(r, cat, d).age = 0 /\ Failed(r, cat).age = 0
<1> USE TableAssumption DEF TableAssumption, Row, Category, SameJob
<1>1. /\ DoneRow(r) \in Row /\ SameJob(r, DoneRow(r))
      /\ DoneRow(r).status = "done" /\ DoneRow(r).attempts = r.attempts
      /\ DoneRow(r).age = 0
  BY DEF Set, DoneRow
<1>2. /\ Retried(r, cat, d) \in Row /\ SameJob(r, Retried(r, cat, d))
      /\ Retried(r, cat, d).status = "pending" /\ Retried(r, cat, d).attempts = r.attempts
      /\ Retried(r, cat, d).wait = d /\ Retried(r, cat, d).age = 0
  BY DEF Set, Retried
<1>3. /\ Failed(r, cat) \in Row /\ SameJob(r, Failed(r, cat))
      /\ Failed(r, cat).status = "failed" /\ Failed(r, cat).attempts = r.attempts
      /\ Failed(r, cat).age = 0
  BY DEF Set, Failed
<1> QED BY <1>1, <1>2, <1>3

\* What moves only wait, age or recent: a deferral, a release, time.
SameAttempt(r, s) == SameJob(r, s) /\ s.status = r.status /\ s.attempts = r.attempts

\* defer_pending, run_job_now's UPDATE, a tick and a planned fire on one row.
LEMMA MovedFacts ==
    ASSUME NEW r \in Row, NEW d \in Nat
    PROVE  /\ Deferred(r, d) \in Row /\ SameAttempt(r, Deferred(r, d))
           /\ Deferred(r, d).wait >= d /\ Deferred(r, d).wait >= r.wait
           /\ Deferred(r, d).age = r.age
           /\ Released(r) \in Row /\ SameAttempt(r, Released(r)) /\ Released(r).age = r.age
           /\ OlderRow(r) \in Row /\ SameAttempt(r, OlderRow(r))
           /\ OlderRow(r).wait >= r.wait - 1
           /\ OlderRow(r).age <= r.age + 1
           /\ [r EXCEPT !.recent = FALSE] \in Row
           /\ SameAttempt(r, [r EXCEPT !.recent = FALSE])
           /\ [r EXCEPT !.recent = FALSE].age = r.age
           /\ [r EXCEPT !.recent = FALSE].wait = r.wait
<1> USE TableAssumption DEF TableAssumption, Row, SameJob, SameAttempt
<1>1. /\ Deferred(r, d) \in Row /\ SameAttempt(r, Deferred(r, d))
      /\ Deferred(r, d).wait >= d /\ Deferred(r, d).wait >= r.wait
      /\ Deferred(r, d).age = r.age
  BY DEF Deferred
<1>2. Released(r) \in Row /\ SameAttempt(r, Released(r)) /\ Released(r).age = r.age
  BY DEF Released
<1>3. /\ OlderRow(r) \in Row /\ SameAttempt(r, OlderRow(r))
      /\ OlderRow(r).wait >= r.wait - 1
      /\ OlderRow(r).age <= r.age + 1
  BY DEF Set, OlderRow
<1>4. /\ [r EXCEPT !.recent = FALSE] \in Row
      /\ SameAttempt(r, [r EXCEPT !.recent = FALSE])
      /\ [r EXCEPT !.recent = FALSE].age = r.age
      /\ [r EXCEPT !.recent = FALSE].wait = r.wait
  OBVIOUS
<1> QED BY <1>1, <1>2, <1>3, <1>4

---------------------------------------------------------------------------
(* Type correctness. *)

\* Every statement maps a table to a table.
LEMMA TableTypes ==
    ASSUME NEW t \in [Ids -> Row], NEW j \in Ids, NEW cat \in Category, NEW d \in Nat, NEW x
    PROVE  /\ claim_next(t, j) \in [Ids -> Row]
           /\ reclaim_stale_running(t) \in [Ids -> Row]
           /\ mark_done(t, j) \in [Ids -> Row]
           /\ mark_retry(t, j, cat, d) \in [Ids -> Row]
           /\ mark_failed(t, j, cat) \in [Ids -> Row]
           /\ defer_pending(t, d, x) \in [Ids -> Row]
           /\ clear_not_before(t, j) \in [Ids -> Row]
           /\ Older(t) \in [Ids -> Row]
           /\ BeforeFire(t) \in [Ids -> Row]
<1>0. \A i \in Ids : t[i] \in Row
  OBVIOUS
<1>1. claim_next(t, j) \in [Ids -> Row]
  BY <1>0, ClaimedFacts DEF claim_next
<1>2. reclaim_stale_running(t) \in [Ids -> Row]
  BY <1>0, ReclaimedFacts DEF reclaim_stale_running
<1>3. /\ mark_done(t, j) \in [Ids -> Row]
      /\ mark_retry(t, j, cat, d) \in [Ids -> Row]
      /\ mark_failed(t, j, cat) \in [Ids -> Row]
  BY <1>0, MarkedFacts DEF mark_done, mark_retry, mark_failed
<1>4. /\ defer_pending(t, d, x) \in [Ids -> Row]
      /\ clear_not_before(t, j) \in [Ids -> Row]
      /\ Older(t) \in [Ids -> Row]
      /\ BeforeFire(t) \in [Ids -> Row]
  BY <1>0, MovedFacts DEF defer_pending, clear_not_before, Older, BeforeFire
<1> QED BY <1>1, <1>2, <1>3, <1>4

\* insert_job and insert_manual_job, and the two outcomes of Enqueue.
LEMMA InsertTypes ==
    ASSUME NEW t \in [Ids -> Row], NEW j \in Ids, NEW k \in Kinds,
           NEW src \in {"slot", "api", "catchup"}, NEW h \in 0..MaxHash
    PROVE  /\ insert_job(t, j, k, src, h) \in [Ids -> Row]
           /\ insert_manual_job(t, j, k) \in [Ids -> Row]
<1>1. NewRow(k, src, h, "pending", 0) \in Row
  BY NewRowFacts
<1>2. NewRow(k, "manual", 0, "running", 1) \in Row
  <2>1. 0 \in 0..MaxHash
    BY TableAssumption DEF TableAssumption
  <2> QED BY <2>1, NewRowFacts
<1> QED BY <1>1, <1>2 DEF insert_job, insert_manual_job

\* The locals of run_forever in each of its states.
LEMMA WorkerTypes ==
    ASSUME NEW j \in Ids, NEW n \in Nat, NEW cat \in Category, NEW b \in BOOLEAN,
           NEW pc \in WorkerPc, NEW todo \in SUBSET Kinds, NEW h \in 0..MaxHash
    PROVE  /\ Idling(pc, n) \in WorkerState
           /\ CatchingUp(todo, h) \in WorkerState
           /\ Handling(pc, j, n, cat, b) \in WorkerState
BY TableAssumption DEF TableAssumption, Ids, WorkerPc, Category, WorkerState, Idling, CatchingUp, Handling

\* The state of an API request.
LEMMA ClientTypes ==
    ASSUME NEW j \in 0..MaxJobs, NEW k \in Kinds, NEW b \in BOOLEAN, NEW cat \in Category,
           NEW pc \in ClientPc
    PROVE  /\ ClientIdle \in ClientState
           /\ RunNowRequest(j, b) \in ClientState
           /\ ManualRun(pc, j, k, b, cat) \in ClientState
<1>1. AnyKind \in Kinds
  BY TableAssumption DEF TableAssumption, AnyKind
<1> QED
  BY <1>1, TableAssumption
     DEF TableAssumption, ClientPc, Category, ClientState, ClientIdle, RunNowRequest, ManualRun

\* classify_flex_error and plan_retry (retry.py).
LEMMA PlanTypes ==
    ASSUME NEW msg, NEW cat \in Category, NEW n \in Nat, NEW m \in Nat
    PROVE  /\ classify_flex_error(msg) \in Category
           /\ plan_retry(cat, n, m).retry \in BOOLEAN
           /\ plan_retry(cat, n, m).delay \in Nat
           /\ plan_retry(cat, n, m).cooldown \in Nat
           /\ plan_retry(cat, n, m).retry => n < m
           /\ plan_retry(cat, n, m).cooldown > 0 =>
                 plan_retry(cat, n, m).cooldown = plan_retry(cat, n, m).delay
<1>1. classify_flex_error(msg) \in Category
  BY DEF classify_flex_error, Category
<1>2. Delay(cat) \in Nat /\ ThrottledDelay \in Nat
  BY DelayAssumption DEF DelayAssumption, Delay
<1>3. Delay("throttled") = ThrottledDelay
  BY DEF Delay
<1> QED BY <1>1, <1>2, <1>3 DEF plan_retry

\* The job a worker has in hand is a row of the table.
InHand(w) == Holds(w) \/ worker[w].pc \in {"defer", "outcome"}

\* A worker step: if jobs, worker, fresh, landed and owed keep their types and
\* the worker's new state has a row in hand where it needs one, TypeOK is kept.
LEMMA TypeByParts ==
    ASSUME TypeOK, NEW w \in Workers, NEW s \in WorkerState, Become(w, s),
           s.pc \in {"dispatch", "landed", "done", "fail", "defer", "outcome"} => s.job \in Ids,
           jobs' \in [Ids -> Row],
           fresh' \in [Kinds -> [ok : BOOLEAN, ever : BOOLEAN, job : 0..MaxJobs]],
           landed' \subseteq Ids, owed' \in [Ids -> Nat],
           UNCHANGED <<client, clock>>
    PROVE  TypeOK'
BY DEF TypeOK, Become, Holds

\* What TypeOK says of a worker with a job in hand.
LEMMA InHandTypes ==
    ASSUME TypeOK, NEW w \in Workers, InHand(w)
    PROVE  /\ worker[w].job \in Ids
           /\ worker[w].attempts \in Nat
           /\ worker[w].category \in Category
           /\ jobs[worker[w].job] \in Row
           /\ jobs[worker[w].job].kind \in Kinds
           /\ MaxOf(jobs[worker[w].job]) \in Nat
<1>1. worker[w].job \in Ids
  BY DEF TypeOK, InHand
<1>2. worker[w] \in WorkerState /\ jobs[worker[w].job] \in Row
  BY <1>1 DEF TypeOK
<1> QED BY <1>1, <1>2, TableAssumption DEF TableAssumption, WorkerState, Row, MaxOf

\* record_freshness (ddl.py) writes a freshness row.
LEMMA FreshType ==
    ASSUME TypeOK, NEW k \in Kinds, NEW ok \in BOOLEAN, NEW j \in 0..MaxJobs,
           record_freshness(k, ok, j)
    PROVE  fresh' \in [Kinds -> [ok : BOOLEAN, ever : BOOLEAN, job : 0..MaxJobs]]
BY DEF TypeOK, record_freshness

\* FailEffect: mark_retry or mark_failed, and the wait promised.
LEMMA FailTypes ==
    ASSUME TypeOK, NEW w \in Workers, worker[w].pc = "fail", FailEffect(w)
    PROVE  jobs' \in [Ids -> Row] /\ owed' \in [Ids -> Nat]
<1>1. InHand(w)
  BY DEF InHand, Holds
<1>2. /\ PlanOf(w).delay \in Nat /\ PlanOf(w).cooldown \in Nat
      /\ worker[w].job \in Ids /\ worker[w].category \in Category
  BY <1>1, InHandTypes, PlanTypes DEF PlanOf
<1>3. jobs \in [Ids -> Row] /\ owed \in [Ids -> Nat]
  BY DEF TypeOK
<1>4. CASE PlanOf(w).retry
  <2>1. /\ jobs' = mark_retry(jobs, worker[w].job, worker[w].category, PlanOf(w).delay)
        /\ owed' = [owed EXCEPT ![worker[w].job] = PlanOf(w).cooldown]
    BY <1>4 DEF FailEffect
  <2> QED BY <1>2, <1>3, <2>1, TableTypes
<1>5. CASE ~PlanOf(w).retry
  <2>1. jobs' = mark_failed(jobs, worker[w].job, worker[w].category) /\ owed' = owed
    BY <1>5 DEF FailEffect
  <2> QED BY <1>2, <1>3, <2>1, TableTypes
<1> QED BY <1>4, <1>5

\* DeferEffect: defer_pending, and the wait promised.
LEMMA DeferTypes ==
    ASSUME TypeOK, NEW w \in Workers, DeferEffect(w)
    PROVE  jobs' \in [Ids -> Row] /\ owed' \in [Ids -> Nat]
<1>1. ThrottledDelay \in Nat
  BY DelayAssumption DEF DelayAssumption
<1>2. jobs \in [Ids -> Row] /\ owed \in [Ids -> Nat] /\ 1 \in Ids /\ "none" \in Category
  BY TableAssumption DEF TableAssumption, TypeOK, Ids, Category
<1> QED BY <1>1, <1>2, TableTypes DEF DeferEffect

\* INSERT ... ON CONFLICT DO NOTHING (enqueue.py).
LEMMA EnqueueType ==
    ASSUME TypeOK, NEW k \in Kinds, NEW src \in {"slot", "api", "catchup"}, NEW h \in 0..MaxHash,
           Enqueue(k, src, h)
    PROVE  jobs' \in [Ids -> Row]
BY InsertTypes DEF TypeOK, Enqueue

\* Init of FlexIngest is well typed.
LEMMA TypeInit == Init => TypeOK
<1> SUFFICES ASSUME Init PROVE TypeOK
  OBVIOUS
<1> USE TableAssumption, IngestAssumption DEF TableAssumption, IngestAssumption
<1>1. AnyKind \in Kinds
  BY DEF AnyKind
<1>2. NoRow \in Row
  BY <1>1 DEF NoRow, Row, Category
<1>3. Idling("down", 0) \in WorkerState /\ Idling("down", 0).pc = "down"
  BY DEF Idling, WorkerState, WorkerPc, Category
<1>4. ClientIdle \in ClientState /\ ClientIdle.pc = "idle"
  BY <1>1 DEF ClientIdle, ClientState, ClientPc, Category
<1>5. jobs \in [Ids -> Row] /\ worker \in [Workers -> WorkerState]
      /\ client \in [Clients -> ClientState]
  BY <1>2, <1>3, <1>4 DEF Init
<1>6. \A w \in Workers : worker[w].pc = "down"
  BY <1>3 DEF Init
<1>7. \A c \in Clients : client[c].pc = "idle"
  BY <1>4 DEF Init
<1>8. /\ fresh \in [Kinds -> [ok : BOOLEAN, ever : BOOLEAN, job : 0..MaxJobs]]
      /\ clock \in [day : 1..MaxDay, age : Nat]
      /\ landed \subseteq Ids
      /\ owed \in [Ids -> Nat]
  BY DEF Init
<1> QED BY <1>5, <1>6, <1>7, <1>8 DEF TypeOK, Holds

\* A step of the worker loop keeps the types.
LEMMA TypeWorker ==
    ASSUME TypeOK, NEW w \in Workers, WorkerStep(w)
    PROVE  TypeOK'
<1> USE TableAssumption, IngestAssumption DEF TableAssumption, IngestAssumption
<1>0. /\ jobs \in [Ids -> Row] /\ owed \in [Ids -> Nat] /\ landed \subseteq Ids
      /\ worker[w] \in WorkerState /\ worker[w].idle \in Nat /\ worker[w].todo \in SUBSET Kinds
      /\ worker[w].as_of \in 0..MaxHash
      /\ fresh \in [Kinds -> [ok : BOOLEAN, ever : BOOLEAN, job : 0..MaxJobs]]
      /\ 1 \in Ids /\ 0 \in 0..MaxHash /\ "none" \in Category
      /\ clock.day \in 0..MaxHash
      /\ \A j \in Ids : j \in 0..MaxJobs /\ jobs[j] \in Row /\ jobs[j].attempts \in Nat
  <2>1. /\ jobs \in [Ids -> Row] /\ owed \in [Ids -> Nat] /\ landed \subseteq Ids
        /\ fresh \in [Kinds -> [ok : BOOLEAN, ever : BOOLEAN, job : 0..MaxJobs]]
        /\ worker[w] \in WorkerState
    BY DEF TypeOK
  <2>2. clock.day \in 0..MaxHash
    BY DEF TypeOK
  <2>3. /\ worker[w].idle \in Nat /\ worker[w].todo \in SUBSET Kinds
        /\ worker[w].as_of \in 0..MaxHash
    BY <2>1 DEF WorkerState
  <2>4. 1 \in Ids /\ 0 \in 0..MaxHash /\ "none" \in Category
    BY DEF Ids, Category
  <2>5. \A j \in Ids : j \in 0..MaxJobs /\ jobs[j] \in Row /\ jobs[j].attempts \in Nat
    <3>1. \A j \in Ids : j \in 0..MaxJobs
      BY DEF Ids
    <3>2. \A j \in Ids : jobs[j] \in Row
      BY <2>1
    <3>3. \A r \in Row : r.attempts \in Nat
      BY DEF Row
    <3> QED BY <3>1, <3>2, <3>3
  <2> QED BY <2>1, <2>2, <2>3, <2>4, <2>5
<1>a. ASSUME NEW pc \in WorkerPc, NEW n \in Nat
      PROVE  Idling(pc, n) \in WorkerState /\ Idling(pc, n).pc = pc
  BY <1>0, WorkerTypes DEF Idling
<1>b. ASSUME NEW todo \in SUBSET Kinds, NEW h \in 0..MaxHash
      PROVE  CatchingUp(todo, h) \in WorkerState /\ CatchingUp(todo, h).pc = "enqueue"
  <2>1. "enqueue" \in WorkerPc BY DEF WorkerPc
  <2> QED BY <1>0, <2>1, WorkerTypes DEF CatchingUp
<1>c. ASSUME NEW pc \in WorkerPc, NEW j \in Ids, NEW n \in Nat, NEW cat \in Category, NEW b \in BOOLEAN
      PROVE  Handling(pc, j, n, cat, b) \in WorkerState /\ Handling(pc, j, n, cat, b).job \in Ids
  BY <1>0, WorkerTypes DEF Handling
<1>d. {"down", "claim", "reclaim", "catchup", "dispatch", "landed", "done", "fail", "defer", "outcome"}
        \subseteq WorkerPc
  BY DEF WorkerPc
<1>1. CASE Start(w)
  BY <1>1, <1>0, <1>a, <1>d, TypeByParts, TableTypes DEF Start
<1>2. CASE Claim(w)
  <2>1. PICK j \in Ids : /\ jobs' = claim_next(jobs, j)
                         /\ Become(w, Handling("dispatch", j, jobs[j].attempts + 1, "none", FALSE))
    BY <1>2 DEF Claim
  <2>2. UNCHANGED <<client, fresh, clock, landed, owed>>
    BY <1>2 DEF Claim
  <2>3. jobs' \in [Ids -> Row] /\ jobs[j].attempts + 1 \in Nat
    <3>1. jobs' \in [Ids -> Row]
      BY <1>0, <2>1, TableTypes
    <3>2. jobs[j].attempts + 1 \in Nat
      BY <1>0
    <3> QED BY <3>1, <3>2
  <2>4. /\ Handling("dispatch", j, jobs[j].attempts + 1, "none", FALSE) \in WorkerState
        /\ Handling("dispatch", j, jobs[j].attempts + 1, "none", FALSE).job \in Ids
    BY <1>0, <1>c, <1>d, <2>3
  <2> QED BY <1>0, <2>1, <2>2, <2>3, <2>4, TypeByParts
<1>3. CASE Poll(w)
  <2> DEFINE s == IF worker[w].idle + 1 >= ReclaimEvery
                  THEN Idling("reclaim", 0) ELSE Idling("claim", worker[w].idle + 1)
  <2>1. s \in WorkerState /\ s.pc \in {"claim", "reclaim"}
    <3>1. worker[w].idle + 1 \in Nat /\ 0 \in Nat
      BY <1>0
    <3>2. "claim" \in WorkerPc /\ "reclaim" \in WorkerPc
      BY <1>d
    <3>3. /\ Idling("reclaim", 0) \in WorkerState /\ Idling("reclaim", 0).pc = "reclaim"
          /\ Idling("claim", worker[w].idle + 1) \in WorkerState
          /\ Idling("claim", worker[w].idle + 1).pc = "claim"
      BY <1>a, <3>1, <3>2
    <3> QED BY <3>3
  <2>2. Become(w, s) /\ UNCHANGED <<jobs, client, fresh, clock, landed, owed>>
    BY <1>3 DEF Poll
  <2> QED BY <1>0, <2>1, <2>2, TypeByParts
<1>4. CASE Reclaim(w)
  BY <1>4, <1>0, <1>a, <1>d, TypeByParts, TableTypes DEF Reclaim
<1>5. CASE CatchupRead(w)
  <2>1. missed_slots(jobs) \in SUBSET Kinds
    BY DEF missed_slots
  <2> DEFINE s == IF missed_slots(jobs) = {} THEN Idling("claim", 0)
                  ELSE CatchingUp(missed_slots(jobs), clock.day)
  <2>2. s \in WorkerState /\ s.pc \in {"claim", "enqueue"}
    BY <1>0, <1>a, <1>b, <1>d, <2>1
  <2>3. Become(w, s) /\ UNCHANGED <<jobs, client, fresh, clock, landed, owed>>
    BY <1>5 DEF CatchupRead
  <2> QED BY <1>0, <2>2, <2>3, TypeByParts
<1>6. CASE CatchupEnqueue(w)
  <2>1. PICK k \in worker[w].todo :
               /\ Enqueue(k, "catchup", worker[w].as_of)
               /\ Become(w, IF worker[w].todo = {k} THEN Idling("claim", 0)
                            ELSE CatchingUp(worker[w].todo \ {k}, worker[w].as_of))
    BY <1>6 DEF CatchupEnqueue
  <2>2. jobs' \in [Ids -> Row]
    BY <1>0, <2>1, EnqueueType
  <2> QED BY <1>6, <1>0, <1>a, <1>b, <1>d, <2>1, <2>2, TypeByParts DEF CatchupEnqueue
<1>e. ASSUME InHand(w), NEW pc \in WorkerPc, NEW b \in BOOLEAN, NEW cat \in Category
      PROVE  LET s == Handling(pc, worker[w].job, worker[w].attempts, cat, b)
             IN  s \in WorkerState /\ s.job \in Ids
  BY <1>c, <1>e, InHandTypes
<1>7. CASE FetchOk(w)
  <2>1. InHand(w) /\ worker[w].job \in Ids
    BY <1>7, InHandTypes DEF FetchOk, InHand, Holds
  <2> QED BY <1>7, <1>0, <1>d, <1>e, <2>1, InHandTypes, TypeByParts DEF FetchOk, Goto
<1>8. CASE FetchError(w)
  <2>1. InHand(w)
    BY <1>8 DEF FetchError, InHand, Holds
  <2>2. PICK msg \in Messages : Raise(w, msg)
    BY <1>8 DEF FetchError
  <2>3. classify_flex_error(msg) \in Category
    BY <1>0, PlanTypes
  <2> QED BY <1>8, <1>0, <1>d, <1>e, <2>1, <2>2, <2>3, TypeByParts DEF FetchError, Raise
<1>9. CASE RecordOk(w)
  <2>1. InHand(w)
    BY <1>9 DEF RecordOk, InHand, Holds
  <2>2. fresh' \in [Kinds -> [ok : BOOLEAN, ever : BOOLEAN, job : 0..MaxJobs]]
    BY <1>9, <1>0, <2>1, InHandTypes, FreshType DEF RecordOk
  <2> QED BY <1>9, <1>0, <1>d, <1>e, <2>1, <2>2, InHandTypes, TypeByParts DEF RecordOk, Goto
<1>10. CASE RecordOkRaises(w)
  <2>1. InHand(w)
    BY <1>10 DEF RecordOkRaises, InHand, Holds
  <2>2. PICK msg \in {{}, {"transientMarker"}} : Raise(w, msg)
    BY <1>10 DEF RecordOkRaises
  <2>3. classify_flex_error(msg) \in Category
    BY <1>0, PlanTypes
  <2>4. fresh' \in [Kinds -> [ok : BOOLEAN, ever : BOOLEAN, job : 0..MaxJobs]]
    BY <1>10, <1>0, <2>1, InHandTypes, FreshType DEF RecordOkRaises
  <2> QED BY <1>10, <1>0, <1>d, <1>e, <2>1, <2>2, <2>3, <2>4, TypeByParts DEF RecordOkRaises, Raise
<1>11. CASE MarkDone(w)
  <2>1. InHand(w) /\ worker[w].job \in Ids
    BY <1>11, InHandTypes DEF MarkDone, InHand, Holds
  <2> QED BY <1>11, <1>0, <1>a, <1>d, <2>1, TableTypes, TypeByParts DEF MarkDone
<1>12. CASE Fail(w)
  <2>1. InHand(w) /\ jobs' \in [Ids -> Row] /\ owed' \in [Ids -> Nat]
    BY <1>12, FailTypes DEF Fail, InHand, Holds
  <2> QED BY <1>12, <1>0, <1>d, <1>e, <2>1, InHandTypes, TypeByParts DEF Fail, Goto
<1>13. CASE Defer(w)
  <2>1. InHand(w) /\ jobs' \in [Ids -> Row] /\ owed' \in [Ids -> Nat]
    BY <1>13, DeferTypes DEF Defer, InHand, Holds
  <2> QED BY <1>13, <1>0, <1>d, <1>e, <2>1, InHandTypes, TypeByParts DEF Defer, Goto
<1>14. CASE Outcome(w)
  <2>1. InHand(w)
    BY <1>14 DEF Outcome, InHand, Holds
  <2>2. fresh' \in [Kinds -> [ok : BOOLEAN, ever : BOOLEAN, job : 0..MaxJobs]]
    BY <1>14, <1>0, <2>1, InHandTypes, FreshType DEF Outcome
  <2> QED BY <1>14, <1>0, <1>a, <1>d, <2>2, TypeByParts DEF Outcome
<1> QED
  BY <1>1, <1>2, <1>3, <1>4, <1>5, <1>6, <1>7, <1>8, <1>9, <1>10, <1>11, <1>12, <1>13, <1>14
     DEF WorkerStep

\* A crash, a swallowed exception and a lost answer keep the types.
LEMMA TypeFault ==
    ASSUME TypeOK, NEW w \in Workers, WorkerFault(w)
    PROVE  TypeOK'
<1>0. /\ jobs \in [Ids -> Row] /\ owed \in [Ids -> Nat] /\ landed \subseteq Ids
      /\ fresh \in [Kinds -> [ok : BOOLEAN, ever : BOOLEAN, job : 0..MaxJobs]]
      /\ worker[w] \in WorkerState
  BY DEF TypeOK
<1>1. worker[w].todo \in SUBSET Kinds /\ worker[w].as_of \in 0..MaxHash
  BY <1>0 DEF WorkerState
<1>2. 1 \in Ids /\ 0 \in 0..MaxHash /\ 0 \in Nat /\ "none" \in Category
  BY TableAssumption DEF TableAssumption, Ids, Category
<1>3. ASSUME NEW pc \in {"down", "claim", "catchup"}
      PROVE  Idling(pc, 0) \in WorkerState /\ Idling(pc, 0).pc = pc
  BY <1>2, WorkerTypes DEF Idling, WorkerPc
<1>4. CASE Crash(w)
  BY <1>4, <1>0, <1>3, TypeByParts DEF Crash
<1>5. CASE Swallowed(w)
  BY <1>5, <1>0, <1>3, TypeByParts DEF Swallowed
<1>6. CASE LostAck(w)
  <2>0. UNCHANGED <<client, fresh, clock, landed>>
    BY <1>6 DEF LostAck
  <2>a. ASSUME jobs' \in [Ids -> Row], owed' \in [Ids -> Nat], UNCHANGED worker
        PROVE  TypeOK'
    BY <2>0, <2>a DEF TypeOK, Holds
  <2>b. ASSUME Replay(w), InHand(w), jobs' \in [Ids -> Row], owed' \in [Ids -> Nat]
        PROVE  TypeOK'
    <3> DEFINE s == Handling(worker[w].pc, worker[w].job, worker[w].attempts,
                             worker[w].category, TRUE)
    <3>1. worker[w].pc \in WorkerPc
      BY <1>0 DEF WorkerState
    <3>2. s \in WorkerState
      BY <1>2, <2>b, <3>1, InHandTypes, WorkerTypes
    <3>3. s.job \in Ids
      BY <2>b, InHandTypes DEF Handling
    <3>4. Become(w, s)
      BY <2>b DEF Replay
    <3> QED BY <1>0, <2>0, <2>b, <3>2, <3>3, <3>4, TypeByParts
  <2>1. CASE worker[w].pc \in {"down", "reclaim"} /\ jobs' = reclaim_stale_running(jobs)
             /\ UNCHANGED <<worker, owed>>
    BY <1>0, <1>2, <2>1, <2>a, TableTypes
  <2>2. CASE worker[w].pc = "claim" /\ (\E j \in Ids : IsNextClaim(jobs, j) /\ jobs' = claim_next(jobs, j))
             /\ UNCHANGED <<worker, owed>>
    <3>1. PICK j \in Ids : jobs' = claim_next(jobs, j)
      BY <2>2
    <3>2. jobs' \in [Ids -> Row]
      BY <1>0, <1>2, <3>1, TableTypes
    <3> QED BY <1>0, <2>2, <2>a, <3>2
  <2>3. CASE worker[w].pc = "enqueue" /\ (\E k \in worker[w].todo : Enqueue(k, "catchup", worker[w].as_of))
             /\ Become(w, Idling("catchup", 0)) /\ UNCHANGED owed
    <3>1. jobs' \in [Ids -> Row]
      BY <1>1, <2>3, EnqueueType
    <3> QED BY <1>0, <1>3, <2>0, <2>3, <3>1, TypeByParts
  <2>4. CASE worker[w].pc = "done" /\ jobs' = mark_done(jobs, worker[w].job) /\ Replay(w)
             /\ UNCHANGED owed
    <3>1. InHand(w) /\ worker[w].job \in Ids
      BY <2>4, InHandTypes DEF InHand, Holds
    <3> QED BY <1>0, <1>2, <2>4, <2>b, <3>1, TableTypes
  <2>5. CASE worker[w].pc = "fail" /\ FailEffect(w) /\ Replay(w)
    BY <2>5, <2>b, FailTypes DEF InHand, Holds
  <2>6. CASE worker[w].pc = "defer" /\ DeferEffect(w) /\ UNCHANGED worker
    BY <2>6, <2>a, DeferTypes
  <2> QED BY <1>6, <2>1, <2>2, <2>3, <2>4, <2>5, <2>6 DEF LostAck
<1> QED BY <1>4, <1>5, <1>6 DEF WorkerFault

\* The trigger, the API and time keep the types.
LEMMA TypeEnvironment ==
    ASSUME TypeOK,
           \/ \E k \in Kinds : EnqueueSlot(k) \/ (\E h \in 1..MaxHash : EnqueueJob(k, h))
           \/ \E c \in Clients : ClientStep(c)
           \/ Tick \/ PlannedFire
    PROVE  TypeOK'
<1>0. /\ jobs \in [Ids -> Row] /\ owed \in [Ids -> Nat] /\ landed \subseteq Ids
      /\ fresh \in [Kinds -> [ok : BOOLEAN, ever : BOOLEAN, job : 0..MaxJobs]]
      /\ client \in [Clients -> ClientState]
      /\ clock \in [day : 1..MaxDay, age : Nat]
  BY DEF TypeOK
<1>1. 1 \in Ids /\ 0 \in 0..MaxHash /\ 0 \in Nat /\ "none" \in Category /\ 0 \in 0..MaxJobs
  BY TableAssumption DEF TableAssumption, Ids, Category
<1>2. \A j : j \in 0..MaxJobs <=> j = 0 \/ j \in Ids
  BY TableAssumption DEF TableAssumption, Ids
<1>a. ASSUME jobs' \in [Ids -> Row], UNCHANGED <<worker, client, fresh, clock, landed, owed>>
      PROVE  TypeOK'
  BY <1>a DEF TypeOK, Holds
<1>3. ASSUME NEW k \in Kinds, EnqueueSlot(k)
      PROVE  TypeOK'
  <2>1. UtcDay \in 0..MaxHash
    BY <1>0, IngestAssumption DEF IngestAssumption, UtcDay
  <2> QED BY <1>3, <1>a, <2>1, EnqueueType DEF EnqueueSlot
<1>4. ASSUME NEW k \in Kinds, NEW h \in 1..MaxHash, EnqueueJob(k, h)
      PROVE  TypeOK'
  <2>1. h \in 0..MaxHash
    BY TableAssumption DEF TableAssumption
  <2> QED BY <1>4, <1>a, <2>1, EnqueueType DEF EnqueueJob
<1>5. ASSUME NEW c \in Clients, ClientStep(c)
      PROVE  TypeOK'
  <2>0. /\ client[c] \in ClientState /\ client[c].job \in 0..MaxJobs /\ client[c].kind \in Kinds
        /\ client[c].ok \in BOOLEAN /\ client[c].category \in Category
        /\ client[c].pc = "runnow" => client[c].job \in Ids
    BY <1>0 DEF TypeOK, ClientState
  <2>i. ClientIdle \in ClientState /\ ClientIdle.pc = "idle"
    <3>1. "idle" \in ClientPc BY DEF ClientPc
    <3> QED BY <1>1, <2>0, <3>1, ClientTypes DEF ClientIdle
  <2>m. ASSUME NEW pc \in {"fetch", "mark", "freshness"}, NEW j \in 0..MaxJobs, NEW k \in Kinds,
               NEW b \in BOOLEAN, NEW cat \in Category
        PROVE  ManualRun(pc, j, k, b, cat) \in ClientState /\ ManualRun(pc, j, k, b, cat).pc = pc
    <3>1. pc \in ClientPc BY DEF ClientPc
    <3> QED BY <3>1, ClientTypes DEF ManualRun
  <2>p. ASSUME NEW s \in ClientState, client' = [client EXCEPT ![c] = s],
               s.pc = "runnow" => s.job \in Ids,
               jobs' \in [Ids -> Row], landed' \subseteq Ids, owed' \in [Ids -> Nat],
               fresh' \in [Kinds -> [ok : BOOLEAN, ever : BOOLEAN, job : 0..MaxJobs]],
               UNCHANGED <<worker, clock>>
        PROVE  TypeOK'
    BY <2>p DEF TypeOK, Holds
  <2>1. ASSUME NEW j \in Ids, NEW force \in BOOLEAN, RunNowRead(c, j, force)
        PROVE  TypeOK'
    <3>1. RunNowRequest(j, force) \in ClientState /\ RunNowRequest(j, force).job \in Ids
      <4>1. "idle" \in ClientPc BY DEF ClientPc
      <4> QED BY <1>1, <1>2, <2>0, <4>1, ClientTypes DEF RunNowRequest
    <3> QED BY <1>0, <2>1, <2>p, <3>1 DEF RunNowRead
  <2>2. CASE RunNowWrite(c)
    <3>1. client[c].job \in Ids
      BY <2>0, <2>2 DEF RunNowWrite
    <3>2. jobs' \in [Ids -> Row] /\ owed' \in [Ids -> Nat]
      BY <1>0, <1>1, <2>2, <3>1, TableTypes DEF RunNowWrite
    <3> QED BY <1>0, <2>2, <2>i, <2>p, <3>2 DEF RunNowWrite
  <2>3. ASSUME NEW k \in Kinds, ManualStart(c, k)
        PROVE  TypeOK'
    <3>1. CASE \E j \in Ids : /\ NextId(jobs, j)
                              /\ jobs' = insert_manual_job(jobs, j, k)
                              /\ client' = [client EXCEPT ![c] = ManualRun("fetch", j, k, FALSE, "none")]
      <4>1. PICK j \in Ids : /\ jobs' = insert_manual_job(jobs, j, k)
                             /\ client' = [client EXCEPT ![c] = ManualRun("fetch", j, k, FALSE, "none")]
        BY <3>1
      <4>2. jobs' \in [Ids -> Row]
        BY <1>0, <1>1, <4>1, InsertTypes
      <4> QED BY <1>0, <1>1, <1>2, <2>3, <2>m, <2>p, <4>1, <4>2 DEF ManualStart
    <3>2. CASE client' = [client EXCEPT ![c] = ManualRun("fetch", 0, k, FALSE, "none")] /\ UNCHANGED jobs
      BY <1>0, <1>1, <2>3, <2>m, <2>p, <3>2 DEF ManualStart
    <3> QED BY <2>3, <3>1, <3>2 DEF ManualStart
  <2>4. CASE ManualFetch(c)
    <3>1. CASE /\ client' = [client EXCEPT ![c] = ManualRun("mark", client[c].job, client[c].kind, TRUE, "none")]
               /\ landed' = landed \cup ({client[c].job} \ {0})
      <4>1. landed' \subseteq Ids
        BY <1>0, <1>2, <2>0, <3>1
      <4> QED BY <1>0, <1>1, <2>0, <2>4, <2>m, <2>p, <3>1, <4>1 DEF ManualFetch
    <3>2. ASSUME NEW msg \in Messages,
                 client' = [client EXCEPT ![c] = ManualRun("mark", client[c].job, client[c].kind, FALSE,
                                                           classify_flex_error(msg))],
                 UNCHANGED landed
          PROVE  TypeOK'
      <4>1. classify_flex_error(msg) \in Category
        BY <1>1, PlanTypes
      <4> QED BY <1>0, <2>0, <2>4, <2>m, <2>p, <3>2, <4>1 DEF ManualFetch
    <3> QED BY <2>4, <3>1, <3>2 DEF ManualFetch
  <2>5. CASE ManualMark(c)
    <3>1. jobs' \in [Ids -> Row]
      <4>1. CASE client[c].job = 0
        BY <1>0, <2>5, <4>1 DEF ManualMark
      <4>2. CASE client[c].job # 0
        <5>1. client[c].job \in Ids
          BY <1>2, <2>0, <4>2
        <5>2. /\ mark_done(jobs, client[c].job) \in [Ids -> Row]
              /\ mark_failed(jobs, client[c].job, client[c].category) \in [Ids -> Row]
          BY <1>0, <1>1, <2>0, <5>1, TableTypes
        <5> QED BY <2>5, <4>2, <5>2 DEF ManualMark
      <4> QED BY <4>1, <4>2
    <3>2. CASE client' = [client EXCEPT ![c] = ManualRun("freshness", client[c].job, client[c].kind,
                                                         client[c].ok, client[c].category)]
      BY <1>0, <2>0, <2>5, <2>m, <2>p, <3>1, <3>2 DEF ManualMark
    <3>3. CASE client' = [client EXCEPT ![c] = ClientIdle]
      BY <1>0, <2>5, <2>i, <2>p, <3>1, <3>3 DEF ManualMark
    <3> QED BY <2>5, <3>2, <3>3 DEF ManualMark
  <2>6. CASE ManualFreshness(c)
    <3>1. fresh' \in [Kinds -> [ok : BOOLEAN, ever : BOOLEAN, job : 0..MaxJobs]]
      BY <2>0, <2>6, FreshType DEF ManualFreshness
    <3> QED BY <1>0, <2>6, <2>i, <2>p, <3>1 DEF ManualFreshness
  <2>7. CASE ClientGone(c)
    BY <1>0, <2>7, <2>i, <2>p DEF ClientGone
  <2> QED BY <1>5, <2>1, <2>2, <2>3, <2>4, <2>5, <2>6, <2>7 DEF ClientStep
<1>6. CASE Tick
  <2>1. jobs' \in [Ids -> Row]
    BY <1>0, <1>1, <1>6, TableTypes DEF Tick
  <2>2. owed' \in [Ids -> Nat]
    BY <1>0, <1>6 DEF Tick
  <2>3. clock' \in [day : 1..MaxDay, age : Nat]
    BY <1>0, <1>6, IngestAssumption DEF IngestAssumption, Tick
  <2> QED BY <1>6, <2>1, <2>2, <2>3 DEF TypeOK, Tick, Holds
<1>7. CASE PlannedFire
  <2>1. jobs' \in [Ids -> Row]
    BY <1>0, <1>1, <1>7, TableTypes DEF PlannedFire
  <2>2. clock' \in [day : 1..MaxDay, age : Nat]
    BY <1>0, <1>7, IngestAssumption DEF IngestAssumption, PlannedFire
  <2> QED BY <1>7, <2>1, <2>2 DEF TypeOK, PlannedFire, Holds
<1> QED BY <1>3, <1>4, <1>5, <1>6, <1>7

\* One step of the pipeline.
LEMMA TypeNext == TypeOK /\ [Next]_vars => TypeOK'
<1> SUFFICES ASSUME TypeOK, [Next]_vars PROVE TypeOK'
  OBVIOUS
<1>1. CASE UNCHANGED vars
  BY <1>1 DEF vars, TypeOK, Holds
<1>2. ASSUME NEW w \in Workers, WorkerStep(w) \/ WorkerFault(w)
      PROVE  TypeOK'
  BY <1>2, TypeWorker, TypeFault
<1> QED BY <1>1, <1>2, TypeEnvironment DEF Next

\* Every state the pipeline reaches is well typed, for every number of workers,
\* requests, jobs, days and attempts.
THEOREM TypeCorrect == Spec => []TypeOK
BY TypeInit, TypeNext, PTL DEF Spec
=============================================================================
