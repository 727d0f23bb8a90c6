-------------------------- MODULE FlexIngest_queue --------------------------
(***************************************************************************)
(* What the queue promises beyond ownership: identities, cooldowns, what   *)
(* "done" and freshness mean, and the catch-up.  A step of the pipeline    *)
(* sends at most one statement to the job table; the proofs go by          *)
(* statement, and use the invariant Inv of FlexIngest_safety.              *)
(***************************************************************************)
EXTENDS FlexIngest_safety

---------------------------------------------------------------------------
(* The statements a step can send, and what it promises (owed) with each. *)

NoStatement == UNCHANGED <<jobs, owed>>

\* Worker w sends the INSERT of its catch-up for kind k and day h: it goes on
\* with the rest of its list, or drops it.
CatchupSends(w, k, h) ==
    /\ worker[w].pc = "enqueue" /\ k \in worker[w].todo /\ h = worker[w].as_of
    /\ \/ Become(w, Idling("claim", 0)) \/ Become(w, Idling("catchup", 0))
       \/ Become(w, CatchingUp(worker[w].todo \ {k}, h))

EnqueueStatement ==
    /\ \E k \in Kinds, src \in {"slot", "api", "catchup"}, h \in 0..MaxHash :
          /\ Enqueue(k, src, h)
          /\ src = "catchup" => \E w \in Workers : CatchupSends(w, k, h)
    /\ UNCHANGED <<clock, owed>>

AuditInsert ==
    /\ \E j \in Ids, k \in Kinds : NextId(jobs, j) /\ jobs' = insert_manual_job(jobs, j, k)
    /\ UNCHANGED owed

ReclaimStatement == jobs' = reclaim_stale_running(jobs) /\ UNCHANGED owed

ClaimStatement ==
    /\ \E j \in Ids : IsNextClaim(jobs, j) /\ jobs' = claim_next(jobs, j)
    /\ UNCHANGED owed

DoneStatement ==
    /\ \E w \in Workers : worker[w].pc = "done" /\ jobs' = mark_done(jobs, worker[w].job)
    /\ UNCHANGED owed

FailStatement == \E w \in Workers : worker[w].pc = "fail" /\ FailEffect(w)

DeferStatement == \E w \in Workers : worker[w].pc = "defer" /\ DeferEffect(w)

ReleaseStatement ==
    \E c \in Clients : /\ client[c].pc = "runnow"
                       /\ jobs' = clear_not_before(jobs, client[c].job)
                       /\ owed' = [owed EXCEPT ![client[c].job] = 0]

AuditMark ==
    /\ \E c \in Clients :
          /\ client[c].pc = "mark" /\ client[c].job # 0
          /\ jobs' = IF client[c].ok THEN mark_done(jobs, client[c].job)
                     ELSE mark_failed(jobs, client[c].job, client[c].category)
          /\ client'[c].pc # "mark"
    /\ UNCHANGED owed

TickOfTable ==
    /\ jobs' = Older(jobs)
    /\ owed' = [j \in Ids |-> IF owed[j] > 0 THEN owed[j] - 1 ELSE 0]

FireOfTable == jobs' = BeforeFire(jobs) /\ UNCHANGED owed

\* Each database call of the worker, the trigger and the API (claim.py,
\* enqueue.py, ingest.py, manual_ops.py) is one of these statements, or none.
LEMMA OneStatement ==
    ASSUME Inv, Next
    PROVE  \/ NoStatement \/ EnqueueStatement \/ AuditInsert \/ ReclaimStatement
           \/ ClaimStatement \/ DoneStatement \/ FailStatement \/ DeferStatement
           \/ ReleaseStatement \/ AuditMark \/ TickOfTable \/ (PlannedFire /\ FireOfTable)
<1> DEFINE Goal == \/ NoStatement \/ EnqueueStatement \/ AuditInsert \/ ReclaimStatement
                   \/ ClaimStatement \/ DoneStatement \/ FailStatement \/ DeferStatement
                   \/ ReleaseStatement \/ AuditMark \/ TickOfTable
                   \/ (PlannedFire /\ FireOfTable)
<1>0. TypeOK
  BY DEF Inv
<1>a. ASSUME NEW w \in Workers, NEW k \in worker[w].todo, Enqueue(k, "catchup", worker[w].as_of),
             CatchupSends(w, k, worker[w].as_of), UNCHANGED <<clock, owed>>
      PROVE  EnqueueStatement
  <2>1. worker[w] \in WorkerState
    BY <1>0 DEF TypeOK
  <2>2. k \in Kinds /\ worker[w].as_of \in 0..MaxHash
    BY <2>1 DEF WorkerState
  <2> QED BY <1>a, <2>2 DEF EnqueueStatement
<1>1. ASSUME NEW w \in Workers, WorkerStep(w) PROVE Goal
  <2>1. CASE Start(w) \/ Reclaim(w)
    BY <2>1 DEF Start, Reclaim, ReclaimStatement
  <2>2. CASE Claim(w)
    BY <2>2 DEF Claim, ClaimStatement
  <2>3. CASE Poll(w) \/ CatchupRead(w) \/ FetchOk(w) \/ FetchError(w) \/ RecordOk(w)
             \/ RecordOkRaises(w) \/ Outcome(w)
    BY <2>3 DEF Poll, CatchupRead, FetchOk, FetchError, RecordOk, RecordOkRaises, Outcome,
                NoStatement
  <2>4. CASE CatchupEnqueue(w)
    BY <1>a, <2>4 DEF CatchupEnqueue, CatchupSends
  <2>5. CASE MarkDone(w)
    BY <2>5 DEF MarkDone, DoneStatement
  <2>6. CASE Fail(w)
    BY <2>6 DEF Fail, FailStatement
  <2>7. CASE Defer(w)
    BY <2>7 DEF Defer, DeferStatement
  <2> QED BY <1>1, <2>1, <2>2, <2>3, <2>4, <2>5, <2>6, <2>7 DEF WorkerStep
<1>2. ASSUME NEW w \in Workers, WorkerFault(w) PROVE Goal
  <2>1. CASE Crash(w) \/ Swallowed(w)
    BY <2>1 DEF Crash, Swallowed, NoStatement
  <2>2. CASE LostAck(w)
    <3>0. UNCHANGED clock
      BY <2>2 DEF LostAck
    <3>1. CASE worker[w].pc = "enqueue" /\ UNCHANGED owed /\ Become(w, Idling("catchup", 0))
               /\ \E k \in worker[w].todo : Enqueue(k, "catchup", worker[w].as_of)
      BY <1>a, <3>0, <3>1 DEF CatchupSends
    <3>2. CASE jobs' = reclaim_stale_running(jobs) /\ UNCHANGED owed
      BY <3>2 DEF ReclaimStatement
    <3>3. CASE (\E j \in Ids : IsNextClaim(jobs, j) /\ jobs' = claim_next(jobs, j)) /\ UNCHANGED owed
      BY <3>3 DEF ClaimStatement
    <3>4. CASE worker[w].pc = "done" /\ jobs' = mark_done(jobs, worker[w].job) /\ UNCHANGED owed
      BY <3>4 DEF DoneStatement
    <3>5. CASE worker[w].pc = "fail" /\ FailEffect(w)
      BY <3>5 DEF FailStatement
    <3>6. CASE worker[w].pc = "defer" /\ DeferEffect(w)
      BY <3>6 DEF DeferStatement
    <3> QED BY <2>2, <3>1, <3>2, <3>3, <3>4, <3>5, <3>6 DEF LostAck
  <2> QED BY <1>2, <2>1, <2>2 DEF WorkerFault
<1>3. ASSUME NEW k \in Kinds, EnqueueSlot(k) PROVE Goal
  <2>1. UtcDay \in 0..MaxHash
    BY <1>0, IngestAssumption DEF TypeOK, IngestAssumption, UtcDay
  <2> QED BY <1>3, <2>1 DEF EnqueueSlot, EnqueueStatement
<1>4. ASSUME NEW k \in Kinds, NEW h \in 1..MaxHash, EnqueueJob(k, h) PROVE Goal
  <2>1. h \in 0..MaxHash
    BY TableAssumption DEF TableAssumption
  <2> QED BY <1>4, <2>1 DEF EnqueueJob, EnqueueStatement
<1>5. ASSUME NEW c \in Clients, ClientStep(c) PROVE Goal
  <2>1. CASE RunNowWrite(c)
    BY <2>1 DEF RunNowWrite, ReleaseStatement
  <2>2. ASSUME NEW k \in Kinds, ManualStart(c, k) PROVE Goal
    BY <2>2 DEF ManualStart, AuditInsert, NoStatement
  <2>3. CASE ManualMark(c)
    <3>1. client'[c].pc \in {"freshness", "idle"}
      BY <1>0, <2>3 DEF ManualMark, ManualRun, ClientIdle, TypeOK
    <3> QED BY <2>3, <3>1 DEF ManualMark, AuditMark, NoStatement
  <2>4. CASE (\E j \in Ids, force \in BOOLEAN : RunNowRead(c, j, force))
             \/ ManualFetch(c) \/ ManualFreshness(c) \/ ClientGone(c)
    BY <2>4 DEF RunNowRead, ManualFetch, ManualFreshness, ClientGone, NoStatement
  <2> QED BY <1>5, <2>1, <2>2, <2>3, <2>4 DEF ClientStep
<1>6. CASE Tick
  BY <1>6 DEF Tick, TickOfTable
<1>7. CASE PlannedFire
  BY <1>7 DEF PlannedFire, FireOfTable
<1> QED BY <1>1, <1>2, <1>3, <1>4, <1>5, <1>6, <1>7 DEF Next

---------------------------------------------------------------------------
(* What every statement leaves alone. *)

\* The rows a worker's marks are about exist, and are open or already carry the
\* replayed status (loop.py calls mark_* only for the job it holds).
LEMMA MarkedRow ==
    ASSUME Inv, NEW w \in Workers, worker[w].pc \in {"done", "fail"}
    PROVE  /\ worker[w].job \in Ids /\ jobs[worker[w].job] \in Row
           /\ jobs[worker[w].job].src # "manual"
           /\ jobs[worker[w].job].status # "absent"
           /\ worker[w].pc = "done" => jobs[worker[w].job].status \in {"running", "done"}
           /\ worker[w].pc = "fail" =>
                 /\ jobs[worker[w].job].status \in {"running", "pending", "failed"}
                 /\ ~PlanOf(w).retry => jobs[worker[w].job].status # "pending"
<1>1. Holds(w)
  BY DEF Holds
<1>2. Owns(w) /\ worker[w].job \in Ids /\ jobs[worker[w].job] \in Row
      /\ jobs[worker[w].job].status # "absent"
  BY <1>1, InvOwns
<1> QED BY <1>2 DEF Owns, SentStatus

\* The row of a manual run that is being marked (manual_ops.py).
LEMMA AuditedRow ==
    ASSUME Inv, NEW c \in Clients, client[c].pc \in {"fetch", "mark", "freshness"},
           client[c].job # 0
    PROVE  /\ client[c].job \in Ids /\ jobs[client[c].job] \in Row
           /\ jobs[client[c].job].src = "manual"
           /\ jobs[client[c].job].status \in {"running", "done", "failed"}
<1>1. client[c].job \in 0..MaxJobs
  BY DEF Inv, TypeOK, ClientState
<1>2. client[c].job \in Ids
  BY <1>1, TableAssumption DEF TableAssumption, Ids
<1>3. jobs[client[c].job].src = "manual" /\ Exists(jobs, client[c].job)
  BY DEF Inv, ClaimsKept
<1>4. jobs[client[c].job] \in Row
  BY <1>2 DEF Inv, TypeOK
<1> QED BY <1>2, <1>3, <1>4, ManualSettledOrRunning

\* The UPDATEs keep created_at, and so whether it is after the last fire.
LEMMA RecentFacts ==
    ASSUME NEW r \in Row, NEW cat, NEW d
    PROVE  /\ Claimed(r).recent = r.recent /\ Reclaimed(r).recent = r.recent
           /\ DoneRow(r).recent = r.recent /\ Retried(r, cat, d).recent = r.recent
           /\ Failed(r, cat).recent = r.recent /\ Deferred(r, d).recent = r.recent
           /\ Released(r).recent = r.recent /\ OlderRow(r).recent = r.recent
BY DEF Row, Set, Claimed, Reclaimed, Requeued, GivenUp, DoneRow, Retried, Failed, Deferred, Released,
       OlderRow

\* An unused id stays unused, and created_at stays on its side of the fire.
Untouched(r, s) == (r.status = "absent" => s.status = "absent") /\ s.recent = r.recent

\* Only an INSERT fills an unused id, and only a planned fire ages created_at.
LEMMA UpdatesKeepRows ==
    ASSUME Inv,
           \/ NoStatement \/ ReclaimStatement \/ ClaimStatement \/ DoneStatement
           \/ FailStatement \/ DeferStatement \/ ReleaseStatement \/ AuditMark \/ TickOfTable
    PROVE  \A j \in Ids : Untouched(jobs[j], jobs'[j])
<1> SUFFICES ASSUME NEW j \in Ids PROVE Untouched(jobs[j], jobs'[j])
  OBVIOUS
<1>0. TypeOK /\ jobs \in [Ids -> Row] /\ jobs[j] \in Row /\ 0 \in Nat /\ "none" \in Category
  BY DEF Inv, TypeOK, Category
<1>a. ASSUME jobs'[j] = jobs[j] PROVE Untouched(jobs[j], jobs'[j])
  BY <1>a DEF Untouched
<1>1. CASE NoStatement
  BY <1>1, <1>a DEF NoStatement
<1>2. CASE ReclaimStatement
  <2>1. jobs'[j] = IF Stale(jobs[j]) THEN Reclaimed(jobs[j]) ELSE jobs[j]
    BY <1>2 DEF ReclaimStatement, reclaim_stale_running
  <2> QED BY <1>0, <1>a, <2>1, RecentFacts DEF Stale, Untouched
<1>3. CASE ClaimStatement
  <2>1. PICK i \in Ids : IsNextClaim(jobs, i) /\ jobs' = claim_next(jobs, i)
    BY <1>3 DEF ClaimStatement
  <2>2. jobs[i].status = "pending" /\ jobs'[j] = IF j = i THEN Claimed(jobs[j]) ELSE jobs[j]
    BY <1>0, <2>1 DEF IsNextClaim, Claimable, claim_next
  <2> QED BY <1>0, <1>a, <2>2, RecentFacts DEF Untouched
<1>4. CASE DoneStatement
  <2>1. PICK w \in Workers : worker[w].pc = "done" /\ jobs' = mark_done(jobs, worker[w].job)
    BY <1>4 DEF DoneStatement
  <2>2. jobs'[j] = IF j = worker[w].job THEN DoneRow(jobs[j]) ELSE jobs[j]
    BY <1>0, <2>1 DEF mark_done
  <2>3. jobs[worker[w].job].status # "absent"
    BY <2>1, MarkedRow
  <2> QED BY <1>0, <1>a, <2>2, <2>3, RecentFacts DEF Untouched
<1>5. CASE FailStatement
  <2>1. PICK w \in Workers : worker[w].pc = "fail" /\ FailEffect(w)
    BY <1>5 DEF FailStatement
  <2>2. \/ jobs'[j] = jobs[j]
        \/ j = worker[w].job /\ jobs'[j] = Retried(jobs[j], worker[w].category, PlanOf(w).delay)
        \/ j = worker[w].job /\ jobs'[j] = Failed(jobs[j], worker[w].category)
    BY <1>0, <2>1 DEF FailEffect, mark_retry, mark_failed
  <2>3. jobs[worker[w].job].status # "absent"
    BY <2>1, MarkedRow
  <2> QED BY <1>0, <1>a, <2>2, <2>3, RecentFacts DEF Untouched
<1>6. CASE DeferStatement
  <2>1. \/ jobs'[j] = jobs[j]
        \/ jobs[j].status = "pending" /\ jobs'[j] = Deferred(jobs[j], ThrottledDelay)
    BY <1>6 DEF DeferStatement, DeferEffect, defer_pending
  <2> QED BY <1>0, <1>a, <2>1, RecentFacts DEF Untouched
<1>7. CASE ReleaseStatement
  <2>1. \/ jobs'[j] = jobs[j]
        \/ jobs[j].status = "pending" /\ jobs'[j] = Released(jobs[j])
    BY <1>0, <1>7 DEF ReleaseStatement, clear_not_before
  <2> QED BY <1>0, <1>a, <2>1, RecentFacts DEF Untouched
<1>8. CASE AuditMark
  <2>1. PICK c \in Clients :
          /\ client[c].pc = "mark" /\ client[c].job # 0
          /\ jobs' = IF client[c].ok THEN mark_done(jobs, client[c].job)
                     ELSE mark_failed(jobs, client[c].job, client[c].category)
    BY <1>8 DEF AuditMark
  <2>2. \/ jobs'[j] = jobs[j]
        \/ j = client[c].job /\ jobs'[j] = DoneRow(jobs[j])
        \/ j = client[c].job /\ jobs'[j] = Failed(jobs[j], client[c].category)
    BY <1>0, <2>1 DEF mark_done, mark_failed
  <2>3. jobs[client[c].job].status # "absent"
    BY <2>1, AuditedRow
  <2> QED BY <1>0, <1>a, <2>2, <2>3, RecentFacts DEF Untouched
<1>9. CASE TickOfTable
  <2>1. jobs'[j] = OlderRow(jobs[j])
    BY <1>9 DEF TickOfTable, Older
  <2>2. OlderRow(jobs[j]).status = jobs[j].status
    BY <1>0, MovedFacts DEF SameAttempt
  <2> QED BY <1>0, <2>1, <2>2, RecentFacts DEF Untouched
<1> QED BY <1>1, <1>2, <1>3, <1>4, <1>5, <1>6, <1>7, <1>8, <1>9

\* A step inserts, or every row that exists afterwards existed before it.
LEMMA NewRows ==
    ASSUME Inv, Next
    PROVE  \/ EnqueueStatement
           \/ AuditInsert
           \/ \A j \in Ids : jobs[j].status = "absent" => jobs'[j].status = "absent"
<1>1. CASE PlannedFire
  <2>1. \A j \in Ids : SameAttempt(jobs[j], jobs'[j])
    BY <1>1, TimeMoves
  <2> QED BY <2>1 DEF SameAttempt
<1>2. CASE ~PlannedFire /\ ~EnqueueStatement /\ ~AuditInsert
  <2>1. \A j \in Ids : Untouched(jobs[j], jobs'[j])
    BY <1>2, OneStatement, UpdatesKeepRows
  <2> QED BY <2>1 DEF Untouched
<1> QED BY <1>1, <1>2

---------------------------------------------------------------------------
(* One active row per kind and payload. *)

\* What was active before is all that can be active after, an INSERT apart.
LEMMA ActiveBefore ==
    ASSUME RowMoves, NEW j \in Ids, Active(jobs, j)',
           jobs[j].status = "absent" => jobs'[j].status = "absent"
    PROVE  Active(jobs, j) /\ SameJob(jobs[j], jobs'[j])
<1>1. RowMove(jobs[j], jobs'[j])
  BY DEF RowMoves
<1> QED BY <1>1 DEF RowMove, SameAttempt, InsertMove, ClaimMove, RetryMove, SettleMove, Active

\* One step keeps identities unique: the INSERT looks for a conflict, and the
\* UPDATEs of claim.py activate only rows that are active already.
LEMMA UniqueStep ==
    ASSUME Inv, UniqueActive, Next
    PROVE  UniqueActive'
<1>0. jobs \in [Ids -> Row] /\ RowMoves
  BY StepMoves DEF Inv, TypeOK
<1> SUFFICES ASSUME NEW i \in Ids, NEW j \in Ids, Active(jobs, i)', Active(jobs, j)',
                    jobs'[i].kind = jobs'[j].kind, jobs'[i].hash = jobs'[j].hash,
                    jobs'[i].hash # 0
             PROVE  i = j
  BY DEF UniqueActive, Active
<1>a. ASSUME NEW n \in Ids, \A m \in Ids \ {n} : jobs'[m] = jobs[m],
             \A m \in Ids \ {n} : Active(jobs, m) =>
                 ~(jobs[m].kind = jobs'[n].kind /\ jobs[m].hash = jobs'[n].hash)
      PROVE  i = j
  BY <1>a DEF UniqueActive, Active
<1>1. CASE \A m \in Ids : jobs[m].status = "absent" => jobs'[m].status = "absent"
  BY <1>0, <1>1, ActiveBefore DEF UniqueActive, SameJob
<1>2. CASE EnqueueStatement
  <2>1. PICK k \in Kinds, src \in {"slot", "api", "catchup"}, h \in 0..MaxHash : Enqueue(k, src, h)
    BY <1>2 DEF EnqueueStatement
  <2>2. CASE UNCHANGED jobs
    BY <2>2 DEF UniqueActive, Active
  <2>3. ASSUME NEW n \in Ids, ~Conflict(jobs, k, h), jobs' = insert_job(jobs, n, k, src, h)
        PROVE  i = j
    <3>1. /\ \A m \in Ids \ {n} : jobs'[m] = jobs[m]
          /\ jobs'[n].kind = k /\ jobs'[n].hash = h
      BY <1>0, <2>3 DEF insert_job, NewRow
    <3>2. \A m \in Ids : Active(jobs, m) => ~(jobs[m].kind = k /\ jobs[m].hash = h)
      BY <2>3 DEF Conflict
    <3> QED BY <1>a, <3>1, <3>2
  <2> QED BY <2>1, <2>2, <2>3 DEF Enqueue
<1>3. CASE AuditInsert
  <2>1. PICK n \in Ids, k \in Kinds : jobs' = insert_manual_job(jobs, n, k)
    BY <1>3 DEF AuditInsert
  <2>2. (\A m \in Ids \ {n} : jobs'[m] = jobs[m]) /\ jobs'[n].hash = 0
    BY <1>0, <2>1 DEF insert_manual_job, NewRow
  <2>3. i # n /\ j # n
    BY <2>2
  <2> QED BY <2>2, <2>3 DEF UniqueActive, Active
<1> QED BY <1>1, <1>2, <1>3, NewRows

\* No two active rows share kind and payload_hash, for any number of writers,
\* retries, reclaims and replays: the partial unique index of the job table
\* (ddl.py) never refuses an UPDATE of claim.py.
THEOREM IdentitiesUnique == Spec => []UniqueActive
<1>1. Init => UniqueActive
  BY DEF Init, NoRow, UniqueActive, Active
<1>2. Inv /\ UniqueActive /\ [Next]_vars => UniqueActive'
  <2>1. UniqueActive /\ UNCHANGED vars => UniqueActive'
    BY DEF vars, UniqueActive, Active
  <2> QED BY <2>1, UniqueStep
<1> QED BY <1>1, <1>2, InvHolds, PTL DEF Spec

---------------------------------------------------------------------------
(* A cooldown is waited out. *)

\* CooldownKept for one row.
Waits(j) == owed[j] > 0 => jobs[j].status = "pending" /\ jobs[j].wait >= owed[j]

\* A row that no statement touched, or that was owed nothing.
LEMMA WaitsOn ==
    ASSUME NEW j \in Ids, Waits(j), owed'[j] = owed[j],
           jobs'[j] = jobs[j] \/ jobs[j].status # "pending"
    PROVE  Waits(j)'
BY DEF Waits

\* One step keeps every promised wait: claims take rows whose wait is over,
\* marks and reclaims take rows that are not pending, a deferral only adds.
LEMMA CooldownStep ==
    ASSUME Inv, CooldownKept, Next
    PROVE  CooldownKept'
<1>0. /\ TypeOK /\ jobs \in [Ids -> Row] /\ owed \in [Ids -> Nat] /\ ThrottledDelay \in Nat
      /\ "none" \in Category /\ 0 \in Nat
  BY DelayAssumption DEF Inv, TypeOK, DelayAssumption, Category
<1> SUFFICES ASSUME NEW j \in Ids PROVE Waits(j)'
  BY DEF CooldownKept, Waits
<1>1. Waits(j) /\ jobs[j] \in Row /\ jobs[j].wait \in Nat /\ owed[j] \in Nat
  BY <1>0 DEF CooldownKept, Waits, Row
<1>2. CASE NoStatement
  BY <1>1, <1>2, WaitsOn DEF NoStatement
<1>3. CASE EnqueueStatement
  <2>1. PICK k \in Kinds, src \in {"slot", "api", "catchup"}, h \in 0..MaxHash : Enqueue(k, src, h)
    BY <1>3 DEF EnqueueStatement
  <2>2. jobs'[j] = jobs[j] \/ jobs[j].status # "pending"
    BY <1>0, <2>1, EnqueueFills
  <2> QED BY <1>1, <1>3, <2>2, WaitsOn DEF EnqueueStatement
<1>4. CASE AuditInsert
  <2>1. jobs'[j] = jobs[j] \/ jobs[j].status # "pending"
    BY <1>0, <1>4 DEF AuditInsert, insert_manual_job, NextId, Exists
  <2> QED BY <1>1, <1>4, <2>1, WaitsOn DEF AuditInsert
<1>5. CASE ReclaimStatement
  <2>1. jobs'[j] = jobs[j] \/ jobs[j].status # "pending"
    BY <1>5 DEF ReclaimStatement, reclaim_stale_running, Stale
  <2> QED BY <1>1, <1>5, <2>1, WaitsOn DEF ReclaimStatement
<1>6. CASE ClaimStatement
  <2>1. PICK i \in Ids : IsNextClaim(jobs, i) /\ jobs' = claim_next(jobs, i)
    BY <1>6 DEF ClaimStatement
  <2>2. jobs[i].wait = 0 /\ (j # i => jobs'[j] = jobs[j])
    BY <1>0, <2>1 DEF IsNextClaim, Claimable, claim_next
  <2>3. CASE j = i
    <3>1. ~(owed[j] > 0)
      BY <1>1, <2>2, <2>3 DEF Waits
    <3> QED BY <1>6, <3>1 DEF ClaimStatement, Waits
  <2> QED BY <1>1, <1>6, <2>2, <2>3, WaitsOn DEF ClaimStatement
<1>7. CASE DoneStatement
  <2>1. PICK w \in Workers : worker[w].pc = "done" /\ jobs' = mark_done(jobs, worker[w].job)
    BY <1>7 DEF DoneStatement
  <2>2. jobs[worker[w].job].status \in {"running", "done"}
    BY <2>1, MarkedRow
  <2>3. jobs'[j] = jobs[j] \/ jobs[j].status # "pending"
    BY <1>0, <2>1, <2>2 DEF mark_done
  <2> QED BY <1>1, <1>7, <2>3, WaitsOn DEF DoneStatement
<1>8. CASE FailStatement
  <2>1. PICK w \in Workers : worker[w].pc = "fail" /\ FailEffect(w)
    BY <1>8 DEF FailStatement
  <2>2. InHand(w)
    BY <2>1 DEF InHand, Holds
  <2>3. /\ PlanOf(w).delay \in Nat /\ PlanOf(w).cooldown \in Nat
        /\ PlanOf(w).cooldown > 0 => PlanOf(w).cooldown = PlanOf(w).delay
        /\ worker[w].category \in Category
    BY <1>0, <2>2, InHandTypes, PlanTypes DEF PlanOf
  <2>4. CASE j # worker[w].job
    <3>1. jobs'[j] = jobs[j] /\ owed'[j] = owed[j]
      BY <1>0, <2>1, <2>4 DEF FailEffect, mark_retry, mark_failed
    <3> QED BY <1>1, <3>1, WaitsOn
  <2>5. CASE j = worker[w].job /\ PlanOf(w).retry
    <3>1. /\ jobs'[j] = Retried(jobs[j], worker[w].category, PlanOf(w).delay)
          /\ owed'[j] = PlanOf(w).cooldown
      BY <1>0, <2>1, <2>5 DEF FailEffect, mark_retry
    <3>2. jobs'[j].status = "pending" /\ jobs'[j].wait = PlanOf(w).delay
      BY <1>1, <2>3, <3>1, MarkedFacts
    <3> QED BY <2>3, <3>1, <3>2 DEF Waits
  <2>6. CASE j = worker[w].job /\ ~PlanOf(w).retry
    <3>1. jobs[j].status # "pending"
      BY <2>1, <2>6, MarkedRow
    <3>2. owed'[j] = owed[j]
      BY <2>1, <2>6 DEF FailEffect
    <3> QED BY <1>1, <3>1, <3>2, WaitsOn
  <2> QED BY <2>4, <2>5, <2>6
<1>9. CASE DeferStatement
  <2>1. PICK w \in Workers : DeferEffect(w)
    BY <1>9 DEF DeferStatement
  <2>2. CASE jobs[j].status = "pending" /\ j # worker[w].job
    <3>1. jobs'[j] = Deferred(jobs[j], ThrottledDelay) /\ owed'[j] = ThrottledDelay
      BY <2>1, <2>2 DEF DeferEffect, defer_pending
    <3>2. /\ Deferred(jobs[j], ThrottledDelay).wait >= ThrottledDelay
          /\ Deferred(jobs[j], ThrottledDelay).status = "pending"
      BY <1>0, <1>1, <2>2, MovedFacts DEF SameAttempt
    <3> QED BY <3>1, <3>2 DEF Waits
  <2>3. CASE ~(jobs[j].status = "pending" /\ j # worker[w].job)
    <3>1. jobs'[j] = jobs[j] /\ owed'[j] = owed[j]
      BY <2>1, <2>3 DEF DeferEffect, defer_pending
    <3> QED BY <1>1, <3>1, WaitsOn
  <2> QED BY <2>2, <2>3
<1>10. CASE ReleaseStatement
  <2>1. \/ owed'[j] = 0
        \/ jobs'[j] = jobs[j] /\ owed'[j] = owed[j]
    BY <1>0, <1>10 DEF ReleaseStatement, clear_not_before
  <2> QED BY <1>1, <2>1, WaitsOn DEF Waits
<1>11. CASE AuditMark
  <2>1. PICK c \in Clients :
          /\ client[c].pc = "mark" /\ client[c].job # 0
          /\ jobs' = IF client[c].ok THEN mark_done(jobs, client[c].job)
                     ELSE mark_failed(jobs, client[c].job, client[c].category)
    BY <1>11 DEF AuditMark
  <2>2. jobs[client[c].job].status # "pending"
    BY <2>1, AuditedRow
  <2>3. jobs'[j] = jobs[j] \/ jobs[j].status # "pending"
    BY <1>0, <2>1, <2>2 DEF mark_done, mark_failed
  <2> QED BY <1>1, <1>11, <2>3, WaitsOn DEF AuditMark
<1>12. CASE TickOfTable
  <2>1. jobs'[j] = OlderRow(jobs[j]) /\ owed'[j] = IF owed[j] > 0 THEN owed[j] - 1 ELSE 0
    BY <1>12 DEF TickOfTable, Older
  <2>2. OlderRow(jobs[j]) \in Row /\ OlderRow(jobs[j]).status = jobs[j].status
        /\ OlderRow(jobs[j]).wait >= jobs[j].wait - 1
    BY <1>0, <1>1, MovedFacts DEF SameAttempt
  <2>3. OlderRow(jobs[j]).wait \in Nat
    BY <2>2 DEF Row
  <2> QED BY <1>1, <2>1, <2>2, <2>3 DEF Waits
<1>13. CASE FireOfTable
  <2>1. jobs'[j] = [jobs[j] EXCEPT !.recent = FALSE] /\ owed'[j] = owed[j]
    BY <1>13 DEF FireOfTable, BeforeFire
  <2>2. jobs'[j].status = jobs[j].status /\ jobs'[j].wait = jobs[j].wait
    BY <1>1, <2>1 DEF Row
  <2> QED BY <1>1, <2>1, <2>2 DEF Waits
<1> QED BY <1>2, <1>3, <1>4, <1>5, <1>6, <1>7, <1>8, <1>9, <1>10, <1>11, <1>12, <1>13, OneStatement

\* A job told to wait out a throttle stays pending for all of it, under every
\* interleaving of requeues, deferrals, replays and manual runs (loop.py,
\* retry.py, claim.py), unless the operator's run-now releases it (ingest.py).
THEOREM CooldownWaitedOut == Spec => []CooldownKept
<1>1. Init => CooldownKept
  BY DEF Init, CooldownKept
<1>2. Inv /\ CooldownKept /\ [Next]_vars => CooldownKept'
  <2>1. CooldownKept /\ UNCHANGED vars => CooldownKept'
    BY DEF vars, CooldownKept
  <2> QED BY <2>1, CooldownStep
<1> QED BY <1>1, <1>2, InvHolds, PTL DEF Spec

---------------------------------------------------------------------------
(* How a job in hand, a manual run and a freshness row can change. *)

\* A manual run with an audit row.
Auditing(c) == client[c].pc \in {"fetch", "mark", "freshness"} /\ client[c].job # 0

\* The worker's loop (loop.py): a job comes into hand by a claim only, and every
\* other step of the loop keeps it.
LEMMA WorkerTrail ==
    ASSUME Inv, Next, NEW w \in Workers, InHand(w)'
    PROVE  \/ worker'[w] = worker[w]
           \/ Claim(w)
           \/ /\ InHand(w) /\ worker'[w].job = worker[w].job
              /\ \/ FetchOk(w) /\ worker'[w].pc = "landed"
                 \/ FetchError(w) /\ worker'[w].pc = "fail"
                 \/ RecordOk(w) /\ worker'[w].pc = "done"
                 \/ RecordOkRaises(w) /\ worker'[w].pc = "fail"
                 \/ Fail(w) /\ worker'[w].pc \in {"defer", "outcome"}
                 \/ Defer(w) /\ worker'[w].pc = "outcome"
                 \/ worker[w].pc \in {"done", "fail"} /\ worker'[w].pc = worker[w].pc
<1>0. worker \in [Workers -> WorkerState]
  BY DEF Inv, TypeOK
<1>a. ASSUME NEW s, Become(w, s) PROVE worker'[w] = s
  BY <1>0, <1>a DEF Become
<1>b. ASSUME NEW pc, NEW n, Become(w, Idling(pc, n)),
             pc \notin {"dispatch", "landed", "done", "fail", "defer", "outcome"}
      PROVE  FALSE
  BY <1>a, <1>b DEF Idling, InHand, Holds
<1>c. ASSUME NEW todo, NEW h, Become(w, CatchingUp(todo, h)) PROVE FALSE
  BY <1>a, <1>c DEF CatchingUp, InHand, Holds
<1>d. ASSUME NEW pc, Goto(w, pc) PROVE worker'[w].job = worker[w].job /\ worker'[w].pc = pc
  BY <1>a, <1>d DEF Goto, Handling
<1>e. ASSUME NEW msg, Raise(w, msg) PROVE worker'[w].job = worker[w].job /\ worker'[w].pc = "fail"
  BY <1>a, <1>e DEF Raise, Handling
<1>f. ASSUME NEW v \in Workers, v # w, WorkerStep(v) \/ WorkerFault(v) PROVE worker'[w] = worker[w]
  <2>1. ASSUME NEW s, Become(v, s) PROVE worker'[w] = worker[w]
    BY <1>0, <1>f, <2>1 DEF Become
  <2>2. CASE WorkerStep(v)
    BY <2>1, <2>2 DEF WorkerStep, Start, Claim, Poll, Reclaim, CatchupRead, CatchupEnqueue, FetchOk,
       FetchError, RecordOk, RecordOkRaises, MarkDone, Fail, Defer, Outcome, Goto, Raise
  <2>3. CASE WorkerFault(v)
    BY <2>1, <2>3 DEF WorkerFault, Crash, Swallowed, LostAck, Replay
  <2> QED BY <1>f, <2>2, <2>3
<1>1. ASSUME WorkerStep(w)
      PROVE  \/ Claim(w)
             \/ /\ InHand(w) /\ worker'[w].job = worker[w].job
                /\ \/ FetchOk(w) /\ worker'[w].pc = "landed"
                   \/ FetchError(w) /\ worker'[w].pc = "fail"
                   \/ RecordOk(w) /\ worker'[w].pc = "done"
                   \/ RecordOkRaises(w) /\ worker'[w].pc = "fail"
                   \/ Fail(w) /\ worker'[w].pc \in {"defer", "outcome"}
                   \/ Defer(w) /\ worker'[w].pc = "outcome"
  <2>1. ~(Start(w) \/ Poll(w) \/ Reclaim(w) \/ MarkDone(w) \/ Outcome(w))
    BY <1>b DEF Start, Poll, Reclaim, MarkDone, Outcome
  <2>2. ~(CatchupRead(w) \/ CatchupEnqueue(w))
    BY <1>b, <1>c DEF CatchupRead, CatchupEnqueue
  <2>3. CASE FetchOk(w) \/ RecordOk(w) \/ Fail(w) \/ Defer(w)
    BY <1>d, <2>3 DEF FetchOk, RecordOk, Fail, Defer, InHand, Holds
  <2>4. CASE FetchError(w) \/ RecordOkRaises(w)
    BY <1>e, <2>4 DEF FetchError, RecordOkRaises, InHand, Holds
  <2> QED BY <1>1, <2>1, <2>2, <2>3, <2>4 DEF WorkerStep
<1>2. ASSUME WorkerFault(w)
      PROVE  \/ worker'[w] = worker[w]
             \/ /\ InHand(w) /\ worker'[w].job = worker[w].job
                /\ worker[w].pc \in {"done", "fail"} /\ worker'[w].pc = worker[w].pc
  <2>1. ~(Crash(w) \/ Swallowed(w))
    BY <1>b DEF Crash, Swallowed
  <2>2. CASE LostAck(w) /\ Replay(w) /\ worker[w].pc \in {"done", "fail"}
    BY <1>a, <2>2 DEF Replay, Handling, InHand, Holds
  <2>3. CASE LostAck(w) /\ UNCHANGED worker
    BY <2>3
  <2>4. ~Become(w, Idling("catchup", 0))
    BY <1>b
  <2> QED BY <1>2, <2>1, <2>2, <2>3, <2>4 DEF WorkerFault, LostAck
<1>3. CASE UNCHANGED worker
  BY <1>3
<1>4. \/ UNCHANGED worker
      \/ \E v \in Workers : WorkerStep(v) \/ WorkerFault(v)
  BY DEF Next, EnqueueSlot, EnqueueJob, ClientStep, RunNowRead, RunNowWrite, ManualStart,
         ManualFetch, ManualMark, ManualFreshness, ClientGone, Tick, PlannedFire
<1> QED BY <1>1, <1>2, <1>3, <1>4, <1>f

\* The manual run (manual_ops.py): it opens its audit row, fetches and marks it.
LEMMA ClientTrail ==
    ASSUME Inv, Next, NEW c \in Clients, Auditing(c)'
    PROVE  \/ client'[c] = client[c]
           \/ /\ client'[c].pc = "fetch" /\ ~client'[c].ok
              /\ client'[c].job \in Ids /\ NextId(jobs, client'[c].job)
              /\ client'[c].kind \in Kinds
              /\ jobs' = insert_manual_job(jobs, client'[c].job, client'[c].kind)
              /\ \A d \in Clients \ {c} : client'[d] = client[d]
              /\ UNCHANGED <<worker, fresh, landed>>
           \/ /\ Auditing(c) /\ client'[c].job = client[c].job /\ client'[c].kind = client[c].kind
              /\ \/ /\ ManualFetch(c) /\ client'[c].pc = "mark"
                    /\ client'[c].ok => client[c].job \in landed'
                 \/ /\ ManualMark(c) /\ client'[c].pc = "freshness" /\ client'[c].ok = client[c].ok
<1>0. client \in [Clients -> ClientState]
  BY DEF Inv, TypeOK
<1>a. ASSUME NEW s, client' = [client EXCEPT ![c] = s] PROVE client'[c] = s
  BY <1>0, <1>a
<1>b. ClientIdle.pc = "idle"
  BY DEF ClientIdle
<1>1. ASSUME NEW d \in Clients, d # c, ClientStep(d) PROVE client'[c] = client[c]
  BY <1>0, <1>1 DEF ClientStep, RunNowRead, RunNowWrite, ManualStart, ManualFetch, ManualMark,
                    ManualFreshness, ClientGone
<1>2. ~(RunNowWrite(c) \/ ManualFreshness(c) \/ ClientGone(c))
  BY <1>a, <1>b DEF RunNowWrite, ManualFreshness, ClientGone, Auditing
<1>3. ASSUME NEW j \in Ids, NEW force \in BOOLEAN, RunNowRead(c, j, force) PROVE FALSE
  BY <1>3, <1>a DEF RunNowRead, RunNowRequest, Auditing
<1>4. ASSUME NEW k \in Kinds, ManualStart(c, k)
      PROVE  /\ client'[c].pc = "fetch" /\ ~client'[c].ok
             /\ client'[c].job \in Ids /\ NextId(jobs, client'[c].job)
             /\ client'[c].kind \in Kinds
             /\ jobs' = insert_manual_job(jobs, client'[c].job, client'[c].kind)
             /\ \A d \in Clients \ {c} : client'[d] = client[d]
             /\ UNCHANGED <<worker, fresh, landed>>
  <2>1. ~(client' = [client EXCEPT ![c] = ManualRun("fetch", 0, k, FALSE, "none")])
    BY <1>a DEF ManualRun, Auditing
  <2>2. PICK j \in Ids : /\ NextId(jobs, j) /\ jobs' = insert_manual_job(jobs, j, k)
                         /\ client' = [client EXCEPT ![c] = ManualRun("fetch", j, k, FALSE, "none")]
    BY <1>4, <2>1 DEF ManualStart
  <2>3. client'[c] = ManualRun("fetch", j, k, FALSE, "none")
    BY <1>a, <2>2
  <2>4. \A d \in Clients \ {c} : client'[d] = client[d]
    BY <1>0, <2>2
  <2>5. UNCHANGED <<worker, fresh, landed>>
    BY <1>4 DEF ManualStart
  <2>6. /\ client'[c].pc = "fetch" /\ ~client'[c].ok /\ client'[c].job = j /\ client'[c].kind = k
    BY <2>3 DEF ManualRun
  <2> QED BY <2>2, <2>4, <2>5, <2>6
<1>5. CASE ManualFetch(c)
  <2>1. CASE /\ client' = [client EXCEPT ![c] = ManualRun("mark", client[c].job, client[c].kind, TRUE, "none")]
             /\ landed' = landed \cup ({client[c].job} \ {0})
    <3>1. client'[c] = ManualRun("mark", client[c].job, client[c].kind, TRUE, "none")
      BY <1>a, <2>1
    <3>2. client'[c].job = client[c].job /\ client'[c].kind = client[c].kind /\ client'[c].pc = "mark"
      BY <3>1 DEF ManualRun
    <3>3. Auditing(c) /\ client[c].job \in landed'
      BY <1>5, <2>1, <3>2 DEF ManualFetch, Auditing
    <3> QED BY <1>5, <3>2, <3>3
  <2>2. ASSUME NEW msg, client' = [client EXCEPT ![c] = ManualRun("mark", client[c].job, client[c].kind,
                                                                   FALSE, classify_flex_error(msg))]
        PROVE  /\ Auditing(c) /\ client'[c].job = client[c].job /\ client'[c].kind = client[c].kind
               /\ client'[c].pc = "mark" /\ ~client'[c].ok
    <3>1. client'[c] = ManualRun("mark", client[c].job, client[c].kind, FALSE, classify_flex_error(msg))
      BY <1>a, <2>2
    <3> QED BY <1>5, <3>1 DEF ManualRun, ManualFetch, Auditing
  <2> QED BY <1>5, <2>1, <2>2 DEF ManualFetch
<1>6. CASE ManualMark(c)
  <2>1. ~(client' = [client EXCEPT ![c] = ClientIdle])
    BY <1>a, <1>b DEF Auditing
  <2>2. client'[c] = ManualRun("freshness", client[c].job, client[c].kind, client[c].ok,
                               client[c].category)
    BY <1>6, <1>a, <2>1 DEF ManualMark
  <2> QED BY <1>6, <2>2 DEF ManualMark, ManualRun, Auditing
<1>7. \/ UNCHANGED client
      \/ \E d \in Clients : ClientStep(d)
  BY DEF Next, WorkerStep, WorkerFault, Start, Claim, Poll, Reclaim, CatchupRead,
         CatchupEnqueue, FetchOk, FetchError, RecordOk, RecordOkRaises, MarkDone, Fail, Defer,
         Outcome, Crash, Swallowed, LostAck, EnqueueSlot, EnqueueJob, Tick, PlannedFire
<1>8. ASSUME ClientStep(c)
      PROVE  (\E k \in Kinds : ManualStart(c, k)) \/ ManualFetch(c) \/ ManualMark(c)
  BY <1>2, <1>3, <1>8 DEF ClientStep
<1> QED BY <1>1, <1>4, <1>5, <1>6, <1>7, <1>8

\* What record_freshness (ddl.py) writes.
Recorded(k, ok, j) ==
    \A x \in Kinds : fresh'[x] = IF x = k THEN [ok |-> ok, ever |-> fresh[k].ever \/ ok, job |-> j]
                                 ELSE fresh[x]

\* Who writes a freshness row: the worker about the job in hand, after its rows
\* landed or its attempt failed, and a manual run about its audit row.
LEMMA FreshTrail ==
    ASSUME Inv, Next
    PROVE  \/ UNCHANGED fresh
           \/ \E w \in Workers : /\ RecordOk(w) \/ RecordOkRaises(w)
                                 /\ Recorded(jobs[worker[w].job].kind, TRUE, worker[w].job)
           \/ \E w \in Workers : /\ Outcome(w)
                                 /\ Recorded(jobs[worker[w].job].kind, FALSE, worker[w].job)
           \/ \E c \in Clients : /\ ManualFreshness(c) /\ ClientStep(c)
                                 /\ Recorded(client[c].kind, client[c].ok, client[c].job)
<1>0. fresh \in [Kinds -> [ok : BOOLEAN, ever : BOOLEAN, job : 0..MaxJobs]]
  BY DEF Inv, TypeOK
<1>a. ASSUME NEW k, NEW ok, NEW j, record_freshness(k, ok, j) PROVE Recorded(k, ok, j)
  BY <1>0, <1>a DEF record_freshness, Recorded
<1>1. ASSUME NEW w \in Workers, RecordOk(w) \/ RecordOkRaises(w)
      PROVE  UNCHANGED fresh \/ Recorded(jobs[worker[w].job].kind, TRUE, worker[w].job)
  BY <1>1, <1>a DEF RecordOk, RecordOkRaises
<1>2. ASSUME NEW w \in Workers, Outcome(w)
      PROVE  Recorded(jobs[worker[w].job].kind, FALSE, worker[w].job)
  BY <1>2, <1>a DEF Outcome
<1>3. ASSUME NEW c \in Clients, ManualFreshness(c)
      PROVE  Recorded(client[c].kind, client[c].ok, client[c].job) /\ ClientStep(c)
  BY <1>3, <1>a DEF ManualFreshness, ClientStep
<1>4. \/ UNCHANGED fresh
      \/ \E w \in Workers : RecordOk(w) \/ RecordOkRaises(w) \/ Outcome(w)
      \/ \E c \in Clients : ManualFreshness(c)
  BY DEF Next, WorkerStep, WorkerFault, Start, Claim, Poll, Reclaim, CatchupRead, CatchupEnqueue,
         FetchOk, FetchError, MarkDone, Fail, Defer, Crash, Swallowed, LostAck, EnqueueSlot,
         EnqueueJob, ClientStep, RunNowRead, RunNowWrite, ManualStart, ManualFetch, ManualMark,
         ClientGone, Tick, PlannedFire
<1> QED BY <1>1, <1>2, <1>3, <1>4

\* The two histories only grow: landed, and whether a kind was ever synced.
LEMMA HistoriesGrow ==
    ASSUME Inv, Next
    PROVE  landed \subseteq landed' /\ \A k \in Kinds : fresh[k].ever => fresh'[k].ever
<1>1. landed \subseteq landed'
  BY DEF Next, WorkerStep, WorkerFault, Start, Claim, Poll, Reclaim, CatchupRead, CatchupEnqueue,
         FetchOk, FetchError, RecordOk, RecordOkRaises, MarkDone, Fail, Defer, Outcome, Crash,
         Swallowed, LostAck, EnqueueSlot, EnqueueJob, ClientStep, RunNowRead, RunNowWrite,
         ManualStart, ManualFetch, ManualMark, ManualFreshness, ClientGone, Tick, PlannedFire
<1>2. \A k \in Kinds : fresh[k].ever => fresh'[k].ever
  <2>1. ASSUME NEW k, NEW ok, NEW j, Recorded(k, ok, j), NEW x \in Kinds, fresh[x].ever
        PROVE  fresh'[x].ever
    <3>1. CASE x = k
      <4>1. fresh'[x].ever = (fresh[k].ever \/ ok)
        BY <2>1, <3>1 DEF Recorded
      <4> QED BY <2>1, <3>1, <4>1, Zenon
    <3>2. CASE x # k
      BY <2>1, <3>2 DEF Recorded
    <3> QED BY <3>1, <3>2
  <2> QED BY <2>1, FreshTrail
<1> QED BY <1>1, <1>2

\* mark_done is the only statement that makes a row done, and it is sent by the
\* worker that holds the row or by the manual run that opened it.
LEMMA NewlyDone ==
    ASSUME Inv, Next, NEW j \in Ids, jobs'[j].status = "done", jobs[j].status # "done"
    PROVE  \/ \E w \in Workers : worker[w].pc = "done" /\ worker[w].job = j
           \/ \E c \in Clients : /\ client[c].pc = "mark" /\ client[c].job # 0 /\ client[c].ok
                                 /\ client[c].job = j /\ client'[c].pc # "mark"
<1>0. TypeOK /\ jobs \in [Ids -> Row] /\ jobs[j] \in Row /\ 0 \in Nat /\ "none" \in Category
  BY DEF Inv, TypeOK, Category
<1>1. ~NoStatement
  BY DEF NoStatement
<1>2. ~EnqueueStatement
  BY <1>0 DEF EnqueueStatement, Enqueue, insert_job, NewRow
<1>3. ~AuditInsert
  BY <1>0 DEF AuditInsert, insert_manual_job, NewRow
<1>4. ~ReclaimStatement
  BY <1>0, ReclaimedFacts DEF ReclaimStatement, reclaim_stale_running
<1>5. ~ClaimStatement
  BY <1>0, ClaimedFacts DEF ClaimStatement, claim_next
<1>6. CASE DoneStatement
  BY <1>0, <1>6 DEF DoneStatement, mark_done
<1>7. ~FailStatement
  <2> SUFFICES ASSUME NEW w \in Workers, worker[w].pc = "fail", FailEffect(w) PROVE FALSE
    BY DEF FailStatement
  <2>1. InHand(w)
    BY DEF InHand, Holds
  <2>2. worker[w].category \in Category /\ PlanOf(w).delay \in Nat
    BY <1>0, <2>1, InHandTypes, PlanTypes DEF PlanOf
  <2>3. \/ jobs'[j] = jobs[j]
        \/ jobs'[j] = Retried(jobs[j], worker[w].category, PlanOf(w).delay)
        \/ jobs'[j] = Failed(jobs[j], worker[w].category)
    BY <1>0 DEF FailEffect, mark_retry, mark_failed
  <2> QED BY <1>0, <2>2, <2>3, MarkedFacts
<1>8. ~DeferStatement
  <2>1. ThrottledDelay \in Nat
    BY DelayAssumption DEF DelayAssumption
  <2>2. Deferred(jobs[j], ThrottledDelay).status = jobs[j].status
    BY <1>0, <2>1, MovedFacts DEF SameAttempt
  <2> QED BY <2>2 DEF DeferStatement, DeferEffect, defer_pending
<1>9. ~ReleaseStatement
  <2>1. Released(jobs[j]).status = jobs[j].status
    BY <1>0, MovedFacts DEF SameAttempt
  <2> QED BY <1>0, <2>1 DEF ReleaseStatement, clear_not_before
<1>10. CASE AuditMark
  <2>1. PICK c \in Clients :
          /\ client[c].pc = "mark" /\ client[c].job # 0
          /\ jobs' = IF client[c].ok THEN mark_done(jobs, client[c].job)
                     ELSE mark_failed(jobs, client[c].job, client[c].category)
          /\ client'[c].pc # "mark"
    BY <1>10 DEF AuditMark
  <2>2. client[c].category \in Category
    BY <1>0 DEF TypeOK, ClientState
  <2>3. Failed(jobs[j], client[c].category).status = "failed"
    BY <1>0, <2>2, MarkedFacts
  <2>4. client[c].ok /\ client[c].job = j
    BY <1>0, <2>1, <2>3 DEF mark_done, mark_failed
  <2> QED BY <2>1, <2>4
<1>11. ~TickOfTable /\ ~PlannedFire
  <2>1. OlderRow(jobs[j]).status = jobs[j].status
    BY <1>0, MovedFacts DEF SameAttempt
  <2>2. ~TickOfTable
    BY <2>1 DEF TickOfTable, Older
  <2>3. ~PlannedFire
    BY TimeMoves DEF SameAttempt
  <2> QED BY <2>2, <2>3
<1> QED BY <1>1, <1>2, <1>3, <1>4, <1>5, <1>6, <1>7, <1>8, <1>9, <1>10, <1>11, OneStatement

---------------------------------------------------------------------------
(* Done means landed. *)

\* The invariant behind DoneImpliesLanded: the rows of a job landed before the
\* worker or the manual run can come to mark it done, and the worker has
\* recorded the success by then (handlers.py records before loop.py marks).
LandedInv ==
    /\ \A w \in Workers : worker[w].pc \in {"landed", "done"} => worker[w].job \in landed
    /\ \A w \in Workers : worker[w].pc = "done" => fresh[jobs[worker[w].job].kind].ever
    /\ \A c \in Clients : Auditing(c) /\ client[c].ok => client[c].job \in landed
    /\ DoneImpliesLanded

\* A claim (loop.py) leads to dispatch.
LEMMA ClaimDispatches ==
    ASSUME Inv, NEW w \in Workers, Claim(w)
    PROVE  /\ worker'[w].pc = "dispatch" /\ worker'[w].job \in Ids
           /\ jobs[worker'[w].job].status = "pending"
           /\ jobs[worker'[w].job].src # "manual"
           /\ UNCHANGED <<client, fresh, landed>>
<1>1. PICK j \in Ids : /\ IsNextClaim(jobs, j)
                       /\ Become(w, Handling("dispatch", j, jobs[j].attempts + 1, "none", FALSE))
  BY DEF Claim
<1>2. worker'[w].pc = "dispatch" /\ worker'[w].job = j
  BY <1>1 DEF Become, Handling, Inv, TypeOK
<1>3. jobs[j].status = "pending"
  BY <1>1 DEF IsNextClaim, Claimable
<1>4. jobs[j].src # "manual"
  BY <1>3, ManualSettledOrRunning DEF Exists
<1> QED BY <1>2, <1>3, <1>4 DEF Claim

\* One step keeps LandedInv.
LEMMA LandedStep ==
    ASSUME Inv, LandedInv, Next
    PROVE  LandedInv'
<1>0. RowMoves /\ TypeOK /\ TypeOK'
  BY StepMoves, TypeNext DEF Inv
<1>g. landed \subseteq landed' /\ \A k \in Kinds : fresh[k].ever => fresh'[k].ever
  BY HistoriesGrow
<1>k. ASSUME NEW j \in Ids, Exists(jobs, j), fresh[jobs[j].kind].ever
      PROVE  fresh'[jobs'[j].kind].ever
  <2>1. jobs'[j].kind = jobs[j].kind
    BY <1>0, <1>k, RowsStay DEF SameJob
  <2>2. jobs[j].kind \in Kinds
    BY <1>0 DEF TypeOK, Row
  <2> QED BY <1>g, <1>k, <2>1, <2>2
<1>1. ASSUME NEW w \in Workers, worker'[w].pc \in {"landed", "done"}
      PROVE  worker'[w].job \in landed'
  <2>1. InHand(w)'
    BY <1>1 DEF InHand, Holds
  <2>2. ~Claim(w)
    BY <1>1, ClaimDispatches
  <2>3. CASE FetchOk(w) /\ worker'[w].job = worker[w].job
    BY <2>3 DEF FetchOk
  <2>4. CASE RecordOk(w) /\ worker'[w].job = worker[w].job
    BY <1>g, <2>4 DEF RecordOk, LandedInv
  <2>5. CASE /\ worker'[w].pc = worker[w].pc /\ worker'[w].job = worker[w].job
    BY <1>1, <1>g, <2>5 DEF LandedInv
  <2> QED BY <1>1, <2>1, <2>2, <2>3, <2>4, <2>5, WorkerTrail
<1>2. ASSUME NEW w \in Workers, worker'[w].pc = "done"
      PROVE  fresh'[jobs'[worker'[w].job].kind].ever
  <2>1. InHand(w)'
    BY <1>2 DEF InHand, Holds
  <2>2. ~Claim(w)
    BY <1>2, ClaimDispatches
  <2>3. CASE RecordOk(w) /\ worker'[w].job = worker[w].job
    <3>1. InHand(w) /\ UNCHANGED jobs
      BY <2>3 DEF RecordOk, InHand, Holds
    <3>2. worker[w].job \in Ids /\ jobs[worker[w].job].kind \in Kinds
      BY <1>0, <3>1, InHandTypes
    <3>3. fresh'[jobs[worker[w].job].kind].ever = (fresh[jobs[worker[w].job].kind].ever \/ TRUE)
      BY <1>0, <2>3, <3>2 DEF RecordOk, record_freshness, TypeOK
    <3> QED BY <2>3, <3>1, <3>3
  <2>4. CASE worker'[w].pc = worker[w].pc /\ worker'[w].job = worker[w].job
    <3>1. Holds(w) /\ worker[w].pc = "done"
      BY <1>2, <2>4 DEF Holds
    <3>2. worker[w].job \in Ids /\ Exists(jobs, worker[w].job)
      BY <3>1, InvOwns DEF Exists
    <3> QED BY <1>k, <2>4, <3>1, <3>2 DEF LandedInv
  <2> QED BY <1>2, <2>1, <2>2, <2>3, <2>4, WorkerTrail
<1>3. ASSUME NEW c \in Clients, Auditing(c)', client'[c].ok PROVE client'[c].job \in landed'
  BY <1>3, <1>g, ClientTrail DEF LandedInv, Auditing
<1>4. ASSUME NEW j \in Ids, jobs'[j].status = "done"
      PROVE  /\ j \in landed'
             /\ jobs'[j].src # "manual" => fresh'[jobs'[j].kind].ever
  <2>0. ASSUME Exists(jobs, j) PROVE jobs'[j].src = jobs[j].src
    BY <1>0, <2>0, RowsStay DEF SameJob
  <2>1. CASE jobs[j].status = "done"
    <3>1. Exists(jobs, j) /\ j \in landed /\ (jobs[j].src # "manual" => fresh[jobs[j].kind].ever)
      BY <2>1 DEF LandedInv, DoneImpliesLanded, Queued, Exists
    <3> QED BY <1>g, <1>k, <2>0, <3>1
  <2>2. ASSUME NEW w \in Workers, worker[w].pc = "done", worker[w].job = j
        PROVE  j \in landed' /\ fresh'[jobs'[j].kind].ever
    <3>1. Holds(w)
      BY <2>2 DEF Holds
    <3>2. Exists(jobs, j)
      BY <2>2, <3>1, InvOwns DEF Exists
    <3> QED BY <1>g, <1>k, <2>2, <3>2 DEF LandedInv
  <2>3. ASSUME NEW c \in Clients, client[c].pc = "mark", client[c].job # 0, client[c].ok,
               client[c].job = j
        PROVE  j \in landed' /\ jobs'[j].src = "manual"
    <3>1. jobs[j].src = "manual" /\ Exists(jobs, j)
      BY <2>3, AuditedRow DEF Exists
    <3>2. j \in landed
      BY <2>3 DEF LandedInv, Auditing
    <3> QED BY <1>g, <2>0, <3>1, <3>2
  <2> QED BY <1>4, <2>1, <2>2, <2>3, NewlyDone
<1>5. DoneImpliesLanded'
  BY <1>4 DEF DoneImpliesLanded, Queued
<1> QED BY <1>1, <1>2, <1>3, <1>5 DEF LandedInv

\* Every reachable state satisfies LandedInv.
LEMMA LandedHolds == Spec => []LandedInv
<1>1. Init => LandedInv
  BY DEF Init, LandedInv, DoneImpliesLanded, Auditing, Idling, ClientIdle, NoRow
<1>2. Inv /\ LandedInv /\ [Next]_vars => LandedInv'
  <2>1. LandedInv /\ UNCHANGED vars => LandedInv'
    BY DEF vars, LandedInv, DoneImpliesLanded, Auditing, Queued
  <2> QED BY <2>1, LandedStep
<1> QED BY <1>1, <1>2, InvHolds, PTL DEF Spec

\* A row that says done had its fetch bring every account's rows, and a queued
\* one has left its kind with a last successful sync: for every number of
\* workers, requests, crashes and replayed marks (handlers.py, loop.py).
THEOREM DoneIsLanded == Spec => []DoneImpliesLanded
<1>1. LandedInv => DoneImpliesLanded
  BY DEF LandedInv
<1> QED BY <1>1, LandedHolds, PTL

---------------------------------------------------------------------------
(* Freshness does not contradict the job it names.  Here the deployment's *)
(* single worker is needed: a second one could finish a retried job        *)
(* between the first one's mark_retry and its record of the failure.       *)

OneWorker == \A v, w \in Workers : v = w

\* The invariant behind FreshnessTruthful.  A freshness row names a row of its
\* own kind; a job in hand is a queued one; a failure still to be recorded is
\* of a job that is not done; the job about to be marked done is not named by a
\* failure; and the audit row of a manual run is its own, and not yet named.
FreshInv ==
    /\ \A k \in Kinds : fresh[k].job # 0 =>
          Exists(jobs, fresh[k].job) /\ jobs[fresh[k].job].kind = k
    /\ \A w \in Workers : InHand(w) =>
          Exists(jobs, worker[w].job) /\ jobs[worker[w].job].src # "manual"
    /\ \A w \in Workers : worker[w].pc \in {"defer", "outcome"} =>
          jobs[worker[w].job].status # "done"
    /\ \A w \in Workers, k \in Kinds :
          worker[w].pc = "done" /\ fresh[k].job = worker[w].job => fresh[k].ok
    /\ \A c, d \in Clients : Auditing(c) /\ Auditing(d) /\ client[c].job = client[d].job => c = d
    /\ \A c \in Clients : Auditing(c) =>
          /\ jobs[client[c].job].kind = client[c].kind
          /\ \A k \in Kinds : fresh[k].job # client[c].job
          /\ client[c].pc = "freshness" /\ ~client[c].ok => jobs[client[c].job].status # "done"
    /\ FreshnessTruthful

\* The writers of a freshness row, in terms of the invariant: the job is 0 or a
\* row of the table, of the kind recorded, and jobs is not written meanwhile.
LEMMA FreshWrites ==
    ASSUME Inv, LandedInv, FreshInv, Next, ~UNCHANGED fresh
    PROVE  \E k \in Kinds, j \in 0..MaxJobs, ok \in BOOLEAN :
              /\ Recorded(k, ok, j) /\ UNCHANGED jobs
              /\ j # 0 => Exists(jobs, j) /\ jobs[j].kind = k
              /\ ok /\ j # 0 => j \in landed
              /\ ~ok /\ j # 0 => jobs[j].status # "done"
              /\ \/ \E w \in Workers : /\ worker[w].pc = "landed" /\ ok /\ worker[w].job = j
                                       /\ worker'[w].pc \in {"done", "fail"}
                 \/ \E w \in Workers : worker[w].pc = "outcome" /\ worker[w].job = j
                 \/ \E c \in Clients : /\ client[c].pc = "freshness" /\ client[c].job = j
                                       /\ client'[c].pc = "idle" /\ UNCHANGED worker
<1>0. TypeOK
  BY DEF Inv
<1>1. ASSUME NEW w \in Workers, RecordOk(w) \/ RecordOkRaises(w)
      PROVE  /\ jobs[worker[w].job].kind \in Kinds /\ worker[w].job \in 0..MaxJobs
             /\ UNCHANGED jobs /\ Exists(jobs, worker[w].job) /\ worker[w].job \in landed
             /\ worker[w].pc = "landed" /\ worker'[w].pc \in {"done", "fail"}
  <2>1. InHand(w) /\ worker[w].pc = "landed" /\ UNCHANGED jobs
    BY <1>1 DEF RecordOk, RecordOkRaises, InHand, Holds
  <2>2. jobs[worker[w].job].kind \in Kinds /\ worker[w].job \in 0..MaxJobs
    BY <1>0, <2>1, InHandTypes, TableAssumption DEF TableAssumption, Ids
  <2>3. worker'[w].pc \in {"done", "fail"}
    <3>1. worker \in [Workers -> WorkerState]
      BY <1>0 DEF TypeOK
    <3>2. CASE Goto(w, "done")
      BY <3>1, <3>2 DEF Goto, Become, Handling
    <3>3. ASSUME NEW msg, Raise(w, msg) PROVE worker'[w].pc = "fail"
      BY <3>1, <3>3 DEF Raise, Become, Handling
    <3> QED BY <1>1, <3>2, <3>3 DEF RecordOk, RecordOkRaises
  <2> QED BY <2>1, <2>2, <2>3 DEF FreshInv, LandedInv
<1>2. ASSUME NEW w \in Workers, Outcome(w)
      PROVE  /\ jobs[worker[w].job].kind \in Kinds /\ worker[w].job \in 0..MaxJobs
             /\ UNCHANGED jobs /\ Exists(jobs, worker[w].job)
             /\ jobs[worker[w].job].status # "done" /\ worker[w].pc = "outcome"
  <2>1. InHand(w) /\ worker[w].pc = "outcome" /\ UNCHANGED jobs
    BY <1>2 DEF Outcome, InHand, Holds
  <2>2. jobs[worker[w].job].kind \in Kinds /\ worker[w].job \in 0..MaxJobs
    BY <1>0, <2>1, InHandTypes, TableAssumption DEF TableAssumption, Ids
  <2> QED BY <2>1, <2>2 DEF FreshInv
<1>3. ASSUME NEW c \in Clients, ManualFreshness(c)
      PROVE  /\ client[c].kind \in Kinds /\ client[c].job \in 0..MaxJobs /\ client[c].ok \in BOOLEAN
             /\ UNCHANGED <<jobs, worker>> /\ client[c].pc = "freshness" /\ client'[c].pc = "idle"
             /\ client[c].job # 0 => /\ Exists(jobs, client[c].job)
                                     /\ jobs[client[c].job].kind = client[c].kind
                                     /\ client[c].ok => client[c].job \in landed
                                     /\ ~client[c].ok => jobs[client[c].job].status # "done"
  <2>1. client[c].pc = "freshness" /\ UNCHANGED <<jobs, worker>>
    BY <1>3 DEF ManualFreshness
  <2>2. client[c].kind \in Kinds /\ client[c].job \in 0..MaxJobs /\ client[c].ok \in BOOLEAN
    BY <1>0 DEF TypeOK, ClientState
  <2>3. client'[c].pc = "idle"
    BY <1>0, <1>3 DEF ManualFreshness, ClientIdle, TypeOK
  <2>4. ASSUME client[c].job # 0
        PROVE  /\ Exists(jobs, client[c].job) /\ jobs[client[c].job].kind = client[c].kind
               /\ client[c].ok => client[c].job \in landed
               /\ ~client[c].ok => jobs[client[c].job].status # "done"
    <3>1. Auditing(c)
      BY <2>1, <2>4 DEF Auditing
    <3> QED BY <2>1, <2>4, <3>1, AuditedRow DEF FreshInv, LandedInv, Exists
  <2> QED BY <2>1, <2>2, <2>3, <2>4
<1>4. CASE \E w \in Workers : /\ RecordOk(w) \/ RecordOkRaises(w)
                              /\ Recorded(jobs[worker[w].job].kind, TRUE, worker[w].job)
  BY <1>1, <1>4
<1>5. CASE \E w \in Workers : Outcome(w) /\ Recorded(jobs[worker[w].job].kind, FALSE, worker[w].job)
  BY <1>2, <1>5
<1>6. CASE \E c \in Clients : /\ ManualFreshness(c)
                              /\ Recorded(client[c].kind, client[c].ok, client[c].job)
  BY <1>3, <1>6
<1> QED BY <1>4, <1>5, <1>6, FreshTrail

\* The row of a job in hand is not a manual one, and a row that a worker or a
\* manual run has in hand becomes done only by its own doing.
LEMMA DoneByOwner ==
    ASSUME Inv, FreshInv, Next, OneWorker, NEW j \in Ids, jobs'[j].status = "done",
           jobs[j].status # "done"
    PROVE  \/ \E w \in Workers : worker[w].pc = "done" /\ worker[w].job = j /\ jobs[j].src # "manual"
           \/ \E c \in Clients : /\ client[c].pc = "mark" /\ Auditing(c) /\ client[c].ok
                                 /\ client[c].job = j /\ jobs[j].src = "manual"
<1>1. ASSUME NEW w \in Workers, worker[w].pc = "done", worker[w].job = j PROVE jobs[j].src # "manual"
  BY <1>1, MarkedRow
<1>2. ASSUME NEW c \in Clients, client[c].pc = "mark", client[c].job # 0, client[c].job = j
      PROVE  Auditing(c) /\ jobs[j].src = "manual"
  BY <1>2, AuditedRow DEF Auditing
<1> QED BY <1>1, <1>2, NewlyDone

\* One step keeps FreshInv.
LEMMA FreshStep ==
    ASSUME Inv, LandedInv, FreshInv, Next, OneWorker
    PROVE  FreshInv'
<1>0. RowMoves /\ TypeOK /\ TypeOK' /\ LandedInv'
  BY StepMoves, TypeNext, LandedStep DEF Inv
<1>s. ASSUME NEW j \in Ids, Exists(jobs, j)
      PROVE  jobs'[j].status # "absent" /\ jobs'[j].kind = jobs[j].kind /\ jobs'[j].src = jobs[j].src
  BY <1>0, <1>s, RowsStay DEF SameJob, Exists
<1>t. ASSUME NEW k \in Kinds, fresh[k].job # 0 PROVE fresh[k].job \in Ids
  <2>1. fresh[k].job \in 0..MaxJobs
    BY <1>0 DEF TypeOK
  <2> QED BY <1>t, <2>1, TableAssumption DEF TableAssumption, Ids
<1>u. \A j \in Ids : j # 0 /\ j \in 0..MaxJobs
  BY TableAssumption DEF TableAssumption, Ids
<1>v. \A j \in 0..MaxJobs : j # 0 => j \in Ids
  BY TableAssumption DEF TableAssumption, Ids
<1>w. ASSUME NEW w \in Workers, InHand(w)
      PROVE  worker[w].job \in Ids /\ Exists(jobs, worker[w].job) /\ jobs[worker[w].job].src # "manual"
  BY <1>0, <1>w, InHandTypes DEF FreshInv
<1>x. ASSUME NEW c \in Clients, Auditing(c)
      PROVE  client[c].job \in Ids /\ Exists(jobs, client[c].job) /\ jobs[client[c].job].src = "manual"
  BY <1>x, AuditedRow DEF Auditing, Exists
<1>1. ASSUME NEW k \in Kinds, fresh'[k].job # 0
      PROVE  jobs'[fresh'[k].job].status # "absent" /\ jobs'[fresh'[k].job].kind = k
  <2>1. CASE fresh'[k] = fresh[k]
    BY <1>1, <1>s, <1>t, <2>1 DEF FreshInv
  <2>2. CASE ~UNCHANGED fresh
    <3>1. PICK x \in Kinds, j \in 0..MaxJobs, ok \in BOOLEAN :
               Recorded(x, ok, j) /\ (j # 0 => Exists(jobs, j) /\ jobs[j].kind = x)
      BY <2>2, FreshWrites
    <3>2. CASE k = x
      <4>1. fresh'[k].job = j
        BY <3>1, <3>2 DEF Recorded
      <4> QED BY <1>1, <1>s, <1>v, <3>1, <3>2, <4>1
    <3>3. CASE k # x
      BY <2>1, <3>1, <3>3 DEF Recorded
    <3> QED BY <3>2, <3>3
  <2> QED BY <2>1, <2>2
<1>2. ASSUME NEW w \in Workers, InHand(w)'
      PROVE  jobs'[worker'[w].job].status # "absent" /\ jobs'[worker'[w].job].src # "manual"
  <2>1. CASE Claim(w)
    <3>1. worker'[w].job \in Ids /\ Exists(jobs, worker'[w].job) /\ jobs[worker'[w].job].src # "manual"
      BY <2>1, ClaimDispatches DEF Exists
    <3> QED BY <1>s, <3>1
  <2>2. CASE InHand(w) /\ worker'[w].job = worker[w].job
    BY <1>s, <1>w, <2>2
  <2>3. CASE worker'[w] = worker[w]
    <3>1. InHand(w)
      BY <1>2, <2>3 DEF InHand, Holds
    <3> QED BY <2>2, <2>3, <3>1
  <2> QED BY <1>2, <2>1, <2>2, <2>3, WorkerTrail
<1>3. ASSUME NEW w \in Workers, worker'[w].pc \in {"defer", "outcome"}
      PROVE  jobs'[worker'[w].job].status # "done"
  <2>0. InHand(w)' /\ ~Claim(w)
    BY <1>3, ClaimDispatches DEF InHand
  <2>1. ASSUME worker'[w].job = worker[w].job, worker[w].pc \in {"fail", "defer", "outcome"}
        PROVE  jobs'[worker'[w].job].status # "done"
    <3>1. InHand(w)
      BY <2>1 DEF InHand, Holds
    <3>2. jobs[worker[w].job].status # "done"
      BY <2>1, MarkedRow DEF FreshInv
    <3>3. \A v \in Workers : worker[v].pc # "done"
      BY <2>1 DEF OneWorker
    <3>4. worker[w].job \in Ids /\ jobs[worker[w].job].src # "manual"
      BY <1>w, <3>1
    <3> QED BY <2>1, <3>2, <3>3, <3>4, DoneByOwner
  <2>2. CASE worker'[w] = worker[w]
    BY <1>3, <2>1, <2>2
  <2>3. CASE worker'[w].job = worker[w].job /\ (Fail(w) \/ Defer(w))
    BY <2>1, <2>3 DEF Fail, Defer
  <2> QED BY <1>3, <2>0, <2>2, <2>3, WorkerTrail
<1>4. ASSUME NEW w \in Workers, NEW k \in Kinds, worker'[w].pc = "done",
             fresh'[k].job = worker'[w].job
      PROVE  fresh'[k].ok
  <2>0. InHand(w)' /\ ~Claim(w)
    BY <1>4, ClaimDispatches DEF InHand, Holds
  <2>1. CASE RecordOk(w) /\ worker'[w].job = worker[w].job
    <3>1. InHand(w)
      BY <2>1 DEF RecordOk, InHand, Holds
    <3>2. worker[w].job \in Ids
      BY <1>w, <3>1
    <3>3. CASE k = jobs[worker[w].job].kind
      <4>1. fresh'[k].ok = TRUE
        BY <1>0, <2>1, <3>3 DEF RecordOk, record_freshness, TypeOK
      <4> QED BY <4>1
    <3>4. CASE k # jobs[worker[w].job].kind
      <4>1. fresh'[k] = fresh[k]
        BY <1>0, <2>1, <3>4 DEF RecordOk, record_freshness, TypeOK
      <4> QED BY <1>4, <1>u, <2>1, <3>2, <3>4, <4>1 DEF FreshInv
    <3> QED BY <3>3, <3>4
  <2>2. ASSUME worker[w].pc = "done", worker'[w].job = worker[w].job
        PROVE  fresh'[k].ok
    <3>0. InHand(w) /\ \A v \in Workers : worker[v].pc = "done"
      BY <2>2 DEF InHand, Holds, OneWorker
    <3>a. worker[w].job \in Ids /\ jobs[worker[w].job].src # "manual"
      BY <1>w, <3>0
    <3>1. CASE fresh'[k] = fresh[k]
      BY <1>4, <2>2, <3>1 DEF FreshInv
    <3>2. CASE ~UNCHANGED fresh
      <4>1. PICK x \in Kinds, j \in 0..MaxJobs, ok \in BOOLEAN :
               /\ Recorded(x, ok, j)
               /\ \/ \E v \in Workers : worker[v].pc = "landed"
                  \/ \E v \in Workers : worker[v].pc = "outcome"
                  \/ \E c \in Clients : client[c].pc = "freshness" /\ client[c].job = j
        BY <3>2, FreshWrites
      <4>2. PICK c \in Clients : client[c].pc = "freshness" /\ client[c].job = j
        BY <3>0, <4>1
      <4>3. j # worker[w].job
        <5>1. CASE j = 0
          BY <1>u, <3>a, <5>1
        <5>2. CASE j # 0
          BY <1>x, <3>a, <4>2, <5>2 DEF Auditing
        <5> QED BY <5>1, <5>2
      <4>4. k # x
        BY <1>4, <2>2, <4>1, <4>3 DEF Recorded
      <4> QED BY <3>1, <4>1, <4>4 DEF Recorded
    <3> QED BY <3>1, <3>2
  <2> QED BY <1>4, <2>0, <2>1, <2>2, WorkerTrail
<1>5. ASSUME NEW c \in Clients, NEW d \in Clients, Auditing(c)', Auditing(d)',
             client'[c].job = client'[d].job, c # d
      PROVE  FALSE
  <2>1. ASSUME NEW a \in Clients, NEW b \in Clients, a # b, Auditing(b)',
               NextId(jobs, client'[a].job), client'[b] = client[b],
               client'[a].job = client'[b].job
        PROVE  FALSE
    <3>1. Auditing(b)
      BY <2>1 DEF Auditing
    <3> QED BY <1>x, <2>1, <3>1 DEF NextId
  <2>2. ASSUME NEW a \in Clients, Auditing(a)'
        PROVE  \/ NextId(jobs, client'[a].job) /\ \A b \in Clients \ {a} : client'[b] = client[b]
               \/ Auditing(a) /\ client'[a].job = client[a].job
    BY <2>2, ClientTrail DEF Auditing
  <2>3. CASE Auditing(c) /\ client'[c].job = client[c].job /\ Auditing(d) /\ client'[d].job = client[d].job
    BY <1>5, <2>3 DEF FreshInv
  <2> QED BY <1>5, <2>1, <2>2, <2>3
<1>6. ASSUME NEW c \in Clients, Auditing(c)'
      PROVE  /\ jobs'[client'[c].job].kind = client'[c].kind
             /\ \A k \in Kinds : fresh'[k].job # client'[c].job
             /\ client'[c].pc = "freshness" /\ ~client'[c].ok => jobs'[client'[c].job].status # "done"
  <2>1. CASE /\ client'[c].pc = "fetch" /\ client'[c].job \in Ids /\ NextId(jobs, client'[c].job)
             /\ jobs' = insert_manual_job(jobs, client'[c].job, client'[c].kind)
             /\ UNCHANGED <<worker, fresh, landed>>
    <3>1. jobs'[client'[c].job].kind = client'[c].kind
      BY <1>0, <2>1 DEF insert_manual_job, NewRow, TypeOK
    <3>2. \A k \in Kinds : fresh'[k].job # client'[c].job
      BY <1>u, <2>1 DEF FreshInv, NextId
    <3> QED BY <2>1, <3>1, <3>2
  <2>2. ASSUME Auditing(c), client'[c].job = client[c].job, client'[c].kind = client[c].kind
        PROVE  /\ jobs'[client'[c].job].kind = client'[c].kind
               /\ \A k \in Kinds : fresh'[k].job # client'[c].job
    <3>1. jobs'[client'[c].job].kind = client'[c].kind
      BY <1>s, <1>x, <2>2 DEF FreshInv
    <3>2. ASSUME NEW k \in Kinds PROVE fresh'[k].job # client[c].job
      <4>1. CASE fresh'[k] = fresh[k]
        BY <2>2, <4>1 DEF FreshInv
      <4>2. CASE ~UNCHANGED fresh
        <5>1. PICK x \in Kinds, j \in 0..MaxJobs, ok \in BOOLEAN :
               /\ Recorded(x, ok, j)
               /\ \/ \E w \in Workers : worker[w].pc \in {"landed", "outcome"} /\ worker[w].job = j
                  \/ \E d \in Clients : /\ client[d].pc = "freshness" /\ client[d].job = j
                                        /\ client'[d].pc = "idle"
          BY <4>2, FreshWrites
        <5>2. ASSUME NEW w \in Workers, worker[w].pc \in {"landed", "outcome"}, worker[w].job = j
              PROVE  j # client[c].job
          <6>1. InHand(w)
            BY <5>2 DEF InHand, Holds
          <6> QED BY <1>w, <1>x, <2>2, <5>2, <6>1
        <5>3. ASSUME NEW d \in Clients, client[d].pc = "freshness", client[d].job = j,
                     client'[d].pc = "idle"
              PROVE  j # client[c].job
          <6>1. d # c
            BY <1>6, <5>3 DEF Auditing
          <6> QED BY <2>2, <5>3, <6>1 DEF FreshInv, Auditing
        <5>4. j # client[c].job
          BY <5>1, <5>2, <5>3
        <5>5. fresh'[k].job = j \/ fresh'[k] = fresh[k]
          BY <5>1 DEF Recorded
        <5> QED BY <4>1, <5>4, <5>5
      <4> QED BY <4>1, <4>2
    <3> QED BY <2>2, <3>1, <3>2
  <2>3. CASE client'[c] = client[c]
    <3>1. Auditing(c)
      BY <1>6, <2>3 DEF Auditing
    <3>2. ASSUME client[c].pc = "freshness", ~client[c].ok PROVE jobs'[client[c].job].status # "done"
      <4>1. jobs[client[c].job].status # "done" /\ client[c].job \in Ids
            /\ jobs[client[c].job].src = "manual"
        BY <1>x, <3>1, <3>2 DEF FreshInv
      <4>2. \A d \in Clients : Auditing(d) /\ client[d].job = client[c].job => d = c
        BY <3>1 DEF FreshInv
      <4> QED BY <3>2, <4>1, <4>2, DoneByOwner
    <3> QED BY <2>2, <2>3, <3>1, <3>2
  <2>4. CASE Auditing(c) /\ client'[c].job = client[c].job /\ client'[c].kind = client[c].kind
             /\ client'[c].pc = "mark"
    BY <2>2, <2>4
  <2>5. CASE Auditing(c) /\ client'[c].job = client[c].job /\ client'[c].kind = client[c].kind
             /\ ManualMark(c) /\ client'[c].ok = client[c].ok
    <3>1. ASSUME ~client[c].ok PROVE jobs'[client[c].job].status # "done"
      <4>1. client[c].job # 0 /\ jobs' = mark_failed(jobs, client[c].job, client[c].category)
        BY <2>5, <3>1 DEF ManualMark, Auditing
      <4>2. client[c].job \in Ids /\ jobs[client[c].job] \in Row /\ client[c].category \in Category
            /\ 0 \in Nat
        BY <1>0, <1>x, <2>5 DEF TypeOK, ClientState
      <4>3. jobs'[client[c].job] = Failed(jobs[client[c].job], client[c].category)
        BY <1>0, <4>1, <4>2 DEF mark_failed, TypeOK
      <4> QED BY <4>2, <4>3, MarkedFacts
    <3> QED BY <2>2, <2>5, <3>1
  <2> QED BY <1>6, <2>1, <2>3, <2>4, <2>5, ClientTrail
<1>7. ASSUME NEW k \in Kinds, fresh'[k].job \in Ids
      PROVE  IF fresh'[k].ok THEN fresh'[k].job \in landed' ELSE jobs'[fresh'[k].job].status # "done"
  <2>0. landed \subseteq landed'
    BY HistoriesGrow
  <2>1. CASE UNCHANGED fresh
    <3>1. CASE fresh[k].ok
      BY <1>7, <2>0, <2>1, <3>1 DEF FreshInv, FreshnessTruthful
    <3>2. CASE ~fresh[k].ok
      <4>1. jobs[fresh[k].job].status # "done"
        BY <1>7, <2>1, <3>2 DEF FreshInv, FreshnessTruthful
      <4>2. \A w \in Workers : ~(worker[w].pc = "done" /\ worker[w].job = fresh[k].job)
        BY <3>2 DEF FreshInv
      <4>3. \A c \in Clients : Auditing(c) => client[c].job # fresh[k].job
        BY DEF FreshInv
      <4> QED BY <1>7, <2>1, <3>2, <4>1, <4>2, <4>3, DoneByOwner
    <3> QED BY <3>1, <3>2
  <2>2. CASE ~UNCHANGED fresh
    <3>1. PICK x \in Kinds, j \in 0..MaxJobs, ok \in BOOLEAN :
               /\ Recorded(x, ok, j) /\ UNCHANGED jobs
               /\ ok /\ j # 0 => j \in landed
               /\ ~ok /\ j # 0 => jobs[j].status # "done"
      BY <2>2, FreshWrites
    <3>2. CASE k = x
      <4>1. fresh'[k].ok = ok /\ fresh'[k].job = j
        BY <3>1, <3>2 DEF Recorded
      <4> QED BY <1>7, <1>u, <2>0, <3>1, <4>1
    <3>3. CASE k # x
      <4>1. fresh'[k] = fresh[k]
        BY <3>1, <3>3 DEF Recorded
      <4> QED BY <1>7, <2>0, <3>1, <4>1 DEF FreshInv, FreshnessTruthful
    <3> QED BY <3>2, <3>3
  <2> QED BY <2>1, <2>2
<1>8. FreshnessTruthful'
  BY <1>7 DEF FreshnessTruthful
<1> QED BY <1>1, <1>2, <1>3, <1>4, <1>5, <1>6, <1>8 DEF FreshInv, Exists

\* With the deployment's one worker, the freshness row (ddl.py) never
\* contradicts the job it names: a success names a job whose rows landed and a
\* failure a job that is not done, whatever manual runs, crashes and replayed
\* marks happen between the two writes of an outcome.
THEOREM FreshnessIsTruthful == ASSUME OneWorker PROVE Spec => []FreshnessTruthful
<1>1. Init => FreshInv
  BY DEF Init, FreshInv, FreshnessTruthful, Auditing, InHand, Holds, Idling, ClientIdle, Ids
<1>2. Inv /\ LandedInv /\ FreshInv /\ [Next]_vars => FreshInv'
  <2>1. FreshInv /\ UNCHANGED vars => FreshInv'
    BY DEF vars, FreshInv, FreshnessTruthful, Auditing, InHand, Holds, Exists
  <2> QED BY <2>1, FreshStep
<1>3. FreshInv => FreshnessTruthful
  BY DEF FreshInv
<1> QED BY <1>1, <1>2, <1>3, InvHolds, LandedHolds, PTL DEF Spec

---------------------------------------------------------------------------
(* The catch-up enqueues a slot once.  Again with one worker: two that      *)
(* read the same gap would both fill it if the first job ends in between.   *)

\* The invariant behind CatchupOnce: a catch-up is about a day not after the
\* current one, a catch-up row of the current day counts as recent, and no kind
\* still to be enqueued has its row already.
CatchupInv ==
    /\ \A w \in Workers : worker[w].pc = "enqueue" => worker[w].as_of <= clock.day
    /\ \A j \in Ids : Exists(jobs, j) /\ jobs[j].src = "catchup" =>
          /\ jobs[j].hash <= clock.day
          /\ jobs[j].hash = clock.day => jobs[j].recent
          /\ \A w \in Workers : worker[w].pc = "enqueue" /\ jobs[j].hash = worker[w].as_of
                                   => jobs[j].kind \notin worker[w].todo
    /\ CatchupOnce

\* created_at of a row that exists (claim.py never writes it).
LEMMA RecentStays ==
    ASSUME Inv, Next, ~PlannedFire, NEW j \in Ids, Exists(jobs, j)
    PROVE  jobs'[j].recent = jobs[j].recent
<1>0. jobs \in [Ids -> Row]
  BY DEF Inv, TypeOK
<1>1. CASE EnqueueStatement
  <2>1. jobs'[j] = jobs[j]
    BY <1>0, <1>1, EnqueueFills DEF EnqueueStatement, Exists
  <2> QED BY <2>1
<1>2. CASE AuditInsert
  BY <1>0, <1>2 DEF AuditInsert, NextId, insert_manual_job
<1>3. CASE ~EnqueueStatement /\ ~AuditInsert
  BY <1>3, OneStatement, UpdatesKeepRows DEF Untouched
<1> QED BY <1>1, <1>2, <1>3

\* A catch-up row is new only when a worker's catch-up inserts it (catchup.py).
LEMMA CatchupInserts ==
    ASSUME Inv, Next, NEW j \in Ids, ~Exists(jobs, j), jobs'[j].status # "absent",
           jobs'[j].src = "catchup"
    PROVE  /\ UNCHANGED clock
           /\ \A i \in Ids \ {j} : jobs'[i] = jobs[i]
           /\ jobs'[j].recent
           /\ \E w \in Workers : CatchupSends(w, jobs'[j].kind, jobs'[j].hash)
<1>0. jobs \in [Ids -> Row]
  BY DEF Inv, TypeOK
<1>1. ~AuditInsert
  BY <1>0 DEF AuditInsert, insert_manual_job, NewRow, Exists
<1>2. EnqueueStatement
  BY <1>1, NewRows DEF Exists
<1>3. PICK k \in Kinds, src \in {"slot", "api", "catchup"}, h \in 0..MaxHash :
             /\ Enqueue(k, src, h)
             /\ src = "catchup" => \E w \in Workers : CatchupSends(w, k, h)
  BY <1>2 DEF EnqueueStatement
<1>4. PICK n \in Ids : jobs' = insert_job(jobs, n, k, src, h)
  BY <1>3 DEF Enqueue, Exists
<1>5. n = j
  BY <1>0, <1>4 DEF insert_job, Exists
<1>6. jobs'[j].src = src /\ jobs'[j].kind = k /\ jobs'[j].hash = h /\ jobs'[j].recent
  BY <1>0, <1>4, <1>5 DEF insert_job, NewRow
<1>7. \A i \in Ids \ {j} : jobs'[i] = jobs[i]
  BY <1>0, <1>4, <1>5 DEF insert_job
<1> QED BY <1>2, <1>3, <1>6, <1>7 DEF EnqueueStatement

\* The list a catch-up works through (catchup.py): read as a whole, then only
\* shortened.
LEMMA CatchupTrail ==
    ASSUME Inv, Next, NEW w \in Workers, worker'[w].pc = "enqueue"
    PROVE  \/ /\ worker[w].pc = "enqueue" /\ worker'[w].as_of = worker[w].as_of
              /\ worker'[w].todo \subseteq worker[w].todo
           \/ /\ worker'[w].as_of = clock.day /\ worker'[w].todo = missed_slots(jobs)
              /\ UNCHANGED <<jobs, clock>>
<1>0. worker \in [Workers -> WorkerState]
  BY DEF Inv, TypeOK
<1>a. ASSUME NEW s, Become(w, s) PROVE worker'[w] = s
  BY <1>0, <1>a DEF Become
<1>b. ASSUME NEW pc, NEW n, Become(w, Idling(pc, n)), pc # "enqueue" PROVE FALSE
  BY <1>a, <1>b DEF Idling
<1>c. ASSUME NEW pc, NEW j, NEW n, NEW cat, NEW b, Become(w, Handling(pc, j, n, cat, b)),
             pc # "enqueue"
      PROVE  FALSE
  BY <1>a, <1>c DEF Handling
<1>1. ASSUME NEW v \in Workers, v # w, WorkerStep(v) \/ WorkerFault(v) PROVE worker'[w] = worker[w]
  <2>1. ASSUME NEW s, Become(v, s) PROVE worker'[w] = worker[w]
    BY <1>0, <1>1, <2>1 DEF Become
  <2>2. CASE WorkerStep(v)
    BY <2>1, <2>2 DEF WorkerStep, Start, Claim, Poll, Reclaim, CatchupRead, CatchupEnqueue, FetchOk,
       FetchError, RecordOk, RecordOkRaises, MarkDone, Fail, Defer, Outcome, Goto, Raise
  <2>3. CASE WorkerFault(v)
    BY <2>1, <2>3 DEF WorkerFault, Crash, Swallowed, LostAck, Replay
  <2> QED BY <1>1, <2>2, <2>3
<1>2. CASE WorkerStep(w)
  <2>1. ~(Start(w) \/ Poll(w) \/ Reclaim(w) \/ MarkDone(w) \/ Outcome(w))
    BY <1>b DEF Start, Poll, Reclaim, MarkDone, Outcome
  <2>2. ~(Claim(w) \/ FetchOk(w) \/ FetchError(w) \/ RecordOk(w) \/ RecordOkRaises(w))
    BY <1>c DEF Claim, FetchOk, FetchError, RecordOk, RecordOkRaises, Goto, Raise
  <2>3. ~(Fail(w) \/ Defer(w))
    BY <1>c DEF Fail, Defer, Goto
  <2>4. CASE CatchupRead(w)
    <3>1. Become(w, CatchingUp(missed_slots(jobs), clock.day))
      BY <1>b, <2>4 DEF CatchupRead
    <3>2. worker'[w] = CatchingUp(missed_slots(jobs), clock.day)
      BY <1>a, <3>1
    <3> QED BY <2>4, <3>2 DEF CatchupRead, CatchingUp
  <2>5. CASE CatchupEnqueue(w)
    <3>1. PICK k \in worker[w].todo : Become(w, CatchingUp(worker[w].todo \ {k}, worker[w].as_of))
      BY <1>b, <2>5 DEF CatchupEnqueue
    <3>2. worker'[w] = CatchingUp(worker[w].todo \ {k}, worker[w].as_of)
      BY <1>a, <3>1
    <3>3. worker'[w].as_of = worker[w].as_of /\ worker'[w].todo = worker[w].todo \ {k}
      BY <3>2 DEF CatchingUp
    <3> QED BY <2>5, <3>3 DEF CatchupEnqueue
  <2> QED BY <1>2, <2>1, <2>2, <2>3, <2>4, <2>5 DEF WorkerStep
<1>3. CASE WorkerFault(w)
  <2>1. ~(Crash(w) \/ Swallowed(w)) /\ ~Become(w, Idling("catchup", 0))
    BY <1>b DEF Crash, Swallowed
  <2>2. ~(Replay(w) /\ worker[w].pc \in {"done", "fail"})
    BY <1>c DEF Replay
  <2>3. UNCHANGED worker
    BY <1>3, <2>1, <2>2 DEF WorkerFault, LostAck
  <2> QED BY <2>3
<1>4. \/ UNCHANGED worker
      \/ \E v \in Workers : WorkerStep(v) \/ WorkerFault(v)
  BY DEF Next, EnqueueSlot, EnqueueJob, ClientStep, RunNowRead, RunNowWrite, ManualStart,
         ManualFetch, ManualMark, ManualFreshness, ClientGone, Tick, PlannedFire
<1> QED BY <1>1, <1>2, <1>3, <1>4

\* One step keeps CatchupInv.
LEMMA CatchupStep ==
    ASSUME Inv, CatchupInv, Next, OneWorker
    PROVE  CatchupInv'
<1>0. /\ RowMoves /\ TypeOK /\ TypeOK' /\ clock.day \in Nat /\ clock'.day \in Nat
      /\ \A w \in Workers : worker[w].as_of \in Nat
      /\ \A j \in Ids : jobs[j].hash \in Nat
  <2>1. TypeOK /\ TypeOK' /\ RowMoves
    BY StepMoves, TypeNext DEF Inv
  <2>2. clock.day \in Nat /\ clock'.day \in Nat
    BY <2>1, IngestAssumption DEF TypeOK, IngestAssumption
  <2>3. \A w \in Workers : worker[w].as_of \in Nat
    BY <2>1, TableAssumption DEF TypeOK, WorkerState, TableAssumption
  <2>4. \A j \in Ids : jobs[j].hash \in Nat
    BY <2>1, TableAssumption DEF TypeOK, Row, TableAssumption
  <2> QED BY <2>1, <2>2, <2>3, <2>4
<1>1. \/ ~PlannedFire /\ clock'.day = clock.day
      \/ PlannedFire /\ clock'.day = clock.day + 1
  <2>1. UNCHANGED clock \/ Tick \/ PlannedFire
    BY DEF Next, WorkerStep, WorkerFault, Start, Claim, Poll, Reclaim, CatchupRead, CatchupEnqueue,
         FetchOk, FetchError, RecordOk, RecordOkRaises, MarkDone, Fail, Defer, Outcome, Crash,
         Swallowed, LostAck, EnqueueSlot, EnqueueJob, ClientStep, RunNowRead, RunNowWrite,
         ManualStart, ManualFetch, ManualMark, ManualFreshness, ClientGone
  <2>2. Tick => clock'.day = clock.day
    BY DEF Tick
  <2>3. PlannedFire => clock'.day = clock.day + 1
    BY DEF PlannedFire
  <2> QED BY <2>1, <2>2, <2>3
<1>2. ASSUME NEW w \in Workers, worker'[w].pc = "enqueue" PROVE worker'[w].as_of <= clock'.day
  BY <1>0, <1>1, <1>2, CatchupTrail DEF CatchupInv
<1>3. ASSUME NEW j \in Ids, Exists(jobs, j), jobs'[j].src = "catchup"
      PROVE  /\ jobs'[j].kind = jobs[j].kind /\ jobs'[j].hash = jobs[j].hash
             /\ jobs[j].src = "catchup"
             /\ jobs'[j].hash <= clock'.day
             /\ jobs'[j].hash = clock'.day => jobs'[j].recent
             /\ \A w \in Workers : worker'[w].pc = "enqueue" /\ jobs'[j].hash = worker'[w].as_of
                                   => jobs'[j].kind \notin worker'[w].todo
  <2>1. jobs'[j].kind = jobs[j].kind /\ jobs'[j].hash = jobs[j].hash /\ jobs[j].src = "catchup"
    BY <1>0, <1>3, RowsStay DEF SameJob
  <2>2. jobs[j].hash <= clock.day /\ (jobs[j].hash = clock.day => jobs[j].recent)
    BY <1>3, <2>1 DEF CatchupInv
  <2>3. jobs'[j].hash <= clock'.day
    BY <1>0, <1>1, <2>1, <2>2
  <2>4. ASSUME jobs'[j].hash = clock'.day PROVE jobs'[j].recent
    <3>1. ~PlannedFire /\ jobs[j].hash = clock.day
      BY <1>0, <1>1, <2>1, <2>2, <2>4
    <3> QED BY <1>3, <2>2, <3>1, RecentStays
  <2>5. ASSUME NEW w \in Workers, worker'[w].pc = "enqueue", jobs'[j].hash = worker'[w].as_of
        PROVE  jobs'[j].kind \notin worker'[w].todo
    <3>1. CASE /\ worker[w].pc = "enqueue" /\ worker'[w].as_of = worker[w].as_of
               /\ worker'[w].todo \subseteq worker[w].todo
      BY <1>3, <2>1, <2>5, <3>1 DEF CatchupInv
    <3>2. CASE worker'[w].as_of = clock.day /\ worker'[w].todo = missed_slots(jobs)
      BY <1>3, <2>1, <2>2, <2>5, <3>2 DEF missed_slots
    <3> QED BY <2>5, <3>1, <3>2, CatchupTrail
  <2> QED BY <2>1, <2>3, <2>4, <2>5
<1>4. ASSUME NEW j \in Ids, ~Exists(jobs, j), jobs'[j].status # "absent", jobs'[j].src = "catchup"
      PROVE  /\ jobs'[j].hash <= clock'.day
             /\ jobs'[j].recent
             /\ \A w \in Workers : worker'[w].pc = "enqueue" /\ jobs'[j].hash = worker'[w].as_of
                                   => jobs'[j].kind \notin worker'[w].todo
             /\ \A i \in Ids \ {j} : /\ jobs'[i] = jobs[i]
                                     /\ Exists(jobs, i) /\ jobs[i].src = "catchup" =>
                                          ~(jobs[i].kind = jobs'[j].kind /\ jobs[i].hash = jobs'[j].hash)
  <2>1. PICK v \in Workers : CatchupSends(v, jobs'[j].kind, jobs'[j].hash)
    BY <1>4, CatchupInserts
  <2>2. UNCHANGED clock /\ jobs'[j].recent /\ \A i \in Ids \ {j} : jobs'[i] = jobs[i]
    BY <1>4, CatchupInserts
  <2>3. /\ worker[v].pc = "enqueue" /\ jobs'[j].kind \in worker[v].todo
        /\ jobs'[j].hash = worker[v].as_of
    BY <2>1 DEF CatchupSends
  <2>4. ASSUME NEW w \in Workers, worker'[w].pc = "enqueue" PROVE jobs'[j].kind \notin worker'[w].todo
    <3>1. w = v
      BY DEF OneWorker
    <3>2. \/ worker'[v] = Idling("claim", 0) \/ worker'[v] = Idling("catchup", 0)
          \/ worker'[v] = CatchingUp(worker[v].todo \ {jobs'[j].kind}, jobs'[j].hash)
      BY <1>0, <2>1 DEF CatchupSends, Become, TypeOK
    <3> QED BY <2>4, <3>1, <3>2 DEF Idling, CatchingUp
  <2>5. jobs'[j].hash <= clock'.day
    BY <2>2, <2>3 DEF CatchupInv
  <2>6. ASSUME NEW i \in Ids, Exists(jobs, i), jobs[i].src = "catchup", jobs[i].kind = jobs'[j].kind,
               jobs[i].hash = jobs'[j].hash
        PROVE  FALSE
    BY <2>3, <2>6 DEF CatchupInv
  <2> QED BY <2>2, <2>4, <2>5, <2>6
<1>5. ASSUME NEW i \in Ids, NEW j \in Ids, jobs'[i].status # "absent", jobs'[j].status # "absent",
             jobs'[i].src = "catchup", jobs'[j].src = "catchup",
             jobs'[i].kind = jobs'[j].kind, jobs'[i].hash = jobs'[j].hash, i # j
      PROVE  FALSE
  <2>1. CASE Exists(jobs, i) /\ Exists(jobs, j)
    BY <1>3, <1>5, <2>1 DEF CatchupInv, CatchupOnce
  <2>2. ASSUME NEW a \in Ids, NEW b \in Ids, a # b, ~Exists(jobs, a), jobs'[a].status # "absent",
               jobs'[b].status # "absent", jobs'[a].src = "catchup", jobs'[b].src = "catchup",
               jobs'[a].kind = jobs'[b].kind, jobs'[a].hash = jobs'[b].hash
        PROVE  FALSE
    <3>1. jobs'[b] = jobs[b]
      BY <1>4, <2>2
    <3>2. Exists(jobs, b) /\ jobs[b].src = "catchup"
      BY <2>2, <3>1 DEF Exists
    <3> QED BY <1>4, <2>2, <3>1, <3>2
  <2> QED BY <1>5, <2>1, <2>2
<1>6. CatchupOnce'
  BY <1>5 DEF CatchupOnce, Exists
<1>7. \A j \in Ids : jobs'[j].status # "absent" /\ jobs'[j].src = "catchup" =>
          /\ jobs'[j].hash <= clock'.day
          /\ jobs'[j].hash = clock'.day => jobs'[j].recent
          /\ \A w \in Workers : worker'[w].pc = "enqueue" /\ jobs'[j].hash = worker'[w].as_of
                                   => jobs'[j].kind \notin worker'[w].todo
  BY <1>3, <1>4
<1> QED BY <1>2, <1>6, <1>7 DEF CatchupInv, Exists

\* With the deployment's one worker, the catch-up (catchup.py) gives each kind
\* at most one row per planned day, however often its pass is interrupted,
\* replayed or overtaken by the next fire.
THEOREM CatchupIsOnce == ASSUME OneWorker PROVE Spec => []CatchupOnce
<1>1. Init => CatchupInv
  BY DEF Init, CatchupInv, CatchupOnce, Exists, NoRow, Idling
<1>2. Inv /\ CatchupInv /\ [Next]_vars => CatchupInv'
  <2>1. CatchupInv /\ UNCHANGED vars => CatchupInv'
    BY DEF vars, CatchupInv, CatchupOnce, Exists
  <2> QED BY <2>1, CatchupStep
<1>3. CatchupInv => CatchupOnce
  BY DEF CatchupInv
<1> QED BY <1>1, <1>2, <1>3, InvHolds, PTL DEF Spec
=============================================================================
