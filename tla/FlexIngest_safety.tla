------------------------- MODULE FlexIngest_safety -------------------------
(***************************************************************************)
(* The inductive invariant of FlexIngest and what follows from it: who     *)
(* owns a claim, the attempts budget, and the refinement of JobPromise.    *)
(***************************************************************************)
EXTENDS FlexIngest_proofs

\* The invariant: types, who owns a claim, the attempts budget, and what those
\* rest on.
Inv == TypeOK /\ HeldJobRunning /\ ClaimsKept /\ AttemptsBounded

---------------------------------------------------------------------------
(* What one step can do to one row. *)

InsertMove(r, s) ==
    /\ r.status = "absent"
    /\ \/ s.src # "manual" /\ s.status = "pending" /\ s.attempts = 0
       \/ s.src = "manual" /\ s.status = "running" /\ s.attempts = 1 /\ s.hash = 0

ClaimMove(r, s) ==
    SameJob(r, s) /\ r.status = "pending" /\ s.status = "running" /\ s.attempts = r.attempts + 1

RetryMove(r, s) ==
    /\ SameJob(r, s) /\ s.attempts = r.attempts
    /\ r.status = "running" /\ s.status = "pending" /\ r.attempts < MaxOf(r)

SettleMove(r, s) ==
    /\ SameJob(r, s) /\ s.attempts = r.attempts
    /\ r.status = "running" \/ (r.src = "manual" /\ r.status \in {"done", "failed"})
    /\ s.status \in {"done", "failed"}

RowMove(r, s) ==
    SameAttempt(r, s) \/ InsertMove(r, s) \/ ClaimMove(r, s) \/ RetryMove(r, s) \/ SettleMove(r, s)

RowMoves == \A j \in Ids : RowMove(jobs[j], jobs'[j])

\* A row that is left alone.
LEMMA Stays == \A r : RowMove(r, r)
BY DEF RowMove, SameAttempt, SameJob

\* reclaim_stale_running (claim.py) touches stale rows only.
LEMMA ReclaimMoves ==
    ASSUME TypeOK, jobs' = reclaim_stale_running(jobs)
    PROVE  RowMoves
<1> SUFFICES ASSUME NEW j \in Ids PROVE RowMove(jobs[j], jobs'[j])
  BY DEF RowMoves
<1>1. jobs[j] \in Row /\ jobs'[j] = IF Stale(jobs[j]) THEN Reclaimed(jobs[j]) ELSE jobs[j]
  BY DEF TypeOK, reclaim_stale_running
<1> QED BY <1>1, Stays, ReclaimedFacts DEF RowMove, RetryMove, SettleMove, Stale

\* claim_next (claim.py) touches one pending row.
LEMMA ClaimMoves ==
    ASSUME TypeOK, NEW i \in Ids, jobs[i].status = "pending", jobs' = claim_next(jobs, i)
    PROVE  RowMoves
<1> SUFFICES ASSUME NEW j \in Ids PROVE RowMove(jobs[j], jobs'[j])
  BY DEF RowMoves
<1>1. jobs[j] \in Row /\ jobs'[j] = IF j = i THEN Claimed(jobs[j]) ELSE jobs[j]
  BY DEF TypeOK, claim_next
<1> QED BY <1>1, Stays, ClaimedFacts DEF RowMove, ClaimMove

\* INSERT ... ON CONFLICT DO NOTHING (enqueue.py) fills an unused id, or nothing.
LEMMA EnqueueMoves ==
    ASSUME TypeOK, NEW k, NEW src \in {"slot", "api", "catchup"}, NEW h, Enqueue(k, src, h)
    PROVE  RowMoves
<1> SUFFICES ASSUME NEW j \in Ids PROVE RowMove(jobs[j], jobs'[j])
  BY DEF RowMoves
<1>1. CASE UNCHANGED jobs
  BY <1>1, Stays
<1>2. CASE \E i \in Ids : NextId(jobs, i) /\ jobs' = insert_job(jobs, i, k, src, h)
  <2>1. PICK i \in Ids : NextId(jobs, i) /\ jobs' = insert_job(jobs, i, k, src, h)
    BY <1>2
  <2>2. jobs'[j] = IF j = i THEN NewRow(k, src, h, "pending", 0) ELSE jobs[j]
    BY <2>1 DEF TypeOK, insert_job
  <2>3. jobs[i].status = "absent"
    BY <2>1 DEF NextId, Exists
  <2> QED BY <2>2, <2>3, Stays DEF RowMove, InsertMove, NewRow
<1> QED BY <1>1, <1>2 DEF Enqueue

\* The row of a job in hand, before and after its own mark_done (claim.py).
LEMMA DoneMoves ==
    ASSUME Inv, NEW w \in Workers, worker[w].pc = "done", jobs' = mark_done(jobs, worker[w].job)
    PROVE  RowMoves
<1> SUFFICES ASSUME NEW j \in Ids PROVE RowMove(jobs[j], jobs'[j])
  BY DEF RowMoves
<1>1. jobs[j] \in Row /\ jobs'[j] = IF j = worker[w].job THEN DoneRow(jobs[j]) ELSE jobs[j]
  BY DEF Inv, TypeOK, mark_done
<1>2. Holds(w)
  BY DEF Holds
<1>3. jobs[worker[w].job].status \in {"running", "done"}
  BY <1>2 DEF Inv, HeldJobRunning, SentStatus
<1>4. "none" \in Category /\ 0 \in Nat
  BY DEF Category
<1>5. CASE j = worker[w].job
  <2>1. SameJob(jobs[j], jobs'[j]) /\ jobs'[j].status = "done" /\ jobs'[j].attempts = jobs[j].attempts
    BY <1>1, <1>4, <1>5, MarkedFacts
  <2> QED BY <1>3, <1>5, <2>1 DEF RowMove, SettleMove, SameAttempt
<1>6. CASE j # worker[w].job
  BY <1>1, <1>6, Stays
<1> QED BY <1>5, <1>6

\* The row of a job in hand, before and after its own mark_retry or mark_failed.
LEMMA FailMoves ==
    ASSUME Inv, NEW w \in Workers, worker[w].pc = "fail", FailEffect(w)
    PROVE  RowMoves
<1> SUFFICES ASSUME NEW j \in Ids PROVE RowMove(jobs[j], jobs'[j])
  BY DEF RowMoves
<1>1. Holds(w) /\ InHand(w) /\ TypeOK
  BY DEF Holds, InHand, Inv
<1>2. /\ worker[w].job \in Ids /\ worker[w].category \in Category
      /\ PlanOf(w).delay \in Nat
      /\ PlanOf(w).retry => worker[w].attempts < MaxOf(jobs[worker[w].job])
  BY <1>1, InHandTypes, PlanTypes DEF PlanOf
<1>3. /\ jobs[worker[w].job].attempts = worker[w].attempts
      /\ jobs[worker[w].job].status =
            IF worker[w].sent THEN IF PlanOf(w).retry THEN "pending" ELSE "failed" ELSE "running"
  BY <1>1 DEF Inv, HeldJobRunning, SentStatus
<1>4. jobs[j] \in Row
  BY <1>1 DEF TypeOK
<1>5. CASE j # worker[w].job
  <2>1. jobs'[j] = jobs[j]
    BY <1>1, <1>5 DEF FailEffect, mark_retry, mark_failed, TypeOK
  <2> QED BY <2>1, Stays
<1>6. CASE j = worker[w].job /\ PlanOf(w).retry
  <2>1. jobs'[j] = Retried(jobs[j], worker[w].category, PlanOf(w).delay)
    BY <1>1, <1>6 DEF FailEffect, mark_retry, TypeOK
  <2>2. SameJob(jobs[j], jobs'[j]) /\ jobs'[j].status = "pending" /\ jobs'[j].attempts = jobs[j].attempts
    BY <1>2, <1>4, <2>1, MarkedFacts
  <2> QED BY <1>2, <1>3, <1>6, <2>2 DEF RowMove, RetryMove, SameAttempt
<1>7. CASE j = worker[w].job /\ ~PlanOf(w).retry
  <2>1. jobs'[j] = Failed(jobs[j], worker[w].category)
    BY <1>1, <1>7 DEF FailEffect, mark_failed, TypeOK
  <2>2. SameJob(jobs[j], jobs'[j]) /\ jobs'[j].status = "failed" /\ jobs'[j].attempts = jobs[j].attempts
    BY <1>2, <1>4, <2>1, MarkedFacts
  <2> QED BY <1>3, <1>7, <2>2 DEF RowMove, SettleMove, SameAttempt
<1> QED BY <1>5, <1>6, <1>7

\* defer_pending (claim.py) moves waits only.
LEMMA DeferMoves ==
    ASSUME TypeOK, NEW w, DeferEffect(w)
    PROVE  RowMoves
<1> SUFFICES ASSUME NEW j \in Ids PROVE RowMove(jobs[j], jobs'[j])
  BY DEF RowMoves
<1>1. jobs[j] \in Row /\ ThrottledDelay \in Nat
  BY DelayAssumption DEF DelayAssumption, TypeOK
<1>2. jobs'[j] = jobs[j] \/ jobs'[j] = Deferred(jobs[j], ThrottledDelay)
  BY DEF DeferEffect, defer_pending
<1> QED BY <1>1, <1>2, Stays, MovedFacts DEF RowMove

\* A manual row is running or settled, never pending: it has no attempt left.
LEMMA ManualSettledOrRunning ==
    ASSUME Inv, NEW j \in Ids, jobs[j].src = "manual", Exists(jobs, j)
    PROVE  jobs[j].status \in {"running", "done", "failed"}
<1>1. jobs[j].attempts = 1 /\ MaxOf(jobs[j]) = 1
  BY DEF Inv, ClaimsKept, MaxOf
<1>2. jobs[j].status # "pending"
  BY <1>1 DEF Inv, AttemptsBounded
<1> QED BY <1>2 DEF Inv, TypeOK, Row, Exists

\* The API's statements (ingest.py, manual_ops.py).
LEMMA ClientMoves ==
    ASSUME Inv, NEW c \in Clients, ClientStep(c)
    PROVE  RowMoves
<1>0. TypeOK /\ jobs \in [Ids -> Row]
  BY DEF Inv, TypeOK
<1> SUFFICES ASSUME NEW j \in Ids PROVE RowMove(jobs[j], jobs'[j])
  BY DEF RowMoves
<1>a. jobs[j] \in Row
  BY <1>0
<1>b. ASSUME UNCHANGED jobs PROVE RowMove(jobs[j], jobs'[j])
  BY <1>b, Stays
<1>1. ASSUME NEW i \in Ids, NEW force \in BOOLEAN, RunNowRead(c, i, force)
      PROVE  RowMove(jobs[j], jobs'[j])
  BY <1>1, <1>b DEF RunNowRead
<1>2. CASE RunNowWrite(c)
  <2>1. jobs'[j] = jobs[j] \/ jobs'[j] = Released(jobs[j])
    BY <1>0, <1>2 DEF RunNowWrite, clear_not_before
  <2>2. 0 \in Nat
    OBVIOUS
  <2> QED BY <1>a, <2>1, <2>2, Stays, MovedFacts DEF RowMove
<1>3. ASSUME NEW k \in Kinds, ManualStart(c, k)
      PROVE  RowMove(jobs[j], jobs'[j])
  <2>1. CASE UNCHANGED jobs
    BY <2>1, <1>b
  <2>2. CASE \E i \in Ids : NextId(jobs, i) /\ jobs' = insert_manual_job(jobs, i, k)
    <3>1. PICK i \in Ids : NextId(jobs, i) /\ jobs' = insert_manual_job(jobs, i, k)
      BY <2>2
    <3>2. jobs'[j] = IF j = i THEN NewRow(k, "manual", 0, "running", 1) ELSE jobs[j]
      BY <1>0, <3>1 DEF insert_manual_job
    <3>3. jobs[i].status = "absent"
      BY <3>1 DEF NextId, Exists
    <3> QED BY <3>2, <3>3, Stays DEF RowMove, InsertMove, NewRow
  <2> QED BY <1>3, <2>1, <2>2 DEF ManualStart
<1>4. CASE ManualFetch(c) \/ ManualFreshness(c) \/ ClientGone(c)
  BY <1>4, <1>b DEF ManualFetch, ManualFreshness, ClientGone
<1>5. CASE ManualMark(c)
  <2>1. CASE client[c].job = 0
    BY <1>5, <1>b, <2>1 DEF ManualMark
  <2>2. CASE j # client[c].job
    <3>1. \/ jobs' = jobs \/ jobs' = mark_done(jobs, client[c].job)
          \/ jobs' = mark_failed(jobs, client[c].job, client[c].category)
      BY <1>5 DEF ManualMark
    <3>2. jobs'[j] = jobs[j]
      BY <1>0, <2>2, <3>1 DEF mark_done, mark_failed
    <3> QED BY <3>2, Stays
  <2>3. CASE j = client[c].job /\ client[c].job # 0
    <3>1. jobs[j].src = "manual" /\ Exists(jobs, j)
      BY <1>5, <2>3 DEF Inv, ClaimsKept, ManualMark
    <3>2. jobs[j].status \in {"running", "done", "failed"}
      BY <3>1, ManualSettledOrRunning
    <3>3. client[c].category \in Category /\ 0 \in Nat
      BY <1>0 DEF TypeOK, ClientState
    <3>4. jobs'[j] = DoneRow(jobs[j]) \/ jobs'[j] = Failed(jobs[j], client[c].category)
      BY <1>0, <1>5, <2>3 DEF ManualMark, mark_done, mark_failed
    <3>5. /\ SameJob(jobs[j], jobs'[j]) /\ jobs'[j].attempts = jobs[j].attempts
          /\ jobs'[j].status \in {"done", "failed"}
      <4>1. /\ SameJob(jobs[j], DoneRow(jobs[j])) /\ DoneRow(jobs[j]).attempts = jobs[j].attempts
            /\ DoneRow(jobs[j]).status = "done"
            /\ SameJob(jobs[j], Failed(jobs[j], client[c].category))
            /\ Failed(jobs[j], client[c].category).attempts = jobs[j].attempts
            /\ Failed(jobs[j], client[c].category).status = "failed"
        BY <1>a, <3>3, MarkedFacts
      <4> QED BY <3>4, <4>1
    <3> QED BY <3>1, <3>2, <3>5 DEF RowMove, SettleMove
  <2> QED BY <2>1, <2>2, <2>3
<1> QED BY <1>1, <1>2, <1>3, <1>4, <1>5 DEF ClientStep

\* A tick and a planned fire move waits, ages and recent only.
LEMMA TimeMoves ==
    ASSUME Inv, Tick \/ PlannedFire
    PROVE  \A j \in Ids : SameAttempt(jobs[j], jobs'[j])
<1> SUFFICES ASSUME NEW j \in Ids PROVE SameAttempt(jobs[j], jobs'[j])
  OBVIOUS
<1>1. jobs[j] \in Row /\ 0 \in Nat
  BY DEF Inv, TypeOK
<1>2. jobs'[j] = OlderRow(jobs[j]) \/ jobs'[j] = [jobs[j] EXCEPT !.recent = FALSE]
  BY DEF Tick, PlannedFire, Older, BeforeFire
<1> QED BY <1>1, <1>2, MovedFacts

\* No step of the pipeline does anything else to a row.
LEMMA StepMoves ==
    ASSUME Inv, Next
    PROVE  RowMoves
<1>0. TypeOK
  BY DEF Inv
<1>a. ASSUME UNCHANGED jobs PROVE RowMoves
  BY <1>a, Stays DEF RowMoves
<1>b. ASSUME NEW j \in Ids, IsNextClaim(jobs, j) PROVE jobs[j].status = "pending"
  BY <1>b DEF IsNextClaim, Claimable
<1>1. ASSUME NEW w \in Workers, WorkerStep(w) PROVE RowMoves
  <2>1. CASE Start(w) \/ Reclaim(w)
    BY <2>1, <1>0, ReclaimMoves DEF Start, Reclaim
  <2>2. CASE Claim(w)
    BY <2>2, <1>0, <1>b, ClaimMoves DEF Claim
  <2>3. CASE Poll(w) \/ CatchupRead(w) \/ FetchOk(w) \/ FetchError(w) \/ RecordOk(w)
             \/ RecordOkRaises(w) \/ Outcome(w)
    BY <2>3, <1>a DEF Poll, CatchupRead, FetchOk, FetchError, RecordOk, RecordOkRaises, Outcome
  <2>4. CASE CatchupEnqueue(w)
    BY <2>4, <1>0, EnqueueMoves DEF CatchupEnqueue
  <2>5. CASE MarkDone(w)
    BY <2>5, DoneMoves DEF MarkDone
  <2>6. CASE Fail(w)
    BY <2>6, FailMoves DEF Fail
  <2>7. CASE Defer(w)
    BY <2>7, <1>0, DeferMoves DEF Defer
  <2> QED BY <1>1, <2>1, <2>2, <2>3, <2>4, <2>5, <2>6, <2>7 DEF WorkerStep
<1>2. ASSUME NEW w \in Workers, WorkerFault(w) PROVE RowMoves
  <2>1. CASE Crash(w) \/ Swallowed(w)
    BY <2>1, <1>a DEF Crash, Swallowed
  <2>2. CASE LostAck(w)
    BY <2>2, <1>0, <1>b, ReclaimMoves, ClaimMoves, EnqueueMoves, DoneMoves, FailMoves, DeferMoves
       DEF LostAck
  <2> QED BY <1>2, <2>1, <2>2 DEF WorkerFault
<1>3. ASSUME NEW k \in Kinds, EnqueueSlot(k) \/ (\E h \in 1..MaxHash : EnqueueJob(k, h))
      PROVE  RowMoves
  BY <1>3, <1>0, EnqueueMoves DEF EnqueueSlot, EnqueueJob
<1>4. CASE Tick \/ PlannedFire
  BY <1>4, TimeMoves DEF RowMoves, RowMove
<1> QED BY <1>1, <1>2, <1>3, <1>4, ClientMoves DEF Next

\* The attempts budget follows from the moves.
LEMMA AttemptsStep ==
    ASSUME Inv, RowMoves, TypeOK'
    PROVE  AttemptsBounded'
<1> SUFFICES ASSUME NEW j \in Ids, jobs'[j].status # "absent"
             PROVE  /\ jobs'[j].attempts <= MaxOf(jobs'[j])
                    /\ jobs'[j].status = "pending" => jobs'[j].attempts < MaxOf(jobs'[j])
  BY DEF AttemptsBounded, Exists
<1>1. RowMove(jobs[j], jobs'[j])
  BY DEF RowMoves
<1>2. jobs[j].attempts \in Nat /\ jobs'[j].attempts \in Nat
  BY DEF Inv, TypeOK, Row
<1>3. /\ jobs[j].status # "absent" => jobs[j].attempts <= MaxOf(jobs[j])
      /\ jobs[j].status = "pending" => jobs[j].attempts < MaxOf(jobs[j])
  BY DEF Inv, AttemptsBounded, Exists
<1>4. SameJob(jobs[j], jobs'[j]) => MaxOf(jobs'[j]) = MaxOf(jobs[j])
  BY DEF SameJob, MaxOf
<1>5. MaxOf(jobs[j]) \in Nat /\ MaxAttempts \in Nat \ {0}
  BY TableAssumption DEF TableAssumption, MaxOf
<1>6. CASE InsertMove(jobs[j], jobs'[j])
  BY <1>5, <1>6 DEF InsertMove, MaxOf
<1>7. CASE SameAttempt(jobs[j], jobs'[j])
  BY <1>3, <1>4, <1>7 DEF SameAttempt
<1>8. CASE ClaimMove(jobs[j], jobs'[j])
  BY <1>2, <1>3, <1>4, <1>5, <1>8 DEF ClaimMove
<1>9. CASE RetryMove(jobs[j], jobs'[j])
  BY <1>2, <1>3, <1>4, <1>5, <1>9 DEF RetryMove
<1>10. CASE SettleMove(jobs[j], jobs'[j])
  BY <1>2, <1>3, <1>4, <1>5, <1>10 DEF SettleMove
<1> QED BY <1>1, <1>6, <1>7, <1>8, <1>9, <1>10 DEF RowMove

---------------------------------------------------------------------------
(* Who owns a claim. *)

\* What HeldJobRunning and ClaimsKept say of one worker.
Owns(w) ==
    LET r == jobs[worker[w].job]
    IN  /\ r.src # "manual"
        /\ r.attempts = worker[w].attempts
        /\ r.status = IF worker[w].sent THEN SentStatus(w) ELSE "running"
        /\ r.age <= RunLimit

\* The row of worker v's claim is left to v.
Spared(v) ==
    /\ worker'[v] = worker[v]
    /\ Holds(v) => /\ SameAttempt(jobs[worker[v].job], jobs'[worker[v].job])
                   /\ jobs'[worker[v].job].age <= RunLimit

\* A worker whose state and row are left alone still owns its claim.
LEMMA SparedOwns ==
    ASSUME NEW v \in Workers, Holds(v) => Owns(v), Spared(v)
    PROVE  Holds(v)' => Owns(v)'
BY DEF Spared, Owns, Holds, SentStatus, PlanOf, SameAttempt, SameJob, MaxOf

\* Inv in terms of Owns.
LEMMA InvOwns ==
    ASSUME Inv, NEW w \in Workers
    PROVE  Holds(w) => /\ Owns(w)
                       /\ worker[w].job \in Ids
                       /\ jobs[worker[w].job] \in Row
                       /\ jobs[worker[w].job].status # "absent"
                       /\ \A v \in Workers : Holds(v) /\ worker[v].job = worker[w].job => v = w
<1> SUFFICES ASSUME Holds(w) PROVE
                       /\ Owns(w)
                       /\ worker[w].job \in Ids
                       /\ jobs[worker[w].job] \in Row
                       /\ jobs[worker[w].job].status # "absent"
                       /\ \A v \in Workers : Holds(v) /\ worker[v].job = worker[w].job => v = w
  OBVIOUS
<1>1. Owns(w) /\ \A v \in Workers : Holds(v) /\ worker[v].job = worker[w].job => v = w
  BY DEF Inv, HeldJobRunning, ClaimsKept, Owns
<1>2. worker[w].job \in Ids /\ jobs[worker[w].job] \in Row
  BY DEF Inv, TypeOK
<1>3. jobs[worker[w].job].status # "absent"
  BY <1>1 DEF Owns, SentStatus
<1> QED BY <1>1, <1>2, <1>3

\* When another worker acts, the lease protects v's row: it is running, not
\* replayed, and not stale.
LEMMA LeaseFacts ==
    ASSUME Inv, NEW v \in Workers, NEW w \in Workers, v # w, Holds(v)
    PROVE  /\ jobs[worker[v].job].status = "running"
           /\ ~Stale(jobs[worker[v].job])
<1>1. RunLimit <= StaleAfter /\ ~LostAcks
  BY LeaseAssumption DEF LeaseAssumption
<1>2. ~worker[v].sent
  BY <1>1 DEF Inv, ClaimsKept
<1>3. Owns(v) /\ jobs[worker[v].job].age \in Nat
  <2>1. jobs[worker[v].job] \in Row /\ Owns(v)
    BY InvOwns
  <2> QED BY <2>1, TableAssumption DEF TableAssumption, Row
<1>4. RunLimit \in Nat /\ StaleAfter \in Nat
  BY TableAssumption, IngestAssumption DEF TableAssumption, IngestAssumption
<1> QED BY <1>1, <1>2, <1>3, <1>4 DEF Owns, Stale

\* The statements a worker w can issue, as seen by another worker v.
LEMMA SparedByWorker ==
    ASSUME Inv, NEW v \in Workers, NEW w \in Workers, v # w, NEW s, Become(w, s),
           \/ UNCHANGED jobs
           \/ jobs' = reclaim_stale_running(jobs)
           \/ \E j \in Ids : jobs[j].status = "pending" /\ jobs' = claim_next(jobs, j)
           \/ \E j \in Ids : \E x : jobs[j].status = "absent" /\ jobs' = [jobs EXCEPT ![j] = x]
           \/ Holds(w) /\ \E x : jobs' = [jobs EXCEPT ![worker[w].job] = x]
           \/ jobs' = defer_pending(jobs, ThrottledDelay, worker[w].job)
    PROVE  Spared(v)
<1>1. worker'[v] = worker[v]
  BY DEF Become, Inv, TypeOK
<1> SUFFICES ASSUME Holds(v)
             PROVE  /\ SameAttempt(jobs[worker[v].job], jobs'[worker[v].job])
                    /\ jobs'[worker[v].job].age <= RunLimit
  BY <1>1 DEF Spared
<1>2. /\ worker[v].job \in Ids /\ jobs[worker[v].job].age <= RunLimit
      /\ jobs[worker[v].job].status = "running" /\ ~Stale(jobs[worker[v].job])
      /\ Holds(w) => worker[v].job # worker[w].job
  BY InvOwns, LeaseFacts DEF Owns
<1>3. jobs \in [Ids -> Row]
  BY DEF Inv, TypeOK
<1>4. jobs'[worker[v].job] = jobs[worker[v].job]
  BY <1>2, <1>3 DEF reclaim_stale_running, claim_next, defer_pending
<1> QED BY <1>2, <1>4 DEF SameAttempt, SameJob

\* Ownership and the replay flag after a step: the actor w apart, all are spared.
LEMMA OwnershipByParts ==
    ASSUME Inv, NEW w \in Workers, \A v \in Workers \ {w} : Spared(v),
           Holds(w)' => Owns(w)',
           Holds(w)' => (Holds(w) /\ worker'[w].job = worker[w].job)
                         \/ \A v \in Workers \ {w} : Holds(v) => worker[v].job # worker'[w].job,
           worker'[w].sent => LostAcks /\ worker'[w].pc \in {"done", "fail"}
    PROVE  /\ HeldJobRunning'
           /\ \A v \in Workers : worker'[v].sent => LostAcks /\ worker'[v].pc \in {"done", "fail"}
           /\ \A v \in Workers : Holds(v)' => jobs'[worker'[v].job].age <= RunLimit
<1>1. \A v \in Workers : Holds(v)' => Owns(v)'
  <2> SUFFICES ASSUME NEW v \in Workers PROVE Holds(v)' => Owns(v)'
    OBVIOUS
  <2>1. CASE v = w
    BY <2>1
  <2>2. CASE v # w
    BY <2>2, InvOwns, SparedOwns
  <2> QED BY <2>1, <2>2
<1>2. \A v \in Workers \ {w} : worker'[v] = worker[v] /\ (Holds(v)' <=> Holds(v))
  BY DEF Spared, Holds
<1>3. \A u, v \in Workers : Holds(u) /\ Holds(v) /\ worker[u].job = worker[v].job => u = v
  BY InvOwns
<1>4. \A u, v \in Workers : Holds(u)' /\ Holds(v)' /\ worker'[u].job = worker'[v].job => u = v
  <2> SUFFICES ASSUME NEW u \in Workers, NEW v \in Workers, Holds(u)', Holds(v)',
                      worker'[u].job = worker'[v].job
               PROVE  u = v
    OBVIOUS
  <2> QED BY <1>2, <1>3
<1>5. HeldJobRunning'
  BY <1>1, <1>4 DEF HeldJobRunning, Owns
<1>6. \A v \in Workers : worker'[v].sent => LostAcks /\ worker'[v].pc \in {"done", "fail"}
  BY <1>2 DEF Inv, ClaimsKept
<1>7. \A v \in Workers : Holds(v)' => jobs'[worker'[v].job].age <= RunLimit
  BY <1>1 DEF Owns
<1> QED BY <1>5, <1>6, <1>7

\* The worker part of HeldJobRunning and ClaimsKept in the next state.
Ownership ==
    /\ HeldJobRunning'
    /\ \A v \in Workers : worker'[v].sent => LostAcks /\ worker'[v].pc \in {"done", "fail"}
    /\ \A v \in Workers : Holds(v)' => jobs'[worker'[v].job].age <= RunLimit

\* A worker that holds nothing after its step, and sends no replay.
LEMMA LetsGo ==
    ASSUME Inv, NEW w \in Workers, NEW s \in WorkerState, Become(w, s), ~s.sent,
           s.pc \notin {"dispatch", "landed", "done", "fail"},
           \A v \in Workers \ {w} : Spared(v)
    PROVE  Ownership
<1>1. worker'[w] = s
  BY DEF Become, Inv, TypeOK
<1>2. ~Holds(w)' /\ ~worker'[w].sent
  BY <1>1 DEF Holds
<1> QED BY <1>2, OwnershipByParts DEF Ownership

\* A worker that goes on with the job in hand, its row untouched.
LEMMA KeepsOn ==
    ASSUME Inv, NEW w \in Workers, worker[w].pc \in {"dispatch", "landed"},
           NEW pc \in {"landed", "done", "fail"}, NEW cat,
           Become(w, Handling(pc, worker[w].job, worker[w].attempts, cat, FALSE)),
           UNCHANGED jobs
    PROVE  Ownership
<1>1. /\ worker'[w].pc = pc /\ worker'[w].job = worker[w].job /\ ~worker'[w].sent
      /\ worker'[w].attempts = worker[w].attempts
  BY DEF Become, Handling, Inv, TypeOK
<1>2. Holds(w) /\ ~worker[w].sent
  BY DEF Holds, Inv, ClaimsKept
<1>3. Owns(w)
  BY <1>2, InvOwns
<1>4. Owns(w)'
  BY <1>1, <1>2, <1>3 DEF Owns
<1>5. \A v \in Workers \ {w} : Spared(v)
  BY SparedByWorker
<1> QED BY <1>1, <1>2, <1>4, <1>5, OwnershipByParts DEF Ownership

\* Rows of insert_job (enqueue.py): an unused id is filled, or nothing happens.
LEMMA EnqueueFills ==
    ASSUME NEW k, NEW src, NEW h, Enqueue(k, src, h)
    PROVE  UNCHANGED jobs \/ \E j \in Ids : \E x : jobs[j].status = "absent" /\ jobs' = [jobs EXCEPT ![j] = x]
BY DEF Enqueue, NextId, Exists, insert_job

\* Every step of the worker loop keeps ownership.
LEMMA WorkerOwnership ==
    ASSUME Inv, NEW w \in Workers, WorkerStep(w)
    PROVE  Ownership
<1>0. TypeOK
  BY DEF Inv
<1>a. ASSUME NEW pc \in WorkerPc, NEW n
      PROVE  ~Idling(pc, n).sent /\ Idling(pc, n).pc = pc
  BY DEF Idling
<1>i. ASSUME NEW pc \in {"claim", "reclaim", "catchup"}, NEW n \in Nat, Become(w, Idling(pc, n)),
             \A v \in Workers \ {w} : Spared(v)
      PROVE  Ownership
  <2>1. Idling(pc, n) \in WorkerState
    BY TableAssumption DEF TableAssumption, Idling, WorkerState, WorkerPc, Category
  <2>2. ~Idling(pc, n).sent /\ Idling(pc, n).pc = pc
    BY DEF Idling
  <2> QED BY <1>i, <2>1, <2>2, LetsGo
<1>c. ASSUME NEW todo \in SUBSET Kinds, NEW h \in 0..MaxHash, Become(w, CatchingUp(todo, h)),
             \A v \in Workers \ {w} : Spared(v)
      PROVE  Ownership
  <2>1. CatchingUp(todo, h) \in WorkerState
    BY TableAssumption DEF TableAssumption, CatchingUp, WorkerState, WorkerPc, Category
  <2>2. ~CatchingUp(todo, h).sent /\ CatchingUp(todo, h).pc = "enqueue"
    BY DEF CatchingUp
  <2> QED BY <1>c, <2>1, <2>2, LetsGo
<1>d. ASSUME NEW pc \in {"defer", "outcome"}, Goto(w, pc), InHand(w),
             \A v \in Workers \ {w} : Spared(v)
      PROVE  Ownership
  <2> DEFINE s == Handling(pc, worker[w].job, worker[w].attempts, worker[w].category, FALSE)
  <2>0. pc \in WorkerPc /\ 0 \in 0..MaxHash
    BY TableAssumption DEF TableAssumption, WorkerPc
  <2>1. s \in WorkerState
    BY <1>0, <1>d, <2>0, InHandTypes, WorkerTypes
  <2>2. ~s.sent /\ s.pc = pc
    BY DEF Handling
  <2>3. Become(w, s)
    BY <1>d DEF Goto
  <2> QED BY <1>d, <2>1, <2>2, <2>3, LetsGo
<1>e. /\ worker[w].idle + 1 \in Nat /\ 0 \in Nat /\ worker[w].todo \in SUBSET Kinds
      /\ worker[w].as_of \in 0..MaxHash /\ clock.day \in 0..MaxHash
  <2>1. worker[w] \in WorkerState
    BY <1>0 DEF TypeOK
  <2>2. clock.day \in 0..MaxHash
    BY <1>0, IngestAssumption DEF TypeOK, IngestAssumption
  <2>3. worker[w].idle \in Nat /\ worker[w].todo \in SUBSET Kinds /\ worker[w].as_of \in 0..MaxHash
    BY <2>1 DEF WorkerState
  <2> QED BY <2>2, <2>3
<1>1. CASE Start(w)
  <2>1. \A v \in Workers \ {w} : Spared(v)
    BY <1>1, SparedByWorker DEF Start
  <2> QED BY <1>1, <1>e, <1>i, <2>1 DEF Start
<1>2. CASE Claim(w)
  <2>1. PICK j \in Ids : /\ IsNextClaim(jobs, j) /\ jobs' = claim_next(jobs, j)
                         /\ Become(w, Handling("dispatch", j, jobs[j].attempts + 1, "none", FALSE))
    BY <1>2 DEF Claim
  <2>2. jobs[j].status = "pending" /\ jobs[j] \in Row
    BY <1>0, <2>1 DEF IsNextClaim, Claimable, TypeOK
  <2>3. \A v \in Workers \ {w} : Spared(v)
    BY <2>1, <2>2, SparedByWorker
  <2>4. /\ worker'[w].pc = "dispatch" /\ worker'[w].job = j /\ ~worker'[w].sent
        /\ worker'[w].attempts = jobs[j].attempts + 1
    BY <1>0, <2>1 DEF Become, Handling, TypeOK
  <2>5. jobs'[j] = Claimed(jobs[j])
    BY <1>0, <2>1 DEF claim_next, TypeOK
  <2>6. jobs[j].src # "manual"
    BY <2>2, ManualSettledOrRunning DEF Exists
  <2>7. Owns(w)'
    <3>1. 0 <= RunLimit
      BY IngestAssumption DEF IngestAssumption
    <3> QED BY <2>2, <2>4, <2>5, <2>6, <3>1, ClaimedFacts DEF Owns, SameJob
  <2>8. \A v \in Workers \ {w} : Holds(v) => worker[v].job # worker'[w].job
    BY <2>2, <2>4, LeaseFacts
  <2> QED BY <2>3, <2>4, <2>7, <2>8, OwnershipByParts DEF Ownership
<1>3. CASE Poll(w)
  <2>1. \A v \in Workers \ {w} : Spared(v)
    BY <1>3, SparedByWorker DEF Poll
  <2> QED BY <1>3, <1>e, <1>i, <2>1 DEF Poll
<1>4. CASE Reclaim(w)
  <2>1. \A v \in Workers \ {w} : Spared(v)
    BY <1>4, SparedByWorker DEF Reclaim
  <2> QED BY <1>4, <1>e, <1>i, <2>1 DEF Reclaim
<1>5. CASE CatchupRead(w)
  <2>1. \A v \in Workers \ {w} : Spared(v)
    BY <1>5, SparedByWorker DEF CatchupRead
  <2>2. missed_slots(jobs) \in SUBSET Kinds
    BY DEF missed_slots
  <2> QED BY <1>5, <1>e, <1>i, <1>c, <2>1, <2>2 DEF CatchupRead
<1>6. CASE CatchupEnqueue(w)
  <2>1. PICK k \in worker[w].todo :
               /\ Enqueue(k, "catchup", worker[w].as_of)
               /\ Become(w, IF worker[w].todo = {k} THEN Idling("claim", 0)
                            ELSE CatchingUp(worker[w].todo \ {k}, worker[w].as_of))
    BY <1>6 DEF CatchupEnqueue
  <2>2. \A v \in Workers \ {w} : Spared(v)
    BY <2>1, EnqueueFills, SparedByWorker
  <2>3. worker[w].todo \ {k} \in SUBSET Kinds
    BY <1>e
  <2> QED BY <1>e, <1>i, <1>c, <2>1, <2>2, <2>3
<1>7. CASE FetchOk(w)
  BY <1>7, KeepsOn DEF FetchOk, Goto
<1>8. CASE FetchError(w)
  BY <1>8, KeepsOn DEF FetchError, Raise
<1>9. CASE RecordOk(w)
  BY <1>9, KeepsOn DEF RecordOk, Goto
<1>10. CASE RecordOkRaises(w)
  BY <1>10, KeepsOn DEF RecordOkRaises, Raise
<1>11. CASE MarkDone(w)
  <2>1. \A v \in Workers \ {w} : Spared(v)
    BY <1>11, SparedByWorker DEF MarkDone, mark_done, Holds
  <2> QED BY <1>11, <1>e, <1>i, <2>1 DEF MarkDone
<1>12. CASE Fail(w)
  <2>1. Holds(w) /\ InHand(w)
    BY <1>12 DEF Fail, Holds, InHand
  <2>2. \E x : jobs' = [jobs EXCEPT ![worker[w].job] = x]
    BY <1>12 DEF Fail, FailEffect, mark_retry, mark_failed
  <2>3. \A v \in Workers \ {w} : Spared(v)
    BY <1>12, <2>1, <2>2, SparedByWorker DEF Fail, Goto
  <2> QED BY <1>12, <1>d, <2>1, <2>3 DEF Fail
<1>13. CASE Defer(w)
  <2>1. \A v \in Workers \ {w} : Spared(v)
    BY <1>13, SparedByWorker DEF Defer, DeferEffect, Goto
  <2> QED BY <1>13, <1>d, <2>1 DEF Defer, InHand
<1>14. CASE Outcome(w)
  <2>1. \A v \in Workers \ {w} : Spared(v)
    BY <1>14, SparedByWorker DEF Outcome
  <2> QED BY <1>14, <1>e, <1>i, <2>1 DEF Outcome
<1> QED
  BY <1>1, <1>2, <1>3, <1>4, <1>5, <1>6, <1>7, <1>8, <1>9, <1>10, <1>11, <1>12, <1>13, <1>14
     DEF WorkerStep

\* A crash, a swallowed exception, a lost answer: the claim is dropped, or its
\* statement is repeated by the worker that still owns it.
LEMMA FaultOwnership ==
    ASSUME Inv, NEW w \in Workers, WorkerFault(w)
    PROVE  Ownership
<1>0. TypeOK /\ worker[w] \in WorkerState
  BY DEF Inv, TypeOK
<1>i. ASSUME NEW pc \in {"down", "claim", "catchup"}, Become(w, Idling(pc, 0)),
             \A v \in Workers \ {w} : Spared(v)
      PROVE  Ownership
  <2>1. Idling(pc, 0) \in WorkerState
    BY TableAssumption DEF TableAssumption, Idling, WorkerState, WorkerPc, Category
  <2>2. ~Idling(pc, 0).sent /\ Idling(pc, 0).pc = pc
    BY DEF Idling
  <2> QED BY <1>i, <2>1, <2>2, LetsGo
<1>u. ASSUME UNCHANGED worker, worker[w].pc \in {"down", "claim", "reclaim", "defer"},
             \A v \in Workers \ {w} : Spared(v)
      PROVE  Ownership
  <2>1. Become(w, worker[w])
    BY <1>0, <1>u DEF Become, TypeOK
  <2>2. ~worker[w].sent
    BY <1>u DEF Inv, ClaimsKept
  <2> QED BY <1>0, <1>u, <2>1, <2>2, LetsGo
<1>n. ASSUME UNCHANGED worker PROVE Become(w, worker[w])
  BY <1>0, <1>n DEF Become, TypeOK
<1>1. CASE Crash(w)
  <2>1. \A v \in Workers \ {w} : Spared(v)
    BY <1>1, SparedByWorker DEF Crash
  <2> QED BY <1>1, <1>i, <2>1 DEF Crash
<1>2. CASE Swallowed(w)
  <2>1. \A v \in Workers \ {w} : Spared(v)
    BY <1>2, SparedByWorker DEF Swallowed
  <2> QED BY <1>2, <1>i, <2>1 DEF Swallowed
<1>3. ASSUME LostAcks, worker[w].pc \in {"down", "reclaim"}, UNCHANGED worker,
             jobs' = reclaim_stale_running(jobs)
      PROVE  Ownership
  <2>1. \A v \in Workers \ {w} : Spared(v)
    BY <1>3, <1>n, SparedByWorker
  <2> QED BY <1>3, <1>u, <2>1
<1>4. ASSUME LostAcks, worker[w].pc = "claim", UNCHANGED worker,
             NEW j \in Ids, IsNextClaim(jobs, j), jobs' = claim_next(jobs, j)
      PROVE  Ownership
  <2>1. jobs[j].status = "pending"
    BY <1>4 DEF IsNextClaim, Claimable
  <2>2. \A v \in Workers \ {w} : Spared(v)
    BY <1>4, <1>n, <2>1, SparedByWorker
  <2> QED BY <1>4, <1>u, <2>2
<1>5. ASSUME LostAcks, NEW k, Enqueue(k, "catchup", worker[w].as_of),
             Become(w, Idling("catchup", 0))
      PROVE  Ownership
  <2>1. \A v \in Workers \ {w} : Spared(v)
    BY <1>5, EnqueueFills, SparedByWorker
  <2> QED BY <1>5, <1>i, <2>1
<1>r. ASSUME worker[w].pc \in {"done", "fail"}, Replay(w)
      PROVE  /\ Holds(w) /\ Holds(w)'
             /\ worker'[w].pc = worker[w].pc /\ worker'[w].job = worker[w].job
             /\ worker'[w].attempts = worker[w].attempts /\ worker'[w].category = worker[w].category
             /\ worker'[w].sent
  BY <1>0, <1>r DEF Replay, Become, Handling, Holds, TypeOK
<1>6. ASSUME LostAcks, worker[w].pc = "done", jobs' = mark_done(jobs, worker[w].job), Replay(w)
      PROVE  Ownership
  <2>1. \A v \in Workers \ {w} : Spared(v)
    BY <1>6, SparedByWorker DEF mark_done, Holds, Replay
  <2>2. Owns(w) /\ worker[w].job \in Ids /\ jobs[worker[w].job] \in Row
    BY <1>6, <1>r, InvOwns
  <2>3. jobs'[worker[w].job] = DoneRow(jobs[worker[w].job])
    BY <1>0, <1>6, <2>2 DEF mark_done, TypeOK
  <2>4. 0 <= RunLimit /\ "none" \in Category /\ 0 \in Nat
    BY IngestAssumption DEF IngestAssumption, Category
  <2>5. Owns(w)'
    BY <1>6, <1>r, <2>2, <2>3, <2>4, MarkedFacts DEF Owns, SentStatus, SameJob
  <2> QED BY <1>6, <1>r, <2>1, <2>5, OwnershipByParts DEF Ownership
<1>7. ASSUME LostAcks, worker[w].pc = "fail", FailEffect(w), Replay(w)
      PROVE  Ownership
  <2>1. \E x : jobs' = [jobs EXCEPT ![worker[w].job] = x]
    BY <1>7 DEF FailEffect, mark_retry, mark_failed
  <2>2. \A v \in Workers \ {w} : Spared(v)
    BY <1>7, <2>1, SparedByWorker DEF Holds, Replay
  <2>3. /\ Owns(w) /\ worker[w].job \in Ids /\ jobs[worker[w].job] \in Row
        /\ worker[w].category \in Category /\ PlanOf(w).delay \in Nat
    <3>1. InHand(w)
      BY <1>7 DEF InHand, Holds
    <3>2. worker[w].category \in Category /\ PlanOf(w).delay \in Nat
      BY <1>0, <3>1, InHandTypes, PlanTypes DEF PlanOf
    <3> QED BY <1>7, <1>r, <3>2, InvOwns
  <2>4. jobs'[worker[w].job] =
            IF PlanOf(w).retry
            THEN Retried(jobs[worker[w].job], worker[w].category, PlanOf(w).delay)
            ELSE Failed(jobs[worker[w].job], worker[w].category)
    BY <1>0, <1>7, <2>3 DEF FailEffect, mark_retry, mark_failed, TypeOK
  <2>5. 0 <= RunLimit
    BY IngestAssumption DEF IngestAssumption
  <2> DEFINE s == jobs'[worker[w].job]
  <2>6. /\ SameJob(jobs[worker[w].job], s) /\ s.attempts = jobs[worker[w].job].attempts
        /\ s.age = 0 /\ s.status = IF PlanOf(w).retry THEN "pending" ELSE "failed"
    BY <2>3, <2>4, MarkedFacts
  <2>7. SentStatus(w)' = IF PlanOf(w).retry THEN "pending" ELSE "failed"
    BY <1>7, <1>r, <2>6 DEF SentStatus, PlanOf, SameJob, MaxOf
  <2>8. Owns(w)'
    BY <1>7, <1>r, <2>3, <2>5, <2>6, <2>7 DEF Owns, SameJob
  <2> QED BY <1>7, <1>r, <2>2, <2>8, OwnershipByParts DEF Ownership
<1>8. ASSUME LostAcks, worker[w].pc = "defer", DeferEffect(w), UNCHANGED worker
      PROVE  Ownership
  <2>1. \A v \in Workers \ {w} : Spared(v)
    BY <1>8, <1>n, SparedByWorker DEF DeferEffect
  <2> QED BY <1>8, <1>u, <2>1
<1>9. CASE LostAck(w)
  BY <1>9, <1>3, <1>4, <1>5, <1>6, <1>7, <1>8 DEF LostAck
<1> QED BY <1>1, <1>2, <1>9 DEF WorkerFault

---------------------------------------------------------------------------
(* The other processes leave every claim to its worker. *)

\* No worker acts and each is spared.
LEMMA AllSpared ==
    ASSUME Inv, \A v \in Workers : Spared(v)
    PROVE  Ownership
<1>1. \A v \in Workers : Holds(v)' => Owns(v)'
  BY InvOwns, SparedOwns
<1>2. \A v \in Workers : worker'[v] = worker[v] /\ (Holds(v)' <=> Holds(v))
  BY DEF Spared, Holds
<1>3. \A u, v \in Workers : Holds(u)' /\ Holds(v)' /\ worker'[u].job = worker'[v].job => u = v
  BY <1>2, InvOwns
<1>4. HeldJobRunning'
  BY <1>1, <1>3 DEF HeldJobRunning, Owns
<1>5. \A v \in Workers : worker'[v].sent => LostAcks /\ worker'[v].pc \in {"done", "fail"}
  BY <1>2 DEF Inv, ClaimsKept
<1>6. \A v \in Workers : Holds(v)' => jobs'[worker'[v].job].age <= RunLimit
  BY <1>1 DEF Owns
<1> QED BY <1>4, <1>5, <1>6 DEF Ownership

\* A held row that does not change, or changes its wait and recent only.
LEMMA RowSpared ==
    ASSUME Inv, NEW v \in Workers, UNCHANGED worker,
           Holds(v) => \/ jobs'[worker[v].job] = jobs[worker[v].job]
                       \/ /\ SameAttempt(jobs[worker[v].job], jobs'[worker[v].job])
                          /\ jobs'[worker[v].job].age = jobs[worker[v].job].age
    PROVE  Spared(v)
<1>1. Holds(v) => jobs[worker[v].job].age <= RunLimit
  BY InvOwns DEF Owns
<1> QED BY <1>1 DEF Spared, SameAttempt, SameJob

\* The trigger, the API and the clock keep ownership.
LEMMA EnvOwnership ==
    ASSUME Inv,
           \/ \E k \in Kinds : EnqueueSlot(k) \/ (\E h \in 1..MaxHash : EnqueueJob(k, h))
           \/ \E c \in Clients : ClientStep(c)
           \/ Tick
           \/ PlannedFire
    PROVE  Ownership
<1>0. UNCHANGED worker
  BY DEF EnqueueSlot, EnqueueJob, ClientStep, RunNowRead, RunNowWrite, ManualStart, ManualFetch,
         ManualMark, ManualFreshness, ClientGone, Tick, PlannedFire
<1> SUFFICES ASSUME NEW v \in Workers, Holds(v) PROVE Spared(v)
  BY <1>0, AllSpared DEF Spared
<1> DEFINE i == worker[v].job
<1>1. /\ i \in Ids /\ jobs[i] \in Row /\ jobs[i].status # "absent" /\ jobs[i].src # "manual"
      /\ jobs[i].age <= RunLimit /\ jobs \in [Ids -> Row]
  BY InvOwns DEF Owns, Inv, TypeOK
<1>2. ASSUME jobs'[i] = jobs[i] PROVE Spared(v)
  BY <1>0, <1>2, RowSpared
<1>3. ASSUME NEW k, NEW src, NEW h, Enqueue(k, src, h) PROVE Spared(v)
  BY <1>1, <1>2, <1>3, EnqueueFills
<1>4. CASE \E k \in Kinds : EnqueueSlot(k) \/ (\E h \in 1..MaxHash : EnqueueJob(k, h))
  BY <1>3, <1>4 DEF EnqueueSlot, EnqueueJob
<1>5. ASSUME NEW c \in Clients, ClientStep(c) PROVE Spared(v)
  <2>1. CASE UNCHANGED jobs
    BY <1>2, <2>1
  <2>2. CASE RunNowWrite(c)
    <3>1. jobs'[i] = jobs[i] \/ jobs'[i] = Released(jobs[i])
      BY <1>1, <2>2 DEF RunNowWrite, clear_not_before
    <3>2. SameAttempt(jobs[i], Released(jobs[i])) /\ Released(jobs[i]).age = jobs[i].age
      BY <1>1, MovedFacts DEF Released, SameAttempt, SameJob, Row
    <3> QED BY <1>0, <3>1, <3>2, RowSpared
  <2>3. ASSUME NEW k \in Kinds, ManualStart(c, k) PROVE Spared(v)
    <3>1. UNCHANGED jobs \/ \E j \in Ids : NextId(jobs, j) /\ jobs' = insert_manual_job(jobs, j, k)
      BY <2>3 DEF ManualStart
    <3>2. jobs'[i] = jobs[i]
      BY <1>1, <3>1 DEF NextId, Exists, insert_manual_job
    <3> QED BY <1>2, <3>2
  <2>4. CASE ManualMark(c)
    <3>1. client[c].job # 0 => jobs[client[c].job].src = "manual"
      BY <2>4 DEF ManualMark, Inv, ClaimsKept
    <3>2. \/ UNCHANGED jobs
          \/ client[c].job # 0 /\ \E x : jobs' = [jobs EXCEPT ![client[c].job] = x]
      BY <2>4 DEF ManualMark, mark_done, mark_failed
    <3>3. jobs'[i] = jobs[i]
      BY <1>1, <3>1, <3>2
    <3> QED BY <1>2, <3>3
  <2> QED BY <1>5, <2>1, <2>2, <2>3, <2>4
          DEF ClientStep, RunNowRead, ManualFetch, ManualFreshness, ClientGone
<1>6. CASE Tick
  <2>1. jobs[i].age < RunLimit /\ jobs'[i] = OlderRow(jobs[i])
    BY <1>1, <1>6 DEF Tick, Older
  <2>a. /\ jobs'[i] \in Row /\ SameAttempt(jobs[i], jobs'[i])
        /\ jobs'[i].age <= jobs[i].age + 1
    <3>1. 0 \in Nat
      OBVIOUS
    <3> QED BY <1>1, <2>1, <3>1, MovedFacts
  <2>2. SameAttempt(jobs[i], jobs'[i]) /\ jobs'[i].age <= jobs[i].age + 1 /\ jobs'[i].age \in Nat
    BY <2>a, TableAssumption DEF TableAssumption, Row
  <2>3. jobs[i].age \in Nat /\ RunLimit \in Nat
    BY <1>1, TableAssumption, IngestAssumption DEF TableAssumption, IngestAssumption, Row
  <2>4. jobs'[i].age <= RunLimit
    BY <2>1, <2>2, <2>3
  <2> QED BY <1>0, <2>2, <2>4 DEF Spared
<1>7. CASE PlannedFire
  <2>1. jobs'[i] = [jobs[i] EXCEPT !.recent = FALSE]
    BY <1>1, <1>7 DEF PlannedFire, BeforeFire
  <2>2. SameAttempt(jobs[i], jobs'[i]) /\ jobs'[i].age = jobs[i].age
    BY <1>1, <2>1 DEF SameAttempt, SameJob, Row
  <2> QED BY <1>0, <2>2, RowSpared
<1> QED BY <1>4, <1>5, <1>6, <1>7

---------------------------------------------------------------------------
(* The audit rows of manual runs, and the invariant as a whole. *)

\* A row that exists goes on existing, for the same job.
LEMMA RowsStay ==
    ASSUME RowMoves, NEW j \in Ids, Exists(jobs, j)
    PROVE  Exists(jobs, j)' /\ SameJob(jobs[j], jobs'[j])
BY DEF RowMoves, RowMove, SameAttempt, InsertMove, ClaimMove, RetryMove, SettleMove, Exists

\* What ClaimsKept says of manual runs.
ManualKept ==
    /\ \A c \in Clients :
          client[c].pc \in {"fetch", "mark", "freshness"} /\ client[c].job # 0 =>
              Exists(jobs, client[c].job) /\ jobs[client[c].job].src = "manual"
    /\ \A j \in Ids : Exists(jobs, j) /\ jobs[j].src = "manual" => jobs[j].attempts = 1

\* The audit row of a manual run (manual_ops.py) stays its own.
LEMMA ManualStep ==
    ASSUME Inv, Next, RowMoves, TypeOK'
    PROVE  ManualKept'
<1>0. /\ client \in [Clients -> ClientState] /\ client' \in [Clients -> ClientState]
      /\ jobs \in [Ids -> Row] /\ ManualKept
  BY DEF Inv, TypeOK, ClaimsKept, ManualKept
<1>1. \A j \in Ids : Exists(jobs, j)' /\ jobs'[j].src = "manual" => jobs'[j].attempts = 1
  <2> SUFFICES ASSUME NEW j \in Ids, jobs'[j].status # "absent", jobs'[j].src = "manual"
               PROVE  jobs'[j].attempts = 1
    BY DEF Exists
  <2>1. RowMove(jobs[j], jobs'[j])
    BY DEF RowMoves
  <2>2. CASE ClaimMove(jobs[j], jobs'[j])
    BY <2>2, ManualSettledOrRunning DEF ClaimMove, SameJob, Exists
  <2>3. jobs[j].src = "manual" /\ jobs[j].status # "absent" => jobs[j].attempts = 1
    BY <1>0 DEF ManualKept, Exists
  <2>4. CASE SameAttempt(jobs[j], jobs'[j])
    BY <2>3, <2>4 DEF SameAttempt, SameJob
  <2>5. CASE RetryMove(jobs[j], jobs'[j]) \/ SettleMove(jobs[j], jobs'[j])
    BY <2>3, <2>5 DEF RetryMove, SettleMove, SameJob
  <2>6. CASE InsertMove(jobs[j], jobs'[j])
    BY <2>6 DEF InsertMove
  <2> QED BY <2>1, <2>2, <2>4, <2>5, <2>6 DEF RowMove
<1>2. ASSUME NEW c \in Clients, client'[c].pc \in {"fetch", "mark", "freshness"},
             client'[c].job # 0
      PROVE  jobs'[client'[c].job].status # "absent" /\ jobs'[client'[c].job].src = "manual"
  <2> DEFINE j == client'[c].job
  <2>1. j \in Ids
    <3>1. client'[c].job \in 0..MaxJobs
      BY <1>0 DEF ClientState
    <3> QED BY <1>2, <3>1, TableAssumption DEF TableAssumption, Ids
  <2>2. \/ client[c].pc \in {"fetch", "mark", "freshness"} /\ client[c].job = j
        \/ \E k \in Kinds : jobs' = insert_manual_job(jobs, j, k)
    <3>1. ASSUME NEW d \in Clients, ClientStep(d)
          PROVE  \/ client[c].pc \in {"fetch", "mark", "freshness"} /\ client[c].job = j
                 \/ \E k \in Kinds : jobs' = insert_manual_job(jobs, j, k)
      <4>1. CASE c # d
        <5>1. client'[c] = client[c]
          BY <1>0, <3>1, <4>1 DEF ClientStep, RunNowRead, RunNowWrite, ManualStart, ManualFetch,
                                  ManualMark, ManualFreshness, ClientGone
        <5> QED BY <1>2, <5>1
      <4>2. CASE c = d
        <5>1. ASSUME NEW i \in Ids, NEW f \in BOOLEAN, RunNowRead(c, i, f) PROVE FALSE
          BY <1>0, <1>2, <5>1 DEF RunNowRead, RunNowRequest
        <5>2. CASE RunNowWrite(c) \/ ManualFreshness(c) \/ ClientGone(c)
          BY <1>0, <1>2, <5>2 DEF RunNowWrite, ManualFreshness, ClientGone, ClientIdle
        <5>3. ASSUME NEW k \in Kinds, ManualStart(c, k)
              PROVE  jobs' = insert_manual_job(jobs, j, k)
          BY <1>0, <1>2, <5>3 DEF ManualStart, ManualRun
        <5>4. CASE ManualFetch(c)
          BY <1>0, <1>2, <5>4 DEF ManualFetch, ManualRun
        <5>5. CASE ManualMark(c)
          BY <1>0, <1>2, <5>5 DEF ManualMark, ManualRun, ClientIdle
        <5> QED BY <3>1, <4>2, <5>1, <5>2, <5>3, <5>4, <5>5 DEF ClientStep
      <4> QED BY <4>1, <4>2
    <3>2. CASE UNCHANGED client
      BY <1>2, <3>2
    <3>3. UNCHANGED client \/ \E d \in Clients : ClientStep(d)
      BY DEF Next, WorkerStep, WorkerFault, Start, Claim, Poll, Reclaim, CatchupRead,
             CatchupEnqueue, FetchOk, FetchError, RecordOk, RecordOkRaises, MarkDone, Fail, Defer,
             Outcome, Crash, Swallowed, LostAck, EnqueueSlot, EnqueueJob, Tick, PlannedFire
    <3> QED BY <3>1, <3>2, <3>3
  <2>3. CASE client[c].pc \in {"fetch", "mark", "freshness"} /\ client[c].job = j
    <3>1. Exists(jobs, j) /\ jobs[j].src = "manual"
      BY <1>0, <1>2, <2>3 DEF ManualKept
    <3> QED BY <2>1, <3>1, RowsStay DEF SameJob, Exists
  <2>4. CASE \E k \in Kinds : jobs' = insert_manual_job(jobs, j, k)
    BY <1>0, <2>1, <2>4 DEF insert_manual_job, NewRow
  <2> QED BY <2>2, <2>3, <2>4
<1> QED BY <1>1, <1>2 DEF ManualKept, Exists

\* The first state: an empty table and no claim.
LEMMA InvInit == Init => Inv
<1> SUFFICES ASSUME Init PROVE Inv
  OBVIOUS
<1>1. TypeOK
  BY TypeInit
<1>2. \A w \in Workers : ~Holds(w) /\ ~worker[w].sent
  BY DEF Init, Idling, Holds
<1>3. \A j \in Ids : ~Exists(jobs, j)
  BY DEF Init, NoRow, Exists
<1>4. \A c \in Clients : client[c].pc = "idle"
  BY DEF Init, ClientIdle
<1>5. HeldJobRunning
  BY <1>2 DEF HeldJobRunning
<1>6. ClaimsKept
  BY <1>2, <1>3, <1>4 DEF ClaimsKept
<1> QED BY <1>1, <1>3, <1>5, <1>6 DEF Inv, AttemptsBounded

\* One step of the pipeline.
LEMMA InvNext == Inv /\ [Next]_vars => Inv'
<1> SUFFICES ASSUME Inv, [Next]_vars PROVE Inv'
  OBVIOUS
<1>1. CASE UNCHANGED vars
  <2>1. /\ TypeOK' = TypeOK /\ AttemptsBounded' = AttemptsBounded
    BY <1>1 DEF vars, TypeOK, Holds, AttemptsBounded, Exists, MaxOf
  <2>2. HeldJobRunning' = HeldJobRunning /\ ClaimsKept' = ClaimsKept
    BY <1>1 DEF vars, HeldJobRunning, ClaimsKept, Holds, SentStatus, PlanOf, Exists, MaxOf
  <2> QED BY <2>1, <2>2 DEF Inv
<1>2. CASE Next
  <2>1. TypeOK'
    BY <1>2, TypeNext DEF Inv
  <2>2. RowMoves
    BY <1>2, StepMoves
  <2>3. AttemptsBounded'
    BY <2>1, <2>2, AttemptsStep
  <2>4. ManualKept'
    BY <1>2, <2>1, <2>2, ManualStep
  <2>5. Ownership
    BY <1>2, WorkerOwnership, FaultOwnership, EnvOwnership DEF Next
  <2> QED BY <2>1, <2>3, <2>4, <2>5 DEF Inv, Ownership, ManualKept, ClaimsKept
<1> QED BY <1>1, <1>2

\* Every reachable state satisfies the invariant.
THEOREM InvHolds == Spec => []Inv
<1> QED BY InvInit, InvNext, PTL DEF Spec

\* A worker handles only a job it owns: the queued attempt it claimed, running
\* until the worker itself ends it, and no other worker's (loop.py, claim.py).
THEOREM ClaimsAreOwned == Spec => []HeldJobRunning
<1>1. Inv => HeldJobRunning
  BY DEF Inv
<1> QED BY <1>1, InvHolds, PTL

\* No job is attempted more than max_attempts times, and a pending one always
\* has an attempt left, so claim_next need not look (claim.py, retry.py).
THEOREM BudgetKept == Spec => []AttemptsBounded
<1>1. Inv => AttemptsBounded
  BY DEF Inv
<1> QED BY <1>1, InvHolds, PTL

---------------------------------------------------------------------------
(* FlexIngest implements JobPromise. *)

\* What the refinement needs beyond Inv: a running row has been tried, and an
\* id not yet given out is blank.
Tried ==
    \A j \in Ids : /\ jobs[j].status = "running" => jobs[j].attempts > 0
                   /\ jobs[j].status = "absent" => jobs[j].attempts = 0 /\ jobs[j].src # "manual"

\* Tried is kept by every move a row can make.
LEMMA TriedStep ==
    ASSUME Inv, Tried, RowMoves, TypeOK'
    PROVE  Tried'
<1> SUFFICES ASSUME NEW j \in Ids
             PROVE  /\ jobs'[j].status = "running" => jobs'[j].attempts > 0
                    /\ jobs'[j].status = "absent" => jobs'[j].attempts = 0 /\ jobs'[j].src # "manual"
  BY DEF Tried
<1>1. RowMove(jobs[j], jobs'[j])
  BY DEF RowMoves
<1>2. jobs[j].attempts \in Nat /\ jobs'[j].attempts \in Nat
  BY DEF Inv, TypeOK, Row
<1>3. /\ jobs[j].status = "running" => jobs[j].attempts > 0
      /\ jobs[j].status = "absent" => jobs[j].attempts = 0 /\ jobs[j].src # "manual"
  BY DEF Tried
<1>4. CASE SameAttempt(jobs[j], jobs'[j])
  BY <1>3, <1>4 DEF SameAttempt, SameJob
<1>5. CASE InsertMove(jobs[j], jobs'[j])
  BY <1>5 DEF InsertMove
<1>6. CASE ClaimMove(jobs[j], jobs'[j])
  BY <1>2, <1>6 DEF ClaimMove
<1>7. CASE RetryMove(jobs[j], jobs'[j]) \/ SettleMove(jobs[j], jobs'[j])
  BY <1>7 DEF RetryMove, SettleMove
<1> QED BY <1>1, <1>4, <1>5, <1>6, <1>7 DEF RowMove

\* Tried holds of every reachable state.
LEMMA TriedHolds == Spec => []Tried
<1>1. Init => Tried
  BY DEF Init, NoRow, Tried
<1>2. Inv /\ Inv' /\ Tried /\ [Next]_vars => Tried'
  <2> SUFFICES ASSUME Inv, Inv', Tried, [Next]_vars PROVE Tried'
    OBVIOUS
  <2>1. CASE UNCHANGED vars
    BY <2>1 DEF vars, Tried
  <2>2. CASE Next
    BY <2>2, StepMoves, TriedStep DEF Inv
  <2> QED BY <2>1, <2>2
<1> QED BY <1>1, <1>2, InvHolds, PTL DEF Spec

\* A move of a row is a move, or a stutter, of the promised job.
LEMMA MoveRefines ==
    ASSUME Inv, Tried, TypeOK', NEW j \in Ids, RowMove(jobs[j], jobs'[j])
    PROVE  \/ PromiseView(jobs'[j]) = PromiseView(jobs[j])
           \/ Promise!Move(PromiseView(jobs[j]), PromiseView(jobs'[j]))
<1> DEFINE r == jobs[j]
           s == jobs'[j]
<1>1. /\ r.attempts \in Nat /\ s.attempts \in Nat
      /\ r.status \in {"absent", "pending", "running", "done", "failed"}
  BY DEF Inv, TypeOK, Row
<1>2. /\ r.status = "running" => r.attempts > 0
      /\ r.status = "absent" => r.attempts = 0 /\ r.src # "manual"
  BY DEF Tried
<1>3. CASE SameAttempt(r, s)
  BY <1>3 DEF SameAttempt, SameJob, PromiseView
<1>4. CASE InsertMove(r, s)
  <2>1. PromiseView(r) = Promise!Unopened
    BY <1>2, <1>4 DEF InsertMove, PromiseView, Promise!Unopened
  <2>2. /\ PromiseView(s).state = "open"
        /\ PromiseView(s).tries = IF PromiseView(s).audit THEN 1 ELSE 0
    BY <1>4 DEF InsertMove, PromiseView
  <2> QED BY <2>1, <2>2 DEF Promise!Move, Promise!Open
<1>5. CASE ClaimMove(r, s)
  <2>1. r.src # "manual"
    BY <1>5, ManualSettledOrRunning DEF ClaimMove, Exists
  <2>2. r.attempts < MaxAttempts
    BY <1>5, <2>1 DEF ClaimMove, Inv, AttemptsBounded, Exists, MaxOf
  <2>3. PromiseView(r) = [state |-> "open", tries |-> r.attempts, audit |-> FALSE]
    BY <1>5, <2>1 DEF ClaimMove, PromiseView
  <2>4. PromiseView(s) = [state |-> "open", tries |-> r.attempts + 1, audit |-> FALSE]
    BY <1>5, <2>1 DEF ClaimMove, SameJob, PromiseView
  <2>5. PromiseView(s) = [state |-> "open", tries |-> PromiseView(r).tries + 1, audit |-> FALSE]
    BY <2>3, <2>4
  <2>6. PromiseView(r).state = "open" /\ ~PromiseView(r).audit /\ PromiseView(r).tries < MaxAttempts
    BY <2>2, <2>3
  <2> QED BY <2>5, <2>6 DEF Promise!Move, Promise!Try
<1>6. CASE RetryMove(r, s)
  BY <1>6 DEF RetryMove, SameJob, PromiseView
<1>7. CASE SettleMove(r, s)
  <2>1. PromiseView(s) = [PromiseView(r) EXCEPT !.state = s.status] /\ s.status \in Promise!Settled
    BY <1>7 DEF SettleMove, SameJob, PromiseView, Promise!Settled
  <2>2. CASE r.status = "running"
    <3>1. PromiseView(r).state = "open" /\ PromiseView(r).tries > 0
      BY <1>2, <2>2 DEF PromiseView
    <3> QED BY <2>1, <3>1 DEF Promise!Move, Promise!Settle
  <2>3. CASE r.src = "manual" /\ r.status \in {"done", "failed"}
    <3>1. PromiseView(r).state \in Promise!Settled /\ PromiseView(r).audit
      BY <2>3 DEF PromiseView, Promise!Settled
    <3> QED BY <2>1, <3>1 DEF Promise!Move, Promise!Correct
  <2> QED BY <1>7, <2>2, <2>3 DEF SettleMove
<1> QED BY <1>3, <1>4, <1>5, <1>6, <1>7 DEF RowMove

\* The pipeline keeps the promise of JobPromise: whatever the interleaving of
\* worker, reclaim, API, crash and replay (loop.py, claim.py, ingest.py), a
\* queued job is settled once, tried, and within its budget.
THEOREM PromiseRefined == Spec => PromiseKept
<1>1. Init => Promise!Init
  <2> SUFFICES ASSUME Init PROVE Promise!Init
    OBVIOUS
  <2>1. \A j \in Ids : PromiseView(jobs[j]) = Promise!Unopened
    BY DEF Init, NoRow, PromiseView, Promise!Unopened
  <2> QED BY <2>1 DEF Promise!Init
<1>2. Inv /\ Inv' /\ Tried /\ [Next]_vars => [Promise!Next]_([j \in Ids |-> PromiseView(jobs[j])])
  <2> SUFFICES ASSUME Inv, Inv', Tried, [Next]_vars
               PROVE  [Promise!Next]_([j \in Ids |-> PromiseView(jobs[j])])
    OBVIOUS
  <2>1. CASE UNCHANGED vars
    BY <2>1 DEF vars
  <2>2. CASE Next
    <3>1. \A j \in Ids : \/ PromiseView(jobs'[j]) = PromiseView(jobs[j])
                         \/ Promise!Move(PromiseView(jobs[j]), PromiseView(jobs'[j]))
      BY <2>2, StepMoves, MoveRefines DEF Inv, RowMoves
    <3> QED BY <3>1 DEF Promise!Next
  <2> QED BY <2>1, <2>2
<1> QED BY <1>1, <1>2, InvHolds, TriedHolds, PTL DEF Spec, PromiseKept, Promise!Spec
=============================================================================
