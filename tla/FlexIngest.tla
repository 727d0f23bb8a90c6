----------------------------- MODULE FlexIngest -----------------------------
(***************************************************************************)
(* The ingest pipeline: the worker loop (worker/loop.py, handlers.py), its *)
(* catch-up (worker/catchup.py), the daily trigger (scheduler/daily.py),   *)
(* the operator's API (api/ingest.py, api/manual_ops.py) and the freshness *)
(* rows (schema/ddl.py), around the job table of JobTable and the retry    *)
(* plan of RetryPolicy.                                                    *)
(*                                                                         *)
(* Every database call is one step.  Between two of them other processes   *)
(* run, time passes, the worker's pod may die, and the answer to a commit  *)
(* may be lost with the connection, in which case WorkerDb.call runs the   *)
(* statement again.                                                        *)
(***************************************************************************)
EXTENDS JobTable, RetryPolicy

CONSTANTS
    Workers,        \* worker processes (the deployment runs one)
    Clients,        \* API requests that can be in flight at once
    Messages,       \* error messages a fetch may end with, as sets of Marks
    ReclaimEvery,   \* idle polls between two reclaim passes
    CatchupEnabled, \* FLEX_CATCHUP_DISABLED is not set
    LostAcks,       \* whether the answer to a committed statement can be lost
    RunLimit,       \* bound on how long a worker holds a job, in ticks
    Grace,          \* catchup_grace_sec, in ticks
    DayLen,         \* 86400 seconds, in ticks
    UtcRollover,    \* ticks from the planned fire to the next UTC midnight
    MaxDay,         \* bound: planned fires
    FireAgeCap,     \* bound: the slot clock stops counting here
    MaxSlot,        \* bound: rows of the daily trigger
    MaxApi,         \* bound: rows of POST /enqueue
    MaxManual       \* bound: audit rows of manual runs

ASSUME IngestAssumption ==
    /\ Messages \subseteq SUBSET Marks
    /\ ReclaimEvery \in Nat \ {0}
    /\ {CatchupEnabled, LostAcks} \subseteq BOOLEAN
    /\ {RunLimit, Grace, DayLen, UtcRollover, FireAgeCap, MaxSlot, MaxApi, MaxManual} \subseteq Nat
    /\ MaxDay \in Nat \ {0}
    /\ MaxHash = MaxDay + 1

(* Two workers share a job only if one may outlive its lease on it: either *)
(* there is one worker, or none holds a job past StaleAfter and no         *)
(* statement is replayed after its lease is gone.                          *)
ASSUME LeaseAssumption ==
    (\A v, w \in Workers : v = w) \/ (RunLimit <= StaleAfter /\ ~LostAcks)

VARIABLES
    jobs,    \* the table
    worker,  \* Workers -> what run_forever holds in its locals
    client,  \* Clients -> the API request being served
    fresh,   \* Kinds -> the row of ops_jobs.flex_ingest_freshness
    clock,   \* the planned slot: its day, and the ticks since it fired
    landed,  \* history: jobs whose fetch returned every account's rows
    owed     \* history: ticks of token cooldown each job was told to wait

vars == <<jobs, worker, client, fresh, clock, landed, owed>>

---------------------------------------------------------------------------
(* The states a process can be in. *)

WorkerPc == {"down", "claim", "reclaim", "catchup", "enqueue",
             "dispatch", "landed", "done", "fail", "defer", "outcome"}

\* sent: the statement of this pc was committed once and its answer was lost.
WorkerState == [pc : WorkerPc, job : 0..MaxJobs, attempts : Nat, category : Category,
                idle : Nat, todo : SUBSET Kinds, as_of : 0..MaxHash, sent : BOOLEAN]

ClientPc == {"idle", "runnow", "fetch", "mark", "freshness"}

ClientState == [pc : ClientPc, job : 0..MaxJobs, kind : Kinds, ok : BOOLEAN,
                category : Category, force : BOOLEAN]

\* A worker between jobs, one that catches up, and one with a claimed job.
Idling(pc, idle) ==
    [pc |-> pc, job |-> 0, attempts |-> 0, category |-> "none",
     idle |-> idle, todo |-> {}, as_of |-> 0, sent |-> FALSE]
CatchingUp(todo, as_of) ==
    [pc |-> "enqueue", job |-> 0, attempts |-> 0, category |-> "none",
     idle |-> 0, todo |-> todo, as_of |-> as_of, sent |-> FALSE]
Handling(pc, job, attempts, category, sent) ==
    [pc |-> pc, job |-> job, attempts |-> attempts, category |-> category,
     idle |-> 0, todo |-> {}, as_of |-> 0, sent |-> sent]

\* A request not yet made, a run-now past its checks, and a manual run.
AnyKind == CHOOSE k \in Kinds : TRUE
ClientIdle ==
    [pc |-> "idle", job |-> 0, kind |-> AnyKind, ok |-> FALSE, category |-> "none",
     force |-> FALSE]
RunNowRequest(job, force) ==
    [pc |-> "runnow", job |-> job, kind |-> AnyKind, ok |-> FALSE, category |-> "none",
     force |-> force]
ManualRun(pc, job, kind, ok, category) ==
    [pc |-> pc, job |-> job, kind |-> kind, ok |-> ok, category |-> category, force |-> FALSE]

\* The worker has a claim it has not answered for.
Holds(w) == worker[w].pc \in {"dispatch", "landed", "done", "fail"}

TypeOK ==
    /\ jobs \in [Ids -> Row]
    /\ worker \in [Workers -> WorkerState]
    /\ \A w \in Workers :
          (Holds(w) \/ worker[w].pc \in {"defer", "outcome"}) => worker[w].job \in Ids
    /\ client \in [Clients -> ClientState]
    /\ \A c \in Clients : client[c].pc = "runnow" => client[c].job \in Ids
    /\ fresh \in [Kinds -> [ok : BOOLEAN, ever : BOOLEAN, job : 0..MaxJobs]]
    /\ clock \in [day : 1..MaxDay, age : Nat]
    /\ landed \subseteq Ids
    /\ owed \in [Ids -> Nat]

NoRow == [kind |-> AnyKind, src |-> "slot", hash |-> 0, status |-> "absent",
          attempts |-> 0, wait |-> 0, age |-> 0, category |-> "none", recent |-> FALSE]

\* An empty table on the day the first slot fires; the worker pod is starting.
Init ==
    /\ jobs = [j \in Ids |-> NoRow]
    /\ worker = [w \in Workers |-> Idling("down", 0)]
    /\ client = [c \in Clients |-> ClientIdle]
    /\ fresh = [k \in Kinds |-> [ok |-> FALSE, ever |-> FALSE, job |-> 0]]
    /\ clock = [day |-> 1, age |-> 0]
    /\ landed = {}
    /\ owed = [j \in Ids |-> 0]

---------------------------------------------------------------------------
(* Freshness: one row per kind; a failure keeps latest_ts (ever). *)

record_freshness(k, ok, j) ==
    fresh' = [fresh EXCEPT ![k] = [ok |-> ok, ever |-> @.ever \/ ok, job |-> j]]

---------------------------------------------------------------------------
(* The worker: run_forever. *)

Become(w, state) == worker' = [worker EXCEPT ![w] = state]

\* The next statement about the job in hand.
Goto(w, pc) ==
    Become(w, Handling(pc, worker[w].job, worker[w].attempts, worker[w].category, FALSE))
Raise(w, msg) ==
    Become(w, Handling("fail", worker[w].job, worker[w].attempts, classify_flex_error(msg), FALSE))
Replay(w) ==
    Become(w, Handling(worker[w].pc, worker[w].job, worker[w].attempts, worker[w].category, TRUE))

\* Process start: the schema is ensured and stale claims are reclaimed.
Start(w) ==
    /\ worker[w].pc = "down"
    /\ jobs' = reclaim_stale_running(jobs)
    /\ Become(w, Idling("claim", 0))
    /\ UNCHANGED <<client, fresh, clock, landed, owed>>

\* Mutant: the local copy of attempts is the one before the claim.
Claim_StaleAttempts(w) ==
    /\ worker[w].pc = "claim"
    /\ \E j \in Ids :
          /\ IsNextClaim(jobs, j)
          /\ jobs' = claim_next(jobs, j)
          /\ Become(w, Handling("dispatch", j, jobs[j].attempts, "none", FALSE))
    /\ UNCHANGED <<client, fresh, clock, landed, owed>>

Claim(w) ==
    /\ worker[w].pc = "claim"
    /\ \E j \in Ids :
          /\ IsNextClaim(jobs, j)
          /\ jobs' = claim_next(jobs, j)
          /\ Become(w, Handling("dispatch", j, jobs[j].attempts + 1, "none", FALSE))
    /\ UNCHANGED <<client, fresh, clock, landed, owed>>

\* Mutant: the idle count is reset on every poll.
Poll_NeverReclaims(w) ==
    /\ worker[w].pc = "claim"
    /\ Claimable(jobs) = {}
    /\ Become(w, Idling("claim", 0))
    /\ UNCHANGED <<jobs, client, fresh, clock, landed, owed>>

\* Nothing to claim: every ReclaimEvery-th idle poll goes on to reclaim.
Poll(w) ==
    /\ worker[w].pc = "claim"
    /\ Claimable(jobs) = {}
    /\ Become(w, IF worker[w].idle + 1 >= ReclaimEvery
                 THEN Idling("reclaim", 0) ELSE Idling("claim", worker[w].idle + 1))
    /\ UNCHANGED <<jobs, client, fresh, clock, landed, owed>>

Reclaim(w) ==
    /\ worker[w].pc = "reclaim"
    /\ jobs' = reclaim_stale_running(jobs)
    /\ Become(w, Idling(IF CatchupEnabled THEN "catchup" ELSE "claim", 0))
    /\ UNCHANGED <<client, fresh, clock, landed, owed>>

\* Mutant: only rows of the daily trigger count as the slot's job.
missed_slots_SlotRows(t) ==
    {k \in Kinds : /\ clock.age >= Grace
                   /\ clock.age <= DayLen
                   /\ \A j \in Ids : t[j].recent /\ t[j].kind = k => t[j].src # "slot"}

\* Mutant: any job of the kind counts, however old.
missed_slots_AnyJob(t) ==
    {k \in Kinds : /\ clock.age >= Grace
                   /\ clock.age <= DayLen
                   /\ \A j \in Ids : Exists(t, j) => t[j].kind # k}

\* Kinds whose last planned fire is between Grace and a day old with no job
\* of the kind, of any origin, created since.
missed_slots(t) ==
    {k \in Kinds : /\ clock.age >= Grace
                   /\ clock.age <= DayLen
                   /\ \A j \in Ids : Exists(t, j) /\ t[j].recent => t[j].kind # k}

\* catchup_missed_slots, first half: what is missing, as read now.
CatchupRead(w) ==
    /\ worker[w].pc = "catchup"
    /\ Become(w, IF missed_slots(jobs) = {} THEN Idling("claim", 0)
                 ELSE CatchingUp(missed_slots(jobs), clock.day))
    /\ UNCHANGED <<jobs, client, fresh, clock, landed, owed>>

\* INSERT ... ON CONFLICT DO NOTHING: one new pending row, or none.
Enqueue(kind, src, hash) ==
    \/ Conflict(jobs, kind, hash) /\ UNCHANGED jobs
    \/ /\ ~Conflict(jobs, kind, hash)
       /\ \E j \in Ids : NextId(jobs, j) /\ jobs' = insert_job(jobs, j, kind, src, hash)

\* Second half: one enqueue_slot per missed slot (in any order: the code's is
\* one of them), deduped on the day of the planned fire.
CatchupEnqueue(w) ==
    /\ worker[w].pc = "enqueue"
    /\ \E k \in worker[w].todo :
          /\ Enqueue(k, "catchup", worker[w].as_of)
          /\ Become(w, IF worker[w].todo = {k} THEN Idling("claim", 0)
                       ELSE CatchingUp(worker[w].todo \ {k}, worker[w].as_of))
    /\ UNCHANGED <<client, fresh, clock, landed, owed>>

\* The handler returned and every account answered.
FetchOk(w) ==
    /\ worker[w].pc = "dispatch"
    /\ landed' = landed \cup {worker[w].job}
    /\ Goto(w, "landed")
    /\ UNCHANGED <<jobs, client, fresh, clock, owed>>

\* Mutant: a partial result is taken for a success.
FetchError_PartialIsOk(w) ==
    /\ worker[w].pc = "dispatch"
    /\ Goto(w, "landed")
    /\ UNCHANGED <<jobs, client, fresh, clock, landed, owed>>

\* The handler, or _require_ok on a partial result, raised.
FetchError(w) ==
    /\ worker[w].pc = "dispatch"
    /\ \E msg \in Messages : Raise(w, msg)
    /\ UNCHANGED <<jobs, client, fresh, clock, landed, owed>>

\* Mutant: only failures are recorded.
RecordOk_Skipped(w) ==
    /\ worker[w].pc = "landed"
    /\ Goto(w, "done")
    /\ UNCHANGED <<jobs, client, fresh, clock, landed, owed>>

\* dispatch records the success before the job is marked done.
RecordOk(w) ==
    /\ worker[w].pc = "landed"
    /\ record_freshness(jobs[worker[w].job].kind, TRUE, worker[w].job)
    /\ Goto(w, "done")
    /\ UNCHANGED <<jobs, client, clock, landed, owed>>

\* The freshness write raised, before or after its commit: the attempt failed.
RecordOkRaises(w) ==
    /\ worker[w].pc = "landed"
    /\ \/ record_freshness(jobs[worker[w].job].kind, TRUE, worker[w].job)
       \/ UNCHANGED fresh
    /\ \E msg \in {{}, {"transientMarker"}} : Raise(w, msg)
    /\ UNCHANGED <<jobs, client, clock, landed, owed>>

MarkDone(w) ==
    /\ worker[w].pc = "done"
    /\ jobs' = mark_done(jobs, worker[w].job)
    /\ Become(w, Idling("claim", 0))
    /\ UNCHANGED <<client, fresh, clock, landed, owed>>

PlanOf(w) == plan_retry(worker[w].category, worker[w].attempts, MaxOf(jobs[worker[w].job]))

\* What the failed attempt writes to its own row, and the wait it promises.
FailEffect(w) ==
    LET j == worker[w].job
        p == PlanOf(w)
    IN  IF p.retry
        THEN /\ jobs' = mark_retry(jobs, j, worker[w].category, p.delay)
             /\ owed' = [owed EXCEPT ![j] = p.cooldown]
        ELSE /\ jobs' = mark_failed(jobs, j, worker[w].category)
             /\ UNCHANGED owed

\* mark_retry or mark_failed; a throttled retry goes on to cool the queue.
Fail(w) ==
    /\ worker[w].pc = "fail"
    /\ FailEffect(w)
    /\ Goto(w, IF PlanOf(w).retry /\ PlanOf(w).cooldown > 0 THEN "defer" ELSE "outcome")
    /\ UNCHANGED <<client, fresh, clock, landed>>

DeferEffect(w) ==
    /\ jobs' = defer_pending(jobs, ThrottledDelay, worker[w].job)
    /\ owed' = [j \in Ids |-> IF jobs[j].status = "pending" /\ j # worker[w].job
                              THEN ThrottledDelay ELSE owed[j]]

Defer(w) ==
    /\ worker[w].pc = "defer"
    /\ DeferEffect(w)
    /\ Goto(w, "outcome")
    /\ UNCHANGED <<client, fresh, clock, landed>>

\* record_ingest_outcome(ok=False); an error in it is only logged.
Outcome(w) ==
    /\ worker[w].pc = "outcome"
    /\ record_freshness(jobs[worker[w].job].kind, FALSE, worker[w].job)
    /\ Become(w, Idling("claim", 0))
    /\ UNCHANGED <<jobs, client, clock, landed, owed>>

WorkerStep(w) ==
    \/ Start(w) \/ Claim(w) \/ Poll(w) \/ Reclaim(w) \/ CatchupRead(w) \/ CatchupEnqueue(w)
    \/ FetchOk(w) \/ FetchError(w) \/ RecordOk(w) \/ RecordOkRaises(w) \/ MarkDone(w)
    \/ Fail(w) \/ Defer(w) \/ Outcome(w)

---------------------------------------------------------------------------
(* What can go wrong with the worker and its connection. *)

\* The pod dies, or WorkerDb.call runs out of reconnects.
Crash(w) ==
    /\ worker[w].pc # "down"
    /\ Become(w, Idling("down", 0))
    /\ UNCHANGED <<jobs, client, fresh, clock, landed, owed>>

\* The catch-up's exceptions, and those of the failed outcome, are swallowed.
Swallowed(w) ==
    /\ worker[w].pc \in {"catchup", "enqueue", "outcome"}
    /\ Become(w, Idling("claim", 0))
    /\ UNCHANGED <<jobs, client, fresh, clock, landed, owed>>

\* The statement committed, its answer did not arrive: the next call repeats
\* it.  A claim whose answer is lost leaves a running row that no one holds.
LostAck(w) ==
    /\ LostAcks
    /\ \/ /\ worker[w].pc \in {"down", "reclaim"}
          /\ jobs' = reclaim_stale_running(jobs)
          /\ UNCHANGED <<worker, owed>>
       \/ /\ worker[w].pc = "claim"
          /\ \E j \in Ids : IsNextClaim(jobs, j) /\ jobs' = claim_next(jobs, j)
          /\ UNCHANGED <<worker, owed>>
       \/ /\ worker[w].pc = "enqueue"
          /\ \E k \in worker[w].todo : Enqueue(k, "catchup", worker[w].as_of)
          /\ Become(w, Idling("catchup", 0))
          /\ UNCHANGED owed
       \/ /\ worker[w].pc = "done"
          /\ jobs' = mark_done(jobs, worker[w].job)
          /\ Replay(w)
          /\ UNCHANGED owed
       \/ /\ worker[w].pc = "fail"
          /\ FailEffect(w)
          /\ Replay(w)
       \/ /\ worker[w].pc = "defer"
          /\ DeferEffect(w)
          /\ UNCHANGED worker
    /\ UNCHANGED <<client, fresh, clock, landed>>

WorkerFault(w) == Crash(w) \/ Swallowed(w) \/ LostAck(w)

---------------------------------------------------------------------------
(* The daily trigger and the API. *)

RowsOf(src) == {j \in Ids : Exists(jobs, j) /\ jobs[j].src = src}

\* enqueue_slot's default as_of is the UTC date, not the slot's local day.
UtcDay == IF clock.age >= UtcRollover THEN clock.day + 1 ELSE clock.day

\* Dagster or the command line enqueues a slot, on time, late or never.
EnqueueSlot(k) ==
    /\ Cardinality(RowsOf("slot")) < MaxSlot
    /\ Enqueue(k, "slot", UtcDay)
    /\ UNCHANGED <<worker, client, fresh, clock, landed, owed>>

\* POST /flex/ingest/enqueue with a payload of the caller's.
EnqueueJob(k, hash) ==
    /\ Cardinality(RowsOf("api")) < MaxApi
    /\ Enqueue(k, "api", hash)
    /\ UNCHANGED <<worker, client, fresh, clock, landed, owed>>

\* run_job_now's SELECT and its checks: pending, and not itself waiting out a
\* throttle unless forced.
RunNowRead(c, j, force) ==
    /\ client[c].pc = "idle"
    /\ jobs[j].status = "pending"
    /\ ~(jobs[j].category = "throttled" /\ jobs[j].wait > 0 /\ ~force)
    /\ client' = [client EXCEPT ![c] = RunNowRequest(j, force)]
    /\ UNCHANGED <<jobs, worker, fresh, clock, landed, owed>>

\* run_job_now's UPDATE.  The operator's release ends the wait it was owed.
RunNowWrite(c) ==
    /\ client[c].pc = "runnow"
    /\ jobs' = clear_not_before(jobs, client[c].job)
    /\ owed' = [owed EXCEPT ![client[c].job] = 0]
    /\ client' = [client EXCEPT ![c] = ClientIdle]
    /\ UNCHANGED <<worker, fresh, clock, landed>>

\* A manual trigger or upload opens its audit row; when that fails it runs
\* without one (job 0).
ManualStart(c, k) ==
    /\ client[c].pc = "idle"
    /\ Cardinality(RowsOf("manual")) < MaxManual
    /\ \/ /\ \E j \in Ids :
                /\ NextId(jobs, j)
                /\ jobs' = insert_manual_job(jobs, j, k)
                /\ client' = [client EXCEPT ![c] = ManualRun("fetch", j, k, FALSE, "none")]
       \/ /\ client' = [client EXCEPT ![c] = ManualRun("fetch", 0, k, FALSE, "none")]
          /\ UNCHANGED jobs
    /\ UNCHANGED <<worker, fresh, clock, landed, owed>>

\* The orchestration returned a result (an exception of it is ClientGone).
ManualFetch(c) ==
    /\ client[c].pc = "fetch"
    /\ \/ /\ client' = [client EXCEPT ![c] = ManualRun("mark", @.job, @.kind, TRUE, "none")]
          /\ landed' = landed \cup ({client[c].job} \ {0})
       \/ /\ \E msg \in Messages :
                client' = [client EXCEPT ![c] = ManualRun("mark", @.job, @.kind, FALSE,
                                                          classify_flex_error(msg))]
          /\ UNCHANGED landed
    /\ UNCHANGED <<jobs, worker, fresh, clock, owed>>

\* _audit_finish, first statement: the job row, if there is one.  Should the
\* answer be lost, the exception is swallowed and freshness is not written.
ManualMark(c) ==
    /\ client[c].pc = "mark"
    /\ IF client[c].job = 0 THEN UNCHANGED jobs
       ELSE jobs' = IF client[c].ok THEN mark_done(jobs, client[c].job)
                    ELSE mark_failed(jobs, client[c].job, client[c].category)
    /\ \/ client' = [client EXCEPT ![c] = ManualRun("freshness", @.job, @.kind, @.ok,
                                                       @.category)]
       \/ LostAcks /\ client' = [client EXCEPT ![c] = ClientIdle]
    /\ UNCHANGED <<worker, fresh, clock, landed, owed>>

\* _audit_finish, second statement.
ManualFreshness(c) ==
    /\ client[c].pc = "freshness"
    /\ record_freshness(client[c].kind, client[c].ok, client[c].job)
    /\ client' = [client EXCEPT ![c] = ClientIdle]
    /\ UNCHANGED <<jobs, worker, clock, landed, owed>>

\* The request dies: an exception, a restart of the API pod.
ClientGone(c) ==
    /\ client[c].pc # "idle"
    /\ client' = [client EXCEPT ![c] = ClientIdle]
    /\ UNCHANGED <<jobs, worker, fresh, clock, landed, owed>>

ClientStep(c) ==
    \/ \E j \in Ids, force \in BOOLEAN : RunNowRead(c, j, force)
    \/ RunNowWrite(c)
    \/ \E k \in Kinds : ManualStart(c, k)
    \/ ManualFetch(c) \/ ManualMark(c) \/ ManualFreshness(c) \/ ClientGone(c)

---------------------------------------------------------------------------
(* Time. *)

\* A tick passes unless it would take a held job past RunLimit.
Tick ==
    /\ \A w \in Workers : Holds(w) => jobs[worker[w].job].age < RunLimit
    /\ jobs' = Older(jobs)
    /\ owed' = [j \in Ids |-> IF owed[j] > 0 THEN owed[j] - 1 ELSE 0]
    /\ clock' = [day |-> clock.day,
                 age |-> IF clock.age < FireAgeCap THEN clock.age + 1 ELSE clock.age]
    /\ UNCHANGED <<worker, client, fresh, landed>>

\* The next planned fire: the day after, or later (no slot on Sunday).
PlannedFire ==
    /\ clock.age >= DayLen
    /\ clock.day < MaxDay
    /\ clock' = [day |-> clock.day + 1, age |-> 0]
    /\ jobs' = BeforeFire(jobs)
    /\ UNCHANGED <<worker, client, fresh, landed, owed>>

Next ==
    \/ \E w \in Workers : WorkerStep(w) \/ WorkerFault(w)
    \/ \E k \in Kinds : EnqueueSlot(k) \/ (\E h \in 1..MaxHash : EnqueueJob(k, h))
    \/ \E c \in Clients : ClientStep(c)
    \/ Tick
    \/ PlannedFire

Spec == Init /\ [][Next]_vars

(* Fairness.  The worker keeps polling and handling its job (a dead pod is *)
(* restarted by its Deployment), the clock advances, and pods and          *)
(* connections do not fail for ever: from some point on a faulty step only *)
(* does what a working one would (a swallowed catch-up that had nothing to *)
(* do).  Nothing is asked of the trigger or of the operators.              *)
LiveSpec ==
    /\ Spec
    /\ \A w \in Workers : WF_vars(WorkerStep(w))
    /\ WF_vars(Tick)
    /\ \A w \in Workers : <>[][WorkerFault(w) => WorkerStep(w)]_vars

---------------------------------------------------------------------------
(* Safety. *)

Queued(j) == jobs[j].src # "manual"

\* What the replayed statement of a held job has already written.
SentStatus(w) ==
    IF worker[w].pc = "done" THEN "done" ELSE IF PlanOf(w).retry THEN "pending" ELSE "failed"

\* A worker that is handling a job owns it: the row is the queued attempt it
\* claimed, still running until the worker itself ends it, and no other worker
\* handles the same row.  mark_done, mark_retry and mark_failed (claim.py) have
\* no status in their WHERE, so nothing else protects a reclaimed row from them.
HeldJobRunning ==
    \A w \in Workers : Holds(w) =>
        LET r == jobs[worker[w].job]
        IN  /\ r.src # "manual"
            /\ r.attempts = worker[w].attempts
            /\ r.status = IF worker[w].sent THEN SentStatus(w) ELSE "running"
            /\ \A v \in Workers : Holds(v) /\ worker[v].job = worker[w].job => v = w

\* What HeldJobRunning and AttemptsBounded rest on: a statement is replayed only
\* where answers get lost, a held claim is younger than RunLimit, and an audit
\* row is the one attempt of the request that opened it.
ClaimsKept ==
    /\ \A w \in Workers : worker[w].sent => LostAcks /\ worker[w].pc \in {"done", "fail"}
    /\ \A w \in Workers : Holds(w) => jobs[worker[w].job].age <= RunLimit
    /\ \A c \in Clients :
          client[c].pc \in {"fetch", "mark", "freshness"} /\ client[c].job # 0 =>
              Exists(jobs, client[c].job) /\ jobs[client[c].job].src = "manual"
    /\ \A j \in Ids : Exists(jobs, j) /\ jobs[j].src = "manual" => jobs[j].attempts = 1

\* No job is attempted more often than its max_attempts, whatever mixture of
\* claims, retries, reclaims and lost answers it goes through: claim_next does
\* not look at attempts, so a pending row must always have one left.  A manual
\* row (attempts = max_attempts = 1) is therefore never handed to the worker.
AttemptsBounded ==
    \A j \in Ids : Exists(jobs, j) =>
        /\ jobs[j].attempts <= MaxOf(jobs[j])
        /\ jobs[j].status = "pending" => jobs[j].attempts < MaxOf(jobs[j])

\* Two active rows never share kind and payload_hash: retries and reclaims,
\* which write status without ON CONFLICT, never meet the partial unique index.
UniqueActive ==
    \A i, j \in Ids :
        /\ Active(jobs, i) /\ Active(jobs, j)
        /\ jobs[i].kind = jobs[j].kind
        /\ jobs[i].hash = jobs[j].hash
        /\ jobs[i].hash # 0
        => i = j

\* A row says done only if its own fetch brought every account's rows, and a
\* queued one only once its kind has a last successful sync (latest_ts).
DoneImpliesLanded ==
    \A j \in Ids : jobs[j].status = "done" =>
        /\ j \in landed
        /\ Queued(j) => fresh[jobs[j].kind].ever

\* The freshness row never contradicts the job it names: a success names a job
\* whose rows landed, a failure names a job that is not done.
FreshnessTruthful ==
    \A k \in Kinds : fresh[k].job \in Ids =>
        IF fresh[k].ok THEN fresh[k].job \in landed ELSE jobs[fresh[k].job].status # "done"

\* A job told to wait out a throttle stays pending for all of it, whatever
\* requeues, deferrals and replays happen meanwhile, unless run-now releases it.
CooldownKept ==
    \A j \in Ids : owed[j] > 0 => jobs[j].status = "pending" /\ jobs[j].wait >= owed[j]

\* The catch-up enqueues a slot at most once per kind and day, however often
\* its pass is repeated, interrupted or replayed, and however fast the job ends.
CatchupOnce ==
    \A i, j \in Ids :
        /\ Exists(jobs, i) /\ Exists(jobs, j)
        /\ jobs[i].src = "catchup" /\ jobs[j].src = "catchup"
        /\ jobs[i].kind = jobs[j].kind /\ jobs[i].hash = jobs[j].hash
        => i = j

\* The promise, seen through the table: pending and running are one open state.
PromiseView(row) ==
    [state |-> IF row.status \in {"pending", "running"} THEN "open" ELSE row.status,
     tries |-> row.attempts,
     audit |-> row.src = "manual"]

Promise == INSTANCE JobPromise WITH
    Jobs <- Ids, MaxAttempts <- MaxAttempts, job <- [j \in Ids |-> PromiseView(jobs[j])]

\* The pipeline implements JobPromise: no late mark, replay, reclaim or run-now
\* reopens a settled job, settles one untried or tries one beyond its budget.
PromiseKept == Promise!Spec

---------------------------------------------------------------------------
(* Liveness. *)

\* Every row of the table, queued or manual, ends as done or failed, also when
\* its claim was lost or the process that ran it died.
EveryJobSettles ==
    \A j \in Ids : Exists(jobs, j) ~> jobs[j].status \in {"done", "failed"}

\* A slot that was planned Grace ago gets a job of its kind even if no one ever
\* triggers it, as long as its window (one day) stays open.
SlotServed ==
    \A k \in Kinds :
        (clock.age >= Grace /\ clock.day = MaxDay)
            ~> (\E j \in Ids : Exists(jobs, j) /\ jobs[j].kind = k /\ jobs[j].recent)
=============================================================================
