------------------------------ MODULE JobTable ------------------------------
(***************************************************************************)
(* The job table ops_jobs.job_flex_ingest and the SQL statements that      *)
(* write it: worker/claim.py, scheduler/enqueue.py and the UPDATE of       *)
(* api/ingest.py.  Every statement commits on its own, so each is one      *)
(* function from a table to a table.                                       *)
(*                                                                         *)
(* Time is relative.  wait is the number of ticks until not_before (0 when *)
(* it is NULL or past) and age the number of ticks since started_at while  *)
(* the row is running (nothing reads started_at otherwise; 0 then).  So    *)
(* "now + d" is d, GREATEST(COALESCE(not_before, now), now + d) is the     *)
(* larger of wait and d, and one tick ages the whole table.                *)
(***************************************************************************)
EXTENDS Naturals, FiniteSets

CONSTANTS
    MaxJobs,       \* bound: rows the table may ever hold
    Kinds,         \* flex-trades, flex-transactions
    Priority,      \* Kinds -> Nat, the priority of each slot in schedule.yaml
    MaxHash,       \* bound: payload identities are 1..MaxHash
    MaxAttempts,   \* max_attempts of a queued job
    StaleAfter,    \* stale_running_sec, in ticks
    RequeueDelay   \* reclaim_requeue_sec, in ticks

ASSUME TableAssumption ==
    /\ MaxJobs \in Nat \ {0}
    /\ Kinds # {}
    /\ Priority \in [Kinds -> Nat]
    /\ MaxHash \in Nat \ {0}
    /\ MaxAttempts \in Nat \ {0}
    /\ StaleAfter \in Nat
    /\ RequeueDelay \in Nat

Ids == 1..MaxJobs

\* error_category: NULL, one of worker/retry.py's, or the reclaimer's own.
Category == {"none", "stale", "throttled", "config", "not_ready", "transient", "unknown"}

\* A row.  src tells the writers apart (the daily slot, the API, the worker's
\* catch-up, a manual run); hash 0 is payload_hash NULL; recent says that
\* created_at is not before the last planned fire.  Status "absent" marks an
\* id the table has not given out.
Row == [kind     : Kinds,
        src      : {"slot", "api", "catchup", "manual"},
        hash     : 0..MaxHash,
        status   : {"absent", "pending", "running", "done", "failed"},
        attempts : Nat,
        wait     : Nat,
        age      : 0..(StaleAfter + 1),
        category : Category,
        recent   : BOOLEAN]

\* max_attempts of a row: a manual run has one attempt, a queued job the slot's.
MaxOf(row) == IF row.src = "manual" THEN 1 ELSE MaxAttempts

Exists(t, j) == t[j].status # "absent"
Active(t, j) == t[j].status \in {"pending", "running"}
NextId(t, j) == ~Exists(t, j) /\ \A i \in Ids : i < j => Exists(t, i)

---------------------------------------------------------------------------
(* Reading the queue. *)

\* Mutant: a failed row is runnable too.
Claimable_AlsoFailed(t) == {j \in Ids : t[j].status \in {"pending", "failed"} /\ t[j].wait = 0}

Claimable(t) == {j \in Ids : t[j].status = "pending" /\ t[j].wait = 0}

\* ORDER BY priority DESC, created_at, id LIMIT 1.
IsNextClaim(t, j) ==
    /\ j \in Claimable(t)
    /\ \A i \in Claimable(t) :
          \/ Priority[t[j].kind] > Priority[t[i].kind]
          \/ Priority[t[j].kind] = Priority[t[i].kind] /\ j <= i

\* Mutant: the partial index covers pending rows only.
Conflict_PendingOnly(t, kind, hash) ==
    \E j \in Ids : t[j].status = "pending" /\ t[j].kind = kind /\ t[j].hash = hash

\* The conflict target of insert_job: an active row of this kind and identity.
Conflict(t, kind, hash) ==
    \E j \in Ids : Active(t, j) /\ t[j].kind = kind /\ t[j].hash = hash


---------------------------------------------------------------------------
(* Writing it. *)

\* UPDATE ... SET: the columns a statement may change.
Set(row, status, attempts, wait, age, category) ==
    [kind |-> row.kind, src |-> row.src, hash |-> row.hash, status |-> status,
     attempts |-> attempts, wait |-> wait, age |-> age, category |-> category,
     recent |-> row.recent]

\* VALUES (...): a row as it is inserted.
NewRow(kind, src, hash, status, attempts) ==
    [kind |-> kind, src |-> src, hash |-> hash, status |-> status, attempts |-> attempts,
     wait |-> 0, age |-> 0, category |-> "none", recent |-> TRUE]

insert_job(t, j, kind, src, hash) == 
    [t EXCEPT ![j] = NewRow(kind, src, hash, "pending", 0)]

insert_manual_job(t, j, kind) ==
    [t EXCEPT ![j] = NewRow(kind, "manual", 0, "running", 1)]

Claimed(row) == Set(row, "running", row.attempts + 1, 0, 0, row.category)

claim_next(t, j) == [t EXCEPT ![j] = Claimed(t[j])]

\* Mutant: off by one, a claim is stale at StaleAfter.
Stale_TooSoon(row) == row.status = "running" /\ row.age >= StaleAfter

Stale(row) == row.status = "running" /\ row.age > StaleAfter

Requeued(row) == Set(row, "pending", row.attempts, RequeueDelay, 0, "stale")

GivenUp(row) == Set(row, "failed", row.attempts, 0, 0, "stale")

\* Requeue what has attempts left, fail the rest.
Reclaimed(row) == IF row.attempts < MaxOf(row) THEN Requeued(row) ELSE GivenUp(row)

reclaim_stale_running(t) ==
    [j \in Ids |-> IF Stale(t[j]) THEN Reclaimed(t[j]) ELSE t[j]]

DoneRow(row) == Set(row, "done", row.attempts, row.wait, 0, "none")

mark_done(t, j) == [t EXCEPT ![j] = DoneRow(t[j])]

Retried(row, category, delay) == Set(row, "pending", row.attempts, delay, 0, category)

mark_retry(t, j, category, delay) == [t EXCEPT ![j] = Retried(t[j], category, delay)]

\* Mutant: a status the readers do not know.
Failed_Error(row, category) == Set(row, "error", row.attempts, row.wait, 0, category)

Failed(row, category) == Set(row, "failed", row.attempts, row.wait, 0, category)

mark_failed(t, j, category) == [t EXCEPT ![j] = Failed(t[j], category)]

\* Mutant: a not_before that is already set is left alone.
Deferred_OnlyUnset(row, delay) == [row EXCEPT !.wait = IF @ = 0 THEN delay ELSE @]

Deferred(row, delay) == [row EXCEPT !.wait = IF @ > delay THEN @ ELSE delay]

defer_pending(t, delay, exclude) ==
    [j \in Ids |-> IF t[j].status = "pending" /\ j # exclude
                   THEN Deferred(t[j], delay) ELSE t[j]]

Released(row) == [row EXCEPT !.wait = 0]

\* The UPDATE of run_job_now: WHERE id = j AND status = 'pending'.
clear_not_before(t, j) ==
    IF t[j].status = "pending" THEN [t EXCEPT ![j] = Released(t[j])] ELSE t

OlderRow(row) ==
    Set(row, row.status, row.attempts,
        IF row.wait > 0 THEN row.wait - 1 ELSE 0,
        IF row.status = "running" /\ row.age <= StaleAfter THEN row.age + 1 ELSE row.age,
        row.category)

\* One tick of clock_timestamp() as the rows see it.
Older(t) == [j \in Ids |-> OlderRow(t[j])]

\* A planned fire: every row that exists was created before it.
BeforeFire(t) == [j \in Ids |-> [t[j] EXCEPT !.recent = FALSE]]
=============================================================================
