----------------------------- MODULE SelfCheck -----------------------------
(***************************************************************************)
(* The operator's view of the pipeline: the worker's heartbeat row         *)
(* (worker/loop.py, schema/ddl.py), the self-check GET /flex/ops/check     *)
(* (api/ops.py, ops/diagnose.py) and the adherence of the queue dashboard  *)
(* (api/ingest_dashboard.py), on top of FlexIngest.                        *)
(*                                                                         *)
(* The self-check reads the newest jobs, the freshness rows and the        *)
(* cooldown in statements of their own, at READ COMMITTED: the worker goes *)
(* on between two of them, and while the report is on the screen.  A check *)
(* reads within one tick.                                                  *)
(***************************************************************************)
EXTENDS FlexIngest

CONSTANTS
    PollLen,     \* poll_interval_sec, in ticks
    StaleBeat,   \* HEARTBEAT_STALE_SEC, in ticks
    PlanWindow   \* the two hours of the queue dashboard, in ticks

ASSUME CheckAssumption == StaleBeat \in Nat \ {0} /\ {PollLen, PlanWindow} \subseteq Nat

VARIABLES
    pulse,  \* Workers -> where it is with its heartbeat and its sleep
    beat,   \* ticks since seen_at of the heartbeat row (capped: silent)
    check   \* the self-check being made or shown

checkVars == <<vars, pulse, beat, check>>

Verdicts == {"failed", "missed", "throttled", "waiting", "running", "queued", "ok", "idle"}

\* No row, or a row older than StaleBeat.
Silent == StaleBeat + 1

\* due: heartbeat() comes next, and then the next claim or the sleep before it.
\* sleep: what is left of asyncio.sleep(poll).  waited: ticks awake since the last
\* heartbeat (capped).  lost: that one was not written.
Pulse == [due : {"no", "claim", "sleep"}, sleep : 0..PollLen, waited : 0..Silent, lost : BOOLEAN]

\* The pulse of a worker that is away.
Quiet == [due |-> "no", sleep |-> 0, waited |-> 0, lost |-> FALSE]

NoCheck == [pc |-> "idle", job |-> [k \in Kinds |-> 0], verdict |-> [k \in Kinds |-> "idle"],
            ever |-> [k \in Kinds |-> FALSE]]

CheckInit ==
    /\ Init
    /\ pulse = [w \in Workers |-> Quiet]
    /\ beat = Silent
    /\ check = NoCheck

---------------------------------------------------------------------------
(* The heartbeat. *)

\* The worker is not idling: it is down, or busy with a job.
Busy(pc) == pc \notin {"claim", "reclaim", "catchup", "enqueue"}

\* Mutant: no heartbeat in the idle branch.
BeatDue_JobsOnly(before, after) == Busy(before) /\ after = "claim"

\* heartbeat() is the last thing before the next claim: after the start, after a
\* pass of reclaim and catch-up, after a job that is done and one that is not.
BeatDue(before, after) == before # "claim" /\ after = "claim"

\* An idle poll that does not go on to reclaim.
OnlyPolled(before, after) == before.pc = "claim" /\ after.pc = "claim" /\ after.idle > before.idle

\* What a step of the worker leaves to do before its next statement.
PulseAfter(p, before, after) ==
    IF Busy(after.pc) THEN Quiet
    ELSE IF BeatDue(before.pc, after.pc)
         THEN [p EXCEPT !.due = IF Busy(before.pc) THEN "claim" ELSE "sleep"]
    ELSE IF OnlyPolled(before, after) THEN [p EXCEPT !.sleep = PollLen] ELSE p

\* A step of the worker; while it sleeps or owes a heartbeat it can only die.
WorkerMoves(w) ==
    /\ IF pulse[w].due = "no" /\ pulse[w].sleep = 0 THEN WorkerStep(w) \/ WorkerFault(w) ELSE Crash(w)
    /\ pulse' = [pulse EXCEPT ![w] = PulseAfter(@, worker[w], worker'[w])]
    /\ UNCHANGED <<beat, check>>

\* record_heartbeat; an error in it is only logged.
Heartbeat(w) ==
    /\ pulse[w].due # "no"
    /\ \E lost \in BOOLEAN :
          /\ pulse' = [pulse EXCEPT ![w] = [due |-> "no", sleep |-> IF @.due = "sleep" THEN PollLen ELSE 0,
                                            waited |-> 0, lost |-> lost]]
          /\ beat' = IF lost THEN beat ELSE 0
    /\ UNCHANGED <<vars, check>>

\* A tick of a worker that sleeps, and of one that is awake: a statement takes its
\* time, or WorkerDb.call waits to connect again.
PulseLater(p, pc) ==
    IF Busy(pc) THEN p
    ELSE IF p.sleep > 0 THEN [p EXCEPT !.sleep = @ - 1]
    ELSE [p EXCEPT !.waited = IF @ < Silent THEN @ + 1 ELSE @]

Reading == check.pc \in {"freshness", "rest"}

\* Time waits for no worker.
TimePasses ==
    /\ Tick
    /\ ~Reading
    /\ pulse' = [w \in Workers |-> PulseLater(pulse[w], worker[w].pc)]
    /\ beat' = IF beat < Silent THEN beat + 1 ELSE beat
    /\ UNCHANGED check

---------------------------------------------------------------------------
(* diagnose. *)

\* Mutant: the oldest job of the kind.
NewestJob_Oldest(t, k) ==
    LET rows == {j \in Ids : Exists(t, j) /\ t[j].kind = k}
    IN  IF rows = {} THEN 0 ELSE CHOOSE j \in rows : \A i \in rows : i >= j

\* DISTINCT ON (kind) ... ORDER BY kind, id DESC; 0 when there is none.
NewestJob(t, k) ==
    LET rows == {j \in Ids : Exists(t, j) /\ t[j].kind = k}
    IN  IF rows = {} THEN 0 ELSE CHOOSE j \in rows : \A i \in rows : i <= j

missed_plan(t, j) ==
    /\ clock.age >= Grace
    /\ clock.age <= DayLen
    /\ j = 0 \/ ~t[j].recent

assess_kind(t, j) ==
    IF j = 0 THEN (IF missed_plan(t, j) THEN "missed" ELSE "idle")
    ELSE CASE t[j].status = "running" -> "running"
           [] t[j].status = "pending" /\ t[j].wait = 0 -> "queued"
           [] t[j].status = "pending" /\ t[j].wait > 0 /\ t[j].category = "throttled" -> "throttled"
           [] t[j].status = "pending" /\ t[j].wait > 0 /\ t[j].category # "throttled" -> "waiting"
           [] t[j].status = "failed" -> "failed"
           [] t[j].status = "done" -> IF missed_plan(t, j) THEN "missed" ELSE "ok"

\* The dashboard's own view of the plan.
adherence(t, k) ==
    LET j == NewestJob(t, k)
    IN  IF clock.age <= PlanWindow THEN "on_plan"
        ELSE IF j = 0 THEN "no_data"
        ELSE IF ~t[j].recent THEN "late" ELSE "on_plan"

---------------------------------------------------------------------------
(* GET /flex/ops/check, one step per statement. *)

\* The newest job of every kind, and with it the verdict.
CheckJobs ==
    /\ check.pc = "idle"
    /\ check' = [check EXCEPT !.pc = "freshness",
                              !.job = [k \in Kinds |-> NewestJob(jobs, k)],
                              !.verdict = [k \in Kinds |-> assess_kind(jobs, NewestJob(jobs, k))]]
    /\ UNCHANGED <<vars, pulse, beat>>

CheckFreshness ==
    /\ check.pc = "freshness"
    /\ check' = [check EXCEPT !.pc = "rest", !.ever = [k \in Kinds |-> fresh[k].ever]]
    /\ UNCHANGED <<vars, pulse, beat>>

\* Mutant: the jobs are read again at the end, and the verdict is made of those.
CheckRest_JobsLast ==
    /\ check.pc = "rest"
    /\ check' = [check EXCEPT !.pc = "report",
                              !.job = [k \in Kinds |-> NewestJob(jobs, k)],
                              !.verdict = [k \in Kinds |-> assess_kind(jobs, NewestJob(jobs, k))]]
    /\ UNCHANGED <<vars, pulse, beat>>

\* Heartbeat, cooldown, data and coverage only add their own lines to the report.
CheckRest ==
    /\ check.pc = "rest"
    /\ check' = [check EXCEPT !.pc = "report"]
    /\ UNCHANGED <<vars, pulse, beat>>

\* The report leaves the screen.
CheckClosed ==
    /\ check.pc = "report"
    /\ check' = NoCheck
    /\ UNCHANGED <<vars, pulse, beat>>

CheckStep == CheckJobs \/ CheckFreshness \/ CheckRest \/ CheckClosed

---------------------------------------------------------------------------

CheckNext ==
    \/ \E w \in Workers : WorkerMoves(w) \/ Heartbeat(w)
    \/ /\ \/ \E k \in Kinds : EnqueueSlot(k) \/ (\E h \in 1..MaxHash : EnqueueJob(k, h))
          \/ \E c \in Clients : ClientStep(c)
          \/ PlannedFire /\ check.pc = "idle"
       /\ UNCHANGED <<pulse, beat, check>>
    \/ TimePasses
    \/ CheckStep

CheckSpec == CheckInit /\ [][CheckNext]_checkVars

---------------------------------------------------------------------------
(* Properties. *)

\* "ok" is earned and stays so: the run it names brought its rows and is still
\* done, and a queued one comes with a last success on the same report, although
\* freshness is read later than the job (it is written earlier).
OkIsTrue ==
    \A k \in Kinds :
        check.pc = "report" /\ check.verdict[k] = "ok" =>
            /\ check.job[k] \in landed
            /\ jobs[check.job[k]].status = "done"
            /\ Queued(check.job[k]) => check.ever[k]

\* "failed: the last attempt is final": the queued job a report calls failed is
\* not tried again, however long the report stays on the screen.
FailedIsFinal ==
    \A k \in Kinds :
        check.pc # "idle" /\ check.verdict[k] = "failed" /\ Queued(check.job[k]) =>
            jobs[check.job[k]].status = "failed"

\* The three readings of the plan agree: what the self-check calls missed is
\* what the catch-up enqueues, "ok" is never said of a slot it would enqueue,
\* and the dashboard leaves the plan only for such a slot, while its day lasts.
MissedAgrees ==
    \A k \in Kinds :
        LET j == NewestJob(jobs, k)
            v == assess_kind(jobs, j)
            missed == k \in missed_slots(jobs)
        IN  /\ v = "missed" => missed
            /\ missed => v \in {"missed", "throttled", "waiting", "running", "queued", "failed"}
            /\ clock.age \in Grace..DayLen /\ clock.age > PlanWindow =>
                   (adherence(jobs, k) # "on_plan") = missed

\* Down, busy with a job, or not past the heartbeat that follows it.
Away(w) == Busy(worker[w].pc) \/ pulse[w].due = "claim"

\* "worker silent ... check flex-query-worker": a row older than HEARTBEAT_STALE_SEC
\* means that the worker is down, busy with one job, lost its last heartbeat, or has
\* waited since for the database: longer than what its idle polls, ReclaimEvery
\* sleeps between two heartbeats, leave of that limit.
SilentMeansAway ==
    beat = Silent =>
        \A w \in Workers :
            Away(w) \/ pulse[w].lost \/ pulse[w].waited + ReclaimEvery * PollLen > StaleBeat
=============================================================================
