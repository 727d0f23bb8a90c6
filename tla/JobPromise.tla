----------------------------- MODULE JobPromise -----------------------------
(***************************************************************************)
(* What the ingest queue promises about each job, without queue, worker,   *)
(* retry plan or time: a queued job is opened once, tried at most          *)
(* MaxAttempts times, and settled once, for good, after at least one try.  *)
(* The audit row of a manual run is opened already tried; its own late     *)
(* result may still correct a verdict the reclaimer gave before it.        *)
(***************************************************************************)
EXTENDS Naturals

CONSTANTS Jobs, MaxAttempts

VARIABLE job

Settled == {"done", "failed"}

JobState == [state : {"absent", "open"} \cup Settled, tries : Nat, audit : BOOLEAN]

Unopened == [state |-> "absent", tries |-> 0, audit |-> FALSE]

Init == job = [j \in Jobs |-> Unopened]

Open(old, new) ==
    /\ old = Unopened
    /\ new.state = "open"
    /\ new.tries = IF new.audit THEN 1 ELSE 0

Try(old, new) ==
    /\ old.state = "open" /\ ~old.audit /\ old.tries < MaxAttempts
    /\ new = [state |-> "open", tries |-> old.tries + 1, audit |-> FALSE]

Settle(old, new) ==
    /\ old.state = "open" /\ old.tries > 0
    /\ \E s \in Settled : new = [old EXCEPT !.state = s]

Correct(old, new) ==
    /\ old.state \in Settled /\ old.audit
    /\ \E s \in Settled : new = [old EXCEPT !.state = s]

Move(old, new) == Open(old, new) \/ Try(old, new) \/ Settle(old, new) \/ Correct(old, new)

\* One step of the system may move several jobs: a reclaim is one UPDATE.
Next == \A j \in Jobs : job'[j] = job[j] \/ Move(job[j], job'[j])

Spec == Init /\ [][Next]_job
=============================================================================
