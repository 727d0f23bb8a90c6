----------------------------- MODULE FetchWindow -----------------------------
(***************************************************************************)
(* Which days a run asks IB for, and which of them end up stored:          *)
(* fetch_flex_trades_and_upsert_executions (orchestration/trades.py) and   *)
(* fetch_cash_transactions_from_flex (orchestration/transactions.py), as   *)
(* retried by the worker until _require_ok (worker/handlers.py) is content.*)
(*                                                                         *)
(* A day is an integer.  IB posts an account's activity of a day once the  *)
(* day is over.  What is posted and what is stored are sets of pairs of an *)
(* account and a day; the upsert makes storing a union.                    *)
(***************************************************************************)
EXTENDS Integers, FiniteSets, FiniteSetsExt

CONSTANTS
    Kind,         \* "trades" or "cash"
    Accounts,     \* the configured queries, one account each
    Traders,      \* accounts with rows in executions_raw_flex
    Runners,      \* runs that can be in progress at once (worker, manual)
    DefaultDays,  \* flex_default_range_days
    InitDays,     \* flex_init_range_days
    IbSpan,       \* MAX_FLEX_DAYS: td - fd may not exceed it
    ChunkSpan,    \* CHUNK_MAX_SPAN_DAYS
    QueryDays,    \* days of the query's own default period
    Explicit,     \* windows an operator may ask for
    Fallbacks,    \* values the payload's fallback may have
    Seeded,       \* whether day 1 is already stored
    FirstDay,     \* the day it is at first: what was posted since day 1 is an outage
    MaxToday      \* bound: the last day

ASSUME WindowAssumption ==
    /\ Kind \in {"trades", "cash"}
    /\ Traders \subseteq Accounts
    /\ {DefaultDays, InitDays, IbSpan, ChunkSpan, QueryDays, MaxToday} \subseteq Nat
    /\ ChunkSpan <= IbSpan
    /\ Explicit \subseteq [from : Int, to : Int]
    /\ Fallbacks \subseteq BOOLEAN
    /\ Seeded \in BOOLEAN
    /\ FirstDay \in 2..MaxToday

VARIABLES
    today,   \* date.today()
    posted,  \* what IB can report
    stored,  \* raw_broker.executions_raw_flex, or raw_broker.transactions
    run      \* Runners -> the run in progress

vars == <<today, posted, stored, run>>

\* job is the payload's window (given) or the scheduled one of the first attempt,
\* up to the day before it; from, to and on are those of the attempt.
NoRun == [pc |-> "idle", job |-> [given |-> FALSE, from |-> 0, to |-> 0, on |-> 0],
          from |-> 0, to |-> 0, on |-> 0, fallback |-> FALSE,
          todo |-> {}, rows |-> {}, failed |-> FALSE, widened |-> FALSE]

Window == [from : Int, to : Int]

RunState ==
    [pc : {"idle", "fetch", "retry", "done"}, job : [given : BOOLEAN, from : Int, to : Int, on : Int],
     from : Int, to : Int, on : Int, fallback : BOOLEAN, todo : SUBSET (Accounts \X Window),
     rows : SUBSET (Accounts \X Int), failed : BOOLEAN, widened : BOOLEAN]

TypeOK ==
    /\ today \in FirstDay..MaxToday
    /\ posted \subseteq Accounts \X (1..today - 1)
    /\ stored \subseteq posted
    /\ run \in [Runners -> RunState]
    /\ \A r \in Runners : run[r].rows \subseteq posted

Init ==
    /\ today = FirstDay
    /\ posted = Accounts \X (1..FirstDay - 1)
    /\ stored = IF Seeded THEN Accounts \X {1} ELSE {}
    /\ run = [r \in Runners |-> NoRun]

---------------------------------------------------------------------------
(* The window of a scheduled run. *)

Yesterday == today - 1
AtLeastOne(n) == IF n < 1 THEN 1 ELSE n

DaysOf(a) == {p[2] : p \in {q \in stored : q[1] = a}}
LastDay(a) == Max(DaysOf(a))

\* read_last_transaction_dates: only accounts that trade count, unless none does.
Counted == {a \in Accounts : DaysOf(a) # {} /\ (Traders = {} \/ a \in Traders)}

\* Mutant: the newest account sets the window.
transactions_from_Newest ==
    IF Counted = {} THEN Yesterday - AtLeastOne(InitDays)
    ELSE Min({Max({LastDay(a) : a \in Counted}), Yesterday - AtLeastOne(DefaultDays)})

\* transactions_window: back to the oldest account's last stored day.
transactions_from ==
    IF Counted = {} THEN Yesterday - AtLeastOne(InitDays)
    ELSE Min({LastDay(a) : a \in Counted} \cup {Yesterday - AtLeastOne(DefaultDays)})

\* The trades run: DefaultDays before the newest stored day of any account.
trades_from ==
    IF stored = {} THEN Yesterday - InitDays
    ELSE Yesterday - (Max({0, Yesterday - Max({p[2] : p \in stored})}) + DefaultDays)

Chunk(f, t) == [from |-> f, to |-> t]

\* Mutant: the next chunk starts two days after the last one's end.
split_window_Gap(f, t) ==
    {Chunk(d, Min({t, d + ChunkSpan})) : d \in {e \in f..t : (e - f) % (ChunkSpan + 2) = 0}}

\* Consecutive chunks of at most ChunkSpan + 1 days; a reversed window is one.
split_window(f, t) ==
    IF t < f THEN {Chunk(f, t)}
    ELSE {Chunk(d, Min({t, d + ChunkSpan})) : d \in {e \in f..t : (e - f) % (ChunkSpan + 1) = 0}}

\* Mutant: the window is sent as it is.
Requests_Whole(f, t) == {Chunk(f, t)}

\* The requests of one query: the cash run cuts its window, the trades run not.
Requests(f, t) == IF Kind = "cash" THEN split_window(f, t) ELSE {Chunk(f, t)}

---------------------------------------------------------------------------
(* A run.  Its requests go out one by one; their order does not matter, since *)
(* nothing is stored before the last of them.                                 *)

Move(r, state) == run' = [run EXCEPT ![r] = state]

\* The first, or the next, attempt at a job.
Asks(job, f, t, fallback) ==
    [pc |-> "fetch", job |-> job, from |-> f, to |-> t, on |-> today, fallback |-> fallback,
     todo |-> Accounts \X Requests(f, t), rows |-> {}, failed |-> FALSE, widened |-> FALSE]

Job(given, f, t) == [given |-> given, from |-> f, to |-> t, on |-> today]

From == IF Kind = "cash" THEN transactions_from ELSE trades_from

\* A slot's job, where fallback is off, or a payload without dates, with its own.
StartScheduled(r, fallback) ==
    /\ run[r].pc = "idle"
    /\ Move(r, Asks(Job(FALSE, From, Yesterday), From, Yesterday, fallback))
    /\ UNCHANGED <<today, posted, stored>>

\* A payload with from_date and to_date.
StartExplicit(r, w, fallback) ==
    /\ run[r].pc = "idle"
    /\ Move(r, Asks(Job(TRUE, w.from, w.to), w.from, w.to, fallback))
    /\ UNCHANGED <<today, posted, stored>>

\* The worker's next attempt: the payload's window, or one read anew.
Retry(r) ==
    /\ run[r].pc = "retry"
    /\ Move(r, IF run[r].job.given
               THEN Asks(run[r].job, run[r].job.from, run[r].job.to, run[r].fallback)
               ELSE Asks(run[r].job, From, Yesterday, run[r].fallback))
    /\ UNCHANGED <<today, posted, stored>>

Reported(a, f, t) == {p \in posted : p[1] = a /\ p[2] \in f..t}

\* IB takes a range of at most IbSpan (request_report checks before asking).
FetchOk(r) ==
    /\ run[r].pc = "fetch"
    /\ \E x \in run[r].todo :
          /\ x[2].to - x[2].from <= IbSpan
          /\ Move(r, [run[r] EXCEPT !.todo = @ \ {x},
                                    !.rows = @ \cup Reported(x[1], x[2].from, x[2].to)])
    /\ UNCHANGED <<today, posted, stored>>

\* Mutant: the error of a query is not kept.
FetchFails_Forgotten(r) ==
    /\ run[r].pc = "fetch"
    /\ \E x \in run[r].todo : Move(r, [run[r] EXCEPT !.todo = @ \ {x}])
    /\ UNCHANGED <<today, posted, stored>>

\* A ValueError is noted and the next query or chunk goes on.
FetchFails(r) ==
    /\ run[r].pc = "fetch"
    /\ \E x \in run[r].todo : Move(r, [run[r] EXCEPT !.todo = @ \ {x}, !.failed = TRUE])
    /\ UNCHANGED <<today, posted, stored>>

\* IB rejected the dates and the query's own period was taken instead; the cash
\* run does so only for a window of one chunk.
FetchWidened(r) ==
    /\ run[r].pc = "fetch" /\ run[r].fallback
    /\ Kind = "cash" => Cardinality(Requests(run[r].from, run[r].to)) = 1
    /\ \E x \in run[r].todo :
          Move(r, [run[r] EXCEPT !.todo = @ \ {x}, !.widened = TRUE,
                                 !.rows = @ \cup Reported(x[1], today - QueryDays, Yesterday)])
    /\ UNCHANGED <<today, posted, stored>>

\* Mutant: a run with an error left ends in a state of its own, which nothing retries.
Write_Partial(r) ==
    /\ run[r].pc = "fetch" /\ run[r].todo = {}
    /\ stored' = stored \cup run[r].rows
    /\ Move(r, [run[r] EXCEPT !.pc = IF run[r].failed THEN "partial" ELSE "done", !.rows = {}])
    /\ UNCHANGED <<today, posted>>

\* Everything fetched is upserted at once; a run with an error left is not done.
Write(r) ==
    /\ run[r].pc = "fetch" /\ run[r].todo = {}
    /\ stored' = stored \cup run[r].rows
    /\ Move(r, [run[r] EXCEPT !.pc = IF run[r].failed THEN "retry" ELSE "done", !.rows = {}])
    /\ UNCHANGED <<today, posted>>

\* Another exception, a refused write, a crash: nothing of the run is stored.
Aborts(r) ==
    /\ run[r].pc = "fetch"
    /\ Move(r, [run[r] EXCEPT !.pc = "retry", !.todo = {}, !.rows = {}])
    /\ UNCHANGED <<today, posted, stored>>

\* The upsert committed, what follows it did not return: the statistics the trades
\* run reads afterwards, the answer to the commit.
WrittenButRaises(r) ==
    /\ run[r].pc = "fetch" /\ run[r].todo = {}
    /\ stored' = stored \cup run[r].rows
    /\ Move(r, [run[r] EXCEPT !.pc = "retry", !.rows = {}])
    /\ UNCHANGED <<today, posted>>

\* The job is over: done, failed for good, or a manual run, which is not retried.
Finish(r) ==
    /\ run[r].pc \in {"done", "retry"}
    /\ Move(r, NoRun)
    /\ UNCHANGED <<today, posted, stored>>

\* Midnight: IB posts the day that ended, for the accounts that were active.
NewDay ==
    /\ today < MaxToday
    /\ today' = today + 1
    /\ \E active \in SUBSET Accounts : posted' = posted \cup (active \X {today})
    /\ UNCHANGED <<stored, run>>

RunStep(r) ==
    \/ \E fallback \in Fallbacks : StartScheduled(r, fallback)
    \/ Retry(r) \/ FetchOk(r) \/ Write(r) \/ Finish(r)
RunFault(r) == FetchFails(r) \/ Aborts(r) \/ WrittenButRaises(r)

Next ==
    \/ \E r \in Runners : RunStep(r) \/ RunFault(r) \/ FetchWidened(r)
    \/ \E r \in Runners, w \in Explicit, fallback \in Fallbacks : StartExplicit(r, w, fallback)
    \/ NewDay

Spec == Init /\ [][Next]_vars

\* The slots keep coming, and IB and the network do not fail for ever.
LiveSpec ==
    /\ Spec
    /\ \A r \in Runners : WF_vars(RunStep(r)) /\ <>[][RunFault(r) => RunStep(r)]_vars

---------------------------------------------------------------------------
(* Properties. *)

\* What IB had of a window when it was asked.
InWindow(w) == {p \in posted : p[2] \in w.from..w.to /\ p[2] < w.on}

\* A run the handler takes for a success has stored, for every account, every
\* day of the window it asked for, however many chunks and errors that took.
CleanRunCovers ==
    \A r \in Runners : run[r].pc = "done" /\ ~run[r].widened
                           => InWindow(run[r]) \subseteq stored

\* README: "A window longer than one IB request may span ... is sent as
\* consecutive chunks": no request is longer than IB takes.
RequestsAccepted ==
    \A r \in Runners : \A x \in run[r].todo : x[2].to - x[2].from <= IbSpan

\* The scheduled cash run leaves no hole behind an account's last stored day,
\* which is where its next window starts, whatever fails, overlaps or repeats, as
\* long as a window fits one request.
NoGap ==
    \A a \in Traders : \A p \in posted :
        p[1] = a /\ DaysOf(a) # {} /\ p[2] <= LastDay(a) => p \in stored

\* handlers.py: "the job is not done until both [accounts] are": a job that is
\* done after retries has stored what its first attempt was to bring.
DoneIsComplete ==
    \A r \in Runners : run[r].pc = "done" /\ ~run[r].widened
                           => InWindow(run[r].job) \subseteq stored

\* Once no new day comes, everything IB posted is stored in the end.
EverythingLands == <>[](posted \subseteq stored)
=============================================================================
