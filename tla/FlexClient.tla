----------------------------- MODULE FlexClient -----------------------------
(***************************************************************************)
(* One query of a run: request_report, get_statement and the fallbacks     *)
(* around them (client/flex_client.py, _fetch_trades_with_date_fallback of *)
(* orchestration/trades.py, _fetch_chunk of orchestration/transactions.py).*)
(*                                                                         *)
(* IB answers freely at every exchange.  An error is the set of tags that  *)
(* the fallback and worker/retry.py look for in its text: IB's codes and   *)
(* "transient", a substring of _TRANSIENT_MARKERS.                         *)
(***************************************************************************)
EXTENDS Naturals, Sequences, RetryPolicy

CONSTANTS MaxPolls \* MAX_GET_STATEMENT_POLLS

ASSUME PollsAssumption == MaxPolls \in Nat \ {0}

VARIABLES
    call,     \* the arguments: kind, the dates given, allow_fallback
    step,     \* the period asked for: the caller's, query default, period=5
    pc,       \* SendRequest, GetStatement, or how the call ended
    polls,    \* GetStatement attempts of this request
    last,     \* last_err
    primary,  \* primary_err: <<>> when None, else <<error>>
    message,  \* the text of the exception the call ended with
    report,   \* history: the report an empty result was read from
    requests, \* history: SendRequests sent to IB
    errors    \* history: the errors of the requests, in order

vars == <<call, step, pc, polls, last, primary, message, report, requests, errors>>

Tags == {"1003", "1012", "1018", "1019", "transient"}

\* What an error of one exchange may carry: one IB code, a transport marker, or
\* nothing known.
Error == {{}} \cup {{t} : t \in Tags}

\* Which dates the caller gave (a run without any fills in its window); "long" is
\* a range above MAX_FLEX_DAYS, which the cash run cuts into chunks.
Call == [kind : {"trades"}, dates : {"both", "long", "half"}, fallback : BOOLEAN]
            \cup [kind : {"cash"}, dates : {"both", "half"}, fallback : BOOLEAN]

\* Rows, an empty report, a ValueError, or another exception.
Ended == {"rows", "empty", "raised", "escaped"}

\* A row as the parsers see it: its element, and whether it has an account, a
\* date they can read and an amount (not looked at in a trade).
Row ==
    [tag : {"Trade"}, account : BOOLEAN, dated : BOOLEAN, amount : {TRUE}]
        \cup [tag : {"CashTransaction"}, account : BOOLEAN, dated : BOOLEAN, amount : BOOLEAN]

\* A generated report: up to two kinds of rows, a FlexStatement that may name the
\* account of them all, and perhaps a section of cash transactions without rows.
Report ==
    [account : BOOLEAN, section : BOOLEAN, rows : {{}} \cup {{r, s} : r \in Row, s \in Row}]
NoReport == [account |-> FALSE, section |-> FALSE, rows |-> {}]

TypeOK ==
    /\ call \in Call
    /\ step \in {"caller", "default", "period5"}
    /\ pc \in {"send", "poll"} \cup Ended
    /\ polls \in 0..MaxPolls
    /\ last \in Error
    /\ primary \in {<<>>} \cup {<<e>> : e \in SUBSET Tags}
    /\ message \subseteq Tags
    /\ report.account \in BOOLEAN /\ report.section \in BOOLEAN /\ report.rows \subseteq Row
    /\ requests \in Nat
    /\ errors \in Seq(SUBSET Tags)

Init ==
    /\ call \in Call
    /\ step = "caller" /\ pc = "send" /\ polls = 0
    /\ last = {} /\ primary = <<>> /\ message = {}
    /\ report = NoReport
    /\ requests = 0 /\ errors = <<>>

---------------------------------------------------------------------------
(* How one request's end moves the call. *)

Raise(err) == pc' = "raised" /\ message' = err /\ UNCHANGED <<step, primary>>
Return(result) == pc' = result /\ UNCHANGED <<step, primary, message>>
Try(period) == pc' = "send" /\ step' = period /\ UNCHANGED message

\* Mutant: allow_fallback is not looked at.
Widens_Always(err) == call.dates \in {"both", "long"} /\ "1003" \in err

\* _is_flex_statement_unavailable: 1003 on a call that gave both dates.
Widens(err) ==
    /\ call.fallback /\ call.dates \in {"both", "long"}
    /\ "1003" \in err

\* Mutant: the last request's exception replaces the first one's.
TradesRaised_LastOnly(err) ==
    \/ /\ step = "caller" /\ Widens(err)
       /\ Try("default") /\ primary' = <<err>>
    \/ step = "caller" /\ ~Widens(err) /\ Raise(err)
    \/ step = "default" /\ Try("period5") /\ UNCHANGED primary
    \/ step = "period5" /\ Raise(err)

\* A ValueError out of request_report or get_statement, in the trades chain.
TradesRaised(err) ==
    \/ /\ step = "caller" /\ Widens(err)
       /\ Try("default") /\ primary' = <<err>>
    \/ step = "caller" /\ ~Widens(err) /\ Raise(err)
    \/ /\ step = "default"
       /\ Try("period5") /\ primary' = IF primary = <<>> THEN <<err>> ELSE primary
    \/ /\ step = "period5"
       /\ Raise(IF primary = <<>> THEN err ELSE primary[1] \cup err)

\* The cash chain has no third request and joins both texts.
CashRaised(err) ==
    \/ step = "caller" /\ Widens(err) /\ Try("default") /\ primary' = <<err>>
    \/ step = "caller" /\ ~Widens(err) /\ Raise(err)
    \/ step = "default" /\ Raise(primary[1] \cup err)

RequestRaised(err) ==
    /\ errors' = Append(errors, err)
    /\ IF call.kind = "trades" THEN TradesRaised(err) ELSE CashRaised(err)

\* Mutant: an empty last answer is returned although an earlier one failed.
TradesEmpty_Forgets ==
    \/ step = "caller" /\ ~call.fallback /\ Return("empty")
    \/ step = "caller" /\ call.fallback /\ Try("default") /\ UNCHANGED primary
    \/ step = "default" /\ Try("period5") /\ UNCHANGED primary
    \/ step = "period5" /\ Return("empty")

\* A report without rows: an honest empty window only if nothing failed before.
TradesEmpty ==
    \/ step = "caller" /\ ~call.fallback /\ Return("empty")
    \/ step = "caller" /\ call.fallback /\ Try("default") /\ UNCHANGED primary
    \/ step = "default" /\ Try("period5") /\ UNCHANGED primary
    \/ step = "period5" /\ primary = <<>> /\ Return("empty")
    \/ step = "period5" /\ primary # <<>> /\ Raise(primary[1])

RequestReturned(rows) ==
    /\ UNCHANGED errors
    /\ \/ rows # {} /\ Return("rows")
       \/ rows = {} /\ call.kind = "cash" /\ Return("empty")
       \/ rows = {} /\ call.kind = "trades" /\ TradesEmpty

---------------------------------------------------------------------------
(* The parsers: which rows of a report they keep. *)

\* A trade without a date needs an account, its own or the report's.
parse_trades_xml(rep) ==
    {r \in rep.rows : r.tag = "Trade" /\ (r.dated \/ r.account \/ rep.account)}

\* Mutant: any report without trades is a day without trades.
WrongQuery_Never(rep) == FALSE

\* No trade at all in a report that mentions cash transactions, by a row or by an
\* empty section: the query is the wrong one.
WrongQuery(rep) ==
    parse_trades_xml(rep) = {} /\ (rep.section \/ \E r \in rep.rows : r.tag = "CashTransaction")

\* A cash row needs a date (its ts is part of the table's key), and an account or
\* an amount.
parse_cash_transactions_xml(rep) ==
    {r \in rep.rows : r.tag = "CashTransaction" /\ r.dated /\ (r.account \/ rep.account \/ r.amount)}

---------------------------------------------------------------------------
(* request_report. *)

\* Dates IB would refuse: one of two missing, or too long a range.
Refused == step = "caller" /\ call.dates \in {"long", "half"}

SendRefused ==
    /\ pc = "send" /\ Refused
    /\ RequestRaised({})
    /\ UNCHANGED <<call, polls, last, report, requests>>

SendOk ==
    /\ pc = "send" /\ ~Refused
    /\ pc' = "poll" /\ polls' = 0 /\ last' = {}
    /\ requests' = requests + 1
    /\ UNCHANGED <<call, step, primary, message, report, errors>>

\* Status Fail with its code, an HTTP error, or no ReferenceCode.
SendFails(err) ==
    /\ pc = "send" /\ ~Refused
    /\ requests' = requests + 1
    /\ RequestRaised(err)
    /\ UNCHANGED <<call, polls, last, report>>

---------------------------------------------------------------------------
(* get_statement. *)

\* Mutant: only IB's own words are passed on.
Exhausted_Bare(err) == err

\* The text of the ValueError after the last poll; "did not return report" is
\* itself a transient marker.
Exhausted(err) == err \cup {"transient"}

\* Mutant: one poll too many.
PollUnready_OneMore(err) ==
    /\ pc = "poll"
    /\ polls' = polls + 1 /\ last' = err
    /\ IF polls < MaxPolls
       THEN UNCHANGED <<pc, step, primary, message, errors>>
       ELSE RequestRaised(Exhausted(err))
    /\ UNCHANGED <<call, report, requests>>

\* Mutant: an unready answer does not count as a poll.
PollUnready_Uncounted(err) ==
    /\ pc = "poll"
    /\ last' = err
    /\ UNCHANGED <<call, step, pc, polls, primary, message, report, requests, errors>>

\* Not a generated report (its code is in err), or an HTTP error.
PollUnready(err) ==
    /\ pc = "poll"
    /\ polls' = polls + 1 /\ last' = err
    /\ IF polls + 1 < MaxPolls
       THEN UNCHANGED <<pc, step, primary, message, errors>>
       ELSE RequestRaised(Exhausted(err))
    /\ UNCHANGED <<call, report, requests>>

PollReady(rep) ==
    /\ pc = "poll"
    /\ \/ /\ call.kind = "trades"
          /\ IF WrongQuery(rep) THEN RequestRaised({}) ELSE RequestReturned(parse_trades_xml(rep))
       \/ call.kind = "cash" /\ RequestReturned(parse_cash_transactions_xml(rep))
    /\ report' = IF pc' = "empty" THEN rep ELSE NoReport
    /\ UNCHANGED <<call, polls, last, requests>>

\* An exception that is no ValueError (a body that is not XML in SendRequest, a
\* read that times out) passes every except clause of the chain.
Escapes(err) ==
    /\ pc \in {"send", "poll"} /\ ~(pc = "send" /\ Refused)
    /\ requests' = IF pc = "send" THEN requests + 1 ELSE requests
    /\ errors' = Append(errors, err)
    /\ pc' = "escaped" /\ message' = err
    /\ UNCHANGED <<call, step, polls, last, primary, report>>

\* The run goes on to its next query or chunk.
NextCall ==
    /\ pc \in Ended
    /\ call' \in Call
    /\ step' = "caller" /\ pc' = "send" /\ polls' = 0
    /\ last' = {} /\ primary' = <<>> /\ message' = {}
    /\ report' = NoReport
    /\ requests' = 0 /\ errors' = <<>>

Next ==
    \/ SendRefused \/ SendOk
    \/ \E err \in Error : SendFails(err) \/ PollUnready(err)
    \/ \E rep \in Report : PollReady(rep)
    \/ \E err \in {{}, {"transient"}} : Escapes(err)
    \/ NextCall

\* The client is one thread that keeps going: urlopen and sleep are bounded.
Spec == Init /\ [][Next]_vars /\ WF_vars(Next)

---------------------------------------------------------------------------
(* Properties. *)

\* An empty result is a fact about the account: the report that decided it was
\* generated, and in the trades chain no request of the call had failed, nor was
\* the report one of cash transactions, which a wrong query id would bring.
EmptyIsHonest ==
    pc = "empty" =>
        /\ requests > 0 /\ polls < MaxPolls
        /\ call.kind = "trades" =>
              /\ errors = <<>> /\ ~report.section
              /\ \A r \in report.rows : r.tag = "Trade" /\ ~r.account /\ ~r.dated

\* Without fallback a call costs one SendRequest, with it three (trades) or two
\* (cash): what keeps the token below IB's 1018.
RequestsBounded ==
    requests <= IF ~call.fallback THEN 1 ELSE IF call.kind = "trades" THEN 3 ELSE 2

\* The exception of a failed chain keeps what the first request was told.
FirstErrorKept == pc = "raised" => errors # <<>> /\ errors[1] \subseteq message

\* The marks worker/retry.py finds in a text.
MarksIn(err) ==
    (IF "1018" \in err THEN {"throttledCode"} ELSE {})
        \cup (IF "1012" \in err THEN {"configCode"} ELSE {})
        \cup (IF {"1003", "1019"} \cap err # {} THEN {"notReadyCode"} ELSE {})
        \cup (IF "transient" \in err THEN {"transientMarker"} ELSE {})

\* A report that was never ready in time is waited for: whatever the polls were
\* answered, short of a configuration code, the job is retried and not unknown.
LateReportRetried ==
    (pc = "raised" /\ polls = MaxPolls /\ "1012" \notin message)
        => classify_flex_error(MarksIn(message)) \in {"throttled", "not_ready", "transient"}

\* Every call ends, whatever IB answers.
CallEnds == pc \in {"send", "poll"} ~> pc \in Ended
=============================================================================
