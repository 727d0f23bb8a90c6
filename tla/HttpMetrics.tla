---------------------------- MODULE HttpMetrics ----------------------------
(***************************************************************************)
(* The request counters of the API (api/http_metrics.py): the ASGI         *)
(* middleware records a request when its response starts, on the event     *)
(* loop; GET /metrics renders the counters in a thread of the pool.  The   *)
(* two meet at one lock.                                                   *)
(*                                                                         *)
(* Latencies are left out: a histogram is its number of observations.      *)
(***************************************************************************)
EXTENDS Naturals, FiniteSets

CONSTANTS
    Requests,   \* HTTP requests, each made once
    Handler     \* Requests -> the route template, or "unmatched"

Handlers == {"/flex/config/write", "/flex/config/summary", "/health", "/metrics"}
Unrecorded == {"/metrics", "unmatched"}
Untimed == {"/metrics", "/health"}
Classes == {"2xx", "4xx", "5xx"}

ASSUME HttpAssumption ==
    /\ IsFiniteSet(Requests) /\ "free" \notin Requests
    /\ Handler \in [Requests -> Handlers \cup {"unmatched"}]

VARIABLES
    call,      \* Requests -> where the request is, and the status it got
    counters,  \* _requests, _duration and _highr
    mutex,     \* the request whose thread holds _lock
    scrape     \* Scrapes -> what GET /metrics has rendered

httpVars == <<call, counters, mutex, scrape>>

Free == "free"
Scrapes == {r \in Requests : Handler[r] = "/metrics"}

HttpInit ==
    /\ call = [r \in Requests |-> [pc |-> "app", status |-> "none"]]
    /\ counters = [requests |-> [h \in Handlers |-> [cl \in Classes |-> 0]],
                   duration |-> [h \in Handlers |-> 0], highr |-> 0]
    /\ mutex = Free
    /\ scrape = [r \in Scrapes |-> [pc |-> "idle", requests |-> [h \in Handlers |-> 0],
                                     duration |-> [h \in Handlers |-> 0], highr |-> 0]]

Class(status) ==
    IF status < 400 THEN "2xx" ELSE IF status < 500 THEN "4xx" ELSE "5xx"

\* observe under the lock: the count, and for a timed handler the histograms
\* after it.
Count(r, class) ==
    IF Handler[r] \in Unrecorded
    THEN /\ call' = [call EXCEPT ![r] = [pc |-> "started", status |-> class]]
         /\ UNCHANGED <<counters, mutex>>
    ELSE /\ mutex = Free
         /\ counters' = [counters EXCEPT !.requests[Handler[r]][class] = @ + 1]
         /\ IF Handler[r] \in Untimed
            THEN /\ call' = [call EXCEPT ![r] = [pc |-> "started", status |-> class]]
                 /\ UNCHANGED mutex
            ELSE /\ call' = [call EXCEPT ![r] = [pc |-> "observe", status |-> class]]
                 /\ mutex' = r

\* send_and_record: the first http.response.start.
ResponseStarts(r, status) ==
    /\ call[r].pc = "app"
    /\ Count(r, Class(status))
    /\ UNCHANGED scrape

\* An exception before the response started is a 500.
RaisesBefore(r) ==
    /\ call[r].pc = "app"
    /\ Count(r, "5xx")
    /\ UNCHANGED scrape

ObserveTimes(r) ==
    /\ call[r].pc = "observe"
    /\ counters' = [counters EXCEPT !.duration[Handler[r]] = @ + 1, !.highr = @ + 1]
    /\ mutex' = Free
    /\ call' = [call EXCEPT ![r].pc = "started"]
    /\ UNCHANGED scrape

\* Mutant: an exception after the start is recorded too.
RaisesAfter_Recorded(r) ==
    /\ call[r].pc = "started"
    /\ Count(r, "5xx")
    /\ UNCHANGED scrape

\* An exception while the body is sent: nothing more is recorded.
RaisesAfter(r) ==
    /\ call[r].pc = "started"
    /\ UNCHANGED httpVars

Total(h) == counters.requests[h]["2xx"] + counters.requests[h]["4xx"] + counters.requests[h]["5xx"]

\* Mutant: render does not take the lock.
RenderRequests_NoLock(r) ==
    /\ r \in Scrapes
    /\ scrape[r].pc = "idle"
    /\ scrape' = [scrape EXCEPT ![r].pc = "rendering",
                                ![r].requests = [h \in Handlers |-> Total(h)]]
    /\ UNCHANGED <<call, counters, mutex>>

\* GET /metrics: render takes the lock, and writes the request counts first.
RenderRequests(r) ==
    /\ r \in Scrapes
    /\ scrape[r].pc = "idle"
    /\ mutex = Free
    /\ mutex' = r
    /\ scrape' = [scrape EXCEPT ![r].pc = "rendering",
                                ![r].requests = [h \in Handlers |-> Total(h)]]
    /\ UNCHANGED <<call, counters>>

\* Then the histograms.
RenderTimes(r) ==
    /\ r \in Scrapes
    /\ scrape[r].pc = "rendering"
    /\ scrape' = [scrape EXCEPT ![r].pc = "rendered", ![r].duration = counters.duration,
                                ![r].highr = counters.highr]
    /\ mutex' = IF mutex = r THEN Free ELSE mutex
    /\ UNCHANGED <<call, counters>>

---------------------------------------------------------------------------
(* Properties. *)

HttpTypeOK ==
    /\ \A r \in Requests :
          /\ call[r].pc \in {"app", "observe", "started"}
          /\ call[r].status \in Classes \cup {"none"}
    /\ \A r \in Scrapes : scrape[r].pc \in {"idle", "rendering", "rendered"}
    /\ counters.requests \in [Handlers -> [Classes -> Nat]]
    /\ counters.duration \in [Handlers -> Nat]
    /\ counters.highr \in Nat
    /\ mutex \in Requests \cup {Free}

\* What one scrape shows adds up: a handler's latency count is the number of its
\* requests, and the unlabelled histogram counts them all, however a request
\* that is being recorded falls into the rendering.
ScrapeAddsUp ==
    \A r \in Scrapes :
        scrape[r].pc = "rendered" =>
            /\ \A h \in Handlers \ Untimed : scrape[r].duration[h] = scrape[r].requests[h]
            /\ scrape[r].highr = scrape[r].duration["/flex/config/write"]
                                 + scrape[r].duration["/flex/config/summary"]
=============================================================================
