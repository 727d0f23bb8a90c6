----------------------------- MODULE ConfigApi -----------------------------
(***************************************************************************)
(* The configuration endpoints behind the counting middleware: every       *)
(* request of FlexConfig is a request of HttpMetrics, beside health        *)
(* probes, unmatched paths and scrapes.                                    *)
(***************************************************************************)
EXTENDS FlexConfig, HttpMetrics

vars == <<settings, rows, serial, writer, answer, applied, call, counters, mutex, scrape>>

ASSUME ApiAssumption ==
    /\ Writes = {r \in Requests : Handler[r] = "/flex/config/write"}
    /\ Summaries = {r \in Requests : Handler[r] = "/flex/config/summary"}

Init == ConfigInit /\ HttpInit

\* What the endpoint answers: FlexConfig's status; a probe's 200, an unmatched
\* path's 404, a scrape's 200 once it is rendered.
StatusOf(r) ==
    CASE Handler[r] \in {"/flex/config/write", "/flex/config/summary"} -> answer[r]
      [] Handler[r] = "/metrics" -> IF scrape[r].pc = "rendered" THEN 200 ELSE NoAnswer
      [] Handler[r] = "/health" -> 200
      [] OTHER -> 404

\* A summary's 500 is an exception that reaches the middleware; every other
\* status is a response of the application.
Respond(r) ==
    /\ StatusOf(r) # NoAnswer
    /\ IF Handler[r] = "/flex/config/summary" /\ answer[r] = 500
       THEN RaisesBefore(r) ELSE ResponseStarts(r, StatusOf(r))
    /\ UNCHANGED configVars

HttpStep(r) ==
    \/ Respond(r)
    \/ (ObserveTimes(r) \/ RaisesAfter(r) \/ RenderRequests(r) \/ RenderTimes(r))
       /\ UNCHANGED configVars

Next ==
    \/ ConfigNext /\ UNCHANGED httpVars
    \/ \E r \in Requests : HttpStep(r)

Spec == Init /\ [][Next]_vars

(* A thread of the pool runs each accepted write: a statement that has     *)
(* nothing to wait for ends.  No statement is assumed to fail, so a write  *)
(* that waits for a row gets on only if the row's holder does.             *)
LiveSpec == Spec /\ \A c \in Writes : WF_vars(WriteStep(c) /\ UNCHANGED httpVars)

TypeOK == ConfigTypeOK /\ HttpTypeOK

\* Every matched request is counted once, under the class of the status it was
\* answered with, whichever of response, exception and late exception came
\* first; probes are counted, scrapes and unmatched paths are not.
CountedOnce ==
    \A h \in Handlers, class \in Classes :
        counters.requests[h][class] =
            IF h \in Unrecorded THEN 0
            ELSE Cardinality({r \in Requests : /\ Handler[r] = h
                                               /\ call[r].pc # "app"
                                               /\ Class(StatusOf(r)) = class})
=============================================================================
