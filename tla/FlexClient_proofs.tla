------------------------- MODULE FlexClient_proofs -------------------------
(***************************************************************************)
(* What a query of a run ends with, whatever IB answers and however often  *)
(* it may be polled: the invariants of FlexClient.                         *)
(***************************************************************************)
EXTENDS FlexClient, SequenceTheorems, TLAPS

Running == pc \in {"send", "poll"}

\* How many requests come before the one of a step of the chain.
Rank(s) == IF s = "caller" THEN 0 ELSE IF s = "default" THEN 1 ELSE 2

\* A text that classify_flex_error takes for a report to be waited for, unless
\* a stronger code is in it too.
Awaited(err) == "1003" \in err \/ "transient" \in err

\* While the chain is under way primary_err is the first error there was; the
\* chain leaves the caller's period only with allow_fallback, the cash chain
\* only after an error, and the trades chain for 1003 or for an empty report.
ChainKept ==
    /\ step # "caller" => call.fallback = TRUE
    /\ step = "period5" => call.kind = "trades"
    /\ Running =>
          /\ errors = <<>> <=> primary = <<>>
          /\ errors # <<>> => errors[1] = primary[1]
          /\ step = "caller" => errors = <<>>
          /\ step = "default" /\ call.kind = "cash" => primary # <<>>
          /\ step = "default" /\ primary # <<>> => "1003" \in primary[1]

RequestsSpent ==
    requests <= IF pc = "send" THEN Rank(step) ELSE Rank(step) + 1

\* A request that is being polled was sent and has polls left; polls that were
\* all spent by an earlier request of the chain have left their mark.
PollsSpent ==
    /\ pc = "poll" => polls < MaxPolls /\ requests > 0
    /\ pc = "send" /\ polls = MaxPolls => primary # <<>> /\ Awaited(primary[1])
    /\ pc = "raised" /\ polls = MaxPolls => Awaited(message)

ClientInv ==
    TypeOK /\ ChainKept /\ RequestsSpent /\ PollsSpent /\ FirstErrorKept /\ EmptyIsHonest

---------------------------------------------------------------------------
(* What the pieces of a step yield. *)

\* An error text is a set of tags, and one that is appended to the history is
\* the first one only if there was none.
LEMMA ErrorFacts ==
    /\ \A err \in Error : err \subseteq Tags /\ Exhausted(err) \subseteq Tags /\ Awaited(Exhausted(err))
    /\ \A s \in Seq(SUBSET Tags), err \in SUBSET Tags :
          /\ Append(s, err) \in Seq(SUBSET Tags)
          /\ Append(s, err) # <<>>
          /\ Append(s, err)[1] = IF s = <<>> THEN err ELSE s[1]
<1>1. \A err \in Error : err \subseteq Tags /\ Exhausted(err) \subseteq Tags /\ Awaited(Exhausted(err))
  BY DEF Error, Tags, Exhausted, Awaited
<1>2. ASSUME NEW s \in Seq(SUBSET Tags), NEW err \in SUBSET Tags
      PROVE  /\ Append(s, err) \in Seq(SUBSET Tags)
             /\ Append(s, err) # <<>>
             /\ Append(s, err)[1] = IF s = <<>> THEN err ELSE s[1]
  <2>1. Len(s) \in Nat /\ (s = <<>> <=> Len(s) = 0)
    BY EmptySeq, LenProperties
  <2> QED BY <2>1, AppendProperties
<1> QED BY <1>1, <1>2

\* The rows of a report are rows.
LEMMA ReportFacts ==
    ASSUME NEW rep \in Report
    PROVE  rep.account \in BOOLEAN /\ rep.section \in BOOLEAN /\ rep.rows \subseteq Row
BY DEF Report

\* A trades report without a row that parse_trades_xml keeps, and not of the
\* wrong query, has none but trades without account and date.
LEMMA HonestlyEmpty ==
    ASSUME NEW rep \in Report, ~WrongQuery(rep), parse_trades_xml(rep) = {}, NEW r \in rep.rows
    PROVE  r.tag = "Trade" /\ ~r.account /\ ~r.dated
<1>1. r \in Row
  BY ReportFacts
<1>2. r.tag \in {"Trade", "CashTransaction"}
  BY <1>1 DEF Row
<1>3. r.tag = "Trade"
  BY <1>2 DEF WrongQuery
<1>4. r \notin parse_trades_xml(rep)
  OBVIOUS
<1> QED BY <1>3, <1>4, Zenon DEF parse_trades_xml

---------------------------------------------------------------------------
(* How a request's end keeps the invariant. *)

\* primary_err holds one text.
LEMMA PrimaryFacts ==
    /\ TypeOK => (primary # <<>> => primary[1] \subseteq Tags)
    /\ \A err \in SUBSET Tags : <<err>> # <<>> /\ <<err>>[1] = err
BY DEF TypeOK

\* How RequestRaised moves the chain: it raises, or it goes on to the next period.
Raises(err) ==
    /\ pc' = "raised" /\ UNCHANGED <<step, primary>>
    /\ errors' = Append(errors, err)
    /\ message' = IF primary = <<>> THEN err ELSE primary[1] \cup err

GoesOn(err) ==
    /\ pc' = "send" /\ Running /\ UNCHANGED message
    /\ errors' = Append(errors, err)
    /\ call.fallback = TRUE
    /\ \/ step = "caller" /\ step' = "default" /\ "1003" \in err
       \/ step = "default" /\ step' = "period5" /\ call.kind = "trades"
    /\ primary' = IF primary = <<>> THEN <<err>> ELSE primary

\* A ValueError of a request, in either chain: raised with the first error's text
\* joined to it, or kept while the next period is tried.
LEMMA RaisedMoves ==
    ASSUME TypeOK, ChainKept, Running, NEW err \in SUBSET Tags, RequestRaised(err)
    PROVE  Raises(err) \/ GoesOn(err)
<1> USE DEF Raises, GoesOn, Raise, Try, RequestRaised
<1>1. call.kind \in {"trades", "cash"} /\ call.fallback \in BOOLEAN
  BY DEF TypeOK, Call
<1>2. step \in {"caller", "default", "period5"}
  BY DEF TypeOK
<1>3. step = "caller" => primary = <<>>
  BY DEF ChainKept
<1>4. Widens(err) => call.fallback = TRUE /\ "1003" \in err
  BY <1>1, Zenon DEF Widens
<1>5. step # "caller" => call.fallback = TRUE
  BY DEF ChainKept
<1>6. CASE call.kind = "trades"
  <2>1. TradesRaised(err) /\ errors' = Append(errors, err)
    BY <1>6
  <2>2. CASE step = "caller"
    BY <1>3, <1>4, <1>6, <2>1, <2>2 DEF TradesRaised
  <2>3. CASE step = "default"
    BY <1>5, <1>6, <2>1, <2>3 DEF TradesRaised
  <2>4. CASE step = "period5"
    BY <2>1, <2>4 DEF TradesRaised
  <2> QED BY <1>2, <2>2, <2>3, <2>4
<1>7. CASE call.kind = "cash"
  <2>1. CashRaised(err) /\ errors' = Append(errors, err)
    BY <1>7
  <2>2. CASE step = "caller"
    BY <1>3, <1>4, <1>7, <2>1, <2>2 DEF CashRaised
  <2>3. CASE step = "default"
    BY <1>7, <2>1, <2>3 DEF CashRaised, ChainKept
  <2>4. CASE step = "period5"
    BY <1>7, <2>1, <2>4 DEF CashRaised, ChainKept
  <2> QED BY <1>2, <2>2, <2>3, <2>4
<1> QED BY <1>1, <1>6, <1>7

\* A request that ended in a ValueError, with what its exchange did to the
\* counters: the polls are spent only if the error says so, or were before.
LEMMA RaisedKeeps ==
    ASSUME ClientInv, Running, NEW err \in SUBSET Tags, RequestRaised(err),
           UNCHANGED call,
           last' \in Error,
           polls' \in 0..MaxPolls,
           polls' = MaxPolls => Awaited(err) \/ (pc = "send" /\ polls = MaxPolls),
           requests' \in Nat, requests' <= Rank(step) + 1,
           report'.account \in BOOLEAN, report'.section \in BOOLEAN, report'.rows \subseteq Row
    PROVE  ClientInv'
<1> USE DEF ClientInv
<1>1. Raises(err) \/ GoesOn(err)
  BY RaisedMoves
<1>2. errors' \in Seq(SUBSET Tags) /\ errors' # <<>> /\ errors'[1] = IF errors = <<>> THEN err ELSE errors[1]
  <2>1. errors \in Seq(SUBSET Tags)
    BY DEF TypeOK
  <2>2. errors' = Append(errors, err)
    BY <1>1 DEF Raises, GoesOn
  <2> QED BY ONLY <2>1, <2>2, err \in SUBSET Tags, ErrorFacts, Zenon
<1>3. (errors = <<>> <=> primary = <<>>) /\ (errors # <<>> => errors[1] = primary[1])
  BY DEF ChainKept
<1>4. polls' = MaxPolls => Awaited(err) \/ (primary # <<>> /\ Awaited(primary[1]))
  BY DEF PollsSpent
<1>5. CASE Raises(err)
  <2>1. TypeOK'
    BY <1>2, <1>5, PrimaryFacts DEF TypeOK, Raises, Ended
  <2>2. ChainKept' /\ RequestsSpent' /\ EmptyIsHonest'
    BY <1>5 DEF Raises, ChainKept, RequestsSpent, EmptyIsHonest, Running
  <2>3. PollsSpent' /\ FirstErrorKept'
    BY <1>2, <1>3, <1>4, <1>5 DEF Raises, PollsSpent, FirstErrorKept, Awaited
  <2> QED BY <2>1, <2>2, <2>3
<1>6. CASE GoesOn(err)
  <2>1. primary' # <<>> /\ primary'[1] = IF primary = <<>> THEN err ELSE primary[1]
    BY <1>6, PrimaryFacts DEF GoesOn
  <2>2. TypeOK'
    BY <1>2, <1>6 DEF TypeOK, GoesOn, Ended
  <2>3. ChainKept'
    BY <1>2, <1>3, <1>6, <2>1 DEF GoesOn, ChainKept, Running, TypeOK
  <2>4. RequestsSpent' /\ EmptyIsHonest' /\ FirstErrorKept'
    BY <1>6 DEF GoesOn, RequestsSpent, EmptyIsHonest, FirstErrorKept, Rank, TypeOK
  <2>5. PollsSpent'
    <3>1. pc' = "send"
      BY <1>6 DEF GoesOn
    <3>2. step = "default" /\ primary # <<>> => "1003" \in primary[1]
      BY <1>6 DEF ChainKept, GoesOn
    <3>3. step = "caller" => primary = <<>>
      BY <1>6 DEF ChainKept, GoesOn
    <3>4. polls' = MaxPolls => Awaited(primary'[1])
      BY <1>4, <1>6, <2>1, <3>2, <3>3 DEF GoesOn, Awaited
    <3> QED BY <2>1, <3>1, <3>4 DEF PollsSpent
  <2> QED BY <2>2, <2>3, <2>4, <2>5
<1> QED BY <1>1, <1>5, <1>6

\* An empty report moves the chain: it is the result, the error before it is
\* raised, or the next period is tried.
LEMMA EmptyMoves ==
    ASSUME TypeOK, ChainKept, Running, TradesEmpty, call.kind = "trades"
    PROVE  \/ pc' = "empty" /\ primary = <<>> /\ UNCHANGED <<step, primary, message>>
           \/ pc' = "raised" /\ primary # <<>> /\ message' = primary[1] /\ UNCHANGED <<step, primary>>
           \/ /\ pc' = "send" /\ UNCHANGED <<primary, message>>
              /\ call.fallback = TRUE
              /\ \/ step = "caller" /\ step' = "default"
                 \/ step = "default" /\ step' = "period5"
<1>1. step # "caller" => call.fallback = TRUE
  BY DEF ChainKept
<1>2. call.fallback => call.fallback = TRUE
  <2>1. call.fallback \in BOOLEAN
    BY DEF TypeOK, Call
  <2> QED BY <2>1, Zenon
<1>3. step = "caller" => primary = <<>>
  BY DEF ChainKept
<1> QED BY <1>1, <1>2, <1>3 DEF TradesEmpty, Return, Raise, Try

\* A generated report that was read ends the request.
LEMMA ReadyKeeps ==
    ASSUME ClientInv, NEW rep \in Report, PollReady(rep)
    PROVE  ClientInv'
<1> USE DEF ClientInv
<1>1. Running /\ pc = "poll" /\ UNCHANGED <<call, polls, last, requests>> /\ polls < MaxPolls /\ requests > 0
  BY DEF PollReady, Running, PollsSpent
<1>2. report' = (IF pc' = "empty" THEN rep ELSE NoReport)
  BY DEF PollReady
<1>3. report'.account \in BOOLEAN /\ report'.section \in BOOLEAN /\ report'.rows \subseteq Row
  BY <1>2, ReportFacts DEF NoReport
<1>4. requests \in Nat /\ requests <= Rank(step) + 1 /\ polls \in 0..MaxPolls /\ MaxPolls \in Nat
  BY <1>1, PollsAssumption DEF TypeOK, RequestsSpent
<1>5. CASE RequestRaised({})
  <2>1. {} \in SUBSET Tags /\ last' \in Error /\ polls' \in 0..MaxPolls /\ polls' # MaxPolls
    BY <1>1, <1>4 DEF TypeOK
  <2>2. requests' \in Nat /\ requests' <= Rank(step) + 1
    BY <1>1, <1>4
  <2> QED BY <1>1, <1>3, <1>5, <2>1, <2>2, RaisedKeeps
<1>6. CASE \/ call.kind = "trades" /\ ~WrongQuery(rep) /\ RequestReturned(parse_trades_xml(rep))
           \/ call.kind = "cash" /\ RequestReturned(parse_cash_transactions_xml(rep))
  <2>0. UNCHANGED errors
    BY <1>6 DEF RequestReturned
  <2>1. CASE pc' = "rows" /\ UNCHANGED <<step, primary, message>>
    <3>1. TypeOK'
      BY <1>1, <1>3, <2>0, <2>1 DEF TypeOK, Ended
    <3> QED BY <1>1, <1>4, <2>0, <2>1, <3>1
            DEF ChainKept, RequestsSpent, PollsSpent, FirstErrorKept, EmptyIsHonest, Running
  <2>2. CASE call.kind = "cash" /\ pc' = "empty" /\ UNCHANGED <<step, primary, message>>
    <3>1. TypeOK'
      BY <1>1, <1>3, <2>0, <2>2 DEF TypeOK, Ended
    <3> QED BY <1>1, <1>4, <2>0, <2>2, <3>1
            DEF ChainKept, RequestsSpent, PollsSpent, FirstErrorKept, EmptyIsHonest, Running
  <2>3. CASE call.kind = "trades" /\ ~WrongQuery(rep) /\ parse_trades_xml(rep) = {} /\ TradesEmpty
    <3>1. CASE pc' = "empty" /\ primary = <<>> /\ UNCHANGED <<step, primary, message>>
      <4>1. TypeOK'
        BY <1>1, <1>3, <2>0, <3>1 DEF TypeOK, Ended
      <4>2. report' = rep
        BY <1>2, <3>1
      <4>3. /\ \A r \in report'.rows : r.tag = "Trade" /\ ~r.account /\ ~r.dated
            /\ ~report'.section
        <5>1. ~rep.section
          BY <2>3 DEF WrongQuery
        <5> QED BY <2>3, <4>2, <5>1, HonestlyEmpty
      <4>4. errors' = <<>>
        BY <1>1, <2>0, <3>1 DEF ChainKept
      <4>5. EmptyIsHonest'
        BY <1>1, <4>3, <4>4, Zenon DEF EmptyIsHonest
      <4> QED BY <1>1, <1>4, <2>0, <3>1, <4>1, <4>5
              DEF ChainKept, RequestsSpent, PollsSpent, FirstErrorKept, Running
    <3>2. CASE pc' = "raised" /\ primary # <<>> /\ message' = primary[1] /\ UNCHANGED <<step, primary>>
      <4>1. TypeOK'
        BY <1>1, <1>3, <2>0, <3>2, PrimaryFacts DEF TypeOK, Ended
      <4>2. errors # <<>> /\ errors[1] = primary[1]
        BY <1>1, <3>2 DEF ChainKept
      <4> QED BY <1>1, <1>4, <2>0, <3>2, <4>1, <4>2
              DEF ChainKept, RequestsSpent, PollsSpent, FirstErrorKept, EmptyIsHonest, Running
    <3>3. CASE /\ pc' = "send" /\ UNCHANGED <<primary, message>>
               /\ call.fallback = TRUE
               /\ \/ step = "caller" /\ step' = "default"
                  \/ step = "default" /\ step' = "period5"
      <4>1. TypeOK'
        BY <1>1, <1>3, <2>0, <3>3 DEF TypeOK
      <4>2. ChainKept'
        BY <1>1, <2>0, <2>3, <3>3 DEF ChainKept, Running
      <4> QED BY <1>1, <1>4, <2>0, <3>3, <4>1, <4>2
              DEF RequestsSpent, PollsSpent, FirstErrorKept, EmptyIsHonest, Rank
    <3> QED BY <1>1, <2>3, <3>1, <3>2, <3>3, EmptyMoves
  <2> QED BY <1>6, <2>1, <2>2, <2>3 DEF RequestReturned, Return
<1> QED BY <1>1, <1>5, <1>6 DEF PollReady

---------------------------------------------------------------------------
(* The steps. *)

\* A call begins with nothing asked and nothing known.
LEMMA ClientInit == Init => ClientInv
<1> SUFFICES ASSUME Init PROVE ClientInv
  OBVIOUS
<1>1. TypeOK
  BY PollsAssumption, EmptySeq DEF Init, TypeOK, NoReport, Error
<1> QED BY <1>1, PollsAssumption
    DEF Init, ClientInv, ChainKept, RequestsSpent, PollsSpent, FirstErrorKept, EmptyIsHonest, Running, Rank

\* Every exchange with IB keeps the invariant.
LEMMA ClientStep == ClientInv /\ [Next]_vars => ClientInv'
<1> SUFFICES ASSUME ClientInv, [Next]_vars PROVE ClientInv'
  OBVIOUS
<1> USE PollsAssumption DEF ClientInv
<1>0. requests \in Nat /\ polls \in 0..MaxPolls /\ last \in Error /\ Rank(step) \in Nat
      /\ report.account \in BOOLEAN /\ report.section \in BOOLEAN /\ report.rows \subseteq Row
  BY DEF TypeOK, Rank
<1>1. CASE SendRefused
  <2>1. Running /\ {} \in SUBSET Tags /\ RequestRaised({}) /\ UNCHANGED <<call, polls, last, report, requests>>
    BY <1>1 DEF SendRefused, Running
  <2>2. requests' \in Nat /\ requests' <= Rank(step) + 1
    BY <1>0, <1>1 DEF SendRefused, RequestsSpent
  <2>3. pc = "send"
    BY <1>1 DEF SendRefused
  <2> QED BY <1>0, <2>1, <2>2, <2>3, RaisedKeeps
<1>2. CASE SendOk
  <2>1. TypeOK'
    BY <1>2 DEF SendOk, TypeOK, Error
  <2> QED BY <1>0, <1>2, <2>1
          DEF SendOk, ChainKept, RequestsSpent, PollsSpent, FirstErrorKept, EmptyIsHonest, Running
<1>3. ASSUME NEW err \in Error, SendFails(err) PROVE ClientInv'
  <2>1. Running /\ err \in SUBSET Tags /\ RequestRaised(err) /\ UNCHANGED <<call, polls, last, report>>
    BY <1>3, ErrorFacts DEF SendFails, Running
  <2>2. requests' \in Nat /\ requests' <= Rank(step) + 1
    BY <1>0, <1>3 DEF SendFails, RequestsSpent
  <2>3. pc = "send"
    BY <1>3 DEF SendFails
  <2> QED BY <1>0, <2>1, <2>2, <2>3, RaisedKeeps
<1>4. ASSUME NEW err \in Error, PollUnready(err) PROVE ClientInv'
  <2>1. pc = "poll" /\ polls < MaxPolls /\ polls' = polls + 1 /\ last' = err /\ UNCHANGED <<call, report, requests>>
    BY <1>4 DEF PollUnready, PollsSpent
  <2>2. CASE polls + 1 < MaxPolls /\ UNCHANGED <<pc, step, primary, message, errors>>
    <3>1. TypeOK'
      BY <1>0, <2>1, <2>2 DEF TypeOK
    <3> QED BY <1>0, <2>1, <2>2, <3>1
            DEF ChainKept, RequestsSpent, PollsSpent, FirstErrorKept, EmptyIsHonest, Running
  <2>3. CASE RequestRaised(Exhausted(err))
    <3>1. Running /\ Exhausted(err) \in SUBSET Tags /\ Awaited(Exhausted(err))
      BY <2>1, ErrorFacts DEF Running
    <3>2. requests' \in Nat /\ requests' <= Rank(step) + 1 /\ polls' \in 0..MaxPolls /\ last' \in Error
      BY <1>0, <2>1 DEF RequestsSpent
    <3> QED BY <1>0, <2>1, <2>3, <3>1, <3>2, RaisedKeeps
  <2> QED BY <1>4, <2>2, <2>3 DEF PollUnready
<1>5. ASSUME NEW rep \in Report, PollReady(rep) PROVE ClientInv'
  BY <1>5, ReadyKeeps
<1>6. ASSUME NEW err \in {{}, {"transient"}}, Escapes(err) PROVE ClientInv'
  <2>1. err \in SUBSET Tags /\ errors \in Seq(SUBSET Tags)
    BY DEF Tags, TypeOK
  <2>2. errors' \in Seq(SUBSET Tags)
    BY <1>6, <2>1, ErrorFacts DEF Escapes
  <2>3. TypeOK'
    BY <1>0, <1>6, <2>1, <2>2 DEF Escapes, TypeOK, Ended
  <2>4. pc' = "escaped" /\ UNCHANGED <<call, step, polls, last, primary, report>>
    BY <1>6 DEF Escapes
  <2>5. requests' <= Rank(step) + 1
    BY <1>0, <1>6 DEF Escapes, RequestsSpent
  <2> QED BY <2>3, <2>4, <2>5
          DEF ChainKept, RequestsSpent, PollsSpent, FirstErrorKept, EmptyIsHonest, Running
<1>7. CASE NextCall
  <2>1. TypeOK'
    BY <1>7, EmptySeq DEF NextCall, TypeOK, NoReport, Error
  <2> QED BY <1>7, <2>1
          DEF NextCall, ChainKept, RequestsSpent, PollsSpent, FirstErrorKept, EmptyIsHonest, Running, Rank
<1>8. CASE UNCHANGED vars
  BY <1>8 DEF vars, TypeOK, ChainKept, RequestsSpent, PollsSpent, FirstErrorKept, EmptyIsHonest, Running
<1> QED BY <1>1, <1>2, <1>3, <1>4, <1>5, <1>6, <1>7, <1>8 DEF Next

\* ClientInv is an invariant of every query, of every run.
LEMMA ClientInvHolds == Spec => []ClientInv
BY ClientInit, ClientStep, PTL DEF Spec

---------------------------------------------------------------------------
(* What a query of a run promises. *)

\* The state of a query stays within its types (client/flex_client.py), for every
\* number of polls.
THEOREM ClientTypes == Spec => []TypeOK
<1>1. ClientInv => TypeOK
  BY DEF ClientInv
<1> QED BY <1>1, ClientInvHolds, PTL

\* An empty result of _fetch_trades_with_date_fallback or _fetch_chunk is a fact
\* about the account: its report was generated in time, no request of a trades
\* call failed before it, and the report was not one of cash transactions.
THEOREM EmptyResultsHonest == Spec => []EmptyIsHonest
<1>1. ClientInv => EmptyIsHonest
  BY DEF ClientInv
<1> QED BY <1>1, ClientInvHolds, PTL

\* However the chain of fallbacks goes, a query sends IB one request without
\* allow_fallback and at most three (trades) or two (cash) with it.
THEOREM RequestsAreBounded == Spec => []RequestsBounded
<1>1. ClientInv => RequestsBounded
  <2> SUFFICES ASSUME ClientInv PROVE RequestsBounded
    OBVIOUS
  <2>1. requests \in Nat /\ step \in {"caller", "default", "period5"} /\ call.fallback \in BOOLEAN
    BY DEF ClientInv, TypeOK, Call
  <2>2. requests <= Rank(step) + 1
    BY <2>1 DEF ClientInv, RequestsSpent, Rank
  <2>3. ~call.fallback => step = "caller"
    <3>1. step # "caller" => call.fallback = TRUE
      BY DEF ClientInv, ChainKept
    <3> QED BY <3>1, Zenon
  <2>4. step = "period5" => call.kind = "trades"
    BY DEF ClientInv, ChainKept
  <2> QED BY <2>1, <2>2, <2>3, <2>4 DEF RequestsBounded, Rank
<1> QED BY <1>1, ClientInvHolds, PTL

\* The exception a failed chain ends with carries what its first failed request
\* was told (primary_err), whatever the later ones were told.
THEOREM FirstErrorIsKept == Spec => []FirstErrorKept
<1>1. ClientInv => FirstErrorKept
  BY DEF ClientInv
<1> QED BY <1>1, ClientInvHolds, PTL

\* A query whose polls ran out is retried: short of a configuration code, what
\* get_statement raises, joined to any other error of the chain, is a category
\* that plan_retry (worker/retry.py) waits for.
THEOREM LateReportsRetried == Spec => []LateReportRetried
<1>1. ClientInv => LateReportRetried
  <2> SUFFICES ASSUME ClientInv, pc = "raised", polls = MaxPolls, "1012" \notin message
               PROVE  classify_flex_error(MarksIn(message)) \in {"throttled", "not_ready", "transient"}
    BY DEF LateReportRetried
  <2>1. Awaited(message)
    BY DEF ClientInv, PollsSpent
  <2>2. "configCode" \notin MarksIn(message) /\ "configMarker" \notin MarksIn(message)
    BY DEF MarksIn
  <2>3. "notReadyCode" \in MarksIn(message) \/ "transientMarker" \in MarksIn(message)
    BY <2>1 DEF MarksIn, Awaited
  <2> QED BY <2>2, <2>3 DEF classify_flex_error
<1> QED BY <1>1, ClientInvHolds, PTL
=============================================================================
