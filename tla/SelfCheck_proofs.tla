-------------------------- MODULE SelfCheck_proofs --------------------------
(***************************************************************************)
(* The self-check and the heartbeat only watch: with them the pipeline is  *)
(* still FlexIngest, so that what is proved of it holds here too, and the  *)
(* heartbeat row is never older than it should be while a worker idles.    *)
(***************************************************************************)
EXTENDS SelfCheck, FlexIngest_queue, WellFoundedInduction

---------------------------------------------------------------------------
(* The pipeline under observation. *)

\* Every step of the observed pipeline is one of FlexIngest, or leaves it alone.
LEMMA ObservedStep == [CheckNext]_checkVars => [Next]_vars
<1> SUFFICES ASSUME [CheckNext]_checkVars PROVE [Next]_vars
  OBVIOUS
<1>1. ASSUME NEW w \in Workers, WorkerMoves(w) \/ Heartbeat(w)
      PROVE  [Next]_vars
  <2>1. CASE WorkerMoves(w)
    <3>1. WorkerStep(w) \/ WorkerFault(w)
      BY <2>1 DEF WorkerMoves, WorkerFault
    <3> QED BY <3>1 DEF Next
  <2>2. CASE Heartbeat(w)
    BY <2>2 DEF Heartbeat
  <2> QED BY <1>1, <2>1, <2>2
<1>2. CASE \/ \E k \in Kinds : EnqueueSlot(k) \/ (\E h \in 1..MaxHash : EnqueueJob(k, h))
           \/ \E c \in Clients : ClientStep(c)
           \/ PlannedFire
  BY <1>2 DEF Next
<1>3. CASE TimePasses
  BY <1>3 DEF TimePasses, Next
<1>4. CASE CheckStep
  BY <1>4 DEF CheckStep, CheckJobs, CheckFreshness, CheckRest, CheckClosed
<1>5. CASE UNCHANGED checkVars
  BY <1>5 DEF checkVars
<1> QED BY <1>1, <1>2, <1>3, <1>4, <1>5 DEF CheckNext

\* The pipeline with its heartbeat and self-check implements the pipeline
\* without them: neither record_heartbeat nor GET /flex/ops/check changes what
\* becomes of a job.
THEOREM CheckObserves == CheckSpec => Spec
<1>1. CheckInit => Init
  BY DEF CheckInit
<1> QED BY <1>1, ObservedStep, PTL DEF CheckSpec, Spec

---------------------------------------------------------------------------
(* The heartbeat. *)

\* How old the row may be, b, while a worker idles: one sleep for each idle poll
\* since its last heartbeat, less what is left of the sleep it is in, and the
\* ticks it was awake; at most ReclaimEvery sleeps, with those of the pass that
\* ends in the next heartbeat.
Heard(s, p, b) ==
    IF s.pc = "claim" /\ p.due = "no"
    THEN b + p.sleep <= p.waited + (s.idle + 1) * PollLen
    ELSE b <= p.waited + ReclaimEvery * PollLen

\* A worker, its pulse and the age of the row.
InTime(s, p, b) ==
    /\ s.pc = "claim" => s.idle < ReclaimEvery
    /\ s.pc # "claim" => p.due = "no"
    /\ s.pc # "claim" \/ p.due # "no" => p.sleep = 0
    /\ Busy(s.pc) \/ p.due = "claim" \/ p.lost \/ Heard(s, p, b)

\* The invariant behind SilentMeansAway.
BeatInv ==
    /\ pulse \in [Workers -> Pulse]
    /\ beat \in 0..Silent
    /\ \A w \in Workers : InTime(worker[w], pulse[w], beat)

\* The sleeps of the idle polls add up.
LEMMA Sleeps ==
    /\ PollLen \in Nat /\ ReclaimEvery \in Nat /\ Silent \in Nat /\ StaleBeat \in Nat
    /\ ReclaimEvery * PollLen \in Nat
    /\ \A i \in Nat : /\ (i + 1) * PollLen \in Nat
                      /\ PollLen <= (i + 1) * PollLen
                      /\ ((i + 1) + 1) * PollLen = (i + 1) * PollLen + PollLen
                      /\ i < ReclaimEvery => (i + 1) * PollLen <= ReclaimEvery * PollLen
<1>1. PollLen \in Nat /\ ReclaimEvery \in Nat /\ Silent \in Nat /\ StaleBeat \in Nat
  BY CheckAssumption, IngestAssumption DEF CheckAssumption, IngestAssumption, Silent
<1>2. ASSUME NEW a \in Nat, NEW p \in Nat PROVE a * p \in Nat /\ (a + 1) * p = a * p + p
  BY <1>2
<1>3. ASSUME NEW a \in Nat, NEW b \in Nat, NEW p \in Nat, a <= b PROVE a * p <= b * p
  <2>1. PICK d \in Nat : b = a + d
    <3>1. b - a \in Nat /\ b = a + (b - a)
      BY <1>3
    <3> QED BY <3>1
  <2>2. (a + d) * p = a * p + d * p /\ a * p \in Nat /\ d * p \in Nat
    BY <2>1, <1>3
  <2> QED BY <2>1, <2>2
<1>4. ASSUME NEW i \in Nat
      PROVE  /\ (i + 1) * PollLen \in Nat
             /\ PollLen <= (i + 1) * PollLen
             /\ ((i + 1) + 1) * PollLen = (i + 1) * PollLen + PollLen
             /\ i < ReclaimEvery => (i + 1) * PollLen <= ReclaimEvery * PollLen
  <2>1. i + 1 \in Nat /\ (i < ReclaimEvery => i + 1 <= ReclaimEvery)
    BY <1>1
  <2>2. i * PollLen \in Nat /\ (i + 1) * PollLen = i * PollLen + PollLen
    BY <1>1, <1>2
  <2>3. (i + 1) * PollLen \in Nat /\ ((i + 1) + 1) * PollLen = (i + 1) * PollLen + PollLen
    BY <1>1, <1>2, <2>1
  <2>4. i < ReclaimEvery => (i + 1) * PollLen <= ReclaimEvery * PollLen
    BY <1>1, <1>3, <2>1
  <2>5. PollLen <= (i + 1) * PollLen
    BY <1>1, <2>2
  <2> QED BY <2>3, <2>4, <2>5
<1>5. ReclaimEvery * PollLen \in Nat
  BY <1>1, <1>2
<1> QED BY <1>1, <1>4, <1>5

\* How a step moves a worker: every ReclaimEvery-th idle poll goes on to the pass,
\* and the pass, like a job, leads back to the claim with no idle poll counted.
LEMMA WorkerPcs ==
    ASSUME TypeOK, NEW w \in Workers, WorkerStep(w) \/ WorkerFault(w)
    PROVE  /\ \A v \in Workers : v # w => worker'[v] = worker[v]
           /\ LET s == worker[w]
                  t == worker'[w]
              IN  \/ Busy(t.pc)
                  \/ s.pc # "claim" /\ t.pc = "claim" /\ t.idle = 0
                  \/ ~Busy(s.pc) /\ s.pc # "claim" /\ ~Busy(t.pc) /\ t.pc # "claim"
                  \/ s.pc = "claim" /\ t = s
                  \/ s.pc = "claim" /\ t.pc = "reclaim"
                  \/ s.pc = "claim" /\ t.pc = "claim" /\ t.idle = s.idle + 1 /\ t.idle < ReclaimEvery
<1>0. worker \in [Workers -> WorkerState] /\ worker[w].idle \in Nat /\ ReclaimEvery \in Nat
  BY IngestAssumption DEF IngestAssumption, TypeOK, WorkerState
<1>1. CASE Start(w)
  BY <1>0, <1>1 DEF Start, Become, Idling
<1>2. CASE MarkDone(w)
  BY <1>0, <1>2 DEF MarkDone, Become, Idling
<1>3. CASE Outcome(w)
  BY <1>0, <1>3 DEF Outcome, Become, Idling
<1>4. CASE Claim(w)
  BY <1>0, <1>4 DEF Claim, Become, Busy, Handling
<1>5. CASE Poll(w)
  BY <1>0, <1>5 DEF Poll, Become, Busy, Idling
<1>6. CASE Reclaim(w) \/ CatchupRead(w)
  BY <1>0, <1>6 DEF Reclaim, CatchupRead, Become, Busy, Idling, CatchingUp
<1>7. CASE CatchupEnqueue(w)
  BY <1>0, <1>7 DEF CatchupEnqueue, Become, Busy, Idling, CatchingUp
<1>8. CASE FetchOk(w)
  BY <1>0, <1>8 DEF FetchOk, Goto, Become, Busy, Handling
<1>9. CASE RecordOk(w)
  BY <1>0, <1>9 DEF RecordOk, Goto, Become, Busy, Handling
<1>10. CASE FetchError(w)
  BY <1>0, <1>10 DEF FetchError, Raise, Become, Busy, Handling
<1>11. CASE RecordOkRaises(w)
  BY <1>0, <1>11 DEF RecordOkRaises, Raise, Become, Busy, Handling
<1>12. CASE Fail(w)
  BY <1>0, <1>12 DEF Fail, Goto, Become, Busy, Handling
<1>13. CASE Defer(w)
  BY <1>0, <1>13 DEF Defer, Goto, Become, Busy, Handling
<1>14. CASE Crash(w) \/ Swallowed(w)
  BY <1>0, <1>14 DEF Crash, Swallowed, Become, Busy, Idling
<1>15. CASE LostAck(w)
  <2>1. CASE worker' = worker
    BY <2>1
  <2>2. CASE worker[w].pc = "enqueue" /\ Become(w, Idling("catchup", 0))
    BY <1>0, <2>2 DEF Become, Busy, Idling
  <2>3. CASE worker[w].pc \in {"done", "fail"} /\ Replay(w)
    BY <1>0, <2>3 DEF Replay, Become, Busy, Handling
  <2> QED BY <1>15, <2>1, <2>2, <2>3 DEF LostAck
<1> QED BY <1>1, <1>2, <1>3, <1>4, <1>5, <1>6, <1>7, <1>8, <1>9, <1>10, <1>11, <1>12, <1>13, <1>14, <1>15
        DEF WorkerStep, WorkerFault

\* Before the first start there is no row, and no worker that should have one.
LEMMA BeatInit == CheckInit => BeatInv
BY Sleeps DEF CheckInit, Init, BeatInv, InTime, Pulse, Quiet, Silent, Busy, Idling

\* Every step keeps the invariant.
LEMMA BeatNext == BeatInv /\ TypeOK /\ [CheckNext]_checkVars => BeatInv'
<1> SUFFICES ASSUME BeatInv, TypeOK, [CheckNext]_checkVars PROVE BeatInv'
  OBVIOUS
<1>0. /\ pulse \in [Workers -> Pulse] /\ beat \in 0..Silent
      /\ \A w \in Workers : InTime(worker[w], pulse[w], beat)
  BY DEF BeatInv
<1>1. Quiet \in Pulse /\ Quiet.due = "no" /\ Quiet.sleep = 0
  BY Sleeps DEF Quiet, Pulse
<1>a. ASSUME UNCHANGED <<worker, pulse, beat>> PROVE BeatInv'
  BY <1>0, <1>a DEF BeatInv
<1>2. ASSUME NEW w \in Workers, WorkerMoves(w)
      PROVE  BeatInv'
  <2> DEFINE s == worker[w]
             t == worker'[w]
             p == pulse[w]
  <2>1. WorkerStep(w) \/ WorkerFault(w)
    BY <1>2 DEF WorkerMoves, WorkerFault
  <2>2. /\ \A v \in Workers : v # w => worker'[v] = worker[v]
        /\ \/ Busy(t.pc)
           \/ s.pc # "claim" /\ t.pc = "claim" /\ t.idle = 0
           \/ ~Busy(s.pc) /\ s.pc # "claim" /\ ~Busy(t.pc) /\ t.pc # "claim"
           \/ s.pc = "claim" /\ t = s
           \/ s.pc = "claim" /\ t.pc = "reclaim"
           \/ s.pc = "claim" /\ t.pc = "claim" /\ t.idle = s.idle + 1 /\ t.idle < ReclaimEvery
    BY <2>1, WorkerPcs
  <2>3. /\ beat' = beat
        /\ pulse' = [pulse EXCEPT ![w] = PulseAfter(p, s, t)]
    BY <1>2 DEF WorkerMoves
  <2>4. Busy(t.pc) \/ (p.due = "no" /\ p.sleep = 0)
    <3>1. CASE Crash(w)
      BY <3>1 DEF Crash, Become, Idling, Busy, TypeOK
    <3> QED BY <1>2, <3>1 DEF WorkerMoves
  <2>5. /\ p \in Pulse /\ InTime(s, p, beat) /\ beat \in Nat /\ s.idle \in Nat
        /\ p.waited \in Nat /\ p.sleep \in Nat
    BY <1>0, Sleeps DEF TypeOK, WorkerState, Pulse
  <2>6. PulseAfter(p, s, t) \in Pulse /\ InTime(t, PulseAfter(p, s, t), beat)
    <3> HIDE DEF s, t, p
    <3>1. CASE Busy(t.pc)
      <4>1. PulseAfter(p, s, t) = Quiet /\ t.pc # "claim"
        BY <3>1 DEF PulseAfter, Busy
      <4> QED BY <1>1, <3>1, <4>1 DEF InTime
    <3>2. CASE ~Busy(t.pc) /\ s.pc # "claim" /\ t.pc = "claim" /\ t.idle = 0
      <4>0. 0 < ReclaimEvery
        BY IngestAssumption DEF IngestAssumption
      <4>1. CASE Busy(s.pc)
        <5>1. PulseAfter(p, s, t) = [p EXCEPT !.due = "claim"]
          BY <3>2, <4>1 DEF PulseAfter, BeatDue
        <5>2. [p EXCEPT !.due = "claim"] \in Pulse /\ [p EXCEPT !.due = "claim"].due = "claim"
              /\ [p EXCEPT !.due = "claim"].sleep = p.sleep
          BY <2>5 DEF Pulse
        <5> QED BY <2>4, <3>2, <4>0, <5>1, <5>2 DEF InTime
      <4>2. CASE ~Busy(s.pc)
        <5> DEFINE q == [p EXCEPT !.due = "sleep"]
        <5>1. PulseAfter(p, s, t) = q
          BY <3>2, <4>2 DEF PulseAfter, BeatDue
        <5>2. /\ q \in Pulse /\ q.due = "sleep" /\ q.sleep = p.sleep
              /\ q.waited = p.waited /\ q.lost = p.lost
          BY <2>5 DEF Pulse
        <5>3. p.lost \/ beat <= p.waited + ReclaimEvery * PollLen
          BY <2>4, <2>5, <3>2, <4>2 DEF InTime, Heard
        <5> HIDE DEF q
        <5> QED BY <2>4, <3>2, <4>0, <5>1, <5>2, <5>3 DEF InTime, Heard
      <4> QED BY <4>1, <4>2
    <3>3. CASE ~Busy(s.pc) /\ s.pc # "claim" /\ ~Busy(t.pc) /\ t.pc # "claim"
      <4>1. PulseAfter(p, s, t) = p
        BY <3>3 DEF PulseAfter, BeatDue, OnlyPolled
      <4> QED BY <2>5, <3>3, <4>1 DEF InTime, Heard
    <3>4. CASE ~Busy(t.pc) /\ s.pc = "claim" /\ t = s
      <4>1. PulseAfter(p, s, t) = p
        BY <2>5, <3>4 DEF PulseAfter, BeatDue, OnlyPolled
      <4> QED BY <2>5, <3>4, <4>1
    <3>5. CASE ~Busy(t.pc) /\ s.pc = "claim" /\ t.pc = "reclaim"
      <4>1. PulseAfter(p, s, t) = p
        BY <3>5 DEF PulseAfter, BeatDue, OnlyPolled
      <4>2. p.lost \/ beat + p.sleep <= p.waited + (s.idle + 1) * PollLen
        BY <2>4, <2>5, <3>5 DEF InTime, Heard, Busy
      <4>3. s.idle < ReclaimEvery
        BY <2>5, <3>5 DEF InTime
      <4>4. /\ (s.idle + 1) * PollLen <= ReclaimEvery * PollLen
            /\ (s.idle + 1) * PollLen \in Nat /\ ReclaimEvery * PollLen \in Nat
        BY <2>5, <4>3, Sleeps
      <4>5. p.lost \/ beat <= p.waited + ReclaimEvery * PollLen
        BY <2>5, <4>2, <4>4
      <4> QED BY <2>4, <2>5, <3>5, <4>1, <4>5 DEF InTime, Heard
    <3>6. CASE ~Busy(t.pc) /\ s.pc = "claim" /\ t.pc = "claim" /\ t.idle = s.idle + 1 /\ t.idle < ReclaimEvery
      <4> DEFINE q == [p EXCEPT !.sleep = PollLen]
      <4>1. PulseAfter(p, s, t) = q
        <5>1. OnlyPolled(s, t)
          BY <2>5, <3>6 DEF OnlyPolled
        <5> QED BY <3>6, <5>1 DEF PulseAfter, BeatDue
      <4>2. /\ q \in Pulse /\ q.due = p.due /\ q.sleep = PollLen
            /\ q.waited = p.waited /\ q.lost = p.lost
        BY <2>5, Sleeps DEF Pulse
      <4>3. p.lost \/ beat <= p.waited + (s.idle + 1) * PollLen
        BY <2>4, <2>5, <3>6 DEF InTime, Heard, Busy
      <4>4. /\ (t.idle + 1) * PollLen = (s.idle + 1) * PollLen + PollLen
            /\ (s.idle + 1) * PollLen \in Nat /\ PollLen \in Nat
        BY <2>5, <3>6, Sleeps
      <4>5. p.lost \/ beat + PollLen <= p.waited + (t.idle + 1) * PollLen
        BY <2>5, <4>3, <4>4
      <4> HIDE DEF q
      <4> QED BY <2>4, <3>6, <4>1, <4>2, <4>5 DEF InTime, Heard
    <3> QED BY <2>2, <3>1, <3>2, <3>3, <3>4, <3>5, <3>6 DEF s, t, p
  <2>7. pulse' \in [Workers -> Pulse]
    BY <1>0, <2>3, <2>6
  <2>8. \A v \in Workers : InTime(worker'[v], pulse'[v], beat')
    BY <1>0, <2>2, <2>3, <2>6
  <2> QED BY <1>0, <2>3, <2>7, <2>8 DEF BeatInv
<1>3. ASSUME NEW w \in Workers, Heartbeat(w)
      PROVE  BeatInv'
  <2> DEFINE p == pulse[w]
             s == worker[w]
             q(lost) == [due |-> "no", sleep |-> IF p.due = "sleep" THEN PollLen ELSE 0,
                         waited |-> 0, lost |-> lost]
  <2>1. PICK lost \in BOOLEAN :
           /\ pulse' = [pulse EXCEPT ![w] = q(lost)]
           /\ beat' = IF lost THEN beat ELSE 0
    BY <1>3 DEF Heartbeat
  <2>2. worker' = worker /\ p.due # "no"
    BY <1>3 DEF Heartbeat, vars
  <2>3. s.pc = "claim" /\ s.idle < ReclaimEvery /\ s.idle \in Nat
    BY <1>0, <2>2 DEF InTime, TypeOK, WorkerState
  <2>4. q(lost) \in Pulse
    BY Sleeps DEF Pulse
  <2>5. /\ q(lost).due = "no" /\ q(lost).sleep \in {0, PollLen} /\ q(lost).waited = 0
        /\ q(lost).lost = lost
    OBVIOUS
  <2>6. lost \/ Heard(s, q(lost), 0)
    BY <2>3, <2>5, Sleeps DEF Heard
  <2>7. InTime(s, q(lost), beat')
    BY <2>1, <2>3, <2>5, <2>6 DEF InTime
  <2>8. beat \in Nat /\ beat' \in 0..Silent /\ beat' <= beat
    BY <1>0, <2>1, Sleeps
  <2>9. ASSUME NEW v \in Workers, v # w PROVE InTime(worker[v], pulse[v], beat')
    <3>1. /\ InTime(worker[v], pulse[v], beat) /\ worker[v].idle \in Nat
          /\ pulse[v].waited \in Nat /\ pulse[v].sleep \in Nat
      BY <1>0, Sleeps DEF TypeOK, WorkerState, Pulse
    <3>2. Heard(worker[v], pulse[v], beat) => Heard(worker[v], pulse[v], beat')
      <4>1. /\ (worker[v].idle + 1) * PollLen \in Nat /\ ReclaimEvery * PollLen \in Nat
            /\ beat' \in Nat
        BY <2>8, <3>1, Sleeps
      <4> QED BY <2>8, <3>1, <4>1 DEF Heard
    <3> QED BY <3>1, <3>2 DEF InTime
  <2> HIDE DEF q
  <2>10. pulse' \in [Workers -> Pulse]
    BY <1>0, <2>1, <2>4
  <2>11. \A v \in Workers : InTime(worker'[v], pulse'[v], beat')
    BY <1>0, <2>1, <2>2, <2>7, <2>9
  <2> QED BY <2>8, <2>10, <2>11 DEF BeatInv
<1>4. CASE TimePasses
  <2>1. /\ worker' = worker
        /\ pulse' = [w \in Workers |-> PulseLater(pulse[w], worker[w].pc)]
        /\ beat' = IF beat < Silent THEN beat + 1 ELSE beat
    BY <1>4 DEF TimePasses, Tick
  <2>2. beat \in Nat /\ beat' \in 0..Silent /\ beat' \in Nat /\ beat' <= beat + 1
    BY <1>0, <2>1, Sleeps
  <2>3. ASSUME NEW w \in Workers
        PROVE  PulseLater(pulse[w], worker[w].pc) \in Pulse /\
               InTime(worker[w], PulseLater(pulse[w], worker[w].pc), beat')
    <3> DEFINE p == pulse[w]
               s == worker[w]
               q == PulseLater(p, s.pc)
    <3>1. /\ p \in Pulse /\ InTime(s, p, beat) /\ s.idle \in Nat
          /\ p.waited \in Nat /\ p.waited <= Silent /\ p.sleep \in Nat
          /\ (s.idle + 1) * PollLen \in Nat /\ ReclaimEvery * PollLen \in Nat
      BY <1>0, Sleeps DEF TypeOK, WorkerState, Pulse
    <3> HIDE DEF p, s
    <3>2. CASE Busy(s.pc)
      <4>1. q = p
        BY <3>2 DEF PulseLater
      <4> QED BY <3>1, <3>2, <4>1 DEF InTime, Busy, p, s
    <3>3. CASE ~Busy(s.pc) /\ p.sleep > 0
      <4>1. q = [p EXCEPT !.sleep = p.sleep - 1]
        BY <3>3 DEF PulseLater
      <4>2. s.pc = "claim" /\ p.due = "no"
        BY <3>1, <3>3 DEF InTime
      <4>3. q \in Pulse /\ q.due = p.due /\ q.sleep = p.sleep - 1 /\ q.waited = p.waited /\ q.lost = p.lost
        BY <3>1, <3>3, <4>1, Sleeps DEF Pulse
      <4> HIDE DEF q
      <4>4. p.lost \/ beat + p.sleep <= p.waited + (s.idle + 1) * PollLen
        BY <3>1, <3>3, <4>2 DEF InTime, Heard
      <4>5. p.lost \/ beat' + q.sleep <= q.waited + (s.idle + 1) * PollLen
        BY <2>2, <3>1, <3>3, <4>3, <4>4
      <4>6. InTime(s, q, beat')
        BY <3>1, <4>2, <4>3, <4>5 DEF InTime, Heard
      <4> QED BY <4>3, <4>6 DEF p, s, q
    <3>4. CASE ~Busy(s.pc) /\ ~(p.sleep > 0)
      <4>1. q = [p EXCEPT !.waited = IF p.waited < Silent THEN p.waited + 1 ELSE p.waited]
        BY <3>4 DEF PulseLater
      <4>2. /\ q \in Pulse /\ q.due = p.due /\ q.sleep = p.sleep /\ q.lost = p.lost
            /\ q.waited = IF p.waited < Silent THEN p.waited + 1 ELSE p.waited
        BY <3>1, <4>1, Sleeps DEF Pulse
      <4>3. p.sleep = 0 /\ q.waited \in Nat
        BY <3>1, <3>4, <4>2
      <4> HIDE DEF q
      <4>4. ASSUME NEW m \in Nat, beat <= p.waited + m PROVE beat' <= q.waited + m
        BY <2>2, <3>1, <4>2, <4>3, <4>4, Sleeps
      <4>5. Heard(s, p, beat) => Heard(s, q, beat')
        <5>1. CASE s.pc = "claim" /\ p.due = "no"
          BY <2>2, <3>1, <4>2, <4>3, <4>4, <5>1 DEF Heard
        <5>2. CASE ~(s.pc = "claim" /\ p.due = "no")
          BY <3>1, <4>2, <4>4, <5>2 DEF Heard
        <5> QED BY <5>1, <5>2
      <4>6. InTime(s, q, beat')
        BY <3>1, <4>2, <4>5 DEF InTime
      <4> QED BY <4>2, <4>6 DEF p, s, q
    <3> QED BY <3>2, <3>3, <3>4
  <2>4. pulse' \in [Workers -> Pulse] /\ (\A v \in Workers : InTime(worker'[v], pulse'[v], beat'))
    BY <2>1, <2>3
  <2> QED BY <2>2, <2>4 DEF BeatInv
<1>5. ASSUME \/ \E k \in Kinds : EnqueueSlot(k) \/ (\E h \in 1..MaxHash : EnqueueJob(k, h))
             \/ \E c \in Clients : ClientStep(c)
             \/ PlannedFire,
             UNCHANGED <<pulse, beat>>
      PROVE  BeatInv'
  <2>1. UNCHANGED worker
    BY <1>5 DEF EnqueueSlot, EnqueueJob, PlannedFire, ClientStep, RunNowRead, RunNowWrite,
                ManualStart, ManualFetch, ManualMark, ManualFreshness, ClientGone
  <2> QED BY <1>5, <1>a, <2>1
<1>7. CASE CheckStep
  BY <1>7, <1>a DEF CheckStep, CheckJobs, CheckFreshness, CheckRest, CheckClosed, vars
<1>8. CASE UNCHANGED checkVars
  BY <1>8, <1>a DEF checkVars, vars
<1> QED BY <1>2, <1>3, <1>4, <1>5, <1>7, <1>8 DEF CheckNext

\* A worker reported silent (diagnose.py, HEARTBEAT_STALE_SEC) is down, in a job,
\* lost its last heartbeat, or has waited for the database longer than its idle
\* polls (loop.py, run_forever) leave of the limit: for any number of workers, any
\* poll interval, reclaim_every and limit, and however time passes between the
\* statements.
THEOREM IdleIsHeard == CheckSpec => []SilentMeansAway
<1>1. BeatInv /\ TypeOK => SilentMeansAway
  <2> SUFFICES ASSUME BeatInv, TypeOK, beat = Silent, NEW w \in Workers, ~Away(w), ~pulse[w].lost
      PROVE  pulse[w].waited + ReclaimEvery * PollLen > StaleBeat
    BY DEF SilentMeansAway
  <2>1. /\ InTime(worker[w], pulse[w], beat) /\ worker[w].idle \in Nat
        /\ pulse[w].waited \in Nat /\ pulse[w].sleep \in Nat
    BY Sleeps DEF BeatInv, TypeOK, WorkerState, Pulse
  <2>2. Heard(worker[w], pulse[w], beat)
    BY <2>1 DEF InTime, Away
  <2>3. CASE worker[w].pc = "claim" /\ pulse[w].due = "no"
    <3>1. worker[w].idle < ReclaimEvery
      BY <2>1, <2>3 DEF InTime
    <3>2. beat + pulse[w].sleep <= pulse[w].waited + (worker[w].idle + 1) * PollLen
      BY <2>2, <2>3 DEF Heard
    <3>3. /\ (worker[w].idle + 1) * PollLen <= ReclaimEvery * PollLen
          /\ (worker[w].idle + 1) * PollLen \in Nat /\ ReclaimEvery * PollLen \in Nat
          /\ StaleBeat \in Nat
      BY <2>1, <3>1, Sleeps
    <3> QED BY <2>1, <3>2, <3>3 DEF Silent
  <2>4. CASE ~(worker[w].pc = "claim" /\ pulse[w].due = "no")
    <3>1. beat <= pulse[w].waited + ReclaimEvery * PollLen
      BY <2>2, <2>4 DEF Heard
    <3> QED BY <2>1, <3>1, Sleeps DEF Silent
  <2> QED BY <2>3, <2>4
<1> QED BY <1>1, BeatInit, BeatNext, CheckObserves, TypeCorrect, PTL DEF CheckSpec

---------------------------------------------------------------------------
(* What a report says of a job stays true. *)

\* Each audit row belongs to one manual run, and is not done before that run
\* marks it (manual_ops.py, _audit_finish).
AuditInv ==
    /\ \A c, d \in Clients : Auditing(c) /\ Auditing(d) /\ client[c].job = client[d].job => c = d
    /\ \A c \in Clients : client[c].pc \in {"fetch", "mark"} /\ client[c].job # 0 =>
          jobs[client[c].job].status # "done"

\* One step keeps it: the row is new when the run opens it, and only its own run
\* marks it done.
LEMMA AuditStep ==
    ASSUME Inv, AuditInv, Next
    PROVE  AuditInv'
<1>0. RowMoves /\ TypeOK
  BY StepMoves DEF Inv
<1>1. ASSUME NEW c \in Clients, Auditing(c)
      PROVE  client[c].job \in Ids /\ Exists(jobs, client[c].job) /\ jobs[client[c].job].src = "manual"
  BY <1>1, AuditedRow DEF Auditing, Exists
<1>2. ASSUME NEW c \in Clients, Auditing(c)'
      PROVE  \/ /\ Auditing(c) /\ client'[c].job = client[c].job
             \/ /\ client'[c].job \in Ids /\ ~Exists(jobs, client'[c].job)
                /\ jobs' = insert_manual_job(jobs, client'[c].job, client'[c].kind)
                /\ \A d \in Clients \ {c} : client'[d] = client[d]
  <2>1. client'[c] = client[c] => Auditing(c)
    BY <1>2 DEF Auditing
  <2> QED BY <1>2, <2>1, ClientTrail DEF NextId
<1>3. ASSUME NEW c \in Clients, NEW d \in Clients, Auditing(c)', Auditing(d)',
             client'[c].job = client'[d].job, c # d
      PROVE  FALSE
  <2>1. ASSUME NEW a \in Clients, NEW b \in Clients, a # b, Auditing(b)',
               ~Exists(jobs, client'[a].job), client'[a].job = client'[b].job,
               \A e \in Clients \ {a} : client'[e] = client[e]
        PROVE  FALSE
    <3>1. client'[b] = client[b] /\ Auditing(b)
      BY <2>1 DEF Auditing
    <3> QED BY <1>1, <2>1, <3>1
  <2>2. CASE Auditing(c) /\ client'[c].job = client[c].job /\ Auditing(d) /\ client'[d].job = client[d].job
    BY <1>3, <2>2 DEF AuditInv
  <2> QED BY <1>2, <1>3, <2>1, <2>2
<1>4. ASSUME NEW c \in Clients, client'[c].pc \in {"fetch", "mark"}, client'[c].job # 0
      PROVE  jobs'[client'[c].job].status # "done"
  <2>0. Auditing(c)'
    BY <1>4 DEF Auditing
  <2>1. CASE /\ client'[c].job \in Ids
             /\ jobs' = insert_manual_job(jobs, client'[c].job, client'[c].kind)
    BY <1>0, <2>1 DEF insert_manual_job, NewRow, TypeOK
  <2>2. CASE Auditing(c) /\ client'[c].job = client[c].job
    <3>1. client[c].pc \in {"fetch", "mark"} /\ (client[c].pc = "mark" => client'[c] = client[c])
      <4>1. ~NextId(jobs, client[c].job)
        BY <1>1, <2>2 DEF NextId
      <4>2. ManualFetch(c) => client[c].pc = "fetch"
        BY DEF ManualFetch
      <4> QED BY <1>4, <2>0, <2>2, <4>1, <4>2, ClientTrail
    <3>2. jobs[client[c].job].status # "done"
      BY <2>2, <3>1 DEF AuditInv, Auditing
    <3>3. SUFFICES ASSUME jobs'[client[c].job].status = "done" PROVE FALSE
      BY <2>2
    <3>4. ASSUME NEW w \in Workers, worker[w].pc = "done", worker[w].job = client[c].job PROVE FALSE
      BY <1>1, <2>2, <3>4, MarkedRow
    <3>5. PICK d \in Clients : /\ client[d].pc = "mark" /\ client[d].job # 0
                               /\ client[d].job = client[c].job /\ client'[d].pc # "mark"
      BY <1>1, <2>2, <3>2, <3>3, <3>4, NewlyDone
    <3>6. d = c
      BY <2>2, <3>5 DEF AuditInv, Auditing
    <3> QED BY <3>1, <3>5, <3>6
  <2> QED BY <1>2, <2>0, <2>1, <2>2
<1> QED BY <1>3, <1>4 DEF AuditInv

\* No statement takes a done row back: mark_failed (claim.py) has no status in
\* its WHERE, but whoever could still send it no longer holds the row.
LEMMA DoneStays ==
    ASSUME Inv, AuditInv, Next, NEW j \in Ids, jobs[j].status = "done"
    PROVE  jobs'[j].status = "done"
<1>0. TypeOK /\ RowMoves /\ jobs \in [Ids -> Row] /\ jobs[j] \in Row /\ 0 \in Nat
  BY StepMoves DEF Inv, TypeOK
<1>1. CASE jobs[j].src # "manual"
  BY <1>0, <1>1 DEF RowMoves, RowMove, SameAttempt, InsertMove, ClaimMove, RetryMove, SettleMove
<1>2. CASE jobs[j].src = "manual"
  <2>1. CASE NoStatement
    BY <2>1 DEF NoStatement
  <2>2. CASE EnqueueStatement
    BY <1>0, <2>2, EnqueueFills DEF EnqueueStatement
  <2>3. CASE AuditInsert
    BY <1>0, <2>3 DEF AuditInsert, NextId, insert_manual_job, Exists
  <2>4. CASE ReclaimStatement
    BY <2>4 DEF ReclaimStatement, reclaim_stale_running, Stale
  <2>5. CASE ClaimStatement
    BY <1>0, <2>5 DEF ClaimStatement, IsNextClaim, Claimable, claim_next
  <2>6. CASE DoneStatement
    BY <1>0, <2>6, MarkedFacts DEF DoneStatement, mark_done, Category
  <2>7. CASE FailStatement
    <3>1. PICK w \in Workers : worker[w].pc = "fail" /\ FailEffect(w)
      BY <2>7 DEF FailStatement
    <3>2. worker[w].job # j
      BY <1>2, <3>1, MarkedRow
    <3> QED BY <1>0, <3>1, <3>2 DEF FailEffect, mark_retry, mark_failed
  <2>8. CASE DeferStatement
    BY <2>8 DEF DeferStatement, DeferEffect, defer_pending
  <2>9. CASE ReleaseStatement
    BY <1>0, <2>9 DEF ReleaseStatement, clear_not_before
  <2>10. CASE AuditMark
    <3>1. PICK c \in Clients :
            /\ client[c].pc = "mark" /\ client[c].job # 0
            /\ jobs' = IF client[c].ok THEN mark_done(jobs, client[c].job)
                       ELSE mark_failed(jobs, client[c].job, client[c].category)
      BY <2>10 DEF AuditMark
    <3>2. client[c].job # j
      BY <3>1 DEF AuditInv
    <3> QED BY <1>0, <3>1, <3>2 DEF mark_done, mark_failed
  <2>11. CASE TickOfTable
    BY <1>0, <2>11, MovedFacts DEF TickOfTable, Older, SameAttempt
  <2>12. CASE PlannedFire
    BY <2>12, TimeMoves DEF SameAttempt
  <2> QED BY <2>1, <2>2, <2>3, <2>4, <2>5, <2>6, <2>7, <2>8, <2>9, <2>10, <2>11, <2>12, OneStatement
<1> QED BY <1>1, <1>2

\* A set of ids has a greatest one.
LEMMA GreatestId ==
    ASSUME NEW S \in SUBSET Ids, S # {}
    PROVE  \E m \in S : \A i \in S : i <= m
<1> DEFINE R == OpToRel(<, Nat)
           T == {MaxJobs - i : i \in S}
<1>0. MaxJobs \in Nat /\ \A i \in S : i \in Nat /\ MaxJobs - i \in Nat
  BY TableAssumption DEF TableAssumption, Ids
<1>1. T \in SUBSET Nat /\ T # {}
  BY <1>0
<1>2. PICK x \in T : \A y \in T : ~(<<y, x>> \in R)
  BY <1>1, NatLessThanWellFounded, WFMin
<1>3. PICK m \in S : x = MaxJobs - m
  OBVIOUS
<1>4. ASSUME NEW i \in S, i > m PROVE FALSE
  <2>1. MaxJobs - i \in T /\ MaxJobs - i \in Nat /\ x \in Nat /\ MaxJobs - i < x
    BY <1>0, <1>3, <1>4
  <2>2. <<MaxJobs - i, x>> \in R
    BY <2>1 DEF OpToRel
  <2> QED BY <1>2, <2>1, <2>2
<1> QED BY <1>0, <1>4

\* The newest job of a kind (diagnose.py, DISTINCT ON) is one of its jobs, and
\* none is newer.
LEMMA NewestFacts ==
    ASSUME NEW t, NEW k \in Kinds
    PROVE  LET rows == {j \in Ids : Exists(t, j) /\ t[j].kind = k}
           IN  IF rows = {} THEN NewestJob(t, k) = 0
               ELSE NewestJob(t, k) \in rows /\ \A i \in rows : i <= NewestJob(t, k)
<1> DEFINE rows == {j \in Ids : Exists(t, j) /\ t[j].kind = k}
<1>1. CASE rows = {}
  BY <1>1 DEF NewestJob
<1>2. CASE rows # {}
  <2>1. \E m \in rows : \A i \in rows : i <= m
    BY <1>2, GreatestId
  <2>2. NewestJob(t, k) = CHOOSE j \in rows : \A i \in rows : i <= j
    BY <1>2 DEF NewestJob
  <2> QED BY <1>2, <2>1, <2>2
<1> QED BY <1>1, <1>2

---------------------------------------------------------------------------
(* The three readings of the plan. *)

\* Ids follow created_at: the table gives them out in order, and a row younger
\* than the last planned fire has only such rows after it.
AgeOrder ==
    /\ \A i, j \in Ids : i < j /\ Exists(jobs, j) => Exists(jobs, i)
    /\ \A i, j \in Ids : i < j /\ Exists(jobs, j) /\ jobs[i].recent = TRUE => jobs[j].recent = TRUE

\* An INSERT adds one recent row, behind all the others; no other statement adds
\* any.
LEMMA NewRowIsLast ==
    ASSUME Inv, Next
    PROVE  \/ \A j \in Ids : jobs[j].status = "absent" => jobs'[j].status = "absent"
           \/ \E n \in Ids : /\ NextId(jobs, n) /\ jobs'[n].recent = TRUE
                             /\ \A i \in Ids \ {n} : jobs'[i] = jobs[i]
<1>0. jobs \in [Ids -> Row]
  BY DEF Inv, TypeOK
<1>1. CASE AuditInsert
  <2>1. PICK n \in Ids, k \in Kinds : NextId(jobs, n) /\ jobs' = insert_manual_job(jobs, n, k)
    BY <1>1 DEF AuditInsert
  <2>2. jobs'[n].recent = TRUE /\ \A i \in Ids \ {n} : jobs'[i] = jobs[i]
    BY <1>0, <2>1 DEF insert_manual_job, NewRow
  <2> QED BY <2>1, <2>2
<1>2. CASE EnqueueStatement
  <2>1. PICK k \in Kinds, src \in {"slot", "api", "catchup"}, h \in 0..MaxHash : Enqueue(k, src, h)
    BY <1>2 DEF EnqueueStatement
  <2>2. CASE UNCHANGED jobs
    BY <2>2
  <2>3. CASE \E n \in Ids : NextId(jobs, n) /\ jobs' = insert_job(jobs, n, k, src, h)
    <3>1. PICK n \in Ids : NextId(jobs, n) /\ jobs' = insert_job(jobs, n, k, src, h)
      BY <2>3
    <3>2. jobs'[n].recent = TRUE /\ \A i \in Ids \ {n} : jobs'[i] = jobs[i]
      BY <1>0, <3>1 DEF insert_job, NewRow
    <3> QED BY <3>1, <3>2
  <2> QED BY <2>1, <2>2, <2>3 DEF Enqueue
<1> QED BY <1>1, <1>2, NewRows

\* One step keeps the order.
LEMMA AgeStep ==
    ASSUME Inv, AgeOrder, Next
    PROVE  AgeOrder'
<1>0. /\ TypeOK /\ RowMoves /\ Ids \subseteq Nat /\ jobs \in [Ids -> Row]
      /\ \A j \in Ids : jobs[j].recent \in BOOLEAN
  <2>1. TypeOK /\ RowMoves /\ jobs \in [Ids -> Row]
    BY StepMoves DEF Inv, TypeOK
  <2>2. \A r \in Row : r.recent \in BOOLEAN
    BY DEF Row
  <2> QED BY <2>1, <2>2 DEF Ids
<1>1. ASSUME NEW i \in Ids, Exists(jobs, i) PROVE jobs'[i].status # "absent"
  BY <1>0, <1>1, RowsStay DEF Exists
<1>2. CASE \E n \in Ids : /\ NextId(jobs, n) /\ jobs'[n].recent = TRUE
                          /\ \A i \in Ids \ {n} : jobs'[i] = jobs[i]
  <2>1. PICK n \in Ids : /\ NextId(jobs, n) /\ jobs'[n].recent = TRUE
                         /\ \A i \in Ids \ {n} : jobs'[i] = jobs[i]
    BY <1>2
  <2>2. /\ ~Exists(jobs, n) /\ \A i \in Ids : i < n => Exists(jobs, i)
    BY <2>1 DEF NextId
  <2>3. ASSUME NEW i \in Ids, NEW j \in Ids, i < j, jobs'[j].status # "absent"
        PROVE  jobs'[i].status # "absent" /\ (jobs'[i].recent = TRUE => jobs'[j].recent = TRUE)
    <3>1. CASE j = n
      BY <1>1, <2>1, <2>2, <2>3, <3>1
    <3>2. CASE j # n
      <4>1. Exists(jobs, j) /\ jobs'[j] = jobs[j]
        BY <2>1, <2>3, <3>2 DEF Exists
      <4>2. Exists(jobs, i)
        BY <2>3, <4>1 DEF AgeOrder
      <4>3. i # n /\ jobs'[i] = jobs[i]
        BY <2>1, <2>2, <4>2
      <4> QED BY <1>1, <2>3, <4>1, <4>2, <4>3 DEF AgeOrder
    <3> QED BY <3>1, <3>2
  <2> QED BY <2>3 DEF AgeOrder, Exists
<1>3. CASE \A j \in Ids : jobs[j].status = "absent" => jobs'[j].status = "absent"
  <2>1. ASSUME NEW i \in Ids, NEW j \in Ids, i < j, jobs'[j].status # "absent"
        PROVE  jobs'[i].status # "absent" /\ (jobs'[i].recent = TRUE => jobs'[j].recent = TRUE)
    <3>1. Exists(jobs, j) /\ Exists(jobs, i)
      BY <1>3, <2>1 DEF AgeOrder, Exists
    <3>2. jobs[i].recent = TRUE => jobs[j].recent = TRUE
      BY <2>1, <3>1 DEF AgeOrder
    <3>3. CASE PlannedFire
      <4>1. jobs'[i].recent = FALSE
        BY <1>0, <3>3 DEF PlannedFire, BeforeFire, Row
      <4> QED BY <1>1, <3>1, <4>1
    <3>4. CASE ~PlannedFire
      <4>1. jobs'[i].recent = jobs[i].recent /\ jobs'[j].recent = jobs[j].recent
        BY <3>1, <3>4, RecentStays
      <4> QED BY <1>1, <3>1, <3>2, <4>1
    <3> QED BY <3>3, <3>4
  <2> QED BY <2>1 DEF AgeOrder, Exists
<1> QED BY <1>2, <1>3, NewRowIsLast

\* Where ids follow created_at, the newest job alone tells whether the slot was
\* served, as the catch-up sees it from all of them.
LEMMA OrderAgrees == TypeOK /\ AgeOrder => MissedAgrees
<1> SUFFICES ASSUME TypeOK, AgeOrder, NEW k \in Kinds
    PROVE  LET j == NewestJob(jobs, k)
               v == assess_kind(jobs, j)
               missed == k \in missed_slots(jobs)
           IN  /\ v = "missed" => missed
               /\ missed => v \in {"missed", "throttled", "waiting", "running", "queued", "failed"}
               /\ clock.age \in Grace..DayLen /\ clock.age > PlanWindow =>
                      (adherence(jobs, k) # "on_plan") = missed
  BY DEF MissedAgrees
<1> DEFINE j == NewestJob(jobs, k)
           v == assess_kind(jobs, j)
           missed == k \in missed_slots(jobs)
           window == clock.age >= Grace /\ clock.age <= DayLen
<1>0. /\ Grace \in Nat /\ DayLen \in Nat /\ PlanWindow \in Nat /\ clock.age \in Nat
      /\ 0 \notin Ids /\ Ids \subseteq Nat
      /\ \A i \in Ids : /\ jobs[i].status \in {"absent", "pending", "running", "done", "failed"}
                        /\ jobs[i].wait \in Nat
  <2>1. \A i \in Ids : jobs[i] \in Row
    BY DEF TypeOK
  <2>2. /\ Grace \in Nat /\ DayLen \in Nat /\ PlanWindow \in Nat /\ clock.age \in Nat
    BY IngestAssumption, CheckAssumption DEF IngestAssumption, CheckAssumption, TypeOK
  <2> QED BY <2>1, <2>2 DEF Row, Ids
<1>1. CASE \A i \in Ids : ~(Exists(jobs, i) /\ jobs[i].kind = k)
  <2>1. j = 0
    BY <1>1, NewestFacts
  <2>2. missed <=> window
    BY <1>1 DEF missed_slots
  <2>3. v = IF window THEN "missed" ELSE "idle"
    BY <2>1 DEF assess_kind, missed_plan
  <2>4. clock.age > PlanWindow => adherence(jobs, k) = "no_data"
    BY <1>0, <2>1 DEF adherence
  <2> HIDE DEF j, v, missed
  <2>5. clock.age \in Grace..DayLen => window
    BY <1>0
  <2>6. (clock.age \in Grace..DayLen /\ clock.age > PlanWindow) =>
            ((adherence(jobs, k) # "on_plan") = missed)
    BY <2>2, <2>4, <2>5 DEF missed
  <2> QED BY <2>2, <2>3, <2>6 DEF j, v, missed
<1>2. CASE ~(\A i \in Ids : ~(Exists(jobs, i) /\ jobs[i].kind = k))
  <2>1. /\ j \in Ids /\ Exists(jobs, j) /\ jobs[j].kind = k
        /\ \A i \in Ids : Exists(jobs, i) /\ jobs[i].kind = k => i <= j
    BY <1>2, NewestFacts
  <2> HIDE DEF j
  <2>2. missed <=> window /\ ~jobs[j].recent
    <3>1. ASSUME NEW i \in Ids, Exists(jobs, i), jobs[i].kind = k, jobs[i].recent
          PROVE  jobs[j].recent
      <4>1. i = j \/ i < j
        BY <1>0, <2>1, <3>1
      <4> QED BY <2>1, <3>1, <4>1 DEF AgeOrder
    <3> QED BY <2>1, <3>1 DEF missed_slots
  <2>3. missed_plan(jobs, j) <=> window /\ ~jobs[j].recent
    BY <1>0, <2>1 DEF missed_plan
  <2>4. v = CASE jobs[j].status = "running" -> "running"
           [] jobs[j].status = "pending" /\ jobs[j].wait = 0 -> "queued"
           [] jobs[j].status = "pending" /\ jobs[j].wait > 0 /\ jobs[j].category = "throttled" -> "throttled"
           [] jobs[j].status = "pending" /\ jobs[j].wait > 0 /\ jobs[j].category # "throttled" -> "waiting"
           [] jobs[j].status = "failed" -> "failed"
           [] jobs[j].status = "done" -> IF missed_plan(jobs, j) THEN "missed" ELSE "ok"
    BY <1>0, <2>1 DEF assess_kind
  <2>5. clock.age > PlanWindow => (adherence(jobs, k) # "on_plan" <=> ~jobs[j].recent)
    BY <1>0, <2>1 DEF adherence, j
  <2> HIDE DEF v, missed
  <2>6. clock.age \in Grace..DayLen => window
    BY <1>0
  <2>7. (v = "missed" => missed) /\
        (missed => v \in {"missed", "throttled", "waiting", "running", "queued", "failed"})
    <3>1. jobs[j].status \in {"pending", "running", "done", "failed"} /\ jobs[j].wait \in Nat
      BY <1>0, <2>1 DEF Exists
    <3>2. CASE jobs[j].status = "done"
      BY <2>2, <2>3, <2>4, <3>2
    <3>3. CASE jobs[j].status \in {"running", "failed"}
      BY <2>4, <3>3
    <3>4. CASE jobs[j].status = "pending"
      BY <2>4, <3>1, <3>4
    <3> QED BY <3>1, <3>2, <3>3, <3>4
  <2>8. (clock.age \in Grace..DayLen /\ clock.age > PlanWindow) =>
            ((adherence(jobs, k) # "on_plan") = missed)
    BY <2>2, <2>5, <2>6 DEF missed
  <2> QED BY <2>7, <2>8 DEF j, v, missed
<1> QED BY <1>1, <1>2

\* What the self-check calls missed (diagnose.py), what the catch-up enqueues
\* (catchup.py) and what the dashboard calls off plan (ingest_dashboard.py) are
\* the same slots, at every moment of the pipeline.
THEOREM PlansAgree == CheckSpec => []MissedAgrees
<1>1. Init => AgeOrder
  BY DEF Init, AgeOrder, Exists, NoRow
<1>2. Inv /\ AgeOrder /\ [Next]_vars => AgeOrder'
  <2>1. AgeOrder /\ UNCHANGED vars => AgeOrder'
    BY DEF vars, AgeOrder, Exists
  <2> QED BY <2>1, AgeStep
<1>3. Inv /\ AgeOrder => MissedAgrees
  BY OrderAgrees DEF Inv
<1> QED BY <1>1, <1>2, <1>3, InvHolds, CheckObserves, PTL DEF Spec

---------------------------------------------------------------------------
(* The report. *)

CheckState ==
    [pc : {"idle", "freshness", "rest", "report"}, job : [Kinds -> 0..MaxJobs],
     verdict : [Kinds -> Verdicts], ever : [Kinds -> BOOLEAN]]

\* What was said of job j of kind k is so: a queued job called failed has
\* failed, a job called ok is done and has its rows.
FailedSo(j) == j \in Ids /\ Exists(jobs, j) /\ (jobs[j].src # "manual" => jobs[j].status = "failed")
OkSo(j, k) == j \in Ids /\ jobs[j].status = "done" /\ jobs[j].kind = k /\ j \in landed

\* The invariant behind OkIsTrue and FailedIsFinal: every verdict of a report,
\* from its first statement on.
ReportInv ==
    /\ check \in CheckState
    /\ check.pc # "idle" => \A k \in Kinds :
          /\ check.verdict[k] = "failed" => FailedSo(check.job[k])
          /\ check.verdict[k] = "ok" => OkSo(check.job[k], k)
          /\ (check.verdict[k] = "ok" /\ check.pc # "freshness" /\ Queued(check.job[k])) =>
                check.ever[k] = TRUE

\* The verdict on a job (diagnose.py, assess_kind) when it is made.
LEMMA VerdictFacts ==
    ASSUME TypeOK, NEW k \in Kinds
    PROVE  LET j == NewestJob(jobs, k)
               v == assess_kind(jobs, j)
           IN  /\ j \in 0..MaxJobs /\ v \in Verdicts
               /\ v = "failed" => FailedSo(j)
               /\ v = "ok" => j \in Ids /\ jobs[j].status = "done" /\ jobs[j].kind = k
<1> DEFINE j == NewestJob(jobs, k)
           v == assess_kind(jobs, j)
<1>0. /\ 0 \notin Ids /\ 0 \in 0..MaxJobs /\ Ids \subseteq 0..MaxJobs
      /\ \A i \in Ids : /\ jobs[i].status \in {"absent", "pending", "running", "done", "failed"}
                        /\ jobs[i].wait \in Nat
  <2>1. \A i \in Ids : jobs[i] \in Row
    BY DEF TypeOK
  <2>2. 0 \notin Ids /\ 0 \in 0..MaxJobs /\ Ids \subseteq 0..MaxJobs
    BY TableAssumption DEF TableAssumption, Ids
  <2> QED BY <2>1, <2>2 DEF Row
<1>1. CASE j = 0
  <2>1. v \in {"missed", "idle"}
    BY <1>1 DEF assess_kind
  <2> QED BY <1>0, <1>1, <2>1 DEF Verdicts
<1>2. CASE j \in Ids /\ Exists(jobs, j) /\ jobs[j].kind = k
  <2> HIDE DEF j
  <2>1. v = CASE jobs[j].status = "running" -> "running"
           [] jobs[j].status = "pending" /\ jobs[j].wait = 0 -> "queued"
           [] jobs[j].status = "pending" /\ jobs[j].wait > 0 /\ jobs[j].category = "throttled" -> "throttled"
           [] jobs[j].status = "pending" /\ jobs[j].wait > 0 /\ jobs[j].category # "throttled" -> "waiting"
           [] jobs[j].status = "failed" -> "failed"
           [] jobs[j].status = "done" -> IF missed_plan(jobs, j) THEN "missed" ELSE "ok"
    BY <1>0, <1>2 DEF assess_kind
  <2>2. jobs[j].status \in {"pending", "running", "done", "failed"} /\ jobs[j].wait \in Nat
    BY <1>0, <1>2 DEF Exists
  <2>3. /\ v \in Verdicts
        /\ v = "failed" => jobs[j].status = "failed"
        /\ v = "ok" => jobs[j].status = "done"
    <3>1. CASE jobs[j].status = "pending"
      BY <2>1, <2>2, <3>1 DEF Verdicts
    <3>2. CASE jobs[j].status = "done"
      BY <2>1, <3>2 DEF Verdicts
    <3>3. CASE jobs[j].status \in {"running", "failed"}
      BY <2>1, <3>3 DEF Verdicts
    <3> QED BY <2>2, <3>1, <3>2, <3>3
  <2> HIDE DEF v
  <2> QED BY <1>0, <1>2, <2>3 DEF FailedSo, j, v
<1>3. j = 0 \/ (j \in Ids /\ Exists(jobs, j) /\ jobs[j].kind = k)
  BY NewestFacts
<1> QED BY <1>1, <1>2, <1>3

\* What was said stays so while the pipeline goes on.
LEMMA SaidStays ==
    ASSUME Inv, AuditInv, [Next]_vars, NEW j, NEW k
    PROVE  /\ FailedSo(j) => FailedSo(j)'
           /\ OkSo(j, k) => OkSo(j, k)'
           /\ j \in Ids /\ Exists(jobs, j) => jobs'[j].src = jobs[j].src
<1>1. CASE UNCHANGED vars
  BY <1>1 DEF vars, FailedSo, OkSo, Exists
<1>2. CASE Next
  <2>0. RowMoves /\ landed \subseteq landed'
    BY <1>2, StepMoves, HistoriesGrow
  <2>1. ASSUME j \in Ids, Exists(jobs, j)
        PROVE  jobs'[j].status # "absent" /\ jobs'[j].src = jobs[j].src /\ jobs'[j].kind = jobs[j].kind
    BY <2>0, <2>1, RowsStay DEF Exists, SameJob
  <2>2. ASSUME FailedSo(j) PROVE FailedSo(j)'
    <3>1. ASSUME jobs'[j].src # "manual" PROVE jobs'[j].status = "failed"
      <4>1. jobs[j].src # "manual" /\ jobs[j].status = "failed"
        BY <2>1, <2>2, <3>1 DEF FailedSo
      <4>2. RowMove(jobs[j], jobs'[j])
        BY <2>0, <2>2 DEF RowMoves, FailedSo
      <4> QED BY <4>1, <4>2 DEF RowMove, SameAttempt, InsertMove, ClaimMove, RetryMove, SettleMove
    <3> QED BY <2>1, <2>2, <3>1 DEF FailedSo, Exists
  <2>3. ASSUME OkSo(j, k) PROVE OkSo(j, k)'
    <3>1. jobs'[j].status = "done"
      BY <1>2, <2>3, DoneStays DEF OkSo
    <3> QED BY <2>0, <2>1, <2>3, <3>1 DEF OkSo, Exists
  <2> QED BY <2>1, <2>2, <2>3
<1> QED BY <1>1, <1>2

\* One step keeps the report true.
LEMMA ReportStep ==
    ASSUME Inv, AuditInv, LandedInv, ReportInv, [CheckNext]_checkVars
    PROVE  ReportInv'
<1>0. /\ [Next]_vars /\ TypeOK /\ check \in CheckState
      /\ \A k \in Kinds : check.job[k] \in 0..MaxJobs
  BY ObservedStep DEF Inv, ReportInv, CheckState
<1>1. CASE UNCHANGED check
  <2>1. check' \in CheckState
    BY <1>0, <1>1
  <2>2. ASSUME check.pc # "idle", NEW k \in Kinds
        PROVE  /\ check.verdict[k] = "failed" => FailedSo(check.job[k])'
               /\ check.verdict[k] = "ok" => OkSo(check.job[k], k)'
               /\ check.verdict[k] = "ok" => jobs'[check.job[k]].src = jobs[check.job[k]].src
    <3>1. FailedSo(check.job[k]) => FailedSo(check.job[k])'
      BY <1>0, <1>1, SaidStays DEF FailedSo, Exists
    <3>2. OkSo(check.job[k], k) => OkSo(check.job[k], k)'
      BY <1>0, <1>1, SaidStays DEF OkSo
    <3>3. OkSo(check.job[k], k) => jobs'[check.job[k]].src = jobs[check.job[k]].src
      BY <1>0, SaidStays DEF OkSo, Exists
    <3> QED BY <2>2, <3>1, <3>2, <3>3 DEF ReportInv
  <2>3. ASSUME check.pc # "idle", NEW k \in Kinds, check.verdict[k] = "ok", check.pc # "freshness",
               jobs'[check.job[k]].src # "manual"
        PROVE  check.ever[k] = TRUE
    BY <2>2, <2>3 DEF ReportInv, Queued
  <2> QED BY <1>1, <2>1, <2>2, <2>3 DEF ReportInv, Queued
<1>2. CASE CheckJobs
  <2>1. /\ UNCHANGED <<jobs, landed>> /\ check'.pc = "freshness"
        /\ check'.job = [k \in Kinds |-> NewestJob(jobs, k)]
        /\ check'.verdict = [k \in Kinds |-> assess_kind(jobs, NewestJob(jobs, k))]
    BY <1>0, <1>2 DEF CheckJobs, vars, CheckState
  <2>2. ASSUME NEW k \in Kinds
        PROVE  /\ check'.verdict[k] = "failed" => FailedSo(check'.job[k])
               /\ check'.verdict[k] = "ok" => OkSo(check'.job[k], k)
    BY <1>0, <2>1, VerdictFacts DEF OkSo, LandedInv, DoneImpliesLanded
  <2>3. check' \in CheckState
    <3>1. check'.job \in [Kinds -> 0..MaxJobs] /\ check'.verdict \in [Kinds -> Verdicts]
      BY <1>0, <2>1, VerdictFacts
    <3>2. check' = [check EXCEPT !.pc = "freshness", !.job = check'.job, !.verdict = check'.verdict]
      BY <1>0, <1>2 DEF CheckJobs, CheckState
    <3> QED BY <1>0, <3>1, <3>2 DEF CheckState
  <2> QED BY <2>1, <2>2, <2>3 DEF ReportInv, FailedSo, OkSo, Exists
<1>3. CASE CheckFreshness
  <2>1. /\ UNCHANGED <<jobs, landed>> /\ check.pc = "freshness" /\ check'.pc = "rest"
        /\ check'.job = check.job /\ check'.verdict = check.verdict
        /\ check'.ever = [k \in Kinds |-> fresh[k].ever]
    BY <1>0, <1>3 DEF CheckFreshness, vars, CheckState
  <2>2. check' \in CheckState
    <3>1. [k \in Kinds |-> fresh[k].ever] \in [Kinds -> BOOLEAN]
      BY <1>0 DEF TypeOK
    <3> QED BY <1>0, <1>3, <3>1 DEF CheckFreshness, CheckState
  <2>3. ASSUME NEW k \in Kinds, check.verdict[k] = "ok", Queued(check.job[k])
        PROVE  check'.ever[k] = TRUE
    <3>1. OkSo(check.job[k], k)
      BY <2>1, <2>3 DEF ReportInv
    <3>2. fresh[k].ever
      BY <2>3, <3>1 DEF OkSo, LandedInv, DoneImpliesLanded
    <3>3. fresh[k].ever \in BOOLEAN
      BY <1>0 DEF TypeOK
    <3> QED BY <2>1, <3>2, <3>3
  <2> QED BY <2>1, <2>2, <2>3 DEF ReportInv, FailedSo, OkSo, Queued, Exists
<1>4. CASE CheckRest
  <2>1. /\ UNCHANGED <<jobs, landed>> /\ check.pc = "rest" /\ check'.pc = "report"
        /\ check'.job = check.job /\ check'.verdict = check.verdict /\ check'.ever = check.ever
        /\ check' \in CheckState
    BY <1>0, <1>4 DEF CheckRest, vars, CheckState
  <2> QED BY <2>1 DEF ReportInv, FailedSo, OkSo, Queued, Exists
<1>5. CASE CheckClosed
  BY <1>5, TableAssumption DEF TableAssumption, CheckClosed, NoCheck, CheckState, ReportInv, Verdicts
<1>6. UNCHANGED check \/ CheckStep
  BY DEF CheckNext, checkVars, WorkerMoves, Heartbeat, TimePasses
<1> QED BY <1>1, <1>2, <1>3, <1>4, <1>5, <1>6 DEF CheckStep

\* The invariants above hold of the observed pipeline.
LEMMA ReportHolds == CheckSpec => []ReportInv
<1>1. CheckInit => ReportInv /\ AuditInv
  <2>1. CheckInit => AuditInv
    BY DEF CheckInit, Init, AuditInv, Auditing, ClientIdle
  <2>2. CheckInit => ReportInv
    BY TableAssumption DEF TableAssumption, CheckInit, NoCheck, ReportInv, CheckState, Verdicts
  <2> QED BY <2>1, <2>2
<1>2. Inv /\ AuditInv /\ [CheckNext]_checkVars => AuditInv'
  <2>1. AuditInv /\ UNCHANGED vars => AuditInv'
    BY DEF vars, AuditInv, Auditing
  <2> QED BY <2>1, AuditStep, ObservedStep
<1> QED BY <1>1, <1>2, ReportStep, InvHolds, LandedHolds, CheckObserves, PTL DEF CheckSpec

\* "ok" on a report of GET /flex/ops/check is earned and stays so: the run it
\* names landed its rows and is still done, and a queued one comes with its last
\* success, although the report is read in statements of their own.
THEOREM OkStaysTrue == CheckSpec => []OkIsTrue
<1>1. ReportInv => OkIsTrue
  BY DEF ReportInv, OkIsTrue, OkSo
<1> QED BY <1>1, ReportHolds, PTL

\* A queued job that a report calls failed is never tried again, however long
\* the report is looked at (diagnose.py: the last attempt is final).
THEOREM FailedStaysFinal == CheckSpec => []FailedIsFinal
<1>1. ReportInv => FailedIsFinal
  BY DEF ReportInv, FailedIsFinal, FailedSo, Queued
<1> QED BY <1>1, ReportHolds, PTL
=============================================================================
