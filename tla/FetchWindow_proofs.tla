------------------------- MODULE FetchWindow_proofs -------------------------
(***************************************************************************)
(* What a run asks IB for and what it leaves stored, proved for any number *)
(* of accounts, days and overlapping runs, and for any length of windows   *)
(* and chunks.                                                             *)
(***************************************************************************)
EXTENDS FetchWindow, WellFoundedInduction, TLAPS

---------------------------------------------------------------------------
(* The least and the greatest of a set of days. *)

LEMMA LeastDay ==
    ASSUME NEW S \in SUBSET Int, S # {}, NEW b \in Int, \A x \in S : b <= x
    PROVE  Min(S) \in S /\ \A x \in S : Min(S) <= x
<1> DEFINE R == OpToRel(<, Nat)
           T == {x - b : x \in S}
<1>1. T \in SUBSET Nat /\ T # {}
  <2>1. \A x \in S : x - b \in Nat
    OBVIOUS
  <2> QED BY <2>1
<1>2. PICK n \in T : \A y \in T : ~(<<y, n>> \in R)
  BY <1>1, NatLessThanWellFounded, WFMin
<1>3. PICK m \in S : n = m - b
  OBVIOUS
<1>4. ASSUME NEW x \in S, x < m PROVE FALSE
  <2>1. x - b \in T /\ x - b \in Nat /\ n \in Nat /\ x - b < n
    BY <1>1, <1>3, <1>4
  <2>2. <<x - b, n>> \in R
    BY <2>1 DEF OpToRel
  <2> QED BY <1>2, <2>1, <2>2
<1>5. \A y \in S : m =< y
  BY <1>4
<1> QED BY <1>5 DEF Min

LEMMA GreatestDay ==
    ASSUME NEW S \in SUBSET Int, S # {}, NEW b \in Int, \A x \in S : x <= b
    PROVE  Max(S) \in S /\ \A x \in S : x <= Max(S)
<1> DEFINE R == OpToRel(<, Nat)
           T == {b - x : x \in S}
<1>1. T \in SUBSET Nat /\ T # {}
  <2>1. \A x \in S : b - x \in Nat
    OBVIOUS
  <2> QED BY <2>1
<1>2. PICK n \in T : \A y \in T : ~(<<y, n>> \in R)
  BY <1>1, NatLessThanWellFounded, WFMin
<1>3. PICK m \in S : n = b - m
  OBVIOUS
<1>4. ASSUME NEW x \in S, x > m PROVE FALSE
  <2>1. b - x \in T /\ b - x \in Nat /\ n \in Nat /\ b - x < n
    BY <1>1, <1>3, <1>4
  <2>2. <<b - x, n>> \in R
    BY <2>1 DEF OpToRel
  <2> QED BY <1>2, <2>1, <2>2
<1>5. \A y \in S : m >= y
  BY <1>4
<1>6. Max(S) \in S /\ \A y \in S : Max(S) >= y
  BY <1>5 DEF Max
<1> QED BY <1>6

---------------------------------------------------------------------------
(* The requests of a window. *)

\* Division by the length of a chunk.
LEMMA Division ==
    ASSUME NEW m \in Nat \ {0}
    PROVE  /\ \A n \in Nat :
                 /\ n = m * (n \div m) + (n % m)
                 /\ n \div m \in Nat /\ m * (n \div m) \in Nat
                 /\ n % m \in 0..(m - 1)
                 /\ n < m => n % m = n
           /\ \A q \in Nat : (m * q) % m = 0
<1>1. \A n \in Nat : n = m * (n \div m) + (n % m)
  OBVIOUS
<1>2. \A n \in Nat : n % m \in 0..(m - 1)
  OBVIOUS
<1>3. \A n \in Nat : n \div m \in Nat
  OBVIOUS
<1>4. \A n \in Nat : n < m => n % m = n
  OBVIOUS
<1>5. \A q \in Nat : (m * q) % m = 0
  OBVIOUS
<1>6. \A q \in Nat : m * q \in Nat
  OBVIOUS
<1> QED BY <1>1, <1>2, <1>3, <1>4, <1>5, <1>6

\* A chunk of split_window (transactions.py) lies in its window and is at most
\* ChunkSpan long, and together the chunks leave no day out.
LEMMA ChunkFacts ==
    ASSUME NEW f \in Int, NEW t \in Int
    PROVE  /\ Requests(f, t) \subseteq Window
           /\ Kind = "cash" => \A x \in Requests(f, t) : x.to - x.from <= ChunkSpan
           /\ \A d \in f..t : \E x \in Requests(f, t) : d \in x.from..x.to
           /\ (t - f <= ChunkSpan) => Requests(f, t) \subseteq {Chunk(f, t)}
<1>0. ChunkSpan \in Nat
  BY WindowAssumption DEF WindowAssumption
<1>1. ASSUME NEW d \in Int
      PROVE  /\ Min({t, d + ChunkSpan}) \in Int
             /\ Min({t, d + ChunkSpan}) = IF t <= d + ChunkSpan THEN t ELSE d + ChunkSpan
  BY <1>0 DEF Min
<1>2. Chunk(f, t) \in Window
  BY DEF Chunk, Window
<1>3. CASE Kind # "cash"
  BY <1>2, <1>3 DEF Requests, Chunk
<1>4. CASE Kind = "cash" /\ t < f
  BY <1>0, <1>2, <1>4 DEF Requests, split_window, Chunk
<1>5. CASE Kind = "cash" /\ ~(t < f)
  <2> DEFINE starts == {e \in f..t : (e - f) % (ChunkSpan + 1) = 0}
  <2>1. Requests(f, t) = {Chunk(d, Min({t, d + ChunkSpan})) : d \in starts}
    BY <1>5 DEF Requests, split_window
  <2>2. \A d \in starts : Chunk(d, Min({t, d + ChunkSpan})) \in Window
    BY <1>1 DEF Chunk, Window
  <2>3. ASSUME NEW x \in Requests(f, t) PROVE x.to - x.from <= ChunkSpan
    <3>1. PICK d \in starts : x = Chunk(d, Min({t, d + ChunkSpan}))
      BY <2>1
    <3>2. x.to = Min({t, d + ChunkSpan}) /\ x.from = d /\ d \in Int
      BY <3>1 DEF Chunk
    <3> QED BY <1>0, <1>1, <3>2
  <2>4. ASSUME NEW d \in f..t PROVE \E x \in Requests(f, t) : d \in x.from..x.to
    <3> DEFINE m == ChunkSpan + 1
               n == d - f
    <3>1. m \in Nat \ {0} /\ m - 1 = ChunkSpan /\ n \in Nat /\ f + n = d
      BY <1>0
    <3> HIDE DEF m, n
    <3> DEFINE q == n \div m
    <3>2. q \in Nat /\ n = m * q + (n % m) /\ n % m \in 0..(m - 1) /\ m * q \in Nat
      BY <3>1, Division
    <3> HIDE DEF q
    <3>3. (m * q) % m = 0
      <4>1. \A p \in Nat : (m * p) % m = 0
        BY <3>1, Division
      <4> QED BY <3>2, <4>1
    <3>4. PICK g \in starts : d - g \in 0..ChunkSpan
      <4>1. /\ f + m * q \in f..t /\ (f + m * q) - f = m * q
            /\ d - (f + m * q) \in 0..ChunkSpan
        BY <3>1, <3>2
      <4>2. f + m * q \in starts
        BY <3>3, <4>1 DEF m
      <4> QED BY <4>1, <4>2
    <3>5. Chunk(g, Min({t, g + ChunkSpan})) \in Requests(f, t)
      BY <2>1
    <3>6. d \in g..Min({t, g + ChunkSpan})
      BY <1>0, <1>1, <3>4
    <3> QED BY <3>5, <3>6 DEF Chunk
  <2>5. ASSUME t - f <= ChunkSpan PROVE Requests(f, t) \subseteq {Chunk(f, t)}
    <3>1. ASSUME NEW d \in starts PROVE d = f
      <4>1. d - f \in Nat /\ d - f < ChunkSpan + 1 /\ ChunkSpan + 1 \in Nat \ {0}
        BY <1>0, <2>5
      <4> QED BY <4>1, Division
    <3>2. Min({t, f + ChunkSpan}) = t
      BY <1>0, <1>1, <2>5
    <3> QED BY <2>1, <3>1, <3>2
  <2> QED BY <2>1, <2>2, <2>3, <2>4, <2>5
<1> QED BY <1>3, <1>4, <1>5

---------------------------------------------------------------------------
(* The window of a scheduled run. *)

\* The last stored day of an account that has any.
LEMMA LastDayFacts ==
    ASSUME TypeOK, NEW a \in Accounts, DaysOf(a) # {}
    PROVE  /\ LastDay(a) \in 1..(today - 1)
           /\ \A p \in stored : p[1] = a => p[2] <= LastDay(a)
           /\ \E p \in stored : p[1] = a /\ p[2] = LastDay(a)
<1>1. today \in Int /\ \A p \in stored : p[2] \in 1..(today - 1)
  BY WindowAssumption DEF WindowAssumption, TypeOK
<1>2. /\ DaysOf(a) \in SUBSET Int
      /\ \A d \in DaysOf(a) : d <= today - 1 /\ \E p \in stored : p[1] = a /\ p[2] = d
      /\ \A p \in stored : p[1] = a => p[2] \in DaysOf(a)
  <2>1. \A d : d \in DaysOf(a) <=> \E p \in stored : p[1] = a /\ p[2] = d
    BY DEF DaysOf
  <2> QED BY <1>1, <2>1
<1>3. Max(DaysOf(a)) \in DaysOf(a) /\ \A x \in DaysOf(a) : x <= Max(DaysOf(a))
  <2>1. today - 1 \in Int
    BY <1>1
  <2> QED BY <1>2, <2>1, GreatestDay
<1>4. LastDay(a) = Max(DaysOf(a))
  BY DEF LastDay
<1>5. LastDay(a) \in DaysOf(a) /\ \A x \in DaysOf(a) : x <= LastDay(a)
  BY <1>3, <1>4
<1>6. PICK p \in stored : p[1] = a /\ p[2] = LastDay(a)
  BY <1>2, <1>5
<1>7. LastDay(a) \in 1..(today - 1)
  BY <1>1, <1>6
<1>8. ASSUME NEW q \in stored, q[1] = a PROVE q[2] <= LastDay(a)
  BY <1>2, <1>5, <1>8
<1> QED BY <1>6, <1>7, <1>8

\* Where a scheduled window starts (transactions.py, trades.py): on a day, and
\* for the cash run not after the last stored day of any account that trades.
LEMMA FromFacts ==
    ASSUME TypeOK
    PROVE  /\ Yesterday \in Int /\ From \in Int
           /\ Kind = "cash" => \A a \in Traders : DaysOf(a) # {} =>
                 /\ From <= LastDay(a)
                 /\ From >= 1 \/ From = Yesterday - AtLeastOne(DefaultDays)
<1>0. /\ today \in Int /\ Yesterday \in Int /\ Traders \subseteq Accounts
      /\ InitDays \in Nat /\ DefaultDays \in Nat
      /\ AtLeastOne(InitDays) \in Nat /\ AtLeastOne(DefaultDays) \in Nat
  BY WindowAssumption DEF WindowAssumption, TypeOK, Yesterday, AtLeastOne
<1>1. ASSUME Kind # "cash" PROVE From \in Int
  <2>1. CASE stored = {}
    BY <1>0, <1>1, <2>1 DEF From, trades_from
  <2>2. CASE stored # {}
    <3> DEFINE days == {p[2] : p \in stored}
    <3>1. days \in SUBSET Int /\ days # {} /\ \A d \in days : d <= today - 1
      <4>1. \A p \in stored : p[2] \in 1..(today - 1)
        BY DEF TypeOK
      <4>2. \A n \in 1..(today - 1) : n \in Int /\ n <= today - 1
        BY <1>0
      <4> QED BY <2>2, <4>1, <4>2
    <3>2. Max(days) \in Int
      <4> HIDE DEF days
      <4>1. today - 1 \in Int
        BY <1>0
      <4> QED BY <3>1, <4>1, GreatestDay
    <3> HIDE DEF days
    <3>3. \A g \in Int : Max({0, Yesterday - g}) \in Int
      BY <1>0 DEF Max
    <3> DEFINE e == Max({0, Yesterday - Max(days)})
    <3>4. e \in Int
      BY <3>2, <3>3
    <3>5. From = Yesterday - (e + DefaultDays)
      BY <1>1, <2>2 DEF From, trades_from, days
    <3> HIDE DEF e
    <3> QED BY <1>0, <3>4, <3>5
  <2> QED BY <2>1, <2>2
<1>2. ASSUME Kind = "cash", Counted = {} PROVE From \in Int
  BY <1>0, <1>2 DEF From, transactions_from
<1>3. ASSUME Kind = "cash", Counted # {}
      PROVE  /\ From \in Int
             /\ \A a \in Counted : From <= LastDay(a)
             /\ From >= 1 \/ From = Yesterday - AtLeastOne(DefaultDays)
  <2> DEFINE D == Yesterday - AtLeastOne(DefaultDays)
             S == {LastDay(a) : a \in Counted} \cup {D}
             b == IF D < 1 THEN D ELSE 1
  <2>1. \A a \in Counted : LastDay(a) \in 1..(today - 1)
    BY LastDayFacts DEF Counted
  <2>2. D \in Int /\ b \in Int
    BY <1>0
  <2>3. From = Min(S)
    BY <1>3 DEF From, transactions_from
  <2> HIDE DEF D
  <2>4. S \in SUBSET Int /\ S # {} /\ \A x \in S : b <= x
    BY <1>0, <2>1, <2>2
  <2>5. Min(S) \in S /\ \A x \in S : Min(S) <= x
    BY <2>2, <2>4, LeastDay
  <2>6. \A x \in S : x >= 1 \/ x = D
    BY <1>0, <2>1
  <2> QED BY <2>3, <2>4, <2>5, <2>6 DEF D
<1>4. \A a \in Traders : DaysOf(a) # {} => a \in Counted
  BY <1>0 DEF Counted
<1> QED BY <1>0, <1>1, <1>2, <1>3, <1>4

---------------------------------------------------------------------------
(* Types. *)

\* A run of a job, from its first request on.
LEMMA AsksFacts ==
    ASSUME TypeOK, NEW job \in [given : BOOLEAN, from : Int, to : Int, on : Int],
           NEW f \in Int, NEW t \in Int, NEW fb \in BOOLEAN
    PROVE  Asks(job, f, t, fb) \in RunState
<1>1. today \in Int
  BY WindowAssumption DEF WindowAssumption, TypeOK
<1>2. Accounts \X Requests(f, t) \in SUBSET (Accounts \X Window)
  BY ChunkFacts
<1>3. {} \in SUBSET (Accounts \X Int)
  OBVIOUS
<1> QED BY <1>1, <1>2, <1>3 DEF Asks, RunState

\* What a step leaves typed when it moves one run.
LEMMA TypeByMove ==
    ASSUME TypeOK, NEW r \in Runners, NEW s \in RunState, s.rows \subseteq posted, Move(r, s),
           UNCHANGED <<today, posted>>, stored' \subseteq posted
    PROVE  TypeOK'
<1>1. run' = [run EXCEPT ![r] = s] /\ run \in [Runners -> RunState]
  BY DEF Move, TypeOK
<1>2. run' \in [Runners -> RunState]
  BY <1>1
<1>3. \A v \in Runners : run'[v] = IF v = r THEN s ELSE run[v]
  BY <1>1
<1>4. \A v \in Runners : run'[v].rows \subseteq posted
  BY <1>3 DEF TypeOK
<1> QED BY <1>2, <1>4 DEF TypeOK

\* The states a run moves to.
LEMMA RunTypes ==
    ASSUME NEW s \in RunState, NEW T \in SUBSET s.todo, NEW R \in SUBSET (Accounts \X Int),
           NEW pc \in {"fetch", "retry", "done"}
    PROVE  /\ [s EXCEPT !.todo = T, !.rows = R] \in RunState
           /\ [s EXCEPT !.todo = T, !.failed = TRUE] \in RunState
           /\ [s EXCEPT !.todo = T, !.widened = TRUE, !.rows = R] \in RunState
           /\ [s EXCEPT !.pc = pc, !.rows = {}] \in RunState
           /\ [s EXCEPT !.pc = "retry", !.todo = {}, !.rows = {}] \in RunState
           /\ NoRun \in RunState
<1>1. T \in SUBSET (Accounts \X Window) /\ {} \in SUBSET (Accounts \X Window)
  BY DEF RunState
<1>2. {} \in SUBSET (Accounts \X Int)
  OBVIOUS
<1>3. NoRun \in RunState
  BY <1>1, <1>2 DEF NoRun, RunState
<1>4. [s EXCEPT !.todo = T, !.rows = R] \in RunState
  BY <1>1 DEF RunState
<1>5. [s EXCEPT !.todo = T, !.failed = TRUE] \in RunState
  BY <1>1 DEF RunState
<1>6. [s EXCEPT !.todo = T, !.widened = TRUE, !.rows = R] \in RunState
  BY <1>1 DEF RunState
<1>7. [s EXCEPT !.pc = pc, !.rows = {}] \in RunState
  BY <1>2 DEF RunState
<1>8. [s EXCEPT !.pc = "retry", !.todo = {}, !.rows = {}] \in RunState
  BY <1>1, <1>2 DEF RunState
<1> QED BY <1>3, <1>4, <1>5, <1>6, <1>7, <1>8

\* The fields of those states.
LEMMA RunFields ==
    ASSUME NEW s \in RunState, NEW T, NEW R, NEW pc
    PROVE  /\ LET x == [s EXCEPT !.todo = T, !.rows = R]
              IN  /\ x.pc = s.pc /\ x.job = s.job /\ x.from = s.from /\ x.to = s.to /\ x.on = s.on
                  /\ x.fallback = s.fallback /\ x.todo = T /\ x.rows = R
                  /\ x.failed = s.failed /\ x.widened = s.widened
           /\ LET x == [s EXCEPT !.todo = T, !.failed = TRUE]
              IN  /\ x.pc = s.pc /\ x.job = s.job /\ x.from = s.from /\ x.to = s.to /\ x.on = s.on
                  /\ x.fallback = s.fallback /\ x.todo = T /\ x.rows = s.rows
                  /\ x.failed = TRUE /\ x.widened = s.widened
           /\ LET x == [s EXCEPT !.todo = T, !.widened = TRUE, !.rows = R]
              IN  /\ x.pc = s.pc /\ x.job = s.job /\ x.from = s.from /\ x.to = s.to /\ x.on = s.on
                  /\ x.fallback = s.fallback /\ x.todo = T /\ x.rows = R
                  /\ x.failed = s.failed /\ x.widened = TRUE
           /\ LET x == [s EXCEPT !.pc = pc, !.rows = {}]
              IN  /\ x.pc = pc /\ x.job = s.job /\ x.from = s.from /\ x.to = s.to /\ x.on = s.on
                  /\ x.fallback = s.fallback /\ x.rows = {}
                  /\ x.failed = s.failed /\ x.widened = s.widened
           /\ LET x == [s EXCEPT !.pc = "retry", !.todo = {}, !.rows = {}]
              IN  /\ x.pc = "retry" /\ x.job = s.job /\ x.on = s.on
                  /\ x.fallback = s.fallback /\ x.rows = {} /\ x.widened = s.widened
BY DEF RunState

\* Before the first run.
LEMMA TypeInit == Init => TypeOK
<1> SUFFICES ASSUME Init PROVE TypeOK
  OBVIOUS
<1>1. NoRun \in RunState /\ NoRun.rows = {}
  BY DEF NoRun, RunState
<1>2. FirstDay \in 2..MaxToday /\ MaxToday \in Nat /\ today = FirstDay
  BY WindowAssumption DEF WindowAssumption, Init
<1>3. today \in FirstDay..MaxToday /\ 1 \in 1..(today - 1)
  BY <1>2
<1>4. posted = Accounts \X (1..(today - 1))
  BY <1>2 DEF Init
<1>5. stored \subseteq posted
  BY <1>3, <1>4 DEF Init
<1>6. run \in [Runners -> RunState] /\ \A r \in Runners : run[r].rows \subseteq posted
  BY <1>1 DEF Init
<1> QED BY <1>3, <1>4, <1>5, <1>6 DEF TypeOK

\* Every step keeps the types.
LEMMA TypeNext == TypeOK /\ [Next]_vars => TypeOK'
<1> SUFFICES ASSUME TypeOK, Next PROVE TypeOK'
  BY DEF vars, TypeOK
<1>0. /\ today \in Int /\ posted \subseteq Accounts \X Int /\ stored \subseteq posted
      /\ \A r \in Runners : /\ run[r] \in RunState /\ run[r].rows \subseteq posted
                            /\ run[r].rows \in SUBSET (Accounts \X Int)
  <2>1. today \in Int
    BY WindowAssumption DEF WindowAssumption, TypeOK
  <2>2. \A n \in 1..(today - 1) : n \in Int
    OBVIOUS
  <2> QED BY <2>1, <2>2 DEF TypeOK
<1>1. ASSUME NEW r \in Runners, NEW job \in [given : BOOLEAN, from : Int, to : Int, on : Int],
             NEW f \in Int, NEW t \in Int, NEW fb \in BOOLEAN,
             Move(r, Asks(job, f, t, fb)), UNCHANGED <<today, posted, stored>>
      PROVE  TypeOK'
  <2>1. Asks(job, f, t, fb).rows = {}
    BY DEF Asks
  <2> QED BY <1>0, <1>1, <2>1, AsksFacts, TypeByMove
<1>2. ASSUME NEW r \in Runners, NEW fb \in Fallbacks, StartScheduled(r, fb) PROVE TypeOK'
  <2>0. fb \in BOOLEAN
    BY WindowAssumption DEF WindowAssumption
  <2>1. Job(FALSE, From, Yesterday) \in [given : BOOLEAN, from : Int, to : Int, on : Int]
    BY <1>0, FromFacts DEF Job
  <2> QED BY <1>1, <1>2, <2>0, <2>1, FromFacts DEF StartScheduled
<1>3. ASSUME NEW r \in Runners, NEW w \in Explicit, NEW fb \in Fallbacks, StartExplicit(r, w, fb)
      PROVE  TypeOK'
  <2>1. w.from \in Int /\ w.to \in Int /\ fb \in BOOLEAN
    BY WindowAssumption DEF WindowAssumption
  <2>2. Job(TRUE, w.from, w.to) \in [given : BOOLEAN, from : Int, to : Int, on : Int]
    BY <1>0, <2>1 DEF Job
  <2> QED BY <1>1, <1>3, <2>1, <2>2 DEF StartExplicit
<1>4. ASSUME NEW r \in Runners, Retry(r) PROVE TypeOK'
  <2>1. /\ run[r].job \in [given : BOOLEAN, from : Int, to : Int, on : Int]
        /\ run[r].job.from \in Int /\ run[r].job.to \in Int /\ run[r].fallback \in BOOLEAN
    BY <1>0 DEF RunState
  <2>2. CASE run[r].job.given
    BY <1>1, <1>4, <2>1, <2>2 DEF Retry
  <2>3. CASE ~run[r].job.given
    BY <1>1, <1>4, <2>1, <2>3, FromFacts DEF Retry
  <2> QED BY <2>2, <2>3
<1>5. ASSUME NEW r \in Runners, NEW x \in run[r].todo, NEW R \in SUBSET posted,
             Move(r, [run[r] EXCEPT !.todo = run[r].todo \ {x}, !.rows = run[r].rows \cup R]),
             UNCHANGED <<today, posted, stored>>
      PROVE  TypeOK'
  <2> DEFINE s == [run[r] EXCEPT !.todo = run[r].todo \ {x}, !.rows = run[r].rows \cup R]
  <2>1. s \in RunState /\ s.rows = run[r].rows \cup R
    <3>1. /\ run[r].todo \ {x} \in SUBSET run[r].todo
          /\ run[r].rows \cup R \in SUBSET (Accounts \X Int)
      BY <1>0
    <3>2. s \in RunState
      BY <1>0, <3>1, RunTypes
    <3> QED BY <1>0, <3>2, RunFields
  <2> HIDE DEF s
  <2> QED BY <1>0, <1>5, <2>1, TypeByMove DEF s
<1>6. ASSUME NEW r \in Runners, FetchOk(r) PROVE TypeOK'
  <2>1. \A a, f, t : Reported(a, f, t) \in SUBSET posted
    BY DEF Reported
  <2> QED BY <1>5, <1>6, <2>1 DEF FetchOk
<1>7. ASSUME NEW r \in Runners, FetchFails(r) PROVE TypeOK'
  <2>1. PICK x \in run[r].todo : Move(r, [run[r] EXCEPT !.todo = run[r].todo \ {x}, !.failed = TRUE])
    BY <1>7 DEF FetchFails
  <2> DEFINE s == [run[r] EXCEPT !.todo = run[r].todo \ {x}, !.failed = TRUE]
  <2>2. s \in RunState /\ s.rows = run[r].rows
    <3>1. /\ run[r].todo \ {x} \in SUBSET run[r].todo
          /\ {} \in SUBSET (Accounts \X Int)
      OBVIOUS
    <3>2. s \in RunState
      BY <1>0, <3>1, RunTypes
    <3> QED BY <1>0, <3>2, RunFields
  <2> HIDE DEF s
  <2> QED BY <1>0, <1>7, <2>1, <2>2, TypeByMove DEF s, FetchFails
<1>8. ASSUME NEW r \in Runners, FetchWidened(r) PROVE TypeOK'
  <2>1. PICK x \in run[r].todo :
           Move(r, [run[r] EXCEPT !.todo = run[r].todo \ {x}, !.widened = TRUE,
                      !.rows = run[r].rows \cup Reported(x[1], today - QueryDays, Yesterday)])
    BY <1>8 DEF FetchWidened
  <2> DEFINE R == run[r].rows \cup Reported(x[1], today - QueryDays, Yesterday)
             s == [run[r] EXCEPT !.todo = run[r].todo \ {x}, !.widened = TRUE, !.rows = R]
  <2>2. R \subseteq posted
    BY <1>0 DEF Reported
  <2>3. s \in RunState /\ s.rows = R
    <3>1. run[r].todo \ {x} \in SUBSET run[r].todo /\ R \in SUBSET (Accounts \X Int)
      BY <1>0, <2>2
    <3> HIDE DEF R
    <3>2. s \in RunState
      BY <1>0, <3>1, RunTypes
    <3> QED BY <1>0, <3>2, RunFields
  <2> HIDE DEF R, s
  <2> QED BY <1>0, <1>8, <2>1, <2>2, <2>3, TypeByMove DEF s, R, FetchWidened
<1>9. ASSUME NEW r \in Runners, NEW pc \in {"retry", "done"},
             Move(r, [run[r] EXCEPT !.pc = pc, !.rows = {}]), stored' = stored \cup run[r].rows,
             UNCHANGED <<today, posted>>
      PROVE  TypeOK'
  <2> DEFINE s == [run[r] EXCEPT !.pc = pc, !.rows = {}]
  <2>1. s \in RunState /\ s.rows = {}
    BY <1>0, RunTypes, RunFields
  <2> HIDE DEF s
  <2> QED BY <1>0, <1>9, <2>1, TypeByMove DEF s
<1>10. ASSUME NEW r \in Runners, Write(r) \/ WrittenButRaises(r) PROVE TypeOK'
  BY <1>9, <1>10 DEF Write, WrittenButRaises
<1>11. ASSUME NEW r \in Runners, Aborts(r) PROVE TypeOK'
  <2> DEFINE s == [run[r] EXCEPT !.pc = "retry", !.todo = {}, !.rows = {}]
  <2>1. s \in RunState /\ s.rows = {}
    BY <1>0, RunTypes, RunFields
  <2> HIDE DEF s
  <2> QED BY <1>0, <1>11, <2>1, TypeByMove DEF s, Aborts
<1>12. ASSUME NEW r \in Runners, Finish(r) PROVE TypeOK'
  <2>1. NoRun \in RunState /\ NoRun.rows = {}
    BY DEF NoRun, RunState
  <2> QED BY <1>0, <1>12, <2>1, TypeByMove DEF Finish
<1>13. CASE NewDay
  <2>1. PICK active \in SUBSET Accounts : posted' = posted \cup (active \X {today})
    BY <1>13 DEF NewDay
  <2>2. /\ today' = today + 1 /\ today' \in FirstDay..MaxToday /\ today \in 1..(today' - 1)
        /\ 1..(today - 1) \subseteq 1..(today' - 1)
    BY <1>13, WindowAssumption DEF WindowAssumption, NewDay, TypeOK
  <2>3. posted' \subseteq Accounts \X (1..(today' - 1))
    BY <2>1, <2>2 DEF TypeOK
  <2> QED BY <1>13, <2>1, <2>2, <2>3 DEF NewDay, TypeOK
<1> QED BY <1>2, <1>3, <1>4, <1>6, <1>7, <1>8, <1>10, <1>11, <1>12, <1>13
        DEF Next, RunStep, RunFault

\* Types of the run, for any window and any number of runs: in particular every
\* row on its way to the table is one that IB posted.
THEOREM RunsTyped == Spec => []TypeOK
BY TypeInit, TypeNext, PTL DEF Spec

---------------------------------------------------------------------------
(* What a step may do to a run. *)

JobType == [given : BOOLEAN, from : Int, to : Int, on : Int]

\* A run starts or tries again: the scheduled window as it is now, or the one
\* of the payload.
Opened(r) ==
    /\ run[r].pc \in {"idle", "retry"}
    /\ \E job \in JobType, f \in Int, t \in Int, fb \in BOOLEAN :
          /\ run'[r] = Asks(job, f, t, fb)
          /\ \/ /\ f = From /\ t = Yesterday /\ (fb \in Fallbacks \/ fb = run[r].fallback)
                /\ job = Job(FALSE, From, Yesterday) \/ (run[r].pc = "retry" /\ job = run[r].job)
             \/ job.given /\ (Explicit # {} \/ job = run[r].job)
    /\ UNCHANGED <<today, posted, stored>>

\* A request is answered, fails, or is answered for another period.
Answered(r) ==
    /\ run[r].pc = "fetch"
    /\ \E x \in run[r].todo :
          run'[r] = [run[r] EXCEPT !.todo = run[r].todo \ {x},
                                   !.rows = run[r].rows \cup Reported(x[1], x[2].from, x[2].to)]
    /\ UNCHANGED <<today, posted, stored>>
Refused(r) ==
    /\ run[r].pc = "fetch"
    /\ \E x \in run[r].todo :
          run'[r] = [run[r] EXCEPT !.todo = run[r].todo \ {x}, !.failed = TRUE]
    /\ UNCHANGED <<today, posted, stored>>
Widened(r) ==
    /\ run[r].pc = "fetch" /\ run[r].fallback
    /\ \E x \in run[r].todo, R \in SUBSET posted :
          run'[r] = [run[r] EXCEPT !.todo = run[r].todo \ {x}, !.widened = TRUE,
                                   !.rows = run[r].rows \cup R]
    /\ UNCHANGED <<today, posted, stored>>

\* Everything fetched is stored; the run is done if no request failed.
Stored(r) ==
    /\ run[r].pc = "fetch" /\ run[r].todo = {}
    /\ stored' = stored \cup run[r].rows
    /\ \E pc \in {"retry", "done"} :
          /\ run'[r] = [run[r] EXCEPT !.pc = pc, !.rows = {}]
          /\ pc = "done" => ~run[r].failed
    /\ UNCHANGED <<today, posted>>

\* The run is given up, for now or for good.
Dropped(r) ==
    /\ \/ run'[r] = [run[r] EXCEPT !.pc = "retry", !.todo = {}, !.rows = {}]
       \/ run'[r] = NoRun
    /\ UNCHANGED <<today, posted, stored>>

RunMove(r) ==
    Opened(r) \/ Answered(r) \/ Refused(r) \/ Widened(r) \/ Stored(r) \/ Dropped(r)

\* Every step is midnight, or a move of one run that leaves the others alone.
LEMMA OneRunMoves ==
    ASSUME TypeOK, Next
    PROVE  \/ NewDay
           \/ \E r \in Runners : RunMove(r) /\ \A v \in Runners \ {r} : run'[v] = run[v]
<1>0. today \in Int /\ \A r \in Runners : run[r] \in RunState
  BY WindowAssumption DEF WindowAssumption, TypeOK
<1>1. ASSUME NEW r \in Runners, NEW s, Move(r, s)
      PROVE  run'[r] = s /\ \A v \in Runners \ {r} : run'[v] = run[v]
  BY <1>1 DEF Move, TypeOK
<1>2. ASSUME NEW r \in Runners, NEW fb \in Fallbacks, StartScheduled(r, fb) PROVE RunMove(r)
  <2>1. /\ Job(FALSE, From, Yesterday) \in JobType /\ From \in Int /\ Yesterday \in Int
        /\ fb \in BOOLEAN
    BY <1>0, FromFacts, WindowAssumption DEF WindowAssumption, Job, JobType
  <2>2. run'[r] = Asks(Job(FALSE, From, Yesterday), From, Yesterday, fb)
    BY <1>1, <1>2 DEF StartScheduled
  <2> QED BY <1>2, <2>1, <2>2 DEF StartScheduled, RunMove, Opened
<1>3. ASSUME NEW r \in Runners, NEW w \in Explicit, NEW fb \in Fallbacks, StartExplicit(r, w, fb)
      PROVE  RunMove(r)
  <2>1. w.from \in Int /\ w.to \in Int /\ fb \in BOOLEAN
    BY WindowAssumption DEF WindowAssumption
  <2>2. Job(TRUE, w.from, w.to) \in JobType /\ Job(TRUE, w.from, w.to).given
    BY <1>0, <2>1 DEF Job, JobType
  <2>3. run'[r] = Asks(Job(TRUE, w.from, w.to), w.from, w.to, fb)
    BY <1>1, <1>3 DEF StartExplicit
  <2> QED BY <1>3, <2>1, <2>2, <2>3 DEF StartExplicit, RunMove, Opened
<1>4. ASSUME NEW r \in Runners, Retry(r) PROVE RunMove(r)
  <2>1. /\ run[r].job \in JobType
        /\ run[r].job.from \in Int /\ run[r].job.to \in Int /\ run[r].fallback \in BOOLEAN
    BY <1>0 DEF RunState, JobType
  <2>2. CASE run[r].job.given
    <3>1. run'[r] = Asks(run[r].job, run[r].job.from, run[r].job.to, run[r].fallback)
      BY <1>1, <1>4, <2>2 DEF Retry
    <3>2. run[r].pc = "retry" /\ UNCHANGED <<today, posted, stored>>
      BY <1>4 DEF Retry
    <3>3. Opened(r)
      BY <2>1, <2>2, <3>1, <3>2, Zenon DEF Opened
    <3> QED BY <3>3 DEF RunMove
  <2>3. CASE ~run[r].job.given
    <3>1. run'[r] = Asks(run[r].job, From, Yesterday, run[r].fallback)
      BY <1>1, <1>4, <2>3 DEF Retry
    <3>2. run[r].pc = "retry" /\ UNCHANGED <<today, posted, stored>>
      BY <1>4 DEF Retry
    <3>3. From \in Int /\ Yesterday \in Int
      BY FromFacts
    <3>4. Opened(r)
      BY <2>1, <3>1, <3>2, <3>3, Zenon DEF Opened
    <3> QED BY <3>4 DEF RunMove
  <2> QED BY <2>2, <2>3
<1>5. ASSUME NEW r \in Runners, FetchOk(r) PROVE RunMove(r)
  BY <1>1, <1>5 DEF FetchOk, RunMove, Answered
<1>6. ASSUME NEW r \in Runners, FetchFails(r) PROVE RunMove(r)
  BY <1>1, <1>6 DEF FetchFails, RunMove, Refused
<1>7. ASSUME NEW r \in Runners, FetchWidened(r) PROVE RunMove(r)
  <2>1. \A a, f, t : Reported(a, f, t) \in SUBSET posted
    BY DEF Reported
  <2>2. PICK x \in run[r].todo :
           run'[r] = [run[r] EXCEPT !.todo = run[r].todo \ {x}, !.widened = TRUE,
                        !.rows = run[r].rows \cup Reported(x[1], today - QueryDays, Yesterday)]
    BY <1>1, <1>7 DEF FetchWidened
  <2> QED BY <1>7, <2>1, <2>2 DEF FetchWidened, RunMove, Widened
<1>8. ASSUME NEW r \in Runners, Write(r) PROVE RunMove(r)
  <2>1. CASE run[r].failed
    <3>1. run'[r] = [run[r] EXCEPT !.pc = "retry", !.rows = {}]
      BY <1>1, <1>8, <2>1 DEF Write
    <3> QED BY <1>8, <3>1 DEF Write, RunMove, Stored
  <2>2. CASE ~run[r].failed
    <3>1. run'[r] = [run[r] EXCEPT !.pc = "done", !.rows = {}]
      BY <1>1, <1>8, <2>2 DEF Write
    <3> QED BY <1>8, <2>2, <3>1 DEF Write, RunMove, Stored
  <2> QED BY <2>1, <2>2
<1>9. ASSUME NEW r \in Runners, WrittenButRaises(r) PROVE RunMove(r)
  BY <1>1, <1>9 DEF WrittenButRaises, RunMove, Stored
<1>10. ASSUME NEW r \in Runners, Aborts(r) PROVE RunMove(r)
  BY <1>1, <1>10 DEF Aborts, RunMove, Dropped
<1>11. ASSUME NEW r \in Runners, Finish(r) PROVE RunMove(r)
  BY <1>1, <1>11 DEF Finish, RunMove, Dropped
<1>12. ASSUME NEW r \in Runners,
              \/ RunStep(r) \/ RunFault(r) \/ FetchWidened(r)
              \/ \E w \in Explicit, fb \in Fallbacks : StartExplicit(r, w, fb)
       PROVE  \A v \in Runners \ {r} : run'[v] = run[v]
  BY <1>1, <1>12 DEF RunStep, RunFault, StartScheduled, StartExplicit, Retry, FetchOk, FetchFails,
     FetchWidened, Write, WrittenButRaises, Aborts, Finish
<1> QED BY <1>2, <1>3, <1>4, <1>5, <1>6, <1>7, <1>8, <1>9, <1>10, <1>11, <1>12
        DEF Next, RunStep, RunFault

---------------------------------------------------------------------------
(* No request is longer than IB takes. *)

\* One step keeps it: chunks are cut when a run opens, and then only used up.
LEMMA AcceptedStep ==
    ASSUME TypeOK, RequestsAccepted, Next, Kind = "cash"
    PROVE  RequestsAccepted'
<1>0. \A r \in Runners : run[r] \in RunState
  BY DEF TypeOK
<1>1. ASSUME NEW r \in Runners, RunMove(r), NEW x \in run'[r].todo
      PROVE  x[2].to - x[2].from <= IbSpan
  <2>1. CASE Opened(r)
    <3>1. PICK f \in Int, t \in Int : run'[r].todo = Accounts \X Requests(f, t)
      BY <2>1 DEF Opened, Asks
    <3>2. x[2] \in Requests(f, t)
      BY <1>1, <3>1
    <3>3. x[2].to - x[2].from <= ChunkSpan /\ x[2] \in Window
      BY <3>2, ChunkFacts
    <3> QED BY <3>3, WindowAssumption DEF WindowAssumption, Window
  <2>2. CASE run'[r].todo \subseteq run[r].todo
    BY <1>1, <2>2 DEF RequestsAccepted
  <2>3. Answered(r) \/ Refused(r) \/ Widened(r) => run'[r].todo \subseteq run[r].todo
    <3>1. ASSUME NEW y \in run[r].todo, NEW R
          PROVE  /\ [run[r] EXCEPT !.todo = run[r].todo \ {y}, !.rows = R].todo \subseteq run[r].todo
                 /\ [run[r] EXCEPT !.todo = run[r].todo \ {y}, !.failed = TRUE].todo \subseteq run[r].todo
                 /\ [run[r] EXCEPT !.todo = run[r].todo \ {y}, !.widened = TRUE, !.rows = R].todo
                        \subseteq run[r].todo
      BY <1>0, RunFields
    <3> QED BY <3>1 DEF Answered, Refused, Widened
  <2>4. Stored(r) \/ Dropped(r) => run'[r].todo \subseteq run[r].todo
    <3>1. /\ \A pc : [run[r] EXCEPT !.pc = pc, !.rows = {}].todo = run[r].todo
          /\ [run[r] EXCEPT !.pc = "retry", !.todo = {}, !.rows = {}].todo = {}
          /\ NoRun.todo = {}
      BY <1>0 DEF NoRun, RunState
    <3> QED BY <3>1 DEF Stored, Dropped
  <2> QED BY <1>1, <2>1, <2>2, <2>3, <2>4 DEF RunMove
<1>2. CASE NewDay
  BY <1>2 DEF NewDay, RequestsAccepted
<1>3. ASSUME NEW r \in Runners, RunMove(r), \A v \in Runners \ {r} : run'[v] = run[v]
      PROVE  RequestsAccepted'
  BY <1>1, <1>3 DEF RequestsAccepted
<1> QED BY <1>2, <1>3, OneRunMoves

\* Whatever window a cash run is asked for, and however long an outage made it,
\* no request it sends spans more than IB takes (split_window, MAX_FLEX_DAYS).
THEOREM CashRequestsAccepted == ASSUME Kind = "cash" PROVE Spec => []RequestsAccepted
<1>1. Init => RequestsAccepted
  BY DEF Init, RequestsAccepted, NoRun
<1>2. TypeOK /\ RequestsAccepted /\ [Next]_vars => RequestsAccepted'
  <2>1. RequestsAccepted /\ UNCHANGED vars => RequestsAccepted'
    BY DEF vars, RequestsAccepted
  <2> QED BY <2>1, AcceptedStep
<1> QED BY <1>1, <1>2, RunsTyped, PTL DEF Spec

---------------------------------------------------------------------------
(* A clean run covers its window. *)

\* A posted row that the run has fetched, or has a request out for.
Covered(s, p) ==
    p \in s.rows \/ \E x \in s.todo : p[1] = x[1] /\ p[2] \in x[2].from..x[2].to

\* CleanRunCovers, and what makes it inductive: a run without an error yet has
\* covered its window with rows and requests, and no run is from the future.
Covers(s) ==
    /\ s.on <= today
    /\ (s.pc = "fetch" /\ ~s.failed /\ ~s.widened) => \A p \in InWindow(s) : Covered(s, p)
    /\ (s.pc = "done" /\ ~s.widened) => InWindow(s) \subseteq stored
CoverInv == \A r \in Runners : Covers(run[r])

\* A run that opens covers its window with requests.
LEMMA OpenCovers ==
    ASSUME TypeOK, NEW job, NEW f \in Int, NEW t \in Int, NEW fb,
           NEW p \in posted, p[2] \in f..t
    PROVE  Covered(Asks(job, f, t, fb), p)
<1>1. p[1] \in Accounts
  BY DEF TypeOK
<1>2. PICK c \in Requests(f, t) : p[2] \in c.from..c.to
  BY ChunkFacts
<1>3. Asks(job, f, t, fb).todo = Accounts \X Requests(f, t)
  BY DEF Asks
<1>4. <<p[1], c>> \in Asks(job, f, t, fb).todo /\ <<p[1], c>>[1] = p[1] /\ <<p[1], c>>[2] = c
  BY <1>1, <1>3
<1> QED BY <1>2, <1>4 DEF Covered

\* The move of one run keeps its own part of the invariant.
LEMMA MoveCovers ==
    ASSUME TypeOK, CoverInv, NEW r \in Runners, RunMove(r)
    PROVE  /\ run'[r].on <= today'
           /\ (run'[r].pc = "fetch" /\ ~run'[r].failed /\ ~run'[r].widened) =>
                 \A p \in InWindow(run[r])' : Covered(run[r], p)'
           /\ (run'[r].pc = "done" /\ ~run'[r].widened) => InWindow(run[r])' \subseteq stored'
<1> DEFINE s == run[r]
<1>0. /\ s \in RunState /\ Covers(s) /\ today \in Int /\ today > 0 /\ s.on \in Int
      /\ today' = today /\ posted' = posted
  <2>1. today \in Int /\ today > 0
    BY WindowAssumption DEF WindowAssumption, TypeOK
  <2>2. s \in RunState /\ s.on \in Int
    BY DEF TypeOK, RunState
  <2>3. today' = today /\ posted' = posted
    BY DEF RunMove, Opened, Answered, Refused, Widened, Stored, Dropped
  <2> QED BY <2>1, <2>2, <2>3 DEF CoverInv
<1>w. \A x, p : p \in InWindow(x) <=> p \in posted /\ p[2] \in x.from..x.to /\ p[2] < x.on
  BY DEF InWindow
<1>v. \A p : p \in InWindow(run[r])' <=>
                p \in posted /\ p[2] \in run'[r].from..run'[r].to /\ p[2] < run'[r].on
  BY <1>0 DEF InWindow
<1>1. CASE Opened(r)
  <2>1. PICK job \in JobType, f \in Int, t \in Int, fb \in BOOLEAN : run'[r] = Asks(job, f, t, fb)
    BY <1>1 DEF Opened
  <2>2. run'[r].from = f /\ run'[r].to = t /\ run'[r].on = today /\ run'[r].pc = "fetch"
    BY <2>1 DEF Asks
  <2>3. ASSUME NEW p \in InWindow(run[r])' PROVE Covered(run[r], p)'
    <3>1. p \in posted /\ p[2] \in f..t
      BY <1>v, <2>2, <2>3
    <3>2. Covered(Asks(job, f, t, fb), p)
      BY <3>1, OpenCovers
    <3> QED BY <2>1, <3>2 DEF Covered
  <2> QED BY <1>0, <2>2, <2>3
<1>2. CASE Answered(r)
  <2>1. PICK x \in s.todo :
           run'[r] = [s EXCEPT !.todo = s.todo \ {x},
                               !.rows = s.rows \cup Reported(x[1], x[2].from, x[2].to)]
    BY <1>2 DEF Answered
  <2>2. /\ run'[r].pc = s.pc /\ run'[r].from = s.from /\ run'[r].to = s.to /\ run'[r].on = s.on
        /\ run'[r].failed = s.failed /\ run'[r].widened = s.widened
        /\ run'[r].todo = s.todo \ {x}
        /\ run'[r].rows = s.rows \cup Reported(x[1], x[2].from, x[2].to)
    BY <1>0, <2>1, RunFields
  <2>3. s.pc = "fetch"
    BY <1>2 DEF Answered
  <2>4. ASSUME ~s.failed, ~s.widened, NEW p \in InWindow(run[r])' PROVE Covered(run[r], p)'
    <3>1. p \in posted /\ p \in InWindow(s)
      BY <1>w, <1>v, <2>2, <2>4
    <3>2. Covered(s, p)
      BY <1>0, <2>3, <2>4, <3>1 DEF Covers
    <3>3. CASE p \in s.rows
      BY <2>2, <3>3 DEF Covered
    <3>4. CASE p[1] = x[1] /\ p[2] \in x[2].from..x[2].to
      BY <2>2, <3>1, <3>4 DEF Covered, Reported
    <3>5. CASE \E y \in s.todo \ {x} : p[1] = y[1] /\ p[2] \in y[2].from..y[2].to
      BY <2>2, <3>5 DEF Covered
    <3> QED BY <3>2, <3>3, <3>4, <3>5 DEF Covered
  <2> QED BY <1>0, <2>2, <2>3, <2>4 DEF Covers
<1>3. CASE Refused(r)
  <2>1. PICK x \in s.todo : run'[r] = [s EXCEPT !.todo = s.todo \ {x}, !.failed = TRUE]
    BY <1>3 DEF Refused
  <2>2. run'[r].pc = s.pc /\ run'[r].on = s.on /\ run'[r].failed = TRUE /\ s.pc = "fetch"
    BY <1>0, <1>3, <2>1, RunFields DEF Refused
  <2> QED BY <1>0, <2>2 DEF Covers
<1>4. CASE Widened(r)
  <2>1. PICK x \in s.todo, R \in SUBSET posted :
           run'[r] = [s EXCEPT !.todo = s.todo \ {x}, !.widened = TRUE, !.rows = s.rows \cup R]
    BY <1>4 DEF Widened
  <2>2. run'[r].on = s.on /\ run'[r].widened = TRUE
    BY <1>0, <2>1, RunFields
  <2> QED BY <1>0, <2>2 DEF Covers
<1>5. CASE Stored(r)
  <2>1. PICK pc \in {"retry", "done"} :
          run'[r] = [s EXCEPT !.pc = pc, !.rows = {}] /\ (pc = "done" => ~s.failed)
    BY <1>5 DEF Stored
  <2>2. /\ run'[r].pc = pc /\ run'[r].from = s.from /\ run'[r].to = s.to /\ run'[r].on = s.on
        /\ run'[r].widened = s.widened
    BY <1>0, <2>1, RunFields
  <2>3. ASSUME pc = "done", ~s.widened, NEW p \in InWindow(run[r])' PROVE p \in stored'
    <3>1. p \in InWindow(s)
      BY <1>w, <1>v, <2>2, <2>3
    <3>2. Covered(s, p) /\ s.todo = {} /\ stored' = stored \cup s.rows
      BY <1>0, <1>5, <2>1, <2>3, <3>1 DEF Covers, Stored
    <3> QED BY <3>2 DEF Covered
  <2> QED BY <1>0, <2>2, <2>3 DEF Covers
<1>6. CASE Dropped(r)
  <2>1. run'[r].pc \in {"retry", "idle"} /\ run'[r].on \in {0, s.on}
    <3>1. NoRun.pc = "idle" /\ NoRun.on = 0
      BY DEF NoRun
    <3>2. LET x == [s EXCEPT !.pc = "retry", !.todo = {}, !.rows = {}]
          IN  x.pc = "retry" /\ x.on = s.on
      BY <1>0, RunFields
    <3> QED BY <1>6, <3>1, <3>2 DEF Dropped
  <2> QED BY <1>0, <2>1 DEF Covers
<1> QED BY <1>1, <1>2, <1>3, <1>4, <1>5, <1>6 DEF RunMove

\* What midnight leaves of a window: the day that ends is not in any.
LEMMA MidnightCovers ==
    ASSUME TypeOK, CoverInv, NewDay, NEW r \in Runners
    PROVE  /\ run' = run /\ stored' = stored /\ today' = today + 1
           /\ InWindow(run[r])' = InWindow(run[r])
<1>1. run' = run /\ stored' = stored /\ today' = today + 1
  BY DEF NewDay
<1>2. today \in Int /\ run[r].on \in Int /\ run[r].on <= today
  <2>1. today \in Int /\ run[r] \in RunState
    BY WindowAssumption DEF WindowAssumption, TypeOK
  <2> QED BY <2>1 DEF CoverInv, Covers, RunState
<1>3. PICK active \in SUBSET Accounts : posted' = posted \cup (active \X {today})
  BY DEF NewDay
<1>4. \A p : p \in posted' <=> p \in posted \/ p \in active \X {today}
  BY <1>3
<1>5. \A p \in active \X {today} : p[2] = today
  OBVIOUS
<1>6. \A p \in active \X {today} : ~(p[2] < run[r].on)
  BY <1>2, <1>5
<1>7. InWindow(run[r])' = InWindow(run[r])
  BY <1>1, <1>4, <1>6 DEF InWindow
<1> QED BY <1>1, <1>7

\* One step keeps CoverInv.
LEMMA CoverStep ==
    ASSUME TypeOK, CoverInv, Next
    PROVE  CoverInv'
<1>0. today \in Int /\ \A r \in Runners : run[r].on \in Int
  BY WindowAssumption DEF WindowAssumption, TypeOK, RunState
<1>1. CASE NewDay
  <2>1. ASSUME NEW r \in Runners PROVE Covers(run[r])'
    <3>1. /\ run' = run /\ stored' = stored /\ today' = today + 1
          /\ InWindow(run[r])' = InWindow(run[r])
      BY <1>1, MidnightCovers
    <3>2. Covers(run[r]) /\ run[r].on <= today'
      BY <1>0, <3>1 DEF CoverInv, Covers
    <3> QED BY <3>1, <3>2 DEF Covers, Covered
  <2> QED BY <2>1 DEF CoverInv
<1>2. ASSUME NEW r \in Runners, RunMove(r), \A v \in Runners \ {r} : run'[v] = run[v]
      PROVE  CoverInv'
  <2>1. today' = today /\ posted' = posted /\ stored \subseteq stored'
    BY <1>2 DEF RunMove, Opened, Answered, Refused, Widened, Stored, Dropped
  <2>2. ASSUME NEW v \in Runners, v # r PROVE Covers(run[v])'
    <3>1. run'[v] = run[v] /\ Covers(run[v])
      BY <1>2, <2>2 DEF CoverInv
    <3>2. InWindow(run[v])' = InWindow(run[v])
      BY <2>1, <3>1 DEF InWindow
    <3> QED BY <2>1, <3>1, <3>2 DEF Covers, Covered
  <2>3. Covers(run[r])'
    BY <1>2, MoveCovers DEF Covers
  <2> QED BY <2>2, <2>3 DEF CoverInv
<1> QED BY <1>1, <1>2, OneRunMoves

\* CoverInv holds of every reachable state.
LEMMA CoverHolds == Spec => []CoverInv
<1>1. Init => CoverInv
  BY WindowAssumption DEF WindowAssumption, Init, CoverInv, Covers, NoRun
<1>2. TypeOK /\ CoverInv /\ [Next]_vars => CoverInv'
  <2>1. CoverInv /\ UNCHANGED vars => CoverInv'
    BY DEF vars, CoverInv, Covers, Covered, InWindow
  <2> QED BY <2>1, CoverStep
<1> QED BY <1>1, <1>2, RunsTyped, PTL DEF Spec

\* A run that the handler takes for a success (handlers.py, _require_ok) has
\* stored what IB had of its window for every account, into however many chunks
\* the window was cut and whatever other runs and midnights came in between.
THEOREM CleanRunsCover == Spec => []CleanRunCovers
<1>1. CoverInv => CleanRunCovers
  BY DEF CoverInv, Covers, CleanRunCovers
<1> QED BY <1>1, CoverHolds, PTL

---------------------------------------------------------------------------
(* The cash run leaves no hole. *)

\* The slots alone ask for windows, none with fallback, and the first day is stored.
ScheduledCash == Kind = "cash" /\ Explicit = {} /\ Fallbacks = {FALSE} /\ Seeded

\* The window a cash run would ask for now fits one request.  When it does not, a
\* later chunk may be stored while an earlier one failed.
WindowFits == Yesterday - From <= ChunkSpan

\* Constants under which it always does: neither the days since the first one nor
\* the overlap are longer than a chunk.
ShortWindows ==
    /\ MaxToday - 2 <= ChunkSpan
    /\ AtLeastOne(DefaultDays) <= ChunkSpan

\* A run in progress asks each account for one window that reaches back to what
\* every trading account has, and holds all of an account's rows in it or none.
Whole(s) ==
    /\ s.job.given = FALSE /\ s.fallback = FALSE /\ s.widened = FALSE
    /\ s.job.on <= today
    /\ s.pc \in {"fetch", "done"} =>
          /\ s.to = s.on - 1 /\ s.job.on <= s.on
          /\ \A a \in Traders : s.from <= LastDay(a)
    /\ (s.pc = "fetch" /\ Traders # {}) =>
          /\ \A x \in s.todo : x[2] = Chunk(s.from, s.to)
          /\ \A p \in s.rows : /\ p[2] \in s.from..s.to
                               /\ \A q \in InWindow(s) : q[1] = p[1] => q \in s.rows

\* NoGap, and what makes it inductive.
GapInv ==
    /\ \A a \in Traders : DaysOf(a) # {}
    /\ NoGap
    /\ \A r \in Runners : Whole(run[r])

\* The last stored day after a step, as LastDayFacts has it before.
LEMMA LastDayThen ==
    ASSUME TypeOK, TypeOK', NEW a \in Accounts, DaysOf(a) # {}, stored \subseteq stored'
    PROVE  /\ DaysOf(a)' # {} /\ LastDay(a) <= LastDay(a)'
           /\ \E p \in stored' : p[1] = a /\ p[2] = LastDay(a)'
<1>0. today' \in Int /\ \A p \in stored' : p[2] \in 1..(today' - 1)
  BY WindowAssumption DEF WindowAssumption, TypeOK
<1> DEFINE D == DaysOf(a)'
<1>1. \A d : d \in D <=> \E p \in stored' : p[1] = a /\ p[2] = d
  BY DEF DaysOf
<1>2. D \in SUBSET Int /\ today' - 1 \in Int /\ \A d \in D : d <= today' - 1
  BY <1>0, <1>1
<1>3. PICK p \in stored : p[1] = a /\ p[2] = LastDay(a)
  BY LastDayFacts
<1>4. LastDay(a) \in D
  BY <1>1, <1>3
<1>5. LastDay(a)' = Max(D)
  BY DEF LastDay
<1> HIDE DEF D
<1>6. Max(D) \in D /\ \A x \in D : x <= Max(D)
  BY <1>2, <1>4, GreatestDay
<1>7. LastDay(a) <= Max(D) /\ \E q \in stored' : q[1] = a /\ q[2] = Max(D)
  BY <1>1, <1>4, <1>6
<1> QED BY <1>4, <1>5, <1>7 DEF D

\* Short windows fit.
LEMMA ShortFits ==
    ASSUME TypeOK, ScheduledCash, ShortWindows, NEW a \in Traders, DaysOf(a) # {}
    PROVE  WindowFits
<1>1. /\ From \in Int /\ Yesterday \in Int
      /\ From >= 1 \/ From = Yesterday - AtLeastOne(DefaultDays)
  BY FromFacts DEF ScheduledCash
<1>2. /\ Yesterday <= MaxToday - 1 /\ MaxToday \in Nat /\ ChunkSpan \in Nat
      /\ AtLeastOne(DefaultDays) \in Nat
  BY WindowAssumption DEF WindowAssumption, TypeOK, Yesterday, AtLeastOne
<1> QED BY <1>1, <1>2 DEF ShortWindows, WindowFits

\* A scheduled window that fits one request is one.
LEMMA OneRequest ==
    ASSUME TypeOK, ScheduledCash, WindowFits, NEW a \in Traders, DaysOf(a) # {}
    PROVE  /\ From <= LastDay(a)
           /\ Requests(From, Yesterday) \subseteq {Chunk(From, Yesterday)}
<1>1. From \in Int /\ Yesterday \in Int /\ From <= LastDay(a)
  BY FromFacts DEF ScheduledCash
<1> QED BY <1>1, ChunkFacts DEF WindowFits

\* The move of one run keeps the run whole.
LEMMA MoveWhole ==
    ASSUME TypeOK, TypeOK', ScheduledCash, Traders # {} => WindowFits, GapInv,
           NEW r \in Runners, RunMove(r)
    PROVE  Whole(run[r])'
<1> DEFINE s == run[r]
           z == run'[r]
<1>0. /\ s \in RunState /\ Whole(s) /\ today \in Int /\ today > 0
      /\ today' = today /\ posted' = posted /\ stored \subseteq stored'
  <2>1. today \in Int /\ today > 0
    BY WindowAssumption DEF WindowAssumption, TypeOK
  <2>2. s \in RunState
    BY DEF TypeOK
  <2>3. today' = today /\ posted' = posted /\ stored \subseteq stored'
    BY DEF RunMove, Opened, Answered, Refused, Widened, Stored, Dropped
  <2> QED BY <2>1, <2>2, <2>3 DEF GapInv
<1>f. ASSUME NEW f \in Int, \A a \in Traders : f <= LastDay(a)
      PROVE  \A a \in Traders : f <= LastDay(a)'
  <2> SUFFICES ASSUME NEW a \in Traders PROVE f <= LastDay(a)'
    OBVIOUS
  <2>1. a \in Accounts /\ DaysOf(a) # {}
    BY WindowAssumption DEF WindowAssumption, GapInv
  <2>2. LastDay(a) \in Int /\ LastDay(a) <= LastDay(a)'
    BY <1>0, <2>1, LastDayFacts, LastDayThen
  <2>3. PICK p \in stored' : p[2] = LastDay(a)'
    BY <1>0, <2>1, LastDayThen
  <2>4. LastDay(a)' \in Int
    BY <2>3 DEF TypeOK
  <2> QED BY <1>f, <2>2, <2>4
<1>w. \A p : p \in InWindow(s) <=> p \in posted /\ p[2] \in s.from..s.to /\ p[2] < s.on
  BY DEF InWindow
<1>v. \A p : p \in InWindow(s)' <=> p \in posted /\ p[2] \in z.from..z.to /\ p[2] < z.on
  BY <1>0 DEF InWindow
<1>1. CASE Opened(r)
  <2>1. PICK job \in JobType, f \in Int, t \in Int, fb \in BOOLEAN :
          /\ z = Asks(job, f, t, fb)
          /\ \/ /\ f = From /\ t = Yesterday /\ (fb \in Fallbacks \/ fb = s.fallback)
                /\ job = Job(FALSE, From, Yesterday) \/ job = s.job
             \/ job.given /\ (Explicit # {} \/ job = s.job)
    BY <1>1 DEF Opened
  <2>2. f = From /\ t = Yesterday /\ fb = FALSE /\ (job = Job(FALSE, From, Yesterday) \/ job = s.job)
    BY <1>0, <2>1 DEF ScheduledCash, Whole
  <2>3. job.given = FALSE /\ job.on <= today
    BY <1>0, <2>2 DEF Whole, Job
  <2>4. /\ z.job = job /\ z.fallback = fb /\ z.widened = FALSE /\ z.from = f /\ z.to = t
        /\ z.on = today /\ z.rows = {} /\ z.todo = Accounts \X Requests(f, t)
    BY <2>1 DEF Asks
  <2>5. t = today - 1
    BY <2>2 DEF Yesterday
  <2>6. \A a \in Traders : f <= LastDay(a) /\ Requests(f, t) \subseteq {Chunk(f, t)}
    BY <2>2, OneRequest DEF GapInv
  <2>7. Traders # {} => \A x \in z.todo : x[2] = Chunk(f, t)
    BY <2>4, <2>6
  <2>8. \A a \in Traders : f <= LastDay(a)'
    BY <1>f, <2>6
  <2> QED BY <1>0, <2>2, <2>3, <2>4, <2>5, <2>7, <2>8 DEF Whole
<1>2. CASE Answered(r)
  <2>1. PICK x \in s.todo :
           z = [s EXCEPT !.todo = s.todo \ {x},
                         !.rows = s.rows \cup Reported(x[1], x[2].from, x[2].to)]
    BY <1>2 DEF Answered
  <2>2. /\ z.pc = s.pc /\ z.from = s.from /\ z.to = s.to /\ z.on = s.on /\ z.job = s.job
        /\ z.fallback = s.fallback /\ z.widened = s.widened
        /\ z.todo = s.todo \ {x}
        /\ z.rows = s.rows \cup Reported(x[1], x[2].from, x[2].to)
    BY <1>0, <2>1, RunFields
  <2>3. s.pc = "fetch" /\ s.from \in Int
    BY <1>0, <1>2 DEF Answered, RunState
  <2>4. \A a \in Traders : s.from <= LastDay(a)'
    BY <1>0, <1>f, <2>3 DEF Whole
  <2>5. ASSUME Traders # {}
        PROVE  /\ \A y \in z.todo : y[2] = Chunk(s.from, s.to)
               /\ \A p \in z.rows : /\ p[2] \in s.from..s.to
                                    /\ \A q \in InWindow(s)' : q[1] = p[1] => q \in z.rows
    <3>1. x[2] = Chunk(s.from, s.to) /\ \A y \in z.todo : y[2] = Chunk(s.from, s.to)
      BY <1>0, <2>2, <2>3, <2>5 DEF Whole
    <3>2. Reported(x[1], x[2].from, x[2].to) = {p \in posted : p[1] = x[1] /\ p[2] \in s.from..s.to}
      BY <3>1 DEF Reported, Chunk
    <3>3. ASSUME NEW p \in z.rows, NEW q \in InWindow(s)', q[1] = p[1] PROVE q \in z.rows
      <4>1. q \in posted /\ q[2] \in s.from..s.to /\ q \in InWindow(s)
        BY <1>w, <1>v, <2>2, <3>3
      <4>2. CASE p \in s.rows
        BY <1>0, <2>2, <2>3, <2>5, <3>3, <4>1, <4>2 DEF Whole
      <4>3. CASE p[1] = x[1]
        BY <2>2, <3>2, <3>3, <4>1, <4>3
      <4> QED BY <2>2, <3>2, <3>3, <4>2, <4>3
    <3>4. ASSUME NEW p \in z.rows PROVE p[2] \in s.from..s.to
      BY <1>0, <2>2, <2>3, <2>5, <3>2, <3>4 DEF Whole
    <3> QED BY <3>1, <3>3, <3>4
  <2> QED BY <1>0, <2>2, <2>3, <2>4, <2>5 DEF Whole
<1>3. CASE Refused(r)
  <2>1. PICK x \in s.todo : z = [s EXCEPT !.todo = s.todo \ {x}, !.failed = TRUE]
    BY <1>3 DEF Refused
  <2>2. /\ z.pc = s.pc /\ z.from = s.from /\ z.to = s.to /\ z.on = s.on /\ z.job = s.job
        /\ z.fallback = s.fallback /\ z.widened = s.widened
        /\ z.todo = s.todo \ {x} /\ z.rows = s.rows
    BY <1>0, <2>1, RunFields
  <2>3. s.pc = "fetch" /\ s.from \in Int
    BY <1>0, <1>3 DEF Refused, RunState
  <2>4. \A a \in Traders : s.from <= LastDay(a)'
    BY <1>0, <1>f, <2>3 DEF Whole
  <2>5. \A q : q \in InWindow(s)' <=> q \in InWindow(s)
    BY <1>w, <1>v, <2>2
  <2> QED BY <1>0, <2>2, <2>3, <2>4, <2>5 DEF Whole
<1>4. CASE Widened(r)
  BY <1>0, <1>4 DEF Widened, Whole
<1>5. CASE Stored(r)
  <2>1. PICK pc \in {"retry", "done"} : z = [s EXCEPT !.pc = pc, !.rows = {}]
    BY <1>5 DEF Stored
  <2>2. /\ z.pc = pc /\ z.from = s.from /\ z.to = s.to /\ z.on = s.on /\ z.job = s.job
        /\ z.fallback = s.fallback /\ z.widened = s.widened
    BY <1>0, <2>1, RunFields
  <2>3. s.pc = "fetch" /\ s.from \in Int
    BY <1>0, <1>5 DEF Stored, RunState
  <2>4. \A a \in Traders : s.from <= LastDay(a)'
    BY <1>0, <1>f, <2>3 DEF Whole
  <2> QED BY <1>0, <2>2, <2>3, <2>4 DEF Whole
<1>6. CASE Dropped(r)
  <2>1. CASE z = NoRun
    <3>1. /\ z.job.given = FALSE /\ z.fallback = FALSE /\ z.widened = FALSE /\ z.job.on = 0
          /\ z.pc = "idle"
      BY <2>1 DEF NoRun
    <3> QED BY <1>0, <3>1 DEF Whole
  <2>2. CASE z = [s EXCEPT !.pc = "retry", !.todo = {}, !.rows = {}]
    <3>1. z.pc = "retry" /\ z.job = s.job /\ z.fallback = s.fallback /\ z.widened = s.widened
      BY <1>0, <2>2, RunFields
    <3> QED BY <1>0, <3>1 DEF Whole
  <2> QED BY <1>6, <2>1, <2>2 DEF Dropped
<1> QED BY <1>1, <1>2, <1>3, <1>4, <1>5, <1>6 DEF RunMove

\* Storing a whole run leaves no hole: what it adds to an account reaches back
\* to what the account had.
LEMMA StoreNoGap ==
    ASSUME TypeOK, TypeOK', GapInv, NEW r \in Runners, Stored(r),
           NEW a \in Traders, NEW p \in posted, p[1] = a, p[2] <= LastDay(a)'
    PROVE  p \in stored'
<1> DEFINE s == run[r]
<1>0. /\ s \in RunState /\ Whole(s) /\ stored' = stored \cup s.rows /\ s.pc = "fetch"
      /\ a \in Accounts /\ DaysOf(a) # {} /\ p[2] \in Int /\ Traders # {}
  <2>1. \A n \in 1..(today - 1) : n \in Int
    OBVIOUS
  <2> QED BY <2>1, WindowAssumption DEF WindowAssumption, TypeOK, GapInv, Stored
<1>1. LastDay(a) \in Int /\ \A q \in stored : q[1] = a => q[2] <= LastDay(a)
  BY <1>0, LastDayFacts
<1>2. PICK q \in stored' : q[1] = a /\ q[2] = LastDay(a)'
  BY <1>0, LastDayThen
<1>3. CASE p[2] <= LastDay(a)
  BY <1>0, <1>3 DEF GapInv, NoGap
<1>4. CASE ~(p[2] <= LastDay(a))
  <2>1. q \in s.rows /\ q[2] \in Int
    <3>1. q[2] \in Int
      BY <1>2 DEF TypeOK
    <3> QED BY <1>0, <1>1, <1>2, <1>4, <3>1
  <2>2. /\ q[2] \in s.from..s.to /\ s.to = s.on - 1 /\ s.from <= LastDay(a)
        /\ s.from \in Int /\ s.to \in Int /\ s.on \in Int
    BY <1>0, <2>1 DEF Whole, RunState
  <2>3. p \in InWindow(s)
    BY <1>0, <1>1, <1>2, <1>4, <2>1, <2>2 DEF InWindow
  <2> QED BY <1>0, <1>2, <2>1, <2>3 DEF Whole
<1> QED BY <1>3, <1>4

\* A run that does not move stays whole: days are only added.
LEMMA StaysWhole ==
    ASSUME TypeOK, TypeOK', GapInv, NEW v \in Runners, run'[v] = run[v],
           stored \subseteq stored', today' \in Int, today <= today',
           InWindow(run[v])' = InWindow(run[v])
    PROVE  Whole(run[v])'
<1> DEFINE s == run[v]
<1>0. /\ s \in RunState /\ Whole(s) /\ today \in Int /\ s.from \in Int
      /\ s.job.on \in Int
  BY WindowAssumption DEF WindowAssumption, TypeOK, RunState, GapInv
<1>1. ASSUME NEW a \in Traders, s.from <= LastDay(a) PROVE s.from <= LastDay(a)'
  <2>1. a \in Accounts /\ DaysOf(a) # {}
    BY WindowAssumption DEF WindowAssumption, GapInv
  <2>2. LastDay(a) \in Int /\ LastDay(a) <= LastDay(a)'
    BY <2>1, LastDayFacts, LastDayThen
  <2>3. PICK p \in stored' : p[2] = LastDay(a)'
    BY <2>1, LastDayThen
  <2>4. LastDay(a)' \in Int
    BY <2>3 DEF TypeOK
  <2> QED BY <1>0, <1>1, <2>2, <2>4
<1>2. s.job.on <= today'
  BY <1>0 DEF Whole
<1> QED BY <1>0, <1>1, <1>2 DEF Whole

\* One step keeps GapInv.
LEMMA GapStep ==
    ASSUME TypeOK, ScheduledCash, Traders # {} => WindowFits, CoverInv, GapInv, Next
    PROVE  GapInv'
<1>0. TypeOK' /\ today \in Int /\ today' \in Int
  BY TypeNext, WindowAssumption DEF WindowAssumption, TypeOK
<1>1. ASSUME stored \subseteq stored', NEW a \in Traders PROVE DaysOf(a)' # {}
  BY <1>0, <1>1, LastDayThen, WindowAssumption DEF WindowAssumption, GapInv
<1>2. CASE NewDay
  <2>1. run' = run /\ stored' = stored /\ today' = today + 1
    BY <1>2 DEF NewDay
  <2>2. ASSUME NEW v \in Runners PROVE Whole(run[v])'
    <3>1. InWindow(run[v])' = InWindow(run[v])
      BY <1>2, MidnightCovers
    <3> QED BY <1>0, <2>1, <3>1, StaysWhole
  <2>3. ASSUME NEW a \in Traders, NEW p \in posted', p[1] = a, p[2] <= LastDay(a)'
        PROVE  p \in stored'
    <3>1. a \in Accounts /\ DaysOf(a) # {}
      BY WindowAssumption DEF WindowAssumption, GapInv
    <3>2. LastDay(a)' = LastDay(a)
      BY <2>1 DEF LastDay, DaysOf
    <3>3. PICK q \in stored : q[1] = a /\ q[2] = LastDay(a)
      BY <3>1, LastDayFacts
    <3>4. q[2] \in Int /\ q[2] <= today - 1
      BY <1>0, <3>3 DEF TypeOK
    <3>5. PICK active \in SUBSET Accounts : posted' = posted \cup (active \X {today})
      BY <1>2 DEF NewDay
    <3>6. \A y \in active \X {today} : y[2] = today
      OBVIOUS
    <3>7. p \in posted
      BY <1>0, <2>3, <3>2, <3>3, <3>4, <3>5, <3>6
    <3> QED BY <2>1, <2>3, <3>1, <3>2, <3>7 DEF GapInv, NoGap
  <2> QED BY <1>1, <2>1, <2>2, <2>3 DEF GapInv, NoGap
<1>3. ASSUME NEW r \in Runners, RunMove(r), \A v \in Runners \ {r} : run'[v] = run[v]
      PROVE  GapInv'
  <2>1. today' = today /\ posted' = posted /\ stored \subseteq stored'
    BY <1>3 DEF RunMove, Opened, Answered, Refused, Widened, Stored, Dropped
  <2>2. ASSUME NEW v \in Runners, v # r PROVE Whole(run[v])'
    <3>1. run'[v] = run[v]
      BY <1>3, <2>2
    <3>2. InWindow(run[v])' = InWindow(run[v])
      BY <2>1, <3>1 DEF InWindow
    <3> QED BY <1>0, <2>1, <3>1, <3>2, StaysWhole
  <2>3. Whole(run[r])'
    BY <1>0, <1>3, MoveWhole
  <2>4. ASSUME NEW a \in Traders, NEW p \in posted', p[1] = a, p[2] <= LastDay(a)'
        PROVE  p \in stored'
    <3>1. CASE Stored(r)
      BY <1>0, <1>3, <2>1, <2>4, <3>1, StoreNoGap
    <3>2. CASE ~Stored(r)
      <4>1. stored' = stored
        BY <1>3, <3>2 DEF RunMove, Opened, Answered, Refused, Widened, Dropped
      <4>2. LastDay(a)' = LastDay(a) /\ DaysOf(a) # {}
        BY <4>1 DEF LastDay, DaysOf, GapInv
      <4> QED BY <2>1, <2>4, <4>1, <4>2 DEF GapInv, NoGap
    <3> QED BY <3>1, <3>2
  <2> QED BY <1>1, <2>1, <2>2, <2>3, <2>4 DEF GapInv, NoGap
<1> QED BY <1>2, <1>3, OneRunMoves

\* The first day is stored, and nothing before it was posted.
LEMMA GapInit ==
    ASSUME ScheduledCash, Init
    PROVE  GapInv
<1>0. /\ TypeOK /\ stored = Accounts \X {1} /\ FirstDay \in Int /\ today > 0 /\ today \in Int
      /\ posted = Accounts \X (1..FirstDay - 1) /\ Traders \subseteq Accounts
  BY TypeInit, WindowAssumption DEF WindowAssumption, ScheduledCash, Init
<1>1. ASSUME NEW a \in Traders PROVE DaysOf(a) # {} /\ LastDay(a) = 1
  <2>1. <<a, 1>> \in stored /\ <<a, 1>>[1] = a /\ <<a, 1>>[2] = 1 /\ \A p \in stored : p[2] = 1
    BY <1>0
  <2>2. DaysOf(a) # {}
    BY <2>1 DEF DaysOf
  <2> QED BY <1>0, <2>1, <2>2, LastDayFacts
<1>2. NoGap
  <2> SUFFICES ASSUME NEW a \in Traders, NEW p \in posted, p[1] = a, p[2] <= 1
               PROVE  p \in stored
    BY <1>1 DEF NoGap
  <2>1. p[2] \in Int /\ p[2] = 1 /\ p = <<p[1], p[2]>>
    BY <1>0
  <2> QED BY <1>0, <2>1
<1>3. ASSUME NEW r \in Runners PROVE Whole(run[r])
  <2>1. run[r] = NoRun
    BY DEF Init
  <2>2. /\ NoRun.pc = "idle" /\ NoRun.job.given = FALSE /\ NoRun.fallback = FALSE
        /\ NoRun.widened = FALSE /\ NoRun.job.on = 0
    BY DEF NoRun
  <2> QED BY <1>0, <2>1, <2>2 DEF Whole
<1> QED BY <1>1, <1>2, <1>3 DEF GapInv

\* GapInv holds as long as every window fits.
LEMMA GapHolds == ASSUME ScheduledCash PROVE Spec /\ []WindowFits => []GapInv
<1>1. Init => GapInv
  BY GapInit
<1>2. TypeOK /\ CoverInv /\ WindowFits /\ GapInv /\ [Next]_vars => GapInv'
  <2>1. GapInv /\ UNCHANGED vars => GapInv'
    BY DEF vars, GapInv, NoGap, Whole, InWindow, LastDay, DaysOf
  <2> QED BY <2>1, GapStep
<1> QED BY <1>1, <1>2, RunsTyped, CoverHolds, PTL DEF Spec

\* The scheduled cash runs (transactions_window, transactions.py) leave no hole
\* behind the day an account's next window starts at, for any number of accounts,
\* days and runs in progress at once, whatever fails, as long as the window they
\* compute fits one request.
THEOREM CashLeavesNoHole == ASSUME ScheduledCash PROVE Spec /\ []WindowFits => []NoGap
<1>1. GapInv => NoGap
  BY DEF GapInv
<1> QED BY <1>1, GapHolds, PTL

\* And so they do for every history that is not longer than a request may be.
THEOREM ShortHistoryNoHole == ASSUME ScheduledCash, ShortWindows PROVE Spec => []NoGap
<1>1. Init => GapInv
  BY GapInit
<1>2. TypeOK /\ CoverInv /\ GapInv /\ [Next]_vars => GapInv'
  <2>1. GapInv /\ UNCHANGED vars => GapInv'
    BY DEF vars, GapInv, NoGap, Whole, InWindow, LastDay, DaysOf
  <2>2. TypeOK /\ GapInv => (Traders # {} => WindowFits)
    BY ShortFits DEF GapInv
  <2> QED BY <2>1, <2>2, GapStep
<1>3. GapInv => NoGap
  BY DEF GapInv
<1> QED BY <1>1, <1>2, <1>3, RunsTyped, CoverHolds, PTL DEF Spec

\* A cash job that is done (_require_ok in handlers.py) after any retries, each of
\* which reads its window anew, has stored what its first attempt was to bring:
\* what the last window no longer reaches, NoGap has.  Every account trades, since
\* read_last_transaction_dates asks only those that do.
THEOREM DoneCashIsComplete ==
    ASSUME ScheduledCash, Traders = Accounts
    PROVE  Spec /\ []WindowFits => []DoneIsComplete
<1>1. ASSUME TypeOK, CoverInv, GapInv PROVE DoneIsComplete
  <2> SUFFICES ASSUME NEW r \in Runners, run[r].pc = "done", NEW p \in InWindow(run[r].job)
               PROVE  p \in stored
    BY DEF DoneIsComplete
  <2> DEFINE s == run[r]
  <2>0. /\ s \in RunState /\ Whole(s) /\ Covers(s) /\ s.from \in Int /\ s.to \in Int
        /\ s.on \in Int /\ s.job.on \in Int
    BY <1>1 DEF TypeOK, RunState, CoverInv, GapInv
  <2>1. p \in posted /\ p[2] < s.job.on /\ p[1] \in Traders /\ p[2] \in Int
    <3>1. p \in posted /\ p[2] < s.job.on
      BY DEF InWindow
    <3> QED BY <1>1, <3>1 DEF TypeOK
  <2>2. s.to = s.on - 1 /\ s.job.on <= s.on /\ s.from <= LastDay(p[1]) /\ s.widened = FALSE
    BY <2>0, <2>1 DEF Whole
  <2>3. CASE s.from <= p[2]
    <3>1. p \in InWindow(s)
      BY <2>0, <2>1, <2>2, <2>3 DEF InWindow
    <3> QED BY <2>0, <2>2, <3>1 DEF Covers
  <2>4. CASE ~(s.from <= p[2])
    <3>1. DaysOf(p[1]) # {} /\ LastDay(p[1]) \in Int
      BY <1>1, <2>1, LastDayFacts DEF GapInv
    <3>2. p[2] <= LastDay(p[1])
      BY <2>0, <2>1, <2>2, <2>4, <3>1
    <3> QED BY <1>1, <2>1, <3>1, <3>2 DEF GapInv, NoGap
  <2> QED BY <2>3, <2>4
<1> QED BY <1>1, RunsTyped, CoverHolds, GapHolds, PTL
=============================================================================
