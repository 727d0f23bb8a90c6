-------------------------- MODULE ConfigApi_proofs --------------------------
(***************************************************************************)
(* The configuration endpoints, for any number of requests, bodies and     *)
(* accounts: what a crossing of write transactions leaves in the tables    *)
(* (FlexConfig), and what the counters say of the requests (HttpMetrics).  *)
(***************************************************************************)
EXTENDS ConfigApi, FiniteSetTheorems, WellFoundedInduction, TLAPS

AnyBody == Bodies \cup {NoBody}

\* WriterState over the bodies there are.
Writer == [pc : {"idle", "read", "upsert", "delete", "deleting", "commit", "over"},
           body : AnyBody, current : Days, days : Days,
           todo : SUBSET Nat, gone : SUBSET Nat, added : SUBSET StoredRow]

ConfigTypes ==
    /\ settings \in Days
    /\ rows \subseteq StoredRow
    /\ serial \in Nat
    /\ writer \in [Writes -> Writer]
    /\ answer \in [Writes \cup Summaries -> {NoAnswer, 200, 400, 401, 409, 500, 503}]
    /\ applied \subseteq Writes \X {"range", "rows"}

\* What a writer has, by where it is: the settings row from its upsert on, rows
\* marked as deleted while and after its DELETE, new rows before its COMMIT.
Phase(c, w) ==
    /\ w.pc = "idle" => w.body = NoBody
    /\ w.pc \notin {"idle", "over"} => w.body \in Bodies /\ Refusal(w.body) = NoAnswer
    /\ w.pc \in {"read", "upsert"} => HasRange(w.body)
    /\ w.pc = "read" => IsHalf(w.body)
    /\ w.pc \in {"delete", "deleting"} => HasRows(w.body)
    /\ w.days # NoSettings <=> w.pc \in {"delete", "deleting", "commit"} /\ HasRange(w.body)
    /\ w.todo # {} => w.pc = "deleting"
    /\ w.gone # {} => w.pc \in {"deleting", "commit"} /\ HasRows(w.body)
    /\ w.added # {} => w.pc = "commit"
    /\ \A r \in w.added : r.by = c
    /\ w.pc = "commit" => {r.account : r \in w.added} = IF HasRows(w.body) THEN w.body.accounts ELSE {}

Phases == \A c \in Writes : Phase(c, writer[c])

Full(s) == s.default # Null /\ s.init # Null

\* One transaction at a time has the settings row, and what it has written is
\* the row it found, completed; a half write that found no row read the
\* defaults, and will complete from them if there is still none.
SettingsKept ==
    /\ settings = NoSettings \/ Full(settings)
    /\ \A c, d \in Writes : HoldsSettings(c) /\ HoldsSettings(d) => c = d
    /\ \A c \in Writes :
          /\ HoldsSettings(c) => writer[c].days = Merge(Wanted(writer[c].body), Effective(settings))
          /\ writer[c].pc = "upsert" /\ IsHalf(writer[c].body) /\ settings = NoSettings
                => writer[c].current = Effective(NoSettings)

Numbers(table) == {r.id : r \in table}

\* The rows the DELETE of a transaction goes for, visited or not.
Seen(c) == writer[c].todo \cup writer[c].gone

\* A row that is inserted has a number that no other row has or had.
NumbersFresh ==
    /\ \A i \in Numbers(rows) : i < serial
    /\ \A c \in Writes : \A i \in Seen(c) \cup Numbers(writer[c].added) : i < serial
    /\ \A c, d \in Writes : Numbers(writer[c].added) \cap (Numbers(rows) \cup Seen(d)) = {}
    /\ \A c, d \in Writes : c # d => Numbers(writer[c].added) \cap Numbers(writer[d].added) = {}

\* A DELETE goes for all rows of a request or for none, and the rows of a
\* request are its accounts, all of them.
ListsWhole ==
    /\ rows # {}
    /\ \A c, e \in Writes :
          \/ Numbers(RowsBy(e, rows)) \subseteq Seen(c)
          \/ Numbers(RowsBy(e, rows)) \cap Seen(c) = {}
    /\ \A c \in Writes :
          RowsBy(c, rows) # {} =>
              /\ writer[c].pc = "over"
              /\ {r.account : r \in RowsBy(c, rows)} = writer[c].body.accounts

AllRanged == \A d \in Writes : HasRows(writer[d].body) => HasRange(writer[d].body)

\* If every replacing write carries range days, no row is added while one of
\* them deletes.
DeletesAll ==
    AllRanged => \A c \in Writes :
        writer[c].pc \in {"deleting", "commit"} /\ HasRows(writer[c].body)
            => Numbers(rows) \subseteq Seen(c)

Landed(c) == {h \in {"range", "rows"} : <<c, h>> \in applied}

\* A request is answered, and its halves land, when its transaction is over.
AnswersTrue ==
    \A c \in Writes :
        /\ writer[c].pc # "over" => answer[c] = NoAnswer /\ Landed(c) = {}
        /\ Landed(c) \in {{}, Halves(writer[c].body)}
        /\ answer[c] = 200 => Landed(c) = Halves(writer[c].body)
        /\ answer[c] \in {400, 401, 409} => Landed(c) = {}

ConfigInv ==
    /\ ConfigTypes /\ Phases /\ SettingsKept /\ NumbersFresh /\ ListsWhole /\ DeletesAll
    /\ AnswersTrue

---------------------------------------------------------------------------
(* The counters. *)

HttpTypes ==
    /\ call \in [Requests -> [pc : {"app", "observe", "started"}, status : Classes \cup {"none"}]]
    /\ counters \in [requests : [Handlers -> [Classes -> Nat]], duration : [Handlers -> Nat], highr : Nat]
    /\ mutex \in Requests \cup {Free}
    /\ scrape \in [Scrapes -> [pc : {"idle", "rendering", "rendered"}, requests : [Handlers -> Nat],
                               duration : [Handlers -> Nat], highr : Nat]]

\* The lock is held by a request between its count and its times, and by a
\* scrape between the two halves of its text.
LockHeld ==
    /\ \A r \in Requests : call[r].pc = "observe" <=> mutex = r /\ r \notin Scrapes
    /\ \A r \in Requests : call[r].pc = "observe" => Handler[r] \notin Untimed \cup Unrecorded
    /\ \A r \in Scrapes : scrape[r].pc = "rendering" <=> mutex = r

\* The request whose count is one ahead of its times.
Ahead(h) == IF \E r \in Requests : call[r].pc = "observe" /\ Handler[r] = h THEN 1 ELSE 0

TimesFollow ==
    /\ \A h \in Handlers \ Untimed : Total(h) = counters.duration[h] + Ahead(h)
    /\ counters.highr = counters.duration["/flex/config/write"]
                        + counters.duration["/flex/config/summary"]

HalfRendered ==
    \A r \in Scrapes : scrape[r].pc = "rendering" => \A h \in Handlers : scrape[r].requests[h] = Total(h)

\* A request that was recorded has its status, which does not change any more.
AnsweredFirst == \A r \in Requests : call[r].pc # "app" => StatusOf(r) # NoAnswer

HttpInv == HttpTypes /\ LockHeld /\ TimesFollow /\ HalfRendered /\ ScrapeAddsUp

---------------------------------------------------------------------------
(* Numbers and bodies. *)

\* The row a DELETE visits next is one it has yet to visit.
LEMMA NextVisited ==
    ASSUME NEW S \in SUBSET Nat, S # {}
    PROVE  Min(S) \in S
<1> DEFINE R == OpToRel(<, Nat)
<1>1. IsWellFoundedOn(R, Nat)
  BY NatLessThanWellFounded
<1>2. PICK x \in S : \A y \in S : ~(<<y, x>> \in R)
  BY <1>1, WFMin
<1>3. \A y \in S : x =< y
  <2> SUFFICES ASSUME NEW y \in S, y < x PROVE FALSE
    OBVIOUS
  <2>1. <<y, x>> \in Nat \X Nat /\ <<y, x>>[1] = y /\ <<y, x>>[2] = x
    OBVIOUS
  <2>2. <<y, x>> \in R
    BY <2>1 DEF OpToRel
  <2> QED BY <1>2, <2>2
<1> QED BY <1>3 DEF Min

\* What optional_days (config_summary.py) makes of a value: nothing, or one day
\* at least.
LEMMA OptionalDays ==
    ASSUME NEW v \in SUBSET Int, IsFiniteSet(v), Cardinality(v) <= 1
    PROVE  optional_days(v) \in Nat
<1>1. CASE v = {}
  BY <1>1 DEF optional_days, Null
<1>2. CASE v # {}
  <2>1. Cardinality(v) = 1
    BY <1>2, FS_EmptySet, FS_CardinalityType
  <2>2. PICK n : v = {n}
    BY <2>1, FS_Singleton
  <2>3. n \in Int
    BY <2>2
  <2>4. \E x \in v \cup {1} : \A y \in v \cup {1} : x >= y
    BY <2>2, <2>3
  <2>5. Max(v \cup {1}) \in v \cup {1} /\ \A y \in v \cup {1} : Max(v \cup {1}) >= y
    BY <2>4 DEF Max
  <2>6. Max(v \cup {1}) >= 1 /\ Max(v \cup {1}) \in Int
    BY <2>5, <2>3, <2>2
  <2>7. optional_days(v) = Max(v \cup {1})
    BY <1>2 DEF optional_days
  <2>8. \A m \in Int : m >= 1 => m \in Nat
    OBVIOUS
  <2> QED BY <2>6, <2>7, <2>8
<1> QED BY <1>1, <1>2

\* A body that goes on to be written asks for something, and for rows only with
\* an account.
LEMMA BodyFacts ==
    ASSUME NEW b \in AnyBody
    PROVE  /\ Wanted(b) \in Days
           /\ b.accounts \subseteq Accounts
           /\ Refusal(b) \in {NoAnswer, 200, 400, 401, 409}
           /\ Refusal(b) = NoAnswer => (HasRows(b) => b.accounts # {}) /\ (HasRows(b) \/ HasRange(b))
           /\ Refusal(b) = 200 => Halves(b) = {}
<1>1. /\ \A v \in {b.default, b.init} : v \in SUBSET Int /\ IsFiniteSet(v) /\ Cardinality(v) <= 1
      /\ b.accounts \subseteq Accounts
      /\ b.named \subseteq {"accounts", "default", "init"}
  <2>1. CASE b \in Bodies
    BY <2>1, ConfigAssumption
  <2>2. CASE b = NoBody
    <3>1. b.default = {} /\ b.init = {} /\ b.accounts = {} /\ b.named = {}
      BY <2>2 DEF NoBody
    <3> QED BY <3>1, FS_EmptySet
  <2> QED BY <2>1, <2>2 DEF AnyBody
<1>2. optional_days(b.default) \in Nat /\ optional_days(b.init) \in Nat
  BY <1>1, OptionalDays
<1>3. Wanted(b) \in Days
  BY <1>2 DEF Wanted, Days, Null
<1>4. Refusal(b) \in {NoAnswer, 200, 400, 401, 409}
  BY DEF Refusal
<1>5. Refusal(b) = NoAnswer => (HasRows(b) => b.accounts # {}) /\ (HasRows(b) \/ HasRange(b))
  BY DEF Refusal, NoAnswer, HasRows
<1>6. Refusal(b) = 200 => ~HasRows(b) /\ ~HasRange(b)
  BY DEF Refusal, NoAnswer
<1> QED BY <1>1, <1>3, <1>4, <1>5, <1>6 DEF Halves

\* The rows one INSERT makes: an account each, numbered from the sequence.
LEMMA InsertFacts ==
    ASSUME NEW c \in Writes \cup {Seed}, NEW A \in SUBSET Accounts, NEW n \in Nat
    PROVE  /\ Cardinality(A) \in Nat
           /\ Insert(c, A, n) \subseteq StoredRow
           /\ {r.account : r \in Insert(c, A, n)} = A
           /\ \A r \in Insert(c, A, n) : r.by = c
           /\ \A i \in Numbers(Insert(c, A, n)) : i \in Nat /\ n <= i /\ i < n + Cardinality(A)
<1>1. IsFiniteSet(A) /\ Cardinality(A) \in Nat
  BY ConfigAssumption, FS_Subset, FS_CardinalityType
<1> DEFINE Before(a) == {b \in A : b < a}
<1>2. ASSUME NEW a \in A
      PROVE  Cardinality(Before(a)) \in Nat /\ Cardinality(Before(a)) < Cardinality(A)
  <2>0. a \in Nat
    BY ConfigAssumption
  <2>1. Before(a) \in SUBSET A /\ a \notin Before(a)
    BY <2>0
  <2>2. IsFiniteSet(Before(a)) /\ Cardinality(Before(a)) <= Cardinality(A) /\ Cardinality(Before(a)) # Cardinality(A)
    BY <1>1, <2>1, FS_Subset
  <2>3. Cardinality(Before(a)) \in Nat
    BY <2>2, FS_CardinalityType
  <2> QED BY <1>1, <2>2, <2>3
<1> DEFINE New(a) == [id |-> n + Cardinality(Before(a)), by |-> c, account |-> a]
<1>3. Insert(c, A, n) = {New(a) : a \in A}
  BY DEF Insert
<1> HIDE DEF Before
<1>4. \A a \in A : New(a) \in StoredRow
  BY <1>2 DEF StoredRow
<1>5. \A a \in A : /\ New(a).account = a /\ New(a).by = c
                   /\ New(a).id \in Nat /\ n <= New(a).id /\ New(a).id < n + Cardinality(A)
  BY <1>1, <1>2
<1> HIDE DEF New
<1> QED BY <1>1, <1>3, <1>4, <1>5 DEF Numbers

\* One writer's state is replaced.
LEMMA OneWriter ==
    ASSUME writer \in [Writes -> Writer], NEW c \in Writes, NEW w \in Writer, Become(c, w)
    PROVE  /\ writer' \in [Writes -> Writer]
           /\ writer'[c] = w
           /\ \A d \in Writes : d # c => writer'[d] = writer[d]
BY DEF Become

\* A transaction's state before it does anything.
LEMMA NoTransactionFacts ==
    ASSUME NEW p \in {"idle", "read", "upsert", "delete", "deleting", "commit", "over"}, NEW b \in AnyBody
    PROVE  /\ NoTransaction(p, b) \in Writer
           /\ NoTransaction(p, b).pc = p /\ NoTransaction(p, b).body = b
           /\ NoTransaction(p, b).current = NoSettings /\ NoTransaction(p, b).days = NoSettings
           /\ NoTransaction(p, b).todo = {} /\ NoTransaction(p, b).gone = {}
           /\ NoTransaction(p, b).added = {}
BY DEF NoTransaction, Writer, Days, NoSettings, Null

\* A state of a writer is the record of its parts.
LEMMA WriterFacts ==
    ASSUME NEW w \in Writer
    PROVE  /\ w.pc \in {"idle", "read", "upsert", "delete", "deleting", "commit", "over"}
           /\ w.body \in AnyBody /\ w.current \in Days /\ w.days \in Days
           /\ w.todo \subseteq Nat /\ w.gone \subseteq Nat /\ w.added \subseteq StoredRow
BY DEF Writer

---------------------------------------------------------------------------
(* The statements of a transaction. *)

\* What a writer may do short of its COMMIT: it keeps its body; takes the
\* settings row only when no other has it; goes for all rows there are, for none,
\* or for the ones it went for; inserts rows with new numbers; and is answered
\* only as it ends, with a failure or a refusal.
Quietly(c, w) ==
    /\ Become(c, w) /\ UNCHANGED <<settings, rows, applied>>
    /\ serial' \in Nat /\ serial <= serial'
    /\ Phase(c, w)
    /\ w.body = writer[c].body \/ writer[c].pc = "idle"
    /\ w.days # NoSettings =>
          /\ w.days = Merge(Wanted(w.body), Effective(settings))
          /\ \A d \in Writes \ {c} : ~HoldsSettings(d)
    /\ w.pc = "upsert" /\ IsHalf(w.body) /\ settings = NoSettings => w.current = Effective(NoSettings)
    /\ w.todo \cup w.gone \subseteq Seen(c) \cup Numbers(rows)
    /\ \/ w.todo \cup w.gone = {}
       \/ Numbers(rows) \subseteq w.todo \cup w.gone
       \/ /\ writer[c].pc = "deleting"
          /\ \A i \in Numbers(rows) : i \in Seen(c) <=> i \in w.todo \cup w.gone
    /\ w.pc \in {"deleting", "commit"} /\ HasRows(w.body) =>
          \/ Numbers(rows) \subseteq w.todo \cup w.gone
          \/ /\ writer[c].pc = "deleting"
             /\ \A i \in Numbers(rows) : i \in Seen(c) <=> i \in w.todo \cup w.gone
    /\ \A i \in Numbers(w.added) : serial <= i /\ i < serial'
    /\ writer[c].pc # "over"
    /\ \/ w.pc # "over" /\ UNCHANGED answer
       \/ w.pc = "over" /\ Answer(c, 500)
       \/ w.pc = "over" /\ writer[c].pc = "idle" /\ Answer(c, Refusal(w.body))

\* Such a step leaves every list whole, every number fresh, the settings row with
\* one transaction, and the answers true.
LEMMA QuietKeeps ==
    ASSUME ConfigInv, NEW c \in Writes, NEW w \in Writer, Quietly(c, w)
    PROVE  ConfigInv'
<1> USE DEF ConfigInv
<1>0. writer \in [Writes -> Writer] /\ Become(c, w) /\ UNCHANGED <<settings, rows, applied>>
  BY DEF ConfigTypes, Quietly
<1>1. /\ writer' \in [Writes -> Writer]
      /\ writer'[c] = w
      /\ \A d \in Writes : d # c => writer'[d] = writer[d]
  BY <1>0, OneWriter
<1>2. serial \in Nat /\ serial' \in Nat /\ serial <= serial'
  BY DEF ConfigTypes, Quietly
<1>3. \A d \in Writes : writer[d] \in Writer
  BY <1>0
<1>4. Phase(c, writer[c])
  BY DEF Phases
<1>5. \A b \in AnyBody : Refusal(b) \in {NoAnswer, 200, 400, 401, 409}
  BY BodyFacts
<1>6. w.body \in AnyBody
  BY WriterFacts
<1>a. ConfigTypes'
  <2>1. answer' \in [Writes \cup Summaries -> {NoAnswer, 200, 400, 401, 409, 500, 503}]
    BY <1>5, <1>6 DEF ConfigTypes, Quietly, Answer
  <2> QED BY <1>0, <1>1, <1>2, <2>1 DEF ConfigTypes
<1>b. Phases'
  <2>1. Phase(c, w)
    BY DEF Quietly
  <2>2. \A d \in Writes : Phase(d, writer'[d])
    BY <1>1, <2>1 DEF Phases
  <2> QED BY <2>2 DEF Phases, Phase, HasRange, IsHalf, HasRows
<1>c. SettingsKept'
  <2>1. settings' = NoSettings \/ Full(settings')
    BY <1>0 DEF SettingsKept
  <2>2. \A d, e \in Writes : HoldsSettings(d)' /\ HoldsSettings(e)' => d = e
    BY <1>1 DEF SettingsKept, HoldsSettings, Quietly
  <2>3. ASSUME NEW d \in Writes
        PROVE  /\ HoldsSettings(d)' => writer'[d].days = Merge(Wanted(writer'[d].body), Effective(settings'))
               /\ writer'[d].pc = "upsert" /\ IsHalf(writer'[d].body) /\ settings' = NoSettings
                     => writer'[d].current = Effective(NoSettings)
    <3>1. CASE d = c
      BY <1>0, <1>1, <3>1 DEF Quietly, HoldsSettings
    <3>2. CASE d # c
      BY <1>0, <1>1, <3>2 DEF SettingsKept, HoldsSettings
    <3> QED BY <3>1, <3>2
  <2> QED BY <2>1, <2>2, <2>3 DEF SettingsKept
<1>d. NumbersFresh'
  <2>0. \A d \in Writes : Seen(d)' = IF d = c THEN w.todo \cup w.gone ELSE Seen(d)
    BY <1>1 DEF Seen
  <2>1. \A i \in Numbers(rows) : i \in Nat /\ i < serial
    BY DEF NumbersFresh, ConfigTypes, StoredRow, Numbers
  <2>2. \A d \in Writes : \A i \in Seen(d) \cup Numbers(writer[d].added) : i \in Nat /\ i < serial
    BY <1>3, WriterFacts DEF NumbersFresh, Seen, StoredRow, Numbers
  <2>3. \A i \in w.todo \cup w.gone : i \in Nat /\ i < serial
    BY <2>1, <2>2 DEF Quietly
  <2>4. \A i \in Numbers(w.added) : i \in Nat /\ serial <= i /\ i < serial'
    BY WriterFacts DEF Quietly, StoredRow, Numbers
  <2>5. \A i \in Numbers(rows)' : i < serial'
    BY <1>0, <1>2, <2>1 DEF Numbers
  <2>6. \A d \in Writes : \A i \in Seen(d)' \cup Numbers(writer'[d].added) : i < serial'
    <3> SUFFICES ASSUME NEW d \in Writes, NEW i \in Seen(d)' \cup Numbers(writer'[d].added) PROVE i < serial'
      OBVIOUS
    <3>1. CASE d = c
      BY <1>1, <1>2, <2>0, <2>3, <2>4, <3>1
    <3>2. CASE d # c
      BY <1>1, <1>2, <2>0, <2>2, <3>2
    <3> QED BY <3>1, <3>2
  <2>7. \A d, e \in Writes : Numbers(writer'[d].added) \cap (Numbers(rows) \cup Seen(e)') = {}
    <3> SUFFICES ASSUME NEW d \in Writes, NEW e \in Writes, NEW i \in Numbers(writer'[d].added),
                        i \in Numbers(rows) \cup Seen(e)'
                 PROVE  FALSE
      OBVIOUS
    <3>1. i \in Numbers(rows) \/ \E f \in Writes : i \in Seen(f)
      BY <2>0 DEF Quietly
    <3>2. i \in Nat /\ i < serial
      BY <2>1, <2>2, <3>1
    <3>3. d # c
      BY <1>1, <1>2, <2>4, <3>2
    <3> QED BY <1>1, <3>1, <3>3 DEF NumbersFresh
  <2>8. \A d, e \in Writes : d # e => Numbers(writer'[d].added) \cap Numbers(writer'[e].added) = {}
    <3> SUFFICES ASSUME NEW d \in Writes, NEW e \in Writes, d # e, NEW i \in Numbers(writer'[d].added),
                        i \in Numbers(writer'[e].added)
                 PROVE  FALSE
      OBVIOUS
    <3>1. CASE d # c /\ e # c
      BY <1>1, <3>1 DEF NumbersFresh
    <3>2. CASE d = c
      BY <1>1, <1>2, <2>2, <2>4, <3>2
    <3>3. CASE e = c
      BY <1>1, <1>2, <2>2, <2>4, <3>3
    <3> QED BY <3>1, <3>2, <3>3
  <2>9. Numbers(rows)' = Numbers(rows) /\ \A d \in Writes : Numbers(writer[d].added)' = Numbers(writer'[d].added)
    BY <1>0 DEF Numbers
  <2> QED BY <2>5, <2>6, <2>7, <2>8, <2>9 DEF NumbersFresh
<1>e. ListsWhole'
  <2>0. \A d \in Writes : Seen(d)' = IF d = c THEN w.todo \cup w.gone ELSE Seen(d)
    BY <1>1 DEF Seen
  <2>1. \A e \in Writes : RowsBy(e, rows)' = RowsBy(e, rows) /\ Numbers(RowsBy(e, rows)) \subseteq Numbers(rows)
    BY <1>0 DEF RowsBy, Numbers
  <2>2. ASSUME NEW d \in Writes, NEW e \in Writes
        PROVE  \/ Numbers(RowsBy(e, rows)) \subseteq Seen(d)'
               \/ Numbers(RowsBy(e, rows)) \cap Seen(d)' = {}
    <3>1. CASE d # c
      BY <2>0, <3>1 DEF ListsWhole
    <3>2. CASE d = c
      <4>1. \/ Numbers(RowsBy(e, rows)) \subseteq Seen(c)
            \/ Numbers(RowsBy(e, rows)) \cap Seen(c) = {}
        BY DEF ListsWhole
      <4> QED BY <2>0, <2>1, <3>2, <4>1 DEF Quietly
    <3> QED BY <3>1, <3>2
  <2>3. ASSUME NEW d \in Writes, RowsBy(d, rows) # {}
        PROVE  /\ writer'[d].pc = "over"
               /\ {r.account : r \in RowsBy(d, rows)} = writer'[d].body.accounts
    <3>1. d # c
      BY <2>3 DEF ListsWhole, Quietly
    <3> QED BY <1>1, <2>3, <3>1 DEF ListsWhole
  <2>4. \A e \in Writes : Numbers(RowsBy(e, rows))' = Numbers(RowsBy(e, rows))
    BY <2>1 DEF Numbers
  <2> QED BY <1>0, <2>1, <2>2, <2>3, <2>4 DEF ListsWhole
<1>f. DeletesAll'
  <2> SUFFICES ASSUME AllRanged', NEW d \in Writes, writer'[d].pc \in {"deleting", "commit"}, HasRows(writer'[d].body)
               PROVE  Numbers(rows) \subseteq Seen(d)'
    BY <1>0 DEF DeletesAll, Numbers
  <2>0. \A e \in Writes : Seen(e)' = IF e = c THEN w.todo \cup w.gone ELSE Seen(e)
    BY <1>1 DEF Seen
  <2>1. AllRanged
    <3> SUFFICES ASSUME NEW e \in Writes, HasRows(writer[e].body) PROVE HasRange(writer[e].body)
      BY DEF AllRanged
    <3>1. \A f \in Writes : HasRows(writer'[f].body) => HasRange(writer'[f].body)
      BY DEF AllRanged
    <3>2. e = c => writer[e].pc # "idle"
      BY <1>4 DEF Phase, HasRows, NoBody
    <3>3. writer'[e].body = writer[e].body
      BY <1>1, <3>2 DEF Quietly
    <3> QED BY <3>1, <3>3
  <2>2. CASE d # c
    BY <1>1, <2>0, <2>1, <2>2 DEF DeletesAll
  <2>3. CASE d = c
    <3>1. w.pc \in {"deleting", "commit"} /\ HasRows(w.body)
      BY <1>1, <2>3
    <3>2. writer[c].pc = "deleting" => Numbers(rows) \subseteq Seen(c)
      BY <1>4, <2>1 DEF DeletesAll, Phase
    <3>3. Numbers(rows) \subseteq w.todo \cup w.gone
      BY <3>1, <3>2 DEF Quietly
    <3> QED BY <2>0, <2>3, <3>3
  <2> QED BY <2>2, <2>3
<1>g. AnswersTrue'
  <2>0. answer \in [Writes \cup Summaries -> {NoAnswer, 200, 400, 401, 409, 500, 503}]
    BY DEF ConfigTypes
  <2>1. \A d \in Writes : Landed(d)' = Landed(d)
    BY <1>0 DEF Landed
  <2>2. Landed(c) = {} /\ answer[c] = NoAnswer
    BY DEF Quietly, AnswersTrue
  <2>3. ASSUME NEW d \in Writes
        PROVE  /\ writer'[d].pc # "over" => answer'[d] = NoAnswer /\ Landed(d) = {}
               /\ Landed(d) \in {{}, Halves(writer'[d].body)}
               /\ answer'[d] = 200 => Landed(d) = Halves(writer'[d].body)
               /\ answer'[d] \in {400, 401, 409} => Landed(d) = {}
    <3>1. CASE d # c
      <4>1. answer'[d] = answer[d] /\ writer'[d] = writer[d]
        BY <1>1, <2>0, <3>1 DEF Quietly, Answer
      <4> QED BY <4>1 DEF AnswersTrue
    <3>2. CASE d = c
      <4>1. Refusal(w.body) = 200 => Halves(w.body) = {}
        BY <1>6, BodyFacts
      <4>2. \/ w.pc # "over" /\ answer'[c] = NoAnswer
            \/ w.pc = "over" /\ answer'[c] = 500
            \/ w.pc = "over" /\ answer'[c] = Refusal(w.body)
        BY <2>0, <2>2 DEF Quietly, Answer
      <4> QED BY <1>1, <2>2, <3>2, <4>1, <4>2 DEF NoAnswer
    <3> QED BY <3>1, <3>2
  <2> QED BY <2>1, <2>3 DEF AnswersTrue
<1> QED BY <1>a, <1>b, <1>c, <1>d, <1>e, <1>f, <1>g

\* The state of the one writer a statement is about.
LEMMA OwnState ==
    ASSUME ConfigInv, NEW c \in Writes
    PROVE  writer[c] \in Writer /\ Phase(c, writer[c]) /\ settings \in Days /\ serial \in Nat
BY DEF ConfigInv, ConfigTypes, Phases

\* POST /flex/config/write begins (api/config_summary.py).
LEMMA ReceiveKeeps ==
    ASSUME ConfigInv, NEW c \in Writes, Receive(c)
    PROVE  ConfigInv'
<1>1. PICK b \in Bodies :
          \/ Refusal(b) # NoAnswer /\ Answer(c, Refusal(b)) /\ Become(c, NoTransaction("over", b))
          \/ /\ Refusal(b) = NoAnswer /\ UNCHANGED answer
             /\ Become(c, NoTransaction(IF IsHalf(b) THEN "read"
                                        ELSE IF HasRange(b) THEN "upsert" ELSE "delete", b))
  BY DEF Receive
<1>2. b \in AnyBody /\ (Refusal(b) = NoAnswer => HasRows(b) \/ HasRange(b))
  BY BodyFacts DEF AnyBody
<1>3. writer[c].pc = "idle" /\ UNCHANGED <<settings, rows, serial, applied>>
  BY DEF Receive
<1>4. writer[c] \in Writer /\ Phase(c, writer[c]) /\ serial \in Nat
  BY OwnState
<1>5. PICK p \in {"read", "upsert", "delete", "over"} :
          /\ Become(c, NoTransaction(p, b))
          /\ \/ p = "over" /\ Refusal(b) # NoAnswer /\ Answer(c, Refusal(b))
             \/ /\ p # "over" /\ Refusal(b) = NoAnswer /\ UNCHANGED answer
                /\ p = IF IsHalf(b) THEN "read" ELSE IF HasRange(b) THEN "upsert" ELSE "delete"
  BY <1>1
<1> DEFINE w == NoTransaction(p, b)
<1>6. /\ w \in Writer /\ w.pc = p /\ w.body = b /\ w.days = NoSettings
      /\ w.todo = {} /\ w.gone = {} /\ w.added = {}
  BY <1>2, NoTransactionFacts
<1> HIDE DEF w
<1>7. Phase(c, w)
  BY <1>2, <1>5, <1>6 DEF Phase, IsHalf
<1>8. Become(c, w)
  BY <1>5 DEF w
<1>9. Numbers(w.added) = {}
  BY <1>6 DEF Numbers
<1>10. p = "upsert" => ~IsHalf(b)
  BY <1>5
<1>11. Quietly(c, w)
  BY <1>3, <1>4, <1>5, <1>6, <1>7, <1>8, <1>9, <1>10 DEF Quietly
<1> QED BY <1>6, <1>11, QuietKeeps

\* The range days as they are, or the defaults.
LEMMA EffectiveFacts ==
    ASSUME NEW s \in Days
    PROVE  Effective(s) \in Days /\ (s = NoSettings \/ Full(s) => Full(Effective(s)))
BY ConfigAssumption DEF Effective, Days, Full, NoSettings, Null

\* The upsert's days, for a body that asks for range days: complete, and the ones
\* asked for with the others as the pipeline had them.
LEMMA MergeFacts ==
    ASSUME NEW a \in Days, NEW s \in Days
    PROVE  /\ Merge(a, s) \in Days
           /\ a # NoSettings => Merge(a, s) # NoSettings
           /\ Full(s) => Full(Merge(a, s))
           /\ Full(a) => \A t \in Days : Merge(a, s) = Merge(a, t)
BY DEF Merge, COALESCE, Days, Full, NoSettings, Null

\* read_flex_range_days before a half write (config_rw.py).
LEMMA ReadCurrentKeeps ==
    ASSUME ConfigInv, NEW c \in Writes, ReadCurrent(c)
    PROVE  ConfigInv'
<1>1. writer[c] \in Writer /\ Phase(c, writer[c]) /\ settings \in Days /\ serial \in Nat
  BY OwnState
<1> DEFINE w == [writer[c] EXCEPT !.pc = "upsert", !.current = Effective(settings)]
<1>2. Effective(settings) \in Days
  BY <1>1, EffectiveFacts
<1>3. /\ w \in Writer /\ w.pc = "upsert" /\ w.body = writer[c].body /\ w.days = writer[c].days
      /\ w.todo = writer[c].todo /\ w.gone = writer[c].gone /\ w.added = writer[c].added
      /\ w.current = Effective(settings)
  BY <1>1, <1>2 DEF Writer
<1>4. Become(c, w) /\ writer[c].pc = "read" /\ UNCHANGED <<settings, rows, serial, answer, applied>>
  BY DEF ReadCurrent
<1> HIDE DEF w
<1>5. Phase(c, w) /\ w.days = NoSettings /\ w.todo = {} /\ w.gone = {} /\ w.added = {}
  BY <1>1, <1>3, <1>4 DEF Phase
<1>6. Numbers(w.added) = {}
  BY <1>5 DEF Numbers
<1>7. Quietly(c, w)
  BY <1>1, <1>3, <1>4, <1>5, <1>6 DEF Quietly
<1> QED BY <1>3, <1>7, QuietKeeps

\* The upsert of ops_jobs.flex_settings (config_rw.py).
LEMMA UpsertKeeps ==
    ASSUME ConfigInv, NEW c \in Writes, Upsert(c)
    PROVE  ConfigInv'
<1>1. writer[c] \in Writer /\ Phase(c, writer[c]) /\ settings \in Days /\ serial \in Nat
  BY OwnState
<1> DEFINE base == IF settings = NoSettings THEN writer[c].current ELSE settings
           days == Merge(Wanted(writer[c].body), base)
           w == [writer[c] EXCEPT !.pc = AfterUpsert(c), !.current = NoSettings, !.days = days]
<1>2. writer[c].pc = "upsert" /\ UNCHANGED <<settings, rows, serial, answer, applied>> /\ Become(c, w)
      /\ \A d \in Writes \ {c} : ~HoldsSettings(d)
  BY DEF Upsert
<1>3. /\ Wanted(writer[c].body) \in Days /\ writer[c].current \in Days
      /\ base \in Days /\ NoSettings \in Days
      /\ HasRange(writer[c].body) /\ (HasRows(writer[c].body) \/ AfterUpsert(c) = "commit")
      /\ AfterUpsert(c) \in {"delete", "commit"}
      /\ (AfterUpsert(c) = "delete" <=> HasRows(writer[c].body))
  BY <1>1, <1>2, BodyFacts, WriterFacts DEF Phase, AfterUpsert, NoSettings, Days, Null
<1>4. days \in Days /\ days # NoSettings
  BY <1>3, MergeFacts DEF HasRange
<1>5. days = Merge(Wanted(writer[c].body), Effective(settings))
  <2>1. CASE settings # NoSettings
    BY <2>1 DEF Effective
  <2>2. CASE settings = NoSettings /\ IsHalf(writer[c].body)
    BY <1>2, <2>2 DEF ConfigInv, SettingsKept
  <2>3. CASE settings = NoSettings /\ ~IsHalf(writer[c].body)
    <3>1. Full(Wanted(writer[c].body))
      BY <1>3, <2>3 DEF IsHalf, Full
    <3> QED BY <1>1, <1>3, <3>1, MergeFacts, EffectiveFacts
  <2> QED BY <2>1, <2>2, <2>3
<1> HIDE DEF days
<1>6. /\ w \in Writer /\ w.pc = AfterUpsert(c) /\ w.body = writer[c].body /\ w.days = days
      /\ w.todo = writer[c].todo /\ w.gone = writer[c].gone /\ w.added = writer[c].added
  BY <1>1, <1>3, <1>4 DEF Writer
<1> HIDE DEF w
<1>7. w.todo = {} /\ w.gone = {} /\ w.added = {}
  BY <1>1, <1>2, <1>6 DEF Phase
<1>8. {r.account : r \in w.added} = {}
  BY <1>7
<1>9. Phase(c, w)
  BY <1>1, <1>2, <1>3, <1>4, <1>6, <1>7, <1>8 DEF Phase
<1>10. Numbers(w.added) = {}
  BY <1>7 DEF Numbers
<1>11. ~(w.pc \in {"deleting", "commit"} /\ HasRows(w.body)) /\ w.pc # "over" /\ w.pc # "upsert"
  BY <1>3, <1>6
<1>12. Quietly(c, w)
  BY <1>1, <1>2, <1>3, <1>5, <1>6, <1>7, <1>9, <1>10, <1>11 DEF Quietly
<1> QED BY <1>6, <1>12, QuietKeeps

\* DELETE FROM raw_broker.settings_flex begins (config_rw.py).
LEMMA DeleteBeginsKeeps ==
    ASSUME ConfigInv, NEW c \in Writes, DeleteBegins(c)
    PROVE  ConfigInv'
<1>1. writer[c] \in Writer /\ Phase(c, writer[c]) /\ serial \in Nat
  BY OwnState
<1> DEFINE w == [writer[c] EXCEPT !.pc = "deleting", !.todo = Numbers(rows)]
<1>2. writer[c].pc = "delete" /\ UNCHANGED <<settings, rows, serial, answer, applied>> /\ Become(c, w)
  BY DEF DeleteBegins, Numbers
<1>3. Numbers(rows) \subseteq Nat
  BY DEF ConfigInv, ConfigTypes, StoredRow, Numbers
<1>4. /\ w \in Writer /\ w.pc = "deleting" /\ w.body = writer[c].body /\ w.days = writer[c].days
      /\ w.todo = Numbers(rows) /\ w.gone = writer[c].gone /\ w.added = writer[c].added
  BY <1>1, <1>3 DEF Writer
<1> HIDE DEF w
<1>5. w.gone = {} /\ w.added = {}
  BY <1>1, <1>2, <1>4 DEF Phase
<1>6. Phase(c, w)
  BY <1>1, <1>2, <1>4, <1>5 DEF Phase
<1>7. Numbers(w.added) = {}
  BY <1>5 DEF Numbers
<1>8. w.days # NoSettings =>
          /\ w.days = Merge(Wanted(w.body), Effective(settings))
          /\ \A d \in Writes \ {c} : ~HoldsSettings(d)
  BY <1>4 DEF ConfigInv, SettingsKept, HoldsSettings
<1>9. Quietly(c, w)
  BY <1>1, <1>2, <1>4, <1>5, <1>6, <1>7, <1>8 DEF Quietly
<1> QED BY <1>4, <1>9, QuietKeeps

\* The DELETE visits a row.
LEMMA DeleteRowKeeps ==
    ASSUME ConfigInv, NEW c \in Writes, DeleteRow(c)
    PROVE  ConfigInv'
<1>1. writer[c] \in Writer /\ Phase(c, writer[c]) /\ serial \in Nat
  BY OwnState
<1> DEFINE id == Min(writer[c].todo)
           visited == {id} \cap Numbers(rows)
           w == [writer[c] EXCEPT !.todo = writer[c].todo \ {id}, !.gone = writer[c].gone \cup visited]
<1>2. /\ writer[c].pc = "deleting" /\ writer[c].todo # {}
      /\ UNCHANGED <<settings, rows, serial, answer, applied>> /\ Become(c, w)
  BY DEF DeleteRow, Numbers
<1>3. id \in writer[c].todo
  BY <1>1, <1>2, NextVisited, WriterFacts
<1> HIDE DEF id
<1>4. Numbers(rows) \subseteq Nat /\ visited \subseteq Nat
  BY DEF ConfigInv, ConfigTypes, StoredRow, Numbers
<1>5. /\ w \in Writer /\ w.pc = "deleting" /\ w.body = writer[c].body /\ w.days = writer[c].days
      /\ w.todo = writer[c].todo \ {id} /\ w.gone = writer[c].gone \cup visited
      /\ w.added = writer[c].added
  BY <1>1, <1>2, <1>4 DEF Writer
<1> HIDE DEF w
<1>6. Phase(c, w) /\ w.added = {}
  BY <1>1, <1>2, <1>5 DEF Phase
<1>7. Numbers(w.added) = {}
  BY <1>6 DEF Numbers
<1>8. w.days # NoSettings =>
          /\ w.days = Merge(Wanted(w.body), Effective(settings))
          /\ \A d \in Writes \ {c} : ~HoldsSettings(d)
  BY <1>5 DEF ConfigInv, SettingsKept, HoldsSettings
<1>9. /\ w.todo \cup w.gone \subseteq Seen(c) \cup Numbers(rows)
      /\ \A i \in Numbers(rows) : i \in Seen(c) <=> i \in w.todo \cup w.gone
  BY <1>3, <1>5 DEF Seen
<1>10. Quietly(c, w)
  BY <1>1, <1>2, <1>5, <1>6, <1>7, <1>8, <1>9 DEF Quietly
<1> QED BY <1>5, <1>10, QuietKeeps

\* The INSERT of the new rows (config_rw.py).
LEMMA InsertRowsKeeps ==
    ASSUME ConfigInv, NEW c \in Writes, InsertRows(c)
    PROVE  ConfigInv'
<1>1. writer[c] \in Writer /\ Phase(c, writer[c]) /\ serial \in Nat
  BY OwnState
<1> DEFINE A == writer[c].body.accounts
           new == Insert(c, A, serial)
           w == [writer[c] EXCEPT !.pc = "commit", !.added = new]
<1>2. /\ writer[c].pc = "deleting" /\ writer[c].todo = {} /\ Become(c, w)
      /\ serial' = serial + Cardinality(A) /\ UNCHANGED <<settings, rows, answer, applied>>
  BY DEF InsertRows
<1>3. A \in SUBSET Accounts
  BY <1>1, BodyFacts, WriterFacts
<1>4. /\ Cardinality(A) \in Nat /\ new \subseteq StoredRow
      /\ {r.account : r \in new} = A
      /\ \A r \in new : r.by = c
      /\ \A i \in Numbers(new) : i \in Nat /\ serial <= i /\ i < serial + Cardinality(A)
  BY <1>1, <1>3, InsertFacts
<1> HIDE DEF new, A
<1>5. /\ w \in Writer /\ w.pc = "commit" /\ w.body = writer[c].body /\ w.days = writer[c].days
      /\ w.todo = writer[c].todo /\ w.gone = writer[c].gone
      /\ w.added = new
  BY <1>1, <1>2, <1>4 DEF Writer
<1> HIDE DEF w
<1>6. w.body.accounts = A /\ HasRows(w.body)
  BY <1>1, <1>2, <1>5 DEF A, Phase
<1>7. Phase(c, w)
  BY <1>1, <1>2, <1>4, <1>5, <1>6 DEF Phase
<1>8. w.days # NoSettings =>
          /\ w.days = Merge(Wanted(w.body), Effective(settings))
          /\ \A d \in Writes \ {c} : ~HoldsSettings(d)
  BY <1>5 DEF ConfigInv, SettingsKept, HoldsSettings
<1>9. w.todo \cup w.gone = Seen(c)
  BY <1>5 DEF Seen
<1>10. /\ serial' \in Nat /\ serial <= serial'
       /\ \A i \in Numbers(w.added) : serial <= i /\ i < serial'
  BY <1>1, <1>2, <1>4, <1>5
<1>11. Quietly(c, w)
  BY <1>1, <1>2, <1>5, <1>7, <1>8, <1>9, <1>10 DEF Quietly
<1> QED BY <1>5, <1>11, QuietKeeps

\* A statement raises, and the transaction is rolled back (config_rw.py).
LEMMA WriteFailsKeeps ==
    ASSUME ConfigInv, NEW c \in Writes, WriteFails(c)
    PROVE  ConfigInv'
<1>1. writer[c] \in Writer /\ Phase(c, writer[c]) /\ serial \in Nat
  BY OwnState
<1> DEFINE w == NoTransaction("over", writer[c].body)
<1>2. /\ w \in Writer /\ w.pc = "over" /\ w.body = writer[c].body /\ w.days = NoSettings
      /\ w.todo = {} /\ w.gone = {} /\ w.added = {}
  BY <1>1, NoTransactionFacts, WriterFacts
<1>3. /\ Become(c, w) /\ writer[c].pc \notin {"idle", "over"} /\ Answer(c, 500)
      /\ UNCHANGED <<settings, rows, serial, applied>>
  BY DEF WriteFails, Writing
<1> HIDE DEF w
<1>4. Phase(c, w)
  BY <1>2 DEF Phase
<1>5. Numbers(w.added) = {}
  BY <1>2 DEF Numbers
<1>6. Quietly(c, w)
  BY <1>1, <1>2, <1>3, <1>4, <1>5 DEF Quietly
<1> QED BY <1>2, <1>6, QuietKeeps

\* What a COMMIT does to the lists: the rows of another request go together or
\* stay together, and the writer's own appear together.
LEMMA CommitLists ==
    ASSUME ConfigInv, NEW c \in Writes, Commit(c)
    PROVE  /\ RowsBy(c, rows') = writer[c].added
           /\ \A e \in Writes \ {c} : RowsBy(e, rows') \in {{}, RowsBy(e, rows)}
           /\ Numbers(rows') \subseteq Numbers(rows) \cup Numbers(writer[c].added)
           /\ HasRows(writer[c].body) => writer[c].added # {}
           /\ ~HasRows(writer[c].body) => rows' = rows
<1>1. writer[c] \in Writer /\ Phase(c, writer[c])
  BY OwnState
<1>2. rows' = {r \in rows : r.id \notin writer[c].gone} \cup writer[c].added /\ writer[c].pc = "commit"
  BY DEF Commit
<1>3. writer[c].todo = {} /\ Seen(c) = writer[c].gone /\ \A r \in writer[c].added : r.by = c
  BY <1>1, <1>2 DEF Phase, Seen
<1>4. RowsBy(c, rows) = {}
  BY <1>2 DEF ConfigInv, ListsWhole
<1>5. RowsBy(c, rows') = writer[c].added
  BY <1>2, <1>3, <1>4 DEF RowsBy
<1>6. ASSUME NEW e \in Writes \ {c} PROVE RowsBy(e, rows') \in {{}, RowsBy(e, rows)}
  <2>1. RowsBy(e, rows') = {r \in RowsBy(e, rows) : r.id \notin writer[c].gone}
    BY <1>2, <1>3 DEF RowsBy
  <2>2. \/ Numbers(RowsBy(e, rows)) \subseteq writer[c].gone
        \/ Numbers(RowsBy(e, rows)) \cap writer[c].gone = {}
    BY <1>3 DEF ConfigInv, ListsWhole
  <2> QED BY <2>1, <2>2 DEF Numbers
<1>7. Numbers(rows') \subseteq Numbers(rows) \cup Numbers(writer[c].added)
  BY <1>2 DEF Numbers
<1>8. HasRows(writer[c].body) => writer[c].added # {}
  <2> SUFFICES ASSUME HasRows(writer[c].body), writer[c].added = {} PROVE FALSE
    OBVIOUS
  <2>1. writer[c].body \in AnyBody /\ Refusal(writer[c].body) = NoAnswer
    BY <1>1, <1>2, WriterFacts DEF Phase
  <2>2. writer[c].body.accounts # {}
    BY <2>1, BodyFacts
  <2>3. {r.account : r \in writer[c].added} = writer[c].body.accounts
    BY <1>1, <1>2 DEF Phase
  <2> QED BY <2>2, <2>3
<1>9. ~HasRows(writer[c].body) => rows' = rows
  <2> SUFFICES ASSUME ~HasRows(writer[c].body) PROVE rows' = rows
    OBVIOUS
  <2>1. writer[c].gone = {} /\ {r.account : r \in writer[c].added} = {}
    BY <1>1, <1>2 DEF Phase
  <2>2. writer[c].added = {}
    BY <2>1
  <2> QED BY <1>2, <2>1, <2>2
<1> QED BY <1>5, <1>6, <1>7, <1>8, <1>9

\* COMMIT (config_rw.py) lets the settings row, the query rows and the answer
\* change at once.
LEMMA CommitKeeps ==
    ASSUME ConfigInv, NEW c \in Writes, Commit(c)
    PROVE  ConfigInv'
<1> DEFINE b == writer[c].body
           w == NoTransaction("over", b)
<1>1. writer[c] \in Writer /\ Phase(c, writer[c]) /\ settings \in Days /\ serial \in Nat
  BY OwnState
<1>2. /\ writer[c].pc = "commit" /\ Become(c, w) /\ UNCHANGED serial
      /\ settings' = IF HoldsSettings(c) THEN writer[c].days ELSE settings
      /\ applied' = applied \cup ({c} \X Halves(b))
      /\ \E status \in {200, 500} : Answer(c, status)
  BY DEF Commit
<1>3. /\ w \in Writer /\ w.pc = "over" /\ w.body = b /\ w.days = NoSettings
      /\ w.todo = {} /\ w.gone = {} /\ w.added = {}
  BY <1>1, NoTransactionFacts, WriterFacts
<1> HIDE DEF w
<1>4. /\ writer' \in [Writes -> Writer]
      /\ writer'[c] = w
      /\ \A d \in Writes : d # c => writer'[d] = writer[d]
  BY <1>2, <1>3, OneWriter DEF ConfigInv, ConfigTypes
<1>5. \A d \in Writes : writer[d] \in Writer /\ Phase(d, writer[d])
  BY OwnState
<1>6. /\ \A d \in Writes : writer'[d].body = writer[d].body
      /\ \A d \in Writes : Seen(d)' = IF d = c THEN {} ELSE Seen(d)
      /\ \A d \in Writes : writer'[d].added = IF d = c THEN {} ELSE writer[d].added
      /\ \A d \in Writes : HoldsSettings(d)' <=> d # c /\ HoldsSettings(d)
  BY <1>3, <1>4 DEF Seen, HoldsSettings
<1>a. ConfigTypes'
  <2>1. rows' \subseteq StoredRow
    BY <1>1, WriterFacts DEF Commit, ConfigInv, ConfigTypes
  <2>2. settings' \in Days
    BY <1>1, <1>2, WriterFacts
  <2>3. Halves(b) \subseteq {"range", "rows"}
    BY DEF Halves
  <2>4. applied' \subseteq Writes \X {"range", "rows"}
    BY <1>2, <2>3 DEF ConfigInv, ConfigTypes
  <2>5. answer' \in [Writes \cup Summaries -> {NoAnswer, 200, 400, 401, 409, 500, 503}]
    BY <1>2 DEF ConfigInv, ConfigTypes, Answer
  <2> QED BY <1>1, <1>2, <1>4, <2>1, <2>2, <2>4, <2>5 DEF ConfigTypes
<1>b. Phases'
  <2>1. Phase(c, w)
    BY <1>3 DEF Phase
  <2>2. \A d \in Writes : Phase(d, writer'[d])
    BY <1>4, <1>5, <2>1
  <2> QED BY <2>2 DEF Phases, Phase, HasRange, IsHalf, HasRows
<1>c. SettingsKept'
  <2>1. SettingsKept
    BY DEF ConfigInv
  <2>2. CASE HoldsSettings(c)
    <3>1. settings' = Merge(Wanted(b), Effective(settings)) /\ settings' # NoSettings
      BY <1>2, <2>1, <2>2 DEF SettingsKept, HoldsSettings
    <3>2. Full(Effective(settings)) /\ Effective(settings) \in Days
      BY <1>1, <2>1, EffectiveFacts DEF SettingsKept
    <3>3. Wanted(b) \in Days
      BY <1>1, BodyFacts, WriterFacts
    <3>4. Full(settings')
      BY <3>1, <3>2, <3>3, MergeFacts
    <3>5. \A d \in Writes : ~HoldsSettings(d)'
      BY <1>6, <2>1, <2>2 DEF SettingsKept
    <3> QED BY <3>1, <3>4, <3>5 DEF SettingsKept
  <2>3. CASE ~HoldsSettings(c)
    <3>1. settings' = settings
      BY <1>2, <2>3
    <3>2. \A d, e \in Writes : HoldsSettings(d)' /\ HoldsSettings(e)' => d = e
      BY <1>6, <2>1 DEF SettingsKept
    <3>3. ASSUME NEW d \in Writes
          PROVE  /\ HoldsSettings(d)' => writer'[d].days = Merge(Wanted(writer'[d].body), Effective(settings'))
                 /\ writer'[d].pc = "upsert" /\ IsHalf(writer'[d].body) /\ settings' = NoSettings
                       => writer'[d].current = Effective(NoSettings)
      <4>1. CASE d = c
        BY <1>3, <1>4, <1>6, <4>1
      <4>2. CASE d # c
        BY <1>4, <1>6, <2>1, <3>1, <4>2 DEF SettingsKept
      <4> QED BY <4>1, <4>2
    <3> QED BY <2>1, <3>1, <3>2, <3>3 DEF SettingsKept
  <2> QED BY <2>2, <2>3
<1>d. NumbersFresh'
  <2>1. NumbersFresh
    BY DEF ConfigInv
  <2>2. Numbers(rows)' \subseteq Numbers(rows) \cup Numbers(writer[c].added)
    BY CommitLists DEF Numbers
  <2>3. \A d \in Writes : Numbers(writer[d].added)' = IF d = c THEN {} ELSE Numbers(writer[d].added)
    BY <1>6 DEF Numbers
  <2>4. serial' = serial
    BY <1>2
  <2> QED BY <1>6, <2>1, <2>2, <2>3, <2>4 DEF NumbersFresh
<1>e. ListsWhole'
  <2>1. ListsWhole
    BY DEF ConfigInv
  <2>2. rows' # {}
    <3>1. CASE HasRows(b)
      BY <3>1, CommitLists DEF Commit
    <3>2. CASE ~HasRows(b)
      BY <2>1, <3>2, CommitLists DEF ListsWhole
    <3> QED BY <3>1, <3>2
  <2>3. \A e \in Writes : RowsBy(e, rows)' = RowsBy(e, rows')
    BY DEF RowsBy
  <2>4. \A e \in Writes : Numbers(RowsBy(e, rows))' = Numbers(RowsBy(e, rows'))
    BY <2>3 DEF Numbers
  <2>5. ASSUME NEW d \in Writes, NEW e \in Writes
        PROVE  \/ Numbers(RowsBy(e, rows')) \subseteq Seen(d)'
               \/ Numbers(RowsBy(e, rows')) \cap Seen(d)' = {}
    <3>1. CASE d = c
      BY <1>6, <3>1
    <3>2. CASE d # c /\ e = c
      <4>1. Numbers(writer[c].added) \cap Seen(d) = {}
        BY DEF ConfigInv, NumbersFresh
      <4> QED BY <1>6, <3>2, <4>1, CommitLists
    <3>3. CASE d # c /\ e # c
      <4>1. CASE RowsBy(e, rows') = {}
        BY <4>1 DEF Numbers
      <4>2. CASE RowsBy(e, rows') = RowsBy(e, rows)
        BY <1>6, <2>1, <3>3, <4>2 DEF ListsWhole
      <4> QED BY <3>3, <4>1, <4>2, CommitLists
    <3> QED BY <3>1, <3>2, <3>3
  <2>6. ASSUME NEW d \in Writes, RowsBy(d, rows') # {}
        PROVE  /\ writer'[d].pc = "over"
               /\ {r.account : r \in RowsBy(d, rows')} = writer'[d].body.accounts
    <3>1. CASE d = c
      <4>1. RowsBy(c, rows') = writer[c].added /\ HasRows(b)
        BY <2>1, <2>6, <3>1, <1>2, CommitLists DEF ListsWhole
      <4>2. {r.account : r \in writer[c].added} = b.accounts
        BY <1>1, <1>2, <4>1 DEF Phase
      <4> QED BY <1>3, <1>4, <3>1, <4>1, <4>2
    <3>2. CASE d # c
      <4>1. RowsBy(d, rows') = RowsBy(d, rows)
        BY <2>6, <3>2, CommitLists
      <4> QED BY <1>4, <2>1, <2>6, <3>2, <4>1 DEF ListsWhole
    <3> QED BY <3>1, <3>2
  <2> QED BY <2>2, <2>3, <2>4, <2>5, <2>6 DEF ListsWhole
<1>f. DeletesAll'
  <2> SUFFICES ASSUME AllRanged', NEW d \in Writes, writer'[d].pc \in {"deleting", "commit"}, HasRows(writer'[d].body)
               PROVE  Numbers(rows') \subseteq Seen(d)'
    BY DEF DeletesAll, Numbers
  <2>1. AllRanged
    <3>1. \A e \in Writes : HasRows(writer'[e].body) => HasRange(writer'[e].body)
      BY DEF AllRanged
    <3> QED BY <1>6, <3>1 DEF AllRanged
  <2>2. d # c /\ writer'[d] = writer[d]
    BY <1>3, <1>4
  <2>3. HoldsSettings(d)
    BY <1>5, <2>1, <2>2 DEF Phase, AllRanged, HoldsSettings
  <2>4. ~HasRows(b)
    <3>1. HasRows(b) => HoldsSettings(c)
      BY <1>1, <1>2, <2>1 DEF Phase, AllRanged, HoldsSettings
    <3> QED BY <2>2, <2>3, <3>1 DEF ConfigInv, SettingsKept
  <2>5. rows' = rows
    BY <2>4, CommitLists
  <2>6. Numbers(rows) \subseteq Seen(d)
    BY <2>1, <2>2 DEF ConfigInv, DeletesAll
  <2> QED BY <1>6, <2>2, <2>5, <2>6 DEF Numbers
<1>g. AnswersTrue'
  <2>0. AnswersTrue /\ answer \in [Writes \cup Summaries -> {NoAnswer, 200, 400, 401, 409, 500, 503}]
    BY DEF ConfigInv, ConfigTypes
  <2>1. Landed(c) = {} /\ answer[c] = NoAnswer
    BY <1>2, <2>0 DEF AnswersTrue
  <2>2. Halves(b) \subseteq {"range", "rows"}
    BY DEF Halves
  <2>3. Landed(c)' = Halves(b)
    BY <1>2, <2>1, <2>2 DEF Landed
  <2>4. \A d \in Writes \ {c} : Landed(d)' = Landed(d)
    BY <1>2 DEF Landed
  <2>5. answer'[c] \in {200, 500} /\ \A d \in Writes \ {c} : answer'[d] = answer[d]
    BY <1>2, <2>0 DEF Answer
  <2>6. \A d \in Writes : Halves(writer[d].body)' = Halves(writer[d].body)
    BY <1>6 DEF Halves, HasRange, HasRows
  <2>7. \A d \in Writes :
          /\ writer'[d].pc # "over" => answer'[d] = NoAnswer /\ Landed(d)' = {}
          /\ Landed(d)' \in {{}, Halves(writer[d].body)}
          /\ answer'[d] = 200 => Landed(d)' = Halves(writer[d].body)
          /\ answer'[d] \in {400, 401, 409} => Landed(d)' = {}
    <3> SUFFICES ASSUME NEW d \in Writes
                 PROVE  /\ writer'[d].pc # "over" => answer'[d] = NoAnswer /\ Landed(d)' = {}
                        /\ Landed(d)' \in {{}, Halves(writer[d].body)}
                        /\ answer'[d] = 200 => Landed(d)' = Halves(writer[d].body)
                        /\ answer'[d] \in {400, 401, 409} => Landed(d)' = {}
      OBVIOUS
    <3>1. CASE d = c
      BY <1>3, <1>4, <2>3, <2>5, <3>1
    <3>2. CASE d # c
      BY <1>4, <2>0, <2>4, <2>5, <3>2 DEF AnswersTrue
    <3> QED BY <3>1, <3>2
  <2> QED BY <2>6, <2>7 DEF AnswersTrue
<1> QED BY <1>a, <1>b, <1>c, <1>d, <1>e, <1>f, <1>g DEF ConfigInv

\* The invariant but for its answers is about the tables and the writers.
LEMMA SameTables ==
    ASSUME ConfigInv, UNCHANGED <<settings, rows, serial, writer, applied>>
    PROVE  (Phases /\ SettingsKept /\ NumbersFresh /\ ListsWhole /\ DeletesAll)'
<1> USE DEF ConfigInv
<1>1. Phases'
  BY DEF Phases, Phase, HasRange, IsHalf, HasRows
<1>2. SettingsKept'
  BY DEF SettingsKept, HoldsSettings
<1>3. NumbersFresh'
  BY DEF NumbersFresh, Numbers, Seen
<1>4. ListsWhole'
  BY DEF ListsWhole, RowsBy, Numbers, Seen
<1>5. DeletesAll'
  <2>1. AllRanged' => AllRanged
    BY DEF AllRanged, HasRange, HasRows
  <2> QED BY <2>1 DEF DeletesAll, Numbers, Seen
<1> QED BY <1>1, <1>2, <1>3, <1>4, <1>5

\* GET /flex/config/summary writes nothing, and is no write request.
LEMMA SummariseKeeps ==
    ASSUME ConfigInv, NEW s \in Summaries, Summarise(s)
    PROVE  ConfigInv'
<1>1. UNCHANGED <<settings, rows, serial, writer, applied>> /\ \E status \in {200, 500, 503} : Answer(s, status)
  BY DEF Summarise
<1>2. s \notin Writes
  BY ApiAssumption
<1>3. answer \in [Writes \cup Summaries -> {NoAnswer, 200, 400, 401, 409, 500, 503}]
  BY DEF ConfigInv, ConfigTypes
<1>4. /\ answer' \in [Writes \cup Summaries -> {NoAnswer, 200, 400, 401, 409, 500, 503}]
      /\ \A c \in Writes : answer'[c] = answer[c]
  BY <1>1, <1>2, <1>3 DEF Answer
<1>5. ConfigTypes'
  BY <1>1, <1>4 DEF ConfigInv, ConfigTypes
<1>6. (Phases /\ SettingsKept /\ NumbersFresh /\ ListsWhole /\ DeletesAll)'
  BY <1>1, SameTables
<1>7. AnswersTrue'
  BY <1>1, <1>4 DEF ConfigInv, AnswersTrue, Landed
<1> QED BY <1>5, <1>6, <1>7 DEF ConfigInv

\* The tables before the first request.
LEMMA ConfigBegins == ConfigInit => ConfigInv
<1> SUFFICES ASSUME ConfigInit PROVE ConfigInv
  OBVIOUS
<1>1. SeedRows \in SUBSET Accounts /\ SeedRows # {} /\ Seed \notin Writes
  BY ConfigAssumption DEF Seed
<1>2. /\ Cardinality(SeedRows) \in Nat
      /\ rows \subseteq StoredRow /\ rows # {}
      /\ \A r \in rows : r.by = Seed
      /\ \A i \in Numbers(rows) : i \in Nat /\ 1 <= i /\ i < 1 + Cardinality(SeedRows)
  <2>1. rows = Insert(Seed, SeedRows, 1) /\ 1 \in Nat /\ Seed \in Writes \cup {Seed}
    BY DEF ConfigInit
  <2>2. rows # {}
    BY <1>1, <2>1 DEF Insert
  <2> QED BY <1>1, <2>1, <2>2, InsertFacts
<1>3. /\ NoBody \in AnyBody
      /\ \A c \in Writes : writer[c] = NoTransaction("idle", NoBody)
      /\ writer \in [Writes -> {NoTransaction("idle", NoBody)}]
  BY DEF ConfigInit, AnyBody
<1> DEFINE w == NoTransaction("idle", NoBody)
<1>4. /\ w \in Writer /\ w.pc = "idle" /\ w.body = NoBody /\ w.days = NoSettings
      /\ w.todo = {} /\ w.gone = {} /\ w.added = {}
  BY <1>3, NoTransactionFacts
<1> HIDE DEF w
<1>5. \A c \in Writes : writer[c] = w
  BY <1>3 DEF w
<1>6. \A c \in Writes : Seen(c) = {} /\ Numbers(writer[c].added) = {} /\ RowsBy(c, rows) = {} /\ ~HoldsSettings(c)
  BY <1>1, <1>2, <1>4, <1>5 DEF Seen, Numbers, RowsBy, HoldsSettings
<1>7. ConfigTypes
  <2>1. writer \in [Writes -> Writer]
    BY <1>3, <1>4 DEF w
  <2> QED BY <1>2, <2>1 DEF ConfigInit, ConfigTypes, Days, NoSettings, Null, NoAnswer
<1>8. Phases
  BY <1>4, <1>5 DEF Phases, Phase
<1>9. SettingsKept
  BY <1>4, <1>5, <1>6 DEF ConfigInit, SettingsKept
<1>10. NumbersFresh
  BY <1>2, <1>6 DEF ConfigInit, NumbersFresh
<1>11. ListsWhole
  BY <1>2, <1>6 DEF ListsWhole
<1>12. DeletesAll
  BY <1>4, <1>5 DEF DeletesAll
<1>13. AnswersTrue
  <2>1. \A c \in Writes : answer[c] = NoAnswer /\ Landed(c) = {}
    BY DEF ConfigInit, Landed
  <2> QED BY <1>4, <1>5, <2>1 DEF AnswersTrue, NoAnswer
<1> QED BY <1>7, <1>8, <1>9, <1>10, <1>11, <1>12, <1>13 DEF ConfigInv

\* The requests of the endpoints, however they cross, keep ConfigInv.
LEMMA ConfigStep == ConfigInv /\ [Next]_vars => ConfigInv'
<1> SUFFICES ASSUME ConfigInv, [Next]_vars PROVE ConfigInv'
  OBVIOUS
<1>1. ASSUME UNCHANGED configVars PROVE ConfigInv'
  <2>1. UNCHANGED <<settings, rows, serial, writer, answer, applied>>
    BY <1>1 DEF configVars
  <2>2. ConfigTypes' /\ AnswersTrue'
    BY <2>1 DEF ConfigInv, ConfigTypes, AnswersTrue, Landed
  <2> QED BY <2>1, <2>2, SameTables DEF ConfigInv
<1>2. CASE ConfigNext
  BY <1>2, ReceiveKeeps, ReadCurrentKeeps, UpsertKeeps, DeleteBeginsKeeps, DeleteRowKeeps, InsertRowsKeeps,
     CommitKeeps, WriteFailsKeeps, SummariseKeeps DEF ConfigNext, WriteStep
<1>3. CASE \E r \in Requests : HttpStep(r)
  BY <1>1, <1>3 DEF HttpStep, Respond
<1>4. CASE UNCHANGED vars
  BY <1>1, <1>4 DEF vars, configVars
<1> QED BY <1>2, <1>3, <1>4 DEF Next

LEMMA ConfigInvHolds == Spec => []ConfigInv
<1>1. Init => ConfigInv
  BY ConfigBegins DEF Init
<1> QED BY <1>1, ConfigStep, PTL DEF Spec

---------------------------------------------------------------------------
(* What the writes of the configuration promise. *)

\* Whoever reads raw_broker.settings_flex while any number of replacing writes
\* cross sees some list, and of each request's list all or nothing: DELETE and
\* INSERT of write_flex_config (config_rw.py) are one transaction.
THEOREM ListsAreWhole == Spec => []WholeLists
<1>1. ConfigInv => WholeLists
  BY DEF ConfigInv, ListsWhole, WholeLists
<1> QED BY <1>1, ConfigInvHolds, PTL

\* Both halves of a request of POST /flex/config/write land or neither does, and
\* its answer is true of them.
THEOREM RequestsAllOrNothing == Spec => []AllOrNothing
<1>1. ConfigInv => AllOrNothing
  BY DEF ConfigInv, AnswersTrue, AllOrNothing, Landed
<1> QED BY <1>1, ConfigInvHolds, PTL

\* A step that lands a half of a request is the request's COMMIT.
LEMMA LandsByCommit ==
    ASSUME ConfigInv, [Next]_vars, NEW c \in Writes, NEW h, <<c, h>> \notin applied, <<c, h>> \in applied'
    PROVE  Commit(c) /\ h \in Halves(writer[c].body)
<1>1. applied' # applied
  OBVIOUS
<1>2. PICK d \in Writes : Commit(d)
  BY <1>1 DEF Next, vars, ConfigNext, configVars, HttpStep, Respond, Receive, WriteStep, ReadCurrent, Upsert,
              DeleteBegins, DeleteRow, InsertRows, WriteFails, Summarise
<1>3. <<c, h>> \in {d} \X Halves(writer[d].body)
  BY <1>2 DEF Commit
<1>4. d = c /\ h \in Halves(writer[d].body)
  BY <1>3
<1> QED BY <1>2, <1>4

\* A write of one range field leaves what the pipeline runs with in the other
\* field alone, whatever other writes landed between its read and its upsert
\* (the COALESCE of write_flex_config).
THEOREM HalfWritesKeepOther == Spec => HalfWriteKeepsOther
<1> DEFINE Lands(c) ==
               <<c, "range">> \notin applied /\ <<c, "range">> \in applied' =>
                   Effective(settings') = Merge(Wanted(writer[c].body), Effective(settings))
<1>1. ASSUME ConfigInv, [Next]_vars, NEW c \in Writes PROVE Lands(c)
  <2> SUFFICES ASSUME <<c, "range">> \notin applied, <<c, "range">> \in applied'
               PROVE  Effective(settings') = Merge(Wanted(writer[c].body), Effective(settings))
    OBVIOUS
  <2>1. Commit(c) /\ "range" \in Halves(writer[c].body)
    BY <1>1, LandsByCommit
  <2>2. HasRange(writer[c].body)
    BY <2>1 DEF Halves
  <2>3. Phase(c, writer[c])
    BY <1>1, OwnState
  <2>4. HoldsSettings(c)
    BY <2>1, <2>2, <2>3 DEF Phase, Commit, HoldsSettings
  <2>5. settings' = writer[c].days /\ settings' # NoSettings
    BY <2>1, <2>4 DEF Commit, HoldsSettings
  <2>6. writer[c].days = Merge(Wanted(writer[c].body), Effective(settings))
    BY <1>1, <2>4 DEF ConfigInv, SettingsKept
  <2> QED BY <2>5, <2>6 DEF Effective
<1>2. ConfigInv /\ [Next]_vars => [\A c \in Writes : Lands(c)]_configVars
  BY <1>1
<1> QED BY <1>2, ConfigInvHolds, PTL DEF Spec, HalfWriteKeepsOther

\* If every replacing write carries range days, each leaves exactly its own rows:
\* the settings row, which it writes first, keeps the DELETEs apart.
THEOREM LockedWritesReplace == Spec => LockedReplace
<1> DEFINE Replaces(c) ==
               Commits(c) /\ AllRanged => rows' = RowsBy(c, rows')
<1>1. ASSUME ConfigInv, [Next]_vars, NEW c \in Writes PROVE Replaces(c)
  <2> SUFFICES ASSUME Commits(c), AllRanged PROVE rows' = RowsBy(c, rows')
    OBVIOUS
  <2>1. Commit(c) /\ "rows" \in Halves(writer[c].body)
    BY <1>1, LandsByCommit DEF Commits
  <2>2. HasRows(writer[c].body)
    BY <2>1 DEF Halves
  <2>3. Phase(c, writer[c])
    BY <1>1, OwnState
  <2>4. Seen(c) = writer[c].gone
    BY <2>1, <2>3 DEF Phase, Commit, Seen
  <2>5. Numbers(rows) \subseteq writer[c].gone
    BY <1>1, <2>1, <2>2, <2>4 DEF ConfigInv, DeletesAll, Commit
  <2>6. rows' = writer[c].added
    BY <2>1, <2>5 DEF Commit, Numbers
  <2> QED BY <1>1, <2>1, <2>6, CommitLists
<1>2. ConfigInv /\ [Next]_vars =>
          [\A c \in Writes :
              /\ Commits(c)
              /\ \A d \in Writes : HasRows(writer[d].body) => HasRange(writer[d].body)
              => rows' = RowsBy(c, rows')]_configVars
  BY <1>1 DEF AllRanged
<1> QED BY <1>2, ConfigInvHolds, PTL DEF Spec, LockedReplace

---------------------------------------------------------------------------
(* The counting middleware. *)

\* The middleware knows the handlers it times: the two endpoints.
LEMMA HandlerFacts ==
    /\ \A r \in Requests : Handler[r] \in Handlers \cup {"unmatched"}
    /\ \A r \in Requests : Handler[r] \notin Untimed \cup Unrecorded =>
          /\ Handler[r] \in {"/flex/config/write", "/flex/config/summary"}
          /\ r \notin Scrapes
    /\ Handlers \ Untimed = {"/flex/config/write", "/flex/config/summary"}
    /\ Free \notin Requests
    /\ Scrapes \subseteq Requests
    /\ \A status : Class(status) \in Classes
BY HttpAssumption DEF Handlers, Unrecorded, Untimed, Scrapes, Free, Class, Classes

\* While nobody holds the lock nobody is between two halves.
LEMMA LockFree ==
    ASSUME HttpInv, mutex = Free
    PROVE  /\ \A r \in Requests : call[r].pc # "observe"
           /\ \A r \in Scrapes : scrape[r].pc # "rendering"
           /\ \A h : Ahead(h) = 0
BY HandlerFacts DEF HttpInv, LockHeld, Ahead

\* send_and_record counts a response under the lock, once (http_metrics.py).
LEMMA CountKeeps ==
    ASSUME HttpInv, NEW r \in Requests, NEW class \in Classes, call[r].pc = "app",
           Count(r, class), UNCHANGED scrape
    PROVE  HttpInv'
<1>0. HttpTypes /\ LockHeld /\ TimesFollow /\ HalfRendered /\ ScrapeAddsUp
  BY DEF HttpInv
<1>1. CASE /\ call' = [call EXCEPT ![r] = [pc |-> "started", status |-> class]]
           /\ UNCHANGED <<counters, mutex>>
  <2>1. HttpTypes'
    BY <1>0, <1>1 DEF HttpTypes
  <2>2. \A q \in Requests : call'[q].pc = "observe" <=> call[q].pc = "observe"
    BY <1>0, <1>1 DEF HttpTypes
  <2>3. LockHeld'
    BY <1>0, <1>1, <2>2 DEF LockHeld, Scrapes
  <2>4. \A h : Ahead(h)' = Ahead(h) /\ Total(h)' = Total(h)
    BY <1>1, <2>2 DEF Ahead, Total
  <2>5. TimesFollow' /\ HalfRendered' /\ ScrapeAddsUp'
    BY <1>0, <1>1, <2>4 DEF TimesFollow, HalfRendered, ScrapeAddsUp
  <2> QED BY <2>1, <2>3, <2>5 DEF HttpInv
<1>2. CASE /\ Handler[r] \notin Unrecorded
           /\ mutex = Free
           /\ counters' = [counters EXCEPT !.requests[Handler[r]][class] = @ + 1]
  <2>0. Handler[r] \in Handlers
    BY <1>2, HandlerFacts DEF Unrecorded
  <2>1. /\ \A q \in Requests : call[q].pc # "observe"
        /\ \A q \in Scrapes : scrape[q].pc # "rendering"
        /\ \A h : Ahead(h) = 0
    BY <1>2, LockFree
  <2>2. /\ counters' \in [requests : [Handlers -> [Classes -> Nat]], duration : [Handlers -> Nat], highr : Nat]
        /\ counters'.duration = counters.duration /\ counters'.highr = counters.highr
        /\ \A h \in Handlers, cl \in Classes : counters'.requests[h][cl] =
              IF h = Handler[r] /\ cl = class THEN counters.requests[h][cl] + 1 ELSE counters.requests[h][cl]
    <3> DEFINE row == [counters.requests[Handler[r]] EXCEPT ![class] = counters.requests[Handler[r]][class] + 1]
               new == [counters.requests EXCEPT ![Handler[r]] = row]
    <3>1. counters \in [requests : [Handlers -> [Classes -> Nat]], duration : [Handlers -> Nat], highr : Nat]
      BY <1>0 DEF HttpTypes
    <3>2. counters.requests \in [Handlers -> [Classes -> Nat]]
      BY <3>1
    <3>3. counters.requests[Handler[r]] \in [Classes -> Nat]
      BY <2>0, <3>2
    <3>4. row \in [Classes -> Nat] /\ \A cl \in Classes : row[cl] =
              IF cl = class THEN counters.requests[Handler[r]][cl] + 1 ELSE counters.requests[Handler[r]][cl]
      BY <3>3
    <3>5. counters' = [counters EXCEPT !.requests = new]
      BY <1>2
    <3> HIDE DEF row
    <3>6. new \in [Handlers -> [Classes -> Nat]]
          /\ \A h \in Handlers : new[h] = IF h = Handler[r] THEN row ELSE counters.requests[h]
      BY <2>0, <3>2, <3>4
    <3> HIDE DEF new
    <3>7. counters'.requests = new /\ counters'.duration = counters.duration /\ counters'.highr = counters.highr
          /\ counters' \in [requests : [Handlers -> [Classes -> Nat]], duration : [Handlers -> Nat], highr : Nat]
      BY <3>1, <3>5, <3>6
    <3> QED BY <3>4, <3>6, <3>7
  <2>3. \A h \in Handlers, cl \in Classes : counters.requests[h][cl] \in Nat
    BY <1>0 DEF HttpTypes
  <2>4. \A h \in Handlers : Total(h)' = IF h = Handler[r] THEN Total(h) + 1 ELSE Total(h)
    BY <2>2, <2>3 DEF Total, Classes
  <2>5. HalfRendered' /\ ScrapeAddsUp'
    BY <1>0, <2>1 DEF HalfRendered, ScrapeAddsUp
  <2>6. CASE /\ Handler[r] \in Untimed
             /\ call' = [call EXCEPT ![r] = [pc |-> "started", status |-> class]]
             /\ UNCHANGED mutex
    <3>1. HttpTypes'
      BY <1>0, <2>2, <2>6 DEF HttpTypes
    <3>2. \A q \in Requests : call'[q].pc # "observe"
      BY <1>0, <2>1, <2>6 DEF HttpTypes
    <3>3. LockHeld'
      BY <1>2, <2>1, <2>6, <3>2, HandlerFacts DEF LockHeld, Scrapes
    <3>4. \A h : Ahead(h)' = 0
      BY <3>2 DEF Ahead
    <3>5. \A h \in Handlers \ Untimed : Total(h)' = Total(h)
      BY <2>4, <2>6
    <3>6. TimesFollow'
      BY <1>0, <2>1, <2>2, <3>4, <3>5 DEF TimesFollow
    <3> QED BY <2>5, <3>1, <3>3, <3>6 DEF HttpInv
  <2>7. CASE /\ Handler[r] \notin Untimed
             /\ call' = [call EXCEPT ![r] = [pc |-> "observe", status |-> class]]
             /\ mutex' = r
    <3>1. HttpTypes'
      BY <1>0, <2>2, <2>7 DEF HttpTypes
    <3>2. \A q \in Requests : call'[q].pc = "observe" <=> q = r
      BY <1>0, <2>1, <2>7 DEF HttpTypes
    <3>3. r \notin Scrapes
      BY <1>2, <2>7, HandlerFacts
    <3>4. LockHeld'
      BY <1>2, <2>1, <2>7, <3>2, <3>3, HandlerFacts DEF LockHeld, Scrapes
    <3>5. \A h : Ahead(h)' = IF h = Handler[r] THEN 1 ELSE 0
      BY <3>2 DEF Ahead
    <3>6. \A h \in Handlers : counters.duration[h] \in Nat /\ Total(h) \in Nat
      BY <1>0, <2>3 DEF HttpTypes, Total, Classes
    <3>7. TimesFollow'
      BY <1>0, <2>1, <2>2, <2>4, <3>5, <3>6 DEF TimesFollow
    <3> QED BY <2>5, <3>1, <3>4, <3>7 DEF HttpInv
  <2> QED BY <1>2, <2>6, <2>7 DEF Count
<1> QED BY <1>1, <1>2 DEF Count

\* The times of a counted request, and the unlock.
LEMMA ObserveKeeps ==
    ASSUME HttpInv, NEW r \in Requests, ObserveTimes(r)
    PROVE  HttpInv'
<1>0. HttpTypes /\ LockHeld /\ TimesFollow /\ HalfRendered /\ ScrapeAddsUp
  BY DEF HttpInv
<1>1. /\ call[r].pc = "observe" /\ mutex' = Free /\ UNCHANGED scrape
      /\ counters' = [counters EXCEPT !.duration[Handler[r]] = @ + 1, !.highr = @ + 1]
      /\ call' = [call EXCEPT ![r].pc = "started"]
  BY DEF ObserveTimes
<1>2. mutex = r /\ r \notin Scrapes /\ Handler[r] \in {"/flex/config/write", "/flex/config/summary"}
  BY <1>0, <1>1, HandlerFacts DEF LockHeld
<1>3. \A q \in Requests : call[q].pc = "observe" => q = r
  BY <1>0, <1>2 DEF LockHeld
<1>4. \A q \in Scrapes : scrape[q].pc # "rendering"
  BY <1>0, <1>2 DEF LockHeld
<1>5. Handler[r] \in Handlers
  BY <1>2 DEF Handlers
<1>6. /\ counters' \in [requests : [Handlers -> [Classes -> Nat]], duration : [Handlers -> Nat], highr : Nat]
      /\ counters'.requests = counters.requests /\ counters'.highr = counters.highr + 1
      /\ \A h \in Handlers : counters'.duration[h] =
            IF h = Handler[r] THEN counters.duration[h] + 1 ELSE counters.duration[h]
      /\ \A h \in Handlers : counters.duration[h] \in Nat
      /\ counters.highr \in Nat
  <2> DEFINE new == [counters.duration EXCEPT ![Handler[r]] = counters.duration[Handler[r]] + 1]
  <2>1. counters \in [requests : [Handlers -> [Classes -> Nat]], duration : [Handlers -> Nat], highr : Nat]
    BY <1>0 DEF HttpTypes
  <2>2. counters.duration \in [Handlers -> Nat] /\ counters.highr \in Nat
    BY <2>1
  <2>3. new \in [Handlers -> Nat] /\ \A h \in Handlers : new[h] =
            IF h = Handler[r] THEN counters.duration[h] + 1 ELSE counters.duration[h]
    BY <1>5, <2>2
  <2>4. counters' = [counters EXCEPT !.duration = new, !.highr = counters.highr + 1]
    BY <1>1
  <2> HIDE DEF new
  <2> DEFINE more == counters.highr + 1
  <2>5. more \in Nat /\ counters' = [counters EXCEPT !.duration = new, !.highr = more]
    BY <2>2, <2>4
  <2> HIDE DEF more
  <2>6. counters' = [requests |-> counters.requests, duration |-> new, highr |-> more]
    BY <2>1, <2>5
  <2>7. counters'.duration = new /\ counters'.requests = counters.requests /\ counters'.highr = counters.highr + 1
    BY <2>6 DEF more
  <2>8. counters' \in [requests : [Handlers -> [Classes -> Nat]], duration : [Handlers -> Nat], highr : Nat]
    BY <2>1, <2>3, <2>5, <2>6
  <2> QED BY <2>2, <2>3, <2>7, <2>8
<1>7. \A q \in Requests : call'[q].pc # "observe"
  BY <1>0, <1>1, <1>3 DEF HttpTypes
<1>8. HttpTypes'
  BY <1>0, <1>1, <1>6 DEF HttpTypes
<1>9. LockHeld'
  BY <1>1, <1>4, <1>7, HandlerFacts DEF LockHeld, Scrapes
<1>10. \A h : Ahead(h) = (IF h = Handler[r] THEN 1 ELSE 0) /\ Ahead(h)' = 0 /\ Total(h)' = Total(h)
  BY <1>1, <1>3, <1>6, <1>7 DEF Ahead, Total
<1>11. TimesFollow'
  <2>1. {"/flex/config/write", "/flex/config/summary"} \subseteq Handlers
    BY DEF Handlers
  <2>2. \A h \in Handlers \ Untimed : Total(h)' = counters'.duration[h] + Ahead(h)'
    BY <1>0, <1>6, <1>10 DEF TimesFollow
  <2>3. counters'.highr = counters'.duration["/flex/config/write"] + counters'.duration["/flex/config/summary"]
    BY <1>0, <1>2, <1>6, <2>1 DEF TimesFollow
  <2> QED BY <2>2, <2>3 DEF TimesFollow
<1>12. HalfRendered' /\ ScrapeAddsUp'
  BY <1>0, <1>1, <1>4 DEF HalfRendered, ScrapeAddsUp
<1> QED BY <1>8, <1>9, <1>11, <1>12 DEF HttpInv

\* GET /metrics takes the lock and renders the counts (http_metrics.py).
LEMMA RenderRequestsKeeps ==
    ASSUME HttpInv, NEW r \in Requests, RenderRequests(r)
    PROVE  HttpInv'
<1>0. HttpTypes /\ LockHeld /\ TimesFollow /\ HalfRendered /\ ScrapeAddsUp
  BY DEF HttpInv
<1>1. /\ r \in Scrapes /\ mutex = Free /\ mutex' = r /\ UNCHANGED <<call, counters>>
      /\ scrape[r].pc = "idle"
      /\ scrape' = [scrape EXCEPT ![r].pc = "rendering", ![r].requests = [h \in Handlers |-> Total(h)]]
  BY DEF RenderRequests
<1>2. /\ \A q \in Requests : call[q].pc # "observe"
      /\ \A q \in Scrapes : scrape[q].pc # "rendering"
  BY <1>1, LockFree
<1>3. \A h \in Handlers : Total(h) \in Nat
  BY <1>0 DEF HttpTypes, Total, Classes
<1>4. [h \in Handlers |-> Total(h)] \in [Handlers -> Nat]
  BY <1>3
<1>5. /\ scrape' \in [Scrapes -> [pc : {"idle", "rendering", "rendered"}, requests : [Handlers -> Nat],
                                  duration : [Handlers -> Nat], highr : Nat]]
      /\ scrape'[r].pc = "rendering" /\ scrape'[r].requests = [h \in Handlers |-> Total(h)]
      /\ \A q \in Scrapes : q # r => scrape'[q] = scrape[q]
  BY <1>0, <1>1, <1>4 DEF HttpTypes
<1>6. HttpTypes'
  BY <1>0, <1>1, <1>5 DEF HttpTypes, Scrapes
<1>7. LockHeld'
  BY <1>0, <1>1, <1>2, <1>5 DEF LockHeld, Scrapes
<1>8. \A h : Total(h)' = Total(h) /\ Ahead(h)' = Ahead(h)
  BY <1>1 DEF Total, Ahead
<1>9. TimesFollow'
  BY <1>0, <1>1, <1>8 DEF TimesFollow
<1>10. HalfRendered'
  <2>1. \A q \in Scrapes : scrape'[q].pc = "rendering" => q = r
    BY <1>2, <1>5
  <2> QED BY <1>5, <1>8, <2>1 DEF HalfRendered, Scrapes
<1>11. ScrapeAddsUp'
  <2>1. \A q \in Scrapes : scrape'[q].pc = "rendered" => scrape'[q] = scrape[q]
    BY <1>5
  <2> QED BY <1>0, <2>1 DEF ScrapeAddsUp, Scrapes
<1> QED BY <1>6, <1>7, <1>9, <1>10, <1>11 DEF HttpInv

\* It renders the times and unlocks.
LEMMA RenderTimesKeeps ==
    ASSUME HttpInv, NEW r \in Requests, RenderTimes(r)
    PROVE  HttpInv'
<1>0. HttpTypes /\ LockHeld /\ TimesFollow /\ HalfRendered /\ ScrapeAddsUp
  BY DEF HttpInv
<1>1. /\ r \in Scrapes /\ scrape[r].pc = "rendering" /\ UNCHANGED <<call, counters>>
      /\ scrape' = [scrape EXCEPT ![r].pc = "rendered", ![r].duration = counters.duration,
                                  ![r].highr = counters.highr]
      /\ mutex' = IF mutex = r THEN Free ELSE mutex
  BY DEF RenderTimes
<1>2. mutex = r /\ mutex' = Free
  BY <1>0, <1>1 DEF LockHeld
<1>3. \A q \in Requests : call[q].pc # "observe"
  BY <1>0, <1>1, <1>2 DEF LockHeld
<1>4. \A q \in Scrapes : scrape[q].pc = "rendering" => q = r
  BY <1>0, <1>2 DEF LockHeld
<1>5. counters.duration \in [Handlers -> Nat] /\ counters.highr \in Nat
  BY <1>0 DEF HttpTypes
<1>6. /\ scrape' \in [Scrapes -> [pc : {"idle", "rendering", "rendered"}, requests : [Handlers -> Nat],
                                  duration : [Handlers -> Nat], highr : Nat]]
      /\ scrape'[r].pc = "rendered" /\ scrape'[r].requests = scrape[r].requests
      /\ scrape'[r].duration = counters.duration /\ scrape'[r].highr = counters.highr
      /\ \A q \in Scrapes : q # r => scrape'[q] = scrape[q]
  BY <1>0, <1>1, <1>5 DEF HttpTypes
<1>7. HttpTypes'
  BY <1>0, <1>1, <1>2, <1>6 DEF HttpTypes, Scrapes
<1>8. LockHeld'
  BY <1>1, <1>2, <1>3, <1>4, <1>6, HandlerFacts DEF LockHeld, Scrapes
<1>9. \A h : Total(h)' = Total(h) /\ Ahead(h)' = Ahead(h) /\ Ahead(h) = 0
  BY <1>1, <1>3 DEF Total, Ahead
<1>10. TimesFollow'
  BY <1>0, <1>1, <1>9 DEF TimesFollow
<1>11. HalfRendered'
  <2>1. \A q \in Scrapes : scrape'[q].pc # "rendering"
    BY <1>4, <1>6
  <2> QED BY <2>1 DEF HalfRendered, Scrapes
<1>12. ScrapeAddsUp'
  <2>1. \A h \in Handlers \ Untimed : scrape[r].requests[h] = counters.duration[h]
    BY <1>0, <1>1, <1>5, <1>9 DEF HalfRendered, TimesFollow
  <2>2. \A h \in Handlers \ Untimed : scrape'[r].duration[h] = scrape'[r].requests[h]
    BY <1>6, <2>1
  <2>3. scrape'[r].highr = scrape'[r].duration["/flex/config/write"]
                           + scrape'[r].duration["/flex/config/summary"]
    BY <1>0, <1>6 DEF TimesFollow
  <2> QED BY <1>0, <1>6, <2>2, <2>3 DEF ScrapeAddsUp, Scrapes
<1> QED BY <1>7, <1>8, <1>10, <1>11, <1>12 DEF HttpInv

\* The counters begin at zero, unlocked.
LEMMA HttpBegins == HttpInit => HttpInv
<1> SUFFICES ASSUME HttpInit PROVE HttpInv
  OBVIOUS
<1>1. HttpTypes
  BY DEF HttpInit, HttpTypes, Handlers, Classes
<1>2. \A r \in Requests : call[r].pc = "app"
  BY DEF HttpInit
<1>3. \A r \in Scrapes : scrape[r].pc = "idle"
  BY DEF HttpInit
<1>4. LockHeld
  BY <1>2, <1>3, HandlerFacts DEF HttpInit, LockHeld
<1>5. \A h \in Handlers : Total(h) = 0 /\ counters.duration[h] = 0
  BY DEF HttpInit, Total, Classes
<1>6. TimesFollow
  BY <1>2, <1>5 DEF HttpInit, TimesFollow, Ahead, Handlers
<1> QED BY <1>1, <1>3, <1>4, <1>6 DEF HttpInv, HalfRendered, ScrapeAddsUp

\* The middleware and the scrapes keep HttpInv; the endpoints do not touch it.
LEMMA HttpInvStep == HttpInv /\ [Next]_vars => HttpInv'
<1> SUFFICES ASSUME HttpInv, [Next]_vars PROVE HttpInv'
  OBVIOUS
<1>1. ASSUME UNCHANGED httpVars PROVE HttpInv'
  <2>1. UNCHANGED <<call, counters, mutex, scrape>>
    BY <1>1 DEF httpVars
  <2>2. \A h : Total(h)' = Total(h) /\ Ahead(h)' = Ahead(h)
    BY <2>1 DEF Total, Ahead
  <2>3. HttpTypes' /\ LockHeld'
    BY <2>1 DEF HttpInv, HttpTypes, LockHeld, Scrapes
  <2>4. TimesFollow' /\ HalfRendered' /\ ScrapeAddsUp'
    BY <2>1, <2>2 DEF HttpInv, TimesFollow, HalfRendered, ScrapeAddsUp, Scrapes
  <2> QED BY <2>3, <2>4 DEF HttpInv
<1>2. CASE UNCHANGED httpVars
  BY <1>1, <1>2
<1>3. ASSUME NEW r \in Requests, HttpStep(r) PROVE HttpInv'
  <2>1. CASE Respond(r)
    <3>1. PICK class \in Classes : call[r].pc = "app" /\ Count(r, class) /\ UNCHANGED scrape
      BY <2>1, HandlerFacts DEF Respond, RaisesBefore, ResponseStarts, Classes
    <3> QED BY <3>1, CountKeeps
  <2> QED BY <1>1, <1>3, <2>1, ObserveKeeps, RenderRequestsKeeps, RenderTimesKeeps DEF HttpStep, RaisesAfter
<1>4. UNCHANGED vars => UNCHANGED httpVars
  BY DEF vars, httpVars
<1> QED BY <1>2, <1>3, <1>4 DEF Next

\* HttpInv is an invariant of the endpoints behind the middleware.
LEMMA HttpInvHolds == Spec => []HttpInv
<1>1. Init => HttpInv
  BY HttpBegins DEF Init
<1> QED BY <1>1, HttpInvStep, PTL DEF Spec

\* What one GET /metrics shows adds up, however the requests that are being
\* recorded fall into its rendering: both hold the one lock of http_metrics.py.
THEOREM ScrapesAddUp == Spec => []ScrapeAddsUp
<1>1. HttpInv => ScrapeAddsUp
  BY DEF HttpInv
<1> QED BY <1>1, HttpInvHolds, PTL

\* The tables, the transactions and the counters stay within their types.
THEOREM ApiTypes == Spec => []TypeOK
<1>1. ConfigInv /\ HttpInv => TypeOK
  <2> SUFFICES ASSUME ConfigInv, HttpInv PROVE TypeOK
    OBVIOUS
  <2>1. ConfigTypes /\ \A c \in Writes : writer[c] \in Writer
    BY DEF ConfigInv, ConfigTypes
  <2>2. ConfigTypeOK
    BY <2>1, WriterFacts DEF ConfigTypes, ConfigTypeOK
  <2>3. HttpTypeOK
    BY DEF HttpInv, HttpTypes, HttpTypeOK
  <2> QED BY <2>2, <2>3 DEF TypeOK
<1> QED BY <1>1, ConfigInvHolds, HttpInvHolds, PTL

---------------------------------------------------------------------------
(* The counts. *)

Counted(h, class) ==
    {r \in Requests : Handler[r] = h /\ call[r].pc # "app" /\ Class(StatusOf(r)) = class}

CountInv == AnsweredFirst /\ CountedOnce

\* What a request was answered with is its answer for good.
LEMMA AnswerStays ==
    ASSUME ConfigInv, HttpInv, [Next]_vars, NEW r \in Requests, StatusOf(r) # NoAnswer
    PROVE  StatusOf(r)' = StatusOf(r)
<1>1. Handler[r] = "/flex/config/write" <=> r \in Writes
  BY ApiAssumption
<1>2. Handler[r] = "/flex/config/summary" <=> r \in Summaries
  BY ApiAssumption
<1>3. CASE Handler[r] \in {"/flex/config/write", "/flex/config/summary"}
  <2>1. StatusOf(r) = answer[r] /\ StatusOf(r)' = answer'[r]
    BY <1>3 DEF StatusOf
  <2>2. answer[r] # NoAnswer /\ (r \in Writes => writer[r].pc = "over")
    BY <2>1 DEF ConfigInv, AnswersTrue
  <2>3. answer \in [Writes \cup Summaries -> {NoAnswer, 200, 400, 401, 409, 500, 503}]
    BY DEF ConfigInv, ConfigTypes
  <2>4. ASSUME NEW q \in Writes \cup Summaries, NEW status, Answer(q, status), q # r
        PROVE  answer'[r] = answer[r]
    BY <1>1, <1>2, <1>3, <2>3, <2>4 DEF Answer
  <2>5. CASE UNCHANGED answer
    BY <2>5, <2>1
  <2>6. ASSUME NEW c \in Writes, Receive(c) \/ WriteStep(c) \/ WriteFails(c)
        PROVE  answer'[r] = answer[r]
    <3>1. CASE c = r
      BY <2>2, <2>6, <3>1 DEF Receive, WriteStep, ReadCurrent, Upsert, DeleteBegins, DeleteRow, InsertRows,
                              Commit, WriteFails, Writing
    <3>2. CASE c # r
      BY <2>4, <2>6, <3>2 DEF Receive, WriteStep, ReadCurrent, Upsert, DeleteBegins, DeleteRow, InsertRows,
                              Commit, WriteFails
    <3> QED BY <3>1, <3>2
  <2>7. ASSUME NEW s \in Summaries, Summarise(s) PROVE answer'[r] = answer[r]
    BY <2>2, <2>4, <2>7 DEF Summarise
  <2> QED BY <2>1, <2>5, <2>6, <2>7 DEF Next, ConfigNext, HttpStep, Respond, configVars, vars
<1>4. CASE Handler[r] = "/metrics"
  <2>1. /\ StatusOf(r) = IF scrape[r].pc = "rendered" THEN 200 ELSE NoAnswer
        /\ StatusOf(r)' = IF scrape'[r].pc = "rendered" THEN 200 ELSE NoAnswer
    BY <1>4 DEF StatusOf
  <2>2. r \in Scrapes /\ scrape[r].pc = "rendered"
    BY <1>4, <2>1 DEF Scrapes
  <2>3. scrape \in [Scrapes -> [pc : {"idle", "rendering", "rendered"}, requests : [Handlers -> Nat],
                               duration : [Handlers -> Nat], highr : Nat]]
    BY DEF HttpInv, HttpTypes
  <2>4. scrape'[r].pc = "rendered"
    BY <2>2, <2>3 DEF Next, HttpStep, Respond, RaisesBefore, ResponseStarts, ObserveTimes, RaisesAfter,
                      RenderRequests, RenderTimes, httpVars, vars
  <2> QED BY <2>1, <2>2, <2>4
<1>5. CASE Handler[r] \notin {"/flex/config/write", "/flex/config/summary", "/metrics"}
  BY <1>5 DEF StatusOf
<1> QED BY <1>3, <1>4, <1>5

\* A step that records no request leaves the counts and what they count alone.
LEMMA NothingCounted ==
    ASSUME ConfigInv, HttpInv, CountInv, [Next]_vars, counters'.requests = counters.requests,
           \A q \in Requests : call'[q].pc # "app" <=> call[q].pc # "app"
    PROVE  CountInv'
<1>1. \A q \in Requests : call[q].pc # "app" => StatusOf(q) # NoAnswer /\ StatusOf(q)' = StatusOf(q)
  BY AnswerStays DEF CountInv, AnsweredFirst
<1>2. AnsweredFirst'
  BY <1>1 DEF AnsweredFirst
<1>3. \A h, class : Counted(h, class)' = Counted(h, class)
  BY <1>1 DEF Counted, Class
<1>4. CountedOnce'
  <2>1. \A h \in Handlers, class \in Classes :
            counters.requests[h][class] = IF h \in Unrecorded THEN 0 ELSE Cardinality(Counted(h, class))
    BY DEF CountInv, CountedOnce, Counted
  <2>2. \A h \in Handlers, class \in Classes :
            counters'.requests[h][class] = IF h \in Unrecorded THEN 0 ELSE Cardinality(Counted(h, class))'
    BY <1>3, <2>1
  <2> QED BY <2>2 DEF CountedOnce, Counted
<1> QED BY <1>2, <1>4 DEF CountInv

\* The first response of a request, or its exception, adds it to the count of its
\* handler under the class of its status.
LEMMA ResponseCounted ==
    ASSUME ConfigInv, HttpInv, CountInv, NEW r \in Requests, Respond(r)
    PROVE  CountInv'
<1> DEFINE class == Class(StatusOf(r))
<1>1. /\ StatusOf(r) # NoAnswer /\ call[r].pc = "app" /\ UNCHANGED <<answer, scrape>>
      /\ Count(r, class) /\ class \in Classes
  <2>1. Handler[r] = "/flex/config/summary" /\ answer[r] = 500 => StatusOf(r) = 500
    BY DEF StatusOf
  <2>2. Class(500) = "5xx"
    BY DEF Class
  <2> QED BY <2>1, <2>2, HandlerFacts DEF Respond, RaisesBefore, ResponseStarts, configVars
<1>2. \A q : StatusOf(q)' = StatusOf(q)
  BY <1>1 DEF StatusOf
<1>3. HttpTypes
  BY DEF HttpInv
<1>4. /\ call'[r].pc # "app"
      /\ \A q \in Requests : q # r => call'[q] = call[q]
  BY <1>1, <1>3 DEF Count, HttpTypes
<1>5. AnsweredFirst'
  BY <1>1, <1>2, <1>4 DEF CountInv, AnsweredFirst
<1> HIDE DEF class
<1>6. \A h, cl : Counted(h, cl)' =
          IF h = Handler[r] /\ cl = class THEN Counted(h, cl) \cup {r} ELSE Counted(h, cl)
  <2>1. class = Class(StatusOf(r))
    BY DEF class
  <2>2. \A q : Class(StatusOf(q))' = Class(StatusOf(q))
    BY <1>2 DEF Class
  <2> QED BY <1>4, <2>1, <2>2 DEF Counted
<1>7. \A h, cl : IsFiniteSet(Counted(h, cl)) /\ r \notin Counted(h, cl)
  <2>1. \A h, cl : Counted(h, cl) \in SUBSET Requests /\ r \notin Counted(h, cl)
    BY <1>1 DEF Counted
  <2>2. IsFiniteSet(Requests)
    BY HttpAssumption
  <2> QED BY <2>1, <2>2, FS_Subset
<1>8. \A h, cl : Cardinality(Counted(h, cl))' =
          IF h = Handler[r] /\ cl = class THEN Cardinality(Counted(h, cl)) + 1 ELSE Cardinality(Counted(h, cl))
  BY <1>6, <1>7, FS_AddElement
<1>9. \A h \in Handlers, cl \in Classes :
          counters.requests[h][cl] = IF h \in Unrecorded THEN 0 ELSE Cardinality(Counted(h, cl))
  BY DEF CountInv, CountedOnce, Counted
<1>10. \A h \in Handlers, cl \in Classes :
          counters'.requests[h][cl] = IF h \in Unrecorded THEN 0 ELSE Cardinality(Counted(h, cl))'
  <2>1. CASE Handler[r] \in Unrecorded
    BY <1>1, <1>8, <1>9, <2>1 DEF Count
  <2>2. CASE Handler[r] \notin Unrecorded
    <3>1. Handler[r] \in Handlers /\ counters' = [counters EXCEPT !.requests[Handler[r]][class] = @ + 1]
      BY <1>1, <2>2, HandlerFacts DEF Count, Unrecorded
    <3>2. counters \in [requests : [Handlers -> [Classes -> Nat]], duration : [Handlers -> Nat], highr : Nat]
      BY <1>3 DEF HttpTypes
    <3>3. \A h \in Handlers, cl \in Classes : counters'.requests[h][cl] =
              IF h = Handler[r] /\ cl = class THEN counters.requests[h][cl] + 1 ELSE counters.requests[h][cl]
      BY <1>1, <3>1, <3>2
    <3> QED BY <1>8, <1>9, <2>2, <3>3
  <2> QED BY <2>1, <2>2
<1>11. CountedOnce'
  BY <1>10 DEF CountedOnce, Counted
<1> QED BY <1>5, <1>11 DEF CountInv

\* Every step keeps the counts.
LEMMA CountStep == ConfigInv /\ HttpInv /\ CountInv /\ [Next]_vars => CountInv'
<1> SUFFICES ASSUME ConfigInv, HttpInv, CountInv, [Next]_vars PROVE CountInv'
  OBVIOUS
<1>0. HttpTypes
  BY DEF HttpInv
<1>1. CASE UNCHANGED httpVars
  BY <1>1, NothingCounted DEF httpVars
<1>2. ASSUME NEW r \in Requests, HttpStep(r) PROVE CountInv'
  <2>1. CASE Respond(r)
    BY <2>1, ResponseCounted
  <2>2. CASE ObserveTimes(r)
    <3>1. counters'.requests = counters.requests
      BY <1>0, <2>2 DEF ObserveTimes, HttpTypes
    <3>2. \A q \in Requests : call'[q].pc # "app" <=> call[q].pc # "app"
      BY <1>0, <2>2 DEF ObserveTimes, HttpTypes
    <3> QED BY <3>1, <3>2, NothingCounted
  <2>3. CASE RaisesAfter(r) \/ RenderRequests(r) \/ RenderTimes(r)
    BY <2>3, NothingCounted DEF RaisesAfter, RenderRequests, RenderTimes, httpVars
  <2> QED BY <1>2, <2>1, <2>2, <2>3 DEF HttpStep
<1>3. UNCHANGED vars => UNCHANGED httpVars
  BY DEF vars, httpVars
<1> QED BY <1>1, <1>2, <1>3 DEF Next

\* Every matched request is counted once, under the class of what it was answered
\* with, whichever of response and exception the middleware saw first.
THEOREM RequestsCountedOnce == Spec => []CountedOnce
<1>1. Init => CountInv
  <2> SUFFICES ASSUME Init PROVE CountInv
    OBVIOUS
  <2>1. \A r \in Requests : call[r].pc = "app"
    BY DEF Init, HttpInit
  <2>2. \A h, class : Counted(h, class) = {}
    BY <2>1 DEF Counted
  <2>3. \A h \in Handlers, class \in Classes : counters.requests[h][class] = 0
    BY DEF Init, HttpInit
  <2>4. CountedOnce
    BY <2>2, <2>3, FS_EmptySet DEF CountedOnce, Counted
  <2> QED BY <2>1, <2>4 DEF CountInv, AnsweredFirst
<1>2. CountInv => CountedOnce
  BY DEF CountInv
<1> QED BY <1>1, <1>2, ConfigInvHolds, HttpInvHolds, CountStep, PTL DEF Spec

=============================================================================
