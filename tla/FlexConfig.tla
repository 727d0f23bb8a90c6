----------------------------- MODULE FlexConfig -----------------------------
(***************************************************************************)
(* The Flex configuration: the query rows of raw_broker.settings_flex and  *)
(* the range days of ops_jobs.flex_settings, written by POST               *)
(* /flex/config/write (api/config_summary.py, orchestration/config_rw.py)  *)
(* in one transaction and read by GET /flex/config/summary.                *)
(*                                                                         *)
(* The transactions are those of PostgreSQL at READ COMMITTED: a statement *)
(* sees what was committed when it began, a row that another transaction   *)
(* has written is waited for, and one that is gone after the wait is       *)
(* passed over.  settings and rows are the committed tables; what a        *)
(* transaction has written and not committed is in its writer's state.     *)
(***************************************************************************)
EXTENDS Integers, FiniteSets, FiniteSetsExt

CONSTANTS
    Writes,       \* requests to POST /flex/config/write, each served once
    Bodies,       \* the bodies they may have
    Summaries,    \* requests to GET /flex/config/summary, each served once
    Accounts,     \* query ids, as numbers
    SeedRows,     \* the ones stored before
    DefaultDays,  \* _DEFAULT_RANGE_DAYS
    InitDays      \* _DEFAULT_INIT_RANGE_DAYS

\* A body: whether its sender passes require_config_write_identity, whether it
\* names a token, the fields it names, the accounts that have a query_host_id,
\* and the range days ({} is null, blank or not a number).
Body == [identity : BOOLEAN, token : BOOLEAN,
         named : SUBSET {"accounts", "default", "init"},
         accounts : SUBSET Accounts,
         default : SUBSET Int, init : SUBSET Int]

ASSUME ConfigAssumption ==
    /\ Accounts \subseteq Nat /\ IsFiniteSet(Accounts)
    /\ \A b \in Bodies :
          /\ {b.identity, b.token} \subseteq BOOLEAN
          /\ b.named \subseteq {"accounts", "default", "init"}
          /\ b.accounts \subseteq Accounts
          /\ \A days \in {b.default, b.init} :
                days \subseteq Int /\ IsFiniteSet(days) /\ Cardinality(days) <= 1
    /\ SeedRows \subseteq Accounts
    /\ SeedRows # {} /\ "seed" \notin Writes
    /\ {DefaultDays, InitDays} \subseteq Nat \ {0}

VARIABLES
    settings,  \* the row id = 1 of ops_jobs.flex_settings; Null days: no row
    rows,      \* the rows of raw_broker.settings_flex
    serial,    \* the next value of their sequence
    writer,    \* Writes -> the request and its transaction
    answer,    \* every request -> its HTTP status, NoAnswer before it has one
    applied    \* history: the halves of requests that were committed

configVars == <<settings, rows, serial, writer, answer, applied>>

Null == 0
NoAnswer == 0
NoSettings == [default |-> Null, init |-> Null]
Seed == "seed"

\* A stored row: its id (also its place in the table), and whose it is.
StoredRow == [id : Nat, by : Writes \cup {Seed}, account : Accounts]
Days == [default : Nat, init : Nat]

\* current: what a half write read; days: what it wrote; todo: the rows its
\* DELETE has yet to visit; gone and added: the rows it deleted and inserted.
WriterState == [pc : {"idle", "read", "upsert", "delete", "deleting", "commit", "over"},
                body : Body, current : Days, days : Days,
                todo : SUBSET Nat, gone : SUBSET Nat, added : SUBSET StoredRow]

Insert(by, accounts, first) ==
    {[id |-> first + Cardinality({b \in accounts : b < a}), by |-> by, account |-> a]
        : a \in accounts}

NoTransaction(pc, body) ==
    [pc |-> pc, body |-> body, current |-> NoSettings, days |-> NoSettings,
     todo |-> {}, gone |-> {}, added |-> {}]

NoBody == [identity |-> FALSE, token |-> FALSE, named |-> {}, accounts |-> {},
           default |-> {}, init |-> {}]

ConfigInit ==
    /\ settings = NoSettings
    /\ rows = Insert(Seed, SeedRows, 1)
    /\ serial = Cardinality(SeedRows) + 1
    /\ writer = [c \in Writes |-> NoTransaction("idle", NoBody)]
    /\ answer = [r \in Writes \cup Summaries |-> NoAnswer]
    /\ applied = {}

---------------------------------------------------------------------------
(* What a body asks for. *)

\* Mutant: the value is taken as it comes.
optional_days_Unchecked(value) == IF value = {} THEN Null ELSE Max(value)

\* max(1, int(value)), or None.
optional_days(value) == IF value = {} THEN Null ELSE Max(value \cup {1})

Wanted(b) == [default |-> IF "default" \in b.named THEN optional_days(b.default) ELSE Null,
              init    |-> IF "init" \in b.named THEN optional_days(b.init) ELSE Null]

HasRange(b) == Wanted(b) # NoSettings
HasRows(b) == "accounts" \in b.named
IsHalf(b) == HasRange(b) /\ Null \in {Wanted(b).default, Wanted(b).init}

\* The status of a request that writes nothing; NoAnswer if it goes on to write.
Refusal(b) ==
    CASE ~b.identity -> 401
      [] b.identity /\ b.token -> 409
      [] b.identity /\ ~b.token /\ b.named = {} -> 400
      [] b.identity /\ ~b.token /\ HasRows(b) /\ b.accounts = {} -> 400
      [] b.identity /\ ~b.token /\ b.named # {} /\ ~HasRows(b) /\ ~HasRange(b) -> 200
      [] OTHER -> NoAnswer

\* What the pipeline runs with: get_flex_range_days.
Effective(s) == IF s = NoSettings THEN [default |-> DefaultDays, init |-> InitDays] ELSE s

COALESCE(value, otherwise) == IF value = Null THEN otherwise ELSE value
Merge(wanted, s) == [default |-> COALESCE(wanted.default, s.default),
                     init    |-> COALESCE(wanted.init, s.init)]

---------------------------------------------------------------------------
(* POST /flex/config/write. *)

Become(c, state) == writer' = [writer EXCEPT ![c] = state]
Answer(r, status) == answer' = [answer EXCEPT ![r] = status]

\* The endpoint's checks, then what write_flex_config does first.
Receive(c) ==
    /\ writer[c].pc = "idle"
    /\ \E b \in Bodies :
          IF Refusal(b) # NoAnswer
          THEN /\ Answer(c, Refusal(b))
               /\ Become(c, NoTransaction("over", b))
          ELSE /\ Become(c, NoTransaction(IF IsHalf(b) THEN "read"
                                          ELSE IF HasRange(b) THEN "upsert" ELSE "delete", b))
               /\ UNCHANGED answer
    /\ UNCHANGED <<settings, rows, serial, applied>>

\* A half write reads the other half, in a transaction of its own.
ReadCurrent(c) ==
    /\ writer[c].pc = "read"
    /\ Become(c, [writer[c] EXCEPT !.pc = "upsert", !.current = Effective(settings)])
    /\ UNCHANGED <<settings, rows, serial, answer, applied>>

\* Whose transaction has written the settings row, and which rows are deleted
\* by transactions that are still open.
HoldsSettings(c) == writer[c].days # NoSettings
Locked(c, id) == \E d \in Writes \ {c} : id \in writer[d].gone

AfterUpsert(c) == IF HasRows(writer[c].body) THEN "delete" ELSE "commit"

\* Mutant: the conflict branch takes the values of the INSERT.
Upsert_Excluded(c) ==
    /\ writer[c].pc = "upsert"
    /\ \A d \in Writes \ {c} : ~HoldsSettings(d)
    /\ Become(c, [writer[c] EXCEPT !.pc = AfterUpsert(c),
                                   !.days = Merge(Wanted(writer[c].body), writer[c].current)])
    /\ UNCHANGED <<settings, rows, serial, answer, applied>>

\* Mutant: the settings row is committed before the query rows are written.
Upsert_Commits(c) ==
    /\ writer[c].pc = "upsert"
    /\ settings' = Merge(Wanted(writer[c].body),
                         IF settings = NoSettings THEN writer[c].current ELSE settings)
    /\ applied' = applied \cup {<<c, "range">>}
    /\ Become(c, [writer[c] EXCEPT !.pc = AfterUpsert(c)])
    /\ UNCHANGED <<rows, serial, answer>>

\* INSERT ... ON CONFLICT (id) DO UPDATE: waits for the row, then completes the
\* request from what it read if there is no row, else from the row.
Upsert(c) ==
    /\ writer[c].pc = "upsert"
    /\ \A d \in Writes \ {c} : ~HoldsSettings(d)
    /\ Become(c, [writer[c] EXCEPT
                    !.pc = AfterUpsert(c),
                    !.current = NoSettings,
                    !.days = Merge(Wanted(writer[c].body),
                                   IF settings = NoSettings THEN writer[c].current
                                   ELSE settings)])
    /\ UNCHANGED <<settings, rows, serial, answer, applied>>

\* Mutant: the DELETE is committed on its own.
DeleteBegins_Commits(c) ==
    /\ writer[c].pc = "delete"
    /\ rows' = {}
    /\ Become(c, [writer[c] EXCEPT !.pc = "deleting"])
    /\ UNCHANGED <<settings, serial, answer, applied>>

\* Mutant: only rows of the accounts that come back are deleted.
DeleteBegins_SameAccounts(c) ==
    /\ writer[c].pc = "delete"
    /\ Become(c, [writer[c] EXCEPT
                    !.pc = "deleting",
                    !.todo = {r.id : r \in {q \in rows : q.account \in writer[c].body.accounts}}])
    /\ UNCHANGED <<settings, rows, serial, answer, applied>>

\* DELETE FROM settings_flex: the rows committed at this moment, in table order.
DeleteBegins(c) ==
    /\ writer[c].pc = "delete"
    /\ Become(c, [writer[c] EXCEPT !.pc = "deleting", !.todo = {r.id : r \in rows}])
    /\ UNCHANGED <<settings, rows, serial, answer, applied>>

\* It waits for a row another transaction has deleted, and passes over one that
\* is gone by then.
DeleteRow(c) ==
    /\ writer[c].pc = "deleting"
    /\ writer[c].todo # {}
    /\ LET id == Min(writer[c].todo)
       IN  /\ ~Locked(c, id)
           /\ Become(c, [writer[c] EXCEPT
                           !.todo = @ \ {id},
                           !.gone = @ \cup ({id} \cap {r.id : r \in rows})])
    /\ UNCHANGED <<settings, rows, serial, answer, applied>>

InsertRows(c) ==
    /\ writer[c].pc = "deleting"
    /\ writer[c].todo = {}
    /\ Become(c, [writer[c] EXCEPT !.pc = "commit",
                                   !.added = Insert(c, writer[c].body.accounts, serial)])
    /\ serial' = serial + Cardinality(writer[c].body.accounts)
    /\ UNCHANGED <<settings, rows, answer, applied>>

Halves(b) == (IF HasRange(b) THEN {"range"} ELSE {}) \cup (IF HasRows(b) THEN {"rows"} ELSE {})

\* COMMIT.  Should its answer be lost, the request reports 500 all the same.
Commit(c) ==
    /\ writer[c].pc = "commit"
    /\ settings' = IF HoldsSettings(c) THEN writer[c].days ELSE settings
    /\ rows' = {r \in rows : r.id \notin writer[c].gone} \cup writer[c].added
    /\ applied' = applied \cup ({c} \X Halves(writer[c].body))
    /\ Become(c, NoTransaction("over", writer[c].body))
    /\ \E status \in {200, 500} : Answer(c, status)
    /\ UNCHANGED <<serial>>

Writing(c) == writer[c].pc \notin {"idle", "over"}

\* Mutant: the exception leaves the transaction open.
WriteFails_NoRollback(c) ==
    /\ Writing(c)
    /\ Become(c, [writer[c] EXCEPT !.pc = "over"])
    /\ Answer(c, 500)
    /\ UNCHANGED <<settings, rows, serial, applied>>

\* No connection, or a statement that raised: rollback, and write_flex_config
\* returns False.
WriteFails(c) ==
    /\ Writing(c)
    /\ Become(c, NoTransaction("over", writer[c].body))
    /\ Answer(c, 500)
    /\ UNCHANGED <<settings, rows, serial, applied>>

\* A statement of the transaction that is not waiting for another one.
WriteStep(c) ==
    \/ ReadCurrent(c) \/ Upsert(c) \/ DeleteBegins(c) \/ DeleteRow(c) \/ InsertRows(c)
    \/ Commit(c)

---------------------------------------------------------------------------
(* GET /flex/config/summary. *)

\* 503 if there is no connection or the range days cannot be read; 200 with the
\* query rows, and with an empty list if their read fails; an exception (500) if
\* the rollback after that fails too.  Both reads are one statement each and
\* nothing is kept of them, so that they are one step here.
Summarise(s) ==
    /\ answer[s] = NoAnswer
    /\ \E status \in {200, 500, 503} : Answer(s, status)
    /\ UNCHANGED <<settings, rows, serial, writer, applied>>

ConfigNext ==
    \/ \E c \in Writes : Receive(c) \/ WriteStep(c) \/ WriteFails(c)
    \/ \E s \in Summaries : Summarise(s)

---------------------------------------------------------------------------
(* Properties. *)

ConfigTypeOK ==
    /\ settings \in Days
    /\ rows \subseteq StoredRow
    /\ serial \in Nat
    /\ \A c \in Writes :
          /\ writer[c].pc \in {"idle", "read", "upsert", "delete", "deleting", "commit", "over"}
          /\ writer[c].current \in Days /\ writer[c].days \in Days
          /\ writer[c].todo \cup writer[c].gone \subseteq Nat
          /\ writer[c].added \subseteq StoredRow
    /\ answer \in [Writes \cup Summaries -> {NoAnswer, 200, 400, 401, 409, 500, 503}]
    /\ applied \subseteq Writes \X {"range", "rows"}

RowsBy(c, table) == {r \in table : r.by = c}

\* Whoever reads the query rows, in the middle of any number of replacing
\* writes, sees some list, and of each list all or nothing: a run never finds
\* the table empty or half of an operator's accounts (DELETE and INSERT of
\* write_flex_config are one transaction).
WholeLists ==
    /\ rows # {}
    /\ \A c \in Writes :
          RowsBy(c, rows) # {} =>
              {r.account : r \in RowsBy(c, rows)} = writer[c].body.accounts

\* Either both halves of a request land or neither does; a 200 means that all
\* of it landed, a refusal that none of it did.
AllOrNothing ==
    \A c \in Writes :
        LET landed == {h \in {"range", "rows"} : <<c, h>> \in applied}
        IN  /\ landed # {} => landed = Halves(writer[c].body)
            /\ answer[c] = 200 => landed = Halves(writer[c].body)
            /\ answer[c] \in {400, 401, 409} => landed = {}

Commits(c) == writer[c].pc = "commit" /\ <<c, "rows">> \notin applied /\ <<c, "rows">> \in applied'

\* A write of one range field leaves the value the pipeline runs with in the
\* other field alone, also when two first writes of different fields cross: the
\* values a half write read may be stale by the time it writes.
HalfWriteKeepsOther ==
    [][\A c \in Writes :
          <<c, "range">> \notin applied /\ <<c, "range">> \in applied' =>
              Effective(settings') = Merge(Wanted(writer[c].body), Effective(settings))]_configVars

\* A replacing write that also carries range days leaves exactly its own rows
\* if every other replacing write carries them too: the settings row, which
\* they write first, keeps their DELETEs apart.
LockedReplace ==
    [][\A c \in Writes :
          /\ Commits(c)
          /\ \A d \in Writes : HasRows(writer[d].body) => HasRange(writer[d].body)
          => rows' = RowsBy(c, rows')]_configVars

\* write_flex_config: "accounts replace raw_broker.settings_flex".  Of two that
\* overlap and carry no range days, the second one's DELETE does not see the
\* rows the first one inserts, and both lists stay.
AccountsReplace ==
    [][\A c \in Writes : Commits(c) => rows' = RowsBy(c, rows')]_configVars

\* Every accepted write is answered: no two transactions wait for each other,
\* and none waits for one that has ended.
WriteAnswered == \A c \in Writes : Writing(c) ~> answer[c] # NoAnswer
=============================================================================
