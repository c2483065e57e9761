----------------------------- MODULE Migrations -----------------------------
(***************************************************************************)
(* The console commands migration:run, migration:rollback and              *)
(* migration:refresh over one PostgreSQL database.                         *)
(*                                                                         *)
(* Every statement of a migration commits by itself, and a migration is    *)
(* recorded in SequelizeMeta by a statement of its own after its last one. *)
(* A command may die between any two statements, and nothing keeps two     *)
(* commands, of two hosts say, from running at the same time.              *)
(* The schema is a set of objects, one for each statement that creates     *)
(* one; an object stands for its name, so one that is there cannot be      *)
(* created again.                                                          *)
(***************************************************************************)
EXTENDS Naturals, Sequences, FiniteSets

CONSTANTS
    Cmd,                \* commands, each given once
    MaxActive           \* bound: commands under way at one time

ASSUME MigrationsAssumption == MaxActive \in Nat \ {0}

VARIABLES
    db,                 \* objects of the schema
    meta,               \* rows of SequelizeMeta: migrations executed
    job,                \* progress of each command
    \* history
    last,               \* the command started last
    cut,                \* a rollback or refresh was cut short, or commands overlapped
    crashed             \* a command died

vars == <<db, meta, job, last, cut, crashed>>

Extension == [kind |-> "extension", table |-> "none", ref |-> "uuid-ossp"]
Table(t) == [kind |-> "table", table |-> t, ref |-> "none"]
ForeignKey(t, u) == [kind |-> "fk", table |-> t, ref |-> u]
Index(t, column) == [kind |-> "index", table |-> t, ref |-> column]
SequelizeMeta == Table("SequelizeMeta")

\* A migration: what its up statements create, in order, and the tables that its
\* down statements drop.
AddUUIDExtension == [up |-> <<Extension>>, down |-> <<>>]

CreateUsersTable == [up |-> <<Table("users")>>, down |-> <<"users">>]

CreateOauthClientsTable == [up |-> <<Table("clients")>>, down |-> <<"clients">>]

CreateOauthAccessTokensTable ==
    [up |-> <<Table("access_tokens"),
              ForeignKey("access_tokens", "clients"), Index("access_tokens", "client_id"),
              ForeignKey("access_tokens", "users"), Index("access_tokens", "user_id")>>,
     down |-> <<"access_tokens">>]

CreateOauthRefreshTokensTable ==
    [up |-> <<Table("refresh_tokens"), ForeignKey("refresh_tokens", "access_tokens"),
              Index("refresh_tokens", "access_token_id")>>,
     down |-> <<"refresh_tokens">>]

\* Mutant: both foreign keys are given one name.
CreateOauthChallengesOneName ==
    [up |-> <<Table("challenges"), ForeignKey("challenges", "users"),
              Index("challenges", "user_id"), ForeignKey("challenges", "users"),
              Index("challenges", "client_id")>>,
     down |-> <<"challenges">>]

\* Mutant: down drops nothing.
CreateOauthChallengesForGood ==
    [up |-> <<Table("challenges"), ForeignKey("challenges", "users"),
              Index("challenges", "user_id"), ForeignKey("challenges", "clients"),
              Index("challenges", "client_id")>>,
     down |-> <<>>]

CreateOauthChallenges ==
    [up |-> <<Table("challenges"), ForeignKey("challenges", "users"),
              Index("challenges", "user_id"), ForeignKey("challenges", "clients"),
              Index("challenges", "client_id")>>,
     down |-> <<"challenges">>]

\* The files of the migration directory in the order of their names.
Migration == <<AddUUIDExtension, CreateUsersTable, CreateOauthClientsTable,
               CreateOauthAccessTokensTable, CreateOauthRefreshTokensTable,
               CreateOauthChallenges>>
All == 1 .. Len(Migration)

Objects(m) == {Migration[m].up[i] : i \in 1 .. Len(Migration[m].up)}
NeedsExtension == {"clients", "challenges"}     \* id defaults to uuid_generate_v4()

Least(S) == CHOOSE m \in S : \A n \in S : m <= n
Greatest(S) == CHOOSE m \in S : \A n \in S : n <= m

\* A command: the migrations it is to apply or revert, by number, the next
\* statement of the first of them, the objects that a refresh has still to drop,
\* and whether no other command overlapped it so far.
New == [pc |-> "new", kind |-> "none", plan |-> {}, at |-> 1, todo |-> {}, alone |-> TRUE]

Init ==
    /\ db = {} /\ meta = {}
    /\ job = [c \in Cmd |-> New]
    /\ last = "none"
    /\ cut = FALSE /\ crashed = FALSE

-----------------------------------------------------------------------------
Working == {"up", "down", "unlog", "drop"}
Active == {c \in Cmd : job[c].pc \in Working}

Ended(j, outcome) == [New EXCEPT !.pc = outcome, !.kind = j.kind, !.alone = j.alone]
End(c, outcome) == job' = [job EXCEPT ![c] = Ended(job[c], outcome)]

\* A command starts as j; the others learn that they are not alone.
Begin(c, j) ==
    /\ job[c].pc = "new"
    /\ Cardinality(Active) < MaxActive
    /\ job' = [d \in Cmd |->
          CASE d = c -> [j EXCEPT !.alone = (Active = {})]
            [] d \in Active -> [job[d] EXCEPT !.alone = FALSE]
            [] OTHER -> job[d]]
    /\ last' = c
    /\ cut' = (cut \/ Active # {})
    /\ UNCHANGED crashed

\* What PostgreSQL says to a statement of up.  CREATE TABLE and CREATE EXTENSION
\* have IF NOT EXISTS, ADD CONSTRAINT and CREATE INDEX do not.
CanCreate(o) ==
    CASE o.kind = "extension" -> TRUE
      [] o.kind = "table" -> o \in db \/ o.table \notin NeedsExtension \/ Extension \in db
      [] o.kind = "fk" -> o \notin db /\ {Table(o.table), Table(o.ref)} \subseteq db
      [] o.kind = "index" -> o \notin db /\ Table(o.table) \in db

\* DROP TABLE IF EXISTS fails while another table refers to this one.
CanDrop(t) == \A o \in db : o.kind = "fk" => o.ref # t \/ o.table = t
Without(t) == {o \in db : o.table # t}

\* umzug.up: the migrations that are not recorded, read once.
Pending == All \ meta

\* Command j with the pending migrations to apply, if any.
ToApply(j, pending) ==
    IF pending = {} THEN Ended(j, "ok") ELSE [j EXCEPT !.pc = "up", !.plan = pending]

\* runMigration.
Run(c) ==
    /\ Begin(c, ToApply([New EXCEPT !.kind = "run"], Pending))
    /\ db' = db \cup {SequelizeMeta}
    /\ UNCHANGED meta

\* One statement of the migration at hand.
Apply(c) ==
    LET up == Migration[Least(job[c].plan)].up
        o == up[job[c].at]
    IN
    /\ job[c].pc = "up" /\ job[c].at <= Len(up)
    /\ IF CanCreate(o)
       THEN /\ db' = db \cup {o}
            /\ job' = [job EXCEPT ![c].at = @ + 1]
       ELSE End(c, "failed") /\ UNCHANGED db
    /\ UNCHANGED <<meta, last, cut, crashed>>

\* Mutant: the plan is not looked at again.
AfterMigrationOn(j, m) == [j EXCEPT !.plan = j.plan \ {m}, !.at = 1]

\* On to the next migration of the plan after m.
AfterMigration(j, m) ==
    IF j.plan = {m} THEN Ended(j, "ok") ELSE [j EXCEPT !.plan = j.plan \ {m}, !.at = 1]

\* Mutant: the migration is recorded before its last statement has run.
RecordEarly(c) ==
    LET m == Least(job[c].plan) IN
    /\ job[c].pc = "up" /\ job[c].at >= Len(Migration[m].up)
    /\ meta' = meta \cup {m}
    /\ db' = db \cup {SequelizeMeta}
    /\ job' = IF job[c].at > Len(Migration[m].up)
              THEN [job EXCEPT ![c] = AfterMigration(job[c], m)] ELSE job
    /\ UNCHANGED <<last, cut, crashed>>

\* logMigration; a migration that is recorded already has its name taken.
Record(c) ==
    LET m == Least(job[c].plan) IN
    /\ job[c].pc = "up" /\ job[c].at > Len(Migration[m].up)
    /\ db' = db \cup {SequelizeMeta}
    /\ IF m \in meta
       THEN End(c, "failed") /\ UNCHANGED meta
       ELSE /\ meta' = meta \cup {m}
            /\ job' = [job EXCEPT ![c] = AfterMigration(job[c], m)]
    /\ UNCHANGED <<last, cut, crashed>>

\* rollbackMigration: the last migration executed.  The option till comes as
\* text, so the step is 1 whatever it says.
Rollback(c) ==
    LET j == [New EXCEPT !.kind = "rollback"] IN
    /\ Begin(c, IF meta = {} THEN Ended(j, "ok")
                ELSE [j EXCEPT !.pc = "down", !.plan = {Greatest(meta)}])
    /\ db' = db \cup {SequelizeMeta}
    /\ UNCHANGED meta

\* The down statement, if the migration has one.
Revert(c) ==
    LET tables == Migration[Greatest(job[c].plan)].down
        unlog == job' = [job EXCEPT ![c].pc = "unlog"]
    IN
    /\ job[c].pc = "down"
    /\ CASE tables = <<>> -> unlog /\ UNCHANGED db
         [] tables # <<>> /\ CanDrop(tables[1]) -> unlog /\ db' = Without(tables[1])
         [] OTHER -> End(c, "failed") /\ UNCHANGED db
    /\ UNCHANGED <<meta, last, cut, crashed>>

\* unlogMigration.
Unlog(c) ==
    /\ job[c].pc = "unlog"
    /\ meta' = meta \ job[c].plan
    /\ db' = db \cup {SequelizeMeta}
    /\ End(c, "ok")
    /\ UNCHANGED <<last, cut, crashed>>

\* Mutant: the tables are dropped but not the record of the migrations.
TablesOfModels == {o \in db : o.kind \in {"fk", "table"} /\ o # SequelizeMeta}

\* dropAllTables reads the foreign keys and the tables first.
TablesAndKeys == {o \in db : o.kind \in {"fk", "table"}}

\* refreshMigrations.
Refresh(c) ==
    /\ Begin(c, [New EXCEPT !.kind = "refresh", !.pc = "drop", !.todo = TablesAndKeys])
    /\ UNCHANGED <<db, meta>>

\* The foreign keys first, each in the order of the catalogue.
NextToDrop(objects) ==
    LET keys == {o \in objects : o.kind = "fk"}
    IN  CHOOSE o \in objects : keys = {} \/ o \in keys

\* One foreign key, and when there is none left one table, with whatever still
\* refers to it.  A key that is gone by then is an error.
DropNext(c) ==
    LET o == NextToDrop(job[c].todo) IN
    /\ job[c].pc = "drop" /\ job[c].todo # {}
    /\ IF o.kind = "fk" /\ o \notin db
       THEN End(c, "failed") /\ cut' = TRUE /\ UNCHANGED <<db, meta>>
       ELSE /\ job' = [job EXCEPT ![c].todo = @ \ {o}]
            /\ db' = IF o.kind = "fk" THEN db \ {o}
                     ELSE {p \in Without(o.table) : p.kind = "fk" => p.ref # o.table}
            /\ meta' = IF o = SequelizeMeta THEN {} ELSE meta
            /\ UNCHANGED cut
    /\ UNCHANGED <<last, crashed>>

\* Then runMigration.
RunAfterDrop(c) ==
    /\ job[c].pc = "drop" /\ job[c].todo = {}
    /\ job' = [job EXCEPT ![c] = ToApply(job[c], Pending)]
    /\ db' = db \cup {SequelizeMeta}
    /\ UNCHANGED <<meta, last, cut, crashed>>

\* A command dies.  A run leaves at most a migration that is half done; a
\* rollback or a refresh may leave the record of what is gone.
Crash(c) ==
    /\ c \in Active
    /\ End(c, "dead")
    /\ crashed' = TRUE
    /\ cut' = (cut \/ job[c].pc \in {"unlog", "drop"})
    /\ UNCHANGED <<db, meta, last>>

Step(c) ==
    \/ Run(c) \/ Apply(c) \/ Record(c)
    \/ Rollback(c) \/ Revert(c) \/ Unlog(c)
    \/ Refresh(c) \/ DropNext(c) \/ RunAfterDrop(c)
    \/ Crash(c)

Next == \E c \in Cmd : Step(c)

Spec == Init /\ [][Next]_vars

-----------------------------------------------------------------------------
AllObjects == {SequelizeMeta} \cup UNION {Objects(m) : m \in All}

Job == [pc : {"new", "ok", "failed", "dead"} \cup Working,
        kind : {"none", "run", "rollback", "refresh"}, plan : SUBSET All,
        at : 1 .. 6, todo : SUBSET AllObjects, alone : BOOLEAN]

\* Every variable keeps its type.
TypeOK ==
    /\ db \subseteq AllObjects
    /\ meta \subseteq All
    /\ job \in [Cmd -> Job]
    /\ \A c \in Cmd : job[c].pc \in {"up", "down", "unlog"} => job[c].plan # {}
    /\ last \in Cmd \cup {"none"}
    /\ cut \in BOOLEAN
    /\ crashed \in BOOLEAN

\* While every rollback and refresh ran alone and to its end, a migration that
\* is recorded is applied in full, wherever a run died or failed.
RecordedIsApplied ==
    ~cut /\ (\A c \in Cmd : job[c].pc \notin {"unlog", "drop"}) =>
        \A m \in meta : Objects(m) \subseteq db

\* While nothing died, failed or overlapped, the schema between commands is that
\* of the recorded migrations and nothing else: a rollback undoes all of its
\* migration.
SchemaIsThatOfTheRecord ==
    ~cut /\ (\A c \in Cmd : job[c].pc \in {"new", "ok"}) =>
        db \ {Extension, SequelizeMeta} = (UNION {Objects(m) : m \in meta}) \ {Extension}

\* A refresh that runs alone does not fail, and when it ends the schema is
\* complete, whatever was left by commands that died, failed or overlapped.
RefreshRestoresSchema ==
    \A c \in Cmd :
        last = c /\ job[c].kind = "refresh" /\ job[c].alone =>
            /\ job[c].pc # "failed"
            /\ job[c].pc = "ok" => db = AllObjects /\ meta = All

\* When only runs are given and none dies, overlapping runs get in the way of
\* each other, but one of them always gets through and the schema is complete.
OneRunGetsThrough ==
    /\ ~crashed /\ Active = {} /\ \E c \in Cmd : job[c].pc # "new"
    /\ \A c \in Cmd : job[c].kind \in {"none", "run"}
    => \E c \in Cmd : job[c].pc = "ok" /\ db = AllObjects /\ meta = All
=============================================================================
