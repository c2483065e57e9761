------------------------- MODULE Migrations_proofs -------------------------
(***************************************************************************)
(* Proofs about Migrations, for any set of commands and any bound on those *)
(* under way.  The migrations themselves are the six of the repository.    *)
(*                                                                         *)
(* The invariant has a part for each property: what a command under way    *)
(* has done so far (Done) makes up the difference between the schema and   *)
(* the record.  Applied needs no history but cut; Matches speaks of        *)
(* commands none of which failed; Restores says what a refresh that nobody *)
(* disturbs has dropped or applied, whatever the schema was like before.   *)
(* Frame holds them together: an index has its table, an empty ledger      *)
(* goes with no ledger, and who is alone.                                  *)
(***************************************************************************)
EXTENDS Migrations, TLAPS

-----------------------------------------------------------------------------
(* The six migrations. *)

\* The table that each migration is about; the extension is in none.
Own == <<"none", "users", "clients", "access_tokens", "refresh_tokens", "challenges">>

Statements(m) == 1 .. Len(Migration[m].up)

LEMMA MigrationIs ==
    /\ All = 1 .. 6
    /\ Migration[1] = AddUUIDExtension /\ Migration[2] = CreateUsersTable
    /\ Migration[3] = CreateOauthClientsTable /\ Migration[4] = CreateOauthAccessTokensTable
    /\ Migration[5] = CreateOauthRefreshTokensTable /\ Migration[6] = CreateOauthChallenges
BY DEF All, Migration

\* Statement i of migration m: what it creates, and what that refers to.
Sensible(m, i) ==
    LET o == Migration[m].up[i] IN
    /\ m = 1 => o = Extension
    /\ m # 1 /\ i = 1 => o = Table(Own[m])
    /\ m # 1 /\ i # 1 => o.kind \in {"fk", "index"} /\ o.table = Own[m]
    /\ o.kind = "fk" => \E n \in 2 .. m - 1 : o.ref = Own[n]
    /\ \A k \in Statements(m) : k # i => Migration[m].up[k] # o

LEMMA Shape ==
    ASSUME NEW m \in All
    PROVE  /\ Len(Migration[m].up) \in 1 .. 5
           /\ Migration[m].down = IF m = 1 THEN <<>> ELSE <<Own[m]>>
           /\ \A i \in Statements(m) : Sensible(m, i)
<1>1. CASE m = 1
    BY <1>1, MigrationIs DEF AddUUIDExtension, Statements, Sensible, Extension
<1>2. CASE m = 2
    BY <1>2, MigrationIs DEF CreateUsersTable, Statements, Sensible, Own, Table
<1>3. CASE m = 3
    BY <1>3, MigrationIs DEF CreateOauthClientsTable, Statements, Sensible, Own, Table
<1>4. CASE m = 4
    BY <1>4, MigrationIs DEF CreateOauthAccessTokensTable, Statements, Sensible, Own,
        Table, ForeignKey, Index
<1>5. CASE m = 5
    BY <1>5, MigrationIs DEF CreateOauthRefreshTokensTable, Statements, Sensible, Own,
        Table, ForeignKey, Index
<1>6. CASE m = 6
    BY <1>6, MigrationIs DEF CreateOauthChallenges, Statements, Sensible, Own,
        Table, ForeignKey, Index
<1> QED BY <1>1, <1>2, <1>3, <1>4, <1>5, <1>6, MigrationIs

LEMMA OwnTables ==
    /\ \A m, n \in All : Own[m] = Own[n] => m = n
    /\ \A m \in All : Own[m] # "SequelizeMeta"
    /\ Own[1] = "none"
BY MigrationIs DEF Own

LEMMA ObjectOf ==
    ASSUME NEW m \in All, NEW o \in Objects(m)
    PROVE  /\ o.table = Own[m] /\ o # SequelizeMeta
           /\ m = 1 => o = Extension
           /\ m # 1 => o # Extension /\ o.kind \in {"table", "fk", "index"}
           /\ o.kind = "table" => o = Table(Own[m])
<1>1. PICK i \in Statements(m) : o = Migration[m].up[i]
    BY DEF Objects, Statements
<1>2. Sensible(m, i)
    BY Shape
<1> QED BY <1>1, <1>2, OwnTables DEF Sensible, Extension, Table, SequelizeMeta

LEMMA ObjectIs ==
    ASSUME NEW o \in AllObjects
    PROVE  /\ o = SequelizeMeta \/ \E m \in All : o \in Objects(m)
           /\ o.kind \in {"extension", "table", "fk", "index"}
           /\ o.kind = "extension" => o = Extension
           /\ o.kind = "table" => o = Table(o.table)
           /\ o.table = "SequelizeMeta" => o = SequelizeMeta
<1>1. o = SequelizeMeta \/ \E m \in All : o \in Objects(m)
    BY DEF AllObjects
<1>2. CASE o = SequelizeMeta
    BY <1>2 DEF SequelizeMeta, Table
<1>3. CASE \E m \in All : o \in Objects(m)
  <2>1. PICK m \in All : o \in Objects(m)
      BY <1>3
  <2> QED BY <2>1, ObjectOf, OwnTables DEF Extension, Table
<1> QED BY <1>1, <1>2, <1>3

LEMMA LeastIs ==
    ASSUME NEW S \in SUBSET All, S # {}
    PROVE  Least(S) \in S /\ \A n \in S : Least(S) <= n
<1>1. \E m \in S : \A n \in S : m <= n
  <2>1. S \subseteq 1 .. 6
      BY MigrationIs
  <2>2. PICK m \in S : TRUE
      OBVIOUS
  <2>3. \/ 1 \in S \/ 2 \in S \/ 3 \in S \/ 4 \in S \/ 5 \in S \/ 6 \in S
      BY <2>1, <2>2
  <2> QED BY <2>1, <2>3
<1> QED BY <1>1 DEF Least

LEMMA GreatestIs ==
    ASSUME NEW S \in SUBSET All, S # {}
    PROVE  Greatest(S) \in S
<1>1. \E m \in S : \A n \in S : n <= m
  <2>1. S \subseteq 1 .. 6
      BY MigrationIs
  <2>2. PICK m \in S : TRUE
      OBVIOUS
  <2>3. \/ 1 \in S \/ 2 \in S \/ 3 \in S \/ 4 \in S \/ 5 \in S \/ 6 \in S
      BY <2>1, <2>2
  <2> QED BY <2>1, <2>3
<1> QED BY <1>1 DEF Greatest

-----------------------------------------------------------------------------
(* What a step does to the commands. *)

\* Command j in progress is at a place that exists.
JobFits(j) ==
    /\ j.pc = "up" => j.plan # {} /\ j.at \in 1 .. Len(Migration[Least(j.plan)].up) + 1
    /\ j.pc \in {"down", "unlog"} => \E m \in All : j.plan = {m}
    /\ j.pc = "drop" => j.at = 1
    /\ j.kind = "refresh" => j.pc \in {"drop", "up", "ok", "failed", "dead"}

\* j and k differ at most in whether they are alone.
Same(j, k) == /\ j.pc = k.pc /\ j.kind = k.kind /\ j.plan = k.plan
              /\ j.at = k.at /\ j.todo = k.todo

LEMMA NewJob ==
    /\ New \in Job
    /\ New.pc = "new" /\ New.kind = "none" /\ New.plan = {} /\ New.at = 1 /\ New.todo = {}
BY DEF New, Job, Working

LEMMA EndedJob ==
    ASSUME NEW j \in Job, NEW outcome \in {"ok", "failed", "dead"}
    PROVE  /\ Ended(j, outcome) \in Job /\ JobFits(Ended(j, outcome))
           /\ Ended(j, outcome).pc = outcome /\ Ended(j, outcome).kind = j.kind
           /\ Ended(j, outcome).alone = j.alone
<1> DEFINE k == Ended(j, outcome)
<1>1. /\ k.pc = outcome /\ k.kind = j.kind /\ k.plan = {} /\ k.at = 1 /\ k.todo = {}
      /\ k.alone = j.alone
    BY DEF Ended, New
<1>3. k \in Job
  <2>1. [New EXCEPT !.pc = outcome] \in Job
      BY NewJob DEF Job
  <2>2. [[New EXCEPT !.pc = outcome] EXCEPT !.kind = j.kind] \in Job
      BY <2>1 DEF Job
  <2>3. [[[New EXCEPT !.pc = outcome] EXCEPT !.kind = j.kind] EXCEPT !.alone = j.alone] \in Job
      BY <2>2 DEF Job
  <2> QED BY <2>3 DEF Ended
<1>4. JobFits(k)
    BY <1>1 DEF JobFits
<1> QED BY <1>1, <1>3, <1>4

LEMMA ToApplyJob ==
    ASSUME NEW j \in Job, j.at = 1, NEW pending \in SUBSET All
    PROVE  /\ ToApply(j, pending) \in Job /\ JobFits(ToApply(j, pending))
           /\ ToApply(j, pending).kind = j.kind /\ ToApply(j, pending).alone = j.alone
           /\ pending = {} => ToApply(j, pending).pc = "ok"
           /\ pending # {} => /\ ToApply(j, pending).pc = "up" /\ ToApply(j, pending).at = 1
                              /\ ToApply(j, pending).plan = pending
<1>1. CASE pending = {}
    BY <1>1, EndedJob DEF ToApply
<1>2. CASE pending # {}
  <2> DEFINE k == [j EXCEPT !.pc = "up", !.plan = pending]
  <2>1. Len(Migration[Least(pending)].up) \in 1 .. 5
      BY <1>2, LeastIs, Shape
  <2>2. ToApply(j, pending) = k
      BY <1>2 DEF ToApply
  <2>3. k \in Job /\ k.kind = j.kind /\ k.alone = j.alone /\ k.pc = "up" /\ k.at = 1
        /\ k.plan = pending
      BY DEF Job, Working
  <2>4. JobFits(k)
      BY <1>2, <2>1, <2>3 DEF JobFits
  <2> QED BY <1>2, <2>2, <2>3, <2>4
<1> QED BY <1>1, <1>2

LEMMA AfterMigrationJob ==
    ASSUME NEW j \in Job, NEW m \in j.plan, j.pc = "up"
    PROVE  LET k == AfterMigration(j, m)
           IN  /\ k \in Job /\ JobFits(k) /\ k.kind = j.kind /\ k.alone = j.alone
               /\ j.plan = {m} => k.pc = "ok"
               /\ j.plan # {m} => k.pc = "up" /\ k.at = 1 /\ k.plan = j.plan \ {m}
<1>1. CASE j.plan = {m}
    BY <1>1, EndedJob DEF AfterMigration
<1>2. CASE j.plan # {m}
  <2> DEFINE k == [j EXCEPT !.plan = j.plan \ {m}, !.at = 1]
  <2>1. j.plan \ {m} \in SUBSET All /\ j.plan \ {m} # {}
      BY <1>2 DEF Job
  <2>2. Len(Migration[Least(j.plan \ {m})].up) \in 1 .. 5
      BY <2>1, LeastIs, Shape
  <2>3. AfterMigration(j, m) = k
      BY <1>2 DEF AfterMigration
  <2>4. /\ k \in Job
        /\ k.kind = j.kind /\ k.alone = j.alone /\ k.pc = "up" /\ k.at = 1 /\ k.plan = j.plan \ {m}
    <3>1. [j EXCEPT !.plan = j.plan \ {m}] \in Job
        BY <2>1 DEF Job
    <3>2. \A x \in Job : [x EXCEPT !.at = 1] \in Job
        BY DEF Job
    <3> QED BY <3>1, <3>2 DEF Job
  <2>5. JobFits(k)
      BY <2>1, <2>2, <2>4 DEF JobFits
  <2> QED BY <1>2, <2>3, <2>4, <2>5
<1> QED BY <1>1, <1>2

LEMMA Begun ==
    ASSUME job \in [Cmd -> Job], NEW c \in Cmd, NEW j \in Job, Begin(c, j)
    PROVE  /\ job[c].pc = "new" /\ c \notin Active
           /\ job' \in [Cmd -> Job] /\ Same(j, job'[c]) /\ (job'[c].alone <=> Active = {})
           /\ \A d \in Cmd : d # c => Same(job[d], job'[d])
           /\ \A d \in Cmd : d # c => job'[d] = job[d] \/ ~job'[d].alone
           /\ \A d \in Active : ~job'[d].alone
           /\ last' = c /\ (cut' <=> cut \/ Active # {}) /\ crashed' = crashed
<1>1. job[c].pc = "new" /\ c \notin Active
    BY DEF Begin, Active, Working
<1>2. job' = [d \in Cmd |->
          CASE d = c -> [j EXCEPT !.alone = (Active = {})]
            [] d \in Active -> [job[d] EXCEPT !.alone = FALSE]
            [] OTHER -> job[d]]
    BY DEF Begin
<1>3. job'[c] = [j EXCEPT !.alone = (Active = {})]
    BY <1>1, <1>2
<1>4. \A d \in Cmd : d # c /\ d \in Active => job'[d] = [job[d] EXCEPT !.alone = FALSE]
    BY <1>2
<1>5. \A d \in Cmd : d # c /\ d \notin Active => job'[d] = job[d]
    BY <1>2
<1>6. [j EXCEPT !.alone = (Active = {})] \in Job /\ Same(j, [j EXCEPT !.alone = (Active = {})])
      /\ ([j EXCEPT !.alone = (Active = {})].alone <=> Active = {})
    BY DEF Job, Same
<1>7. \A d \in Cmd : [job[d] EXCEPT !.alone = FALSE] \in Job
                     /\ Same(job[d], [job[d] EXCEPT !.alone = FALSE])
                     /\ ~ [job[d] EXCEPT !.alone = FALSE].alone
    BY DEF Job, Same
<1>8. Active \subseteq Cmd
    BY DEF Active
<1>9. \A d \in Cmd : job'[d] \in Job
  <2> SUFFICES ASSUME NEW d \in Cmd PROVE job'[d] \in Job
      OBVIOUS
  <2>1. CASE d = c
      BY <2>1, <1>3, <1>6, Zenon
  <2>2. CASE d # c /\ d \in Active
      BY <2>2, <1>4, <1>7, Zenon
  <2>3. CASE d # c /\ d \notin Active
      BY <2>3, <1>5
  <2> QED BY <2>1, <2>2, <2>3
<1>10. \A d \in Cmd : d # c => Same(job[d], job'[d]) /\ (job'[d] = job[d] \/ ~job'[d].alone)
  <2> SUFFICES ASSUME NEW d \in Cmd, d # c
               PROVE  Same(job[d], job'[d]) /\ (job'[d] = job[d] \/ ~job'[d].alone)
      OBVIOUS
  <2>1. CASE d \in Active
      BY <2>1, <1>4, <1>7, Zenon
  <2>2. CASE d \notin Active
    <3>1. job'[d] = job[d]
        BY <2>2, <1>5
    <3> QED BY <3>1 DEF Same
  <2> QED BY <2>1, <2>2
<1>11. \A d \in Active : ~job'[d].alone
    BY <1>1, <1>4, <1>7, <1>8
<1>12. job' \in [Cmd -> Job]
    BY <1>2, <1>9
<1> QED BY <1>1, <1>3, <1>6, <1>10, <1>11, <1>12 DEF Begin

-----------------------------------------------------------------------------
(* Types. *)

Typed ==
    /\ db \subseteq AllObjects /\ meta \subseteq All
    /\ job \in [Cmd -> Job] /\ \A c \in Cmd : JobFits(job[c])
    /\ last \in Cmd \cup {"none"} /\ cut \in BOOLEAN /\ crashed \in BOOLEAN

\* A step of command c that is under way.
Moved(c) ==
    /\ c \in Active
    /\ job' \in [Cmd -> Job] /\ \A d \in Cmd : JobFits(job'[d])
    /\ \A d \in Cmd : d # c => job'[d] = job[d]
    /\ job'[c].kind = job[c].kind /\ job'[c].alone = job[c].alone
    /\ last' = last

LEMMA Moving ==
    ASSUME Typed, NEW c \in Cmd, c \in Active, NEW k \in Job, JobFits(k),
           k.kind = job[c].kind, k.alone = job[c].alone,
           job' = [job EXCEPT ![c] = k], last' = last
    PROVE  Moved(c) /\ job'[c] = k
<1>1. job'[c] = k /\ \A d \in Cmd : d # c => job'[d] = job[d]
    BY DEF Typed
<1>2. job' \in [Cmd -> Job]
    BY DEF Typed
<1>3. \A d \in Cmd : JobFits(job'[d])
    BY <1>1 DEF Typed
<1> QED BY <1>1, <1>2, <1>3 DEF Moved

LEMMA Ending ==
    ASSUME Typed, NEW c \in Cmd, c \in Active, NEW outcome \in {"ok", "failed", "dead"},
           End(c, outcome), last' = last
    PROVE  Moved(c) /\ job'[c].pc = outcome
<1>1. job[c] \in Job
    BY DEF Typed
<1> DEFINE k == Ended(job[c], outcome)
<1>2. k \in Job /\ JobFits(k) /\ k.pc = outcome /\ k.kind = job[c].kind /\ k.alone = job[c].alone
    BY <1>1, EndedJob
<1>3. job' = [job EXCEPT ![c] = k]
    BY DEF End
<1> HIDE DEF k
<1>4. Moved(c) /\ job'[c] = k
    BY <1>2, <1>3, Moving
<1> QED BY <1>2, <1>4

\* A step that begins command c, as j.
Began(c, j) ==
    /\ job[c].pc = "new" /\ c \notin Active
    /\ job' \in [Cmd -> Job] /\ \A d \in Cmd : JobFits(job'[d])
    /\ Same(j, job'[c]) /\ (job'[c].alone <=> Active = {})
    /\ \A d \in Cmd : d # c => Same(job[d], job'[d])
    /\ \A d \in Active : ~job'[d].alone
    /\ last' = c /\ (cut' <=> cut \/ Active # {}) /\ cut' \in BOOLEAN /\ crashed' = crashed

LEMMA Beginning ==
    ASSUME Typed, NEW c \in Cmd, NEW j \in Job, JobFits(j), Begin(c, j)
    PROVE  Began(c, j)
<1>1. job \in [Cmd -> Job] /\ \A d \in Cmd : JobFits(job[d])
    BY DEF Typed
<1>2. \A x, y : Same(x, y) /\ JobFits(x) => JobFits(y)
    BY DEF Same, JobFits
<1>3. \A d \in Cmd : JobFits(job'[d])
    BY <1>1, <1>2, Begun
<1>4. cut' \in BOOLEAN
    BY DEF Begin
<1> QED BY <1>1, <1>3, <1>4, Begun DEF Began

LEMMA RunBegins ==
    ASSUME Typed, NEW c \in Cmd, Run(c)
    PROVE  \E j \in Job :
             /\ Began(c, j) /\ j.kind = "run"
             /\ \/ Pending = {} /\ j.pc = "ok"
                \/ Pending # {} /\ j.pc = "up" /\ j.at = 1 /\ j.plan = Pending
<1> DEFINE n == [New EXCEPT !.kind = "run"]
           j == ToApply(n, Pending)
<1>1. n \in Job /\ n.at = 1 /\ n.kind = "run"
    BY NewJob DEF Job
<1>2. Pending \in SUBSET All
    BY DEF Pending
<1>3. Begin(c, j)
    BY DEF Run
<1> HIDE DEF n
<1>4. /\ j \in Job /\ JobFits(j) /\ j.kind = "run"
      /\ \/ Pending = {} /\ j.pc = "ok"
         \/ Pending # {} /\ j.pc = "up" /\ j.at = 1 /\ j.plan = Pending
    BY <1>1, <1>2, ToApplyJob
<1> HIDE DEF j
<1>5. Began(c, j)
    BY <1>3, <1>4, Beginning
<1> QED BY <1>4, <1>5

LEMMA RollbackBegins ==
    ASSUME Typed, NEW c \in Cmd, Rollback(c)
    PROVE  \E j \in Job :
             /\ Began(c, j) /\ j.kind = "rollback"
             /\ j.pc = "ok" \/ j.pc = "down"
<1> DEFINE n == [New EXCEPT !.kind = "rollback"]
<1>1. n \in Job /\ n.kind = "rollback"
    BY NewJob DEF Job
<1>2. CASE meta = {}
  <2> DEFINE j == Ended(n, "ok")
  <2>1. Begin(c, j)
      BY <1>2 DEF Rollback
  <2> HIDE DEF n
  <2>2. j \in Job /\ JobFits(j) /\ j.kind = "rollback" /\ j.pc = "ok"
      BY <1>1, EndedJob
  <2> HIDE DEF j
  <2>3. Began(c, j)
      BY <2>1, <2>2, Beginning
  <2> QED BY <2>2, <2>3
<1>3. CASE meta # {}
  <2> DEFINE j == [n EXCEPT !.pc = "down", !.plan = {Greatest(meta)}]
  <2>1. Begin(c, j)
      BY <1>3 DEF Rollback
  <2>2. Greatest(meta) \in All
      BY <1>3, GreatestIs DEF Typed
  <2> HIDE DEF n
  <2>3. j \in Job /\ j.kind = "rollback" /\ j.pc = "down" /\ j.plan = {Greatest(meta)}
      BY <1>1, <2>2 DEF Job, Working
  <2> HIDE DEF j
  <2>4. JobFits(j)
      BY <2>2, <2>3 DEF JobFits
  <2>5. Began(c, j)
      BY <2>1, <2>3, <2>4, Beginning
  <2> QED BY <2>3, <2>5
<1> QED BY <1>2, <1>3

LEMMA RefreshBegins ==
    ASSUME Typed, NEW c \in Cmd, Refresh(c)
    PROVE  \E j \in Job :
             Began(c, j) /\ j.kind = "refresh" /\ j.pc = "drop" /\ j.todo = TablesAndKeys
<1> DEFINE j == [New EXCEPT !.kind = "refresh", !.pc = "drop", !.todo = TablesAndKeys]
<1>1. Begin(c, j)
    BY DEF Refresh
<1>2. TablesAndKeys \in SUBSET AllObjects
    BY DEF TablesAndKeys, Typed
<1>3. /\ j \in Job /\ j.kind = "refresh" /\ j.pc = "drop" /\ j.todo = TablesAndKeys
      /\ j.at = 1
    BY <1>2, NewJob DEF Job, Working
<1>4. JobFits(j)
    BY <1>3 DEF JobFits
<1> HIDE DEF j
<1>5. Began(c, j)
    BY <1>1, <1>3, <1>4, Beginning
<1> QED BY <1>3, <1>5

\* The migration that command c applies, and its next statement.
Hand(c) == Least(job[c].plan)
Statement(c) == Migration[Hand(c)].up[job[c].at]

LEMMA AtHand ==
    ASSUME Typed, NEW c \in Cmd, job[c].pc = "up"
    PROVE  /\ job[c] \in Job /\ c \in Active
           /\ job[c].plan \in SUBSET All /\ Hand(c) \in job[c].plan /\ Hand(c) \in All
           /\ \A n \in job[c].plan : Hand(c) <= n
           /\ job[c].at \in 1 .. Len(Migration[Hand(c)].up) + 1
           /\ Len(Migration[Hand(c)].up) \in 1 .. 5
<1>1. job[c] \in Job /\ JobFits(job[c])
    BY DEF Typed
<1>2. job[c].plan \in SUBSET All /\ job[c].plan # {}
    BY <1>1 DEF Job, JobFits
<1>3. Hand(c) \in job[c].plan /\ \A n \in job[c].plan : Hand(c) <= n
    BY <1>2, LeastIs DEF Hand
<1>4. c \in Active
    BY DEF Active, Working
<1> QED BY <1>1, <1>2, <1>3, <1>4, Shape DEF JobFits, Hand

LEMMA ApplyMoves ==
    ASSUME Typed, NEW c \in Cmd, Apply(c)
    PROVE  /\ Moved(c) /\ job[c].pc = "up" /\ meta' = meta /\ cut' = cut /\ crashed' = crashed
           /\ job[c].at \in Statements(Hand(c)) /\ Statement(c) \in Objects(Hand(c))
           /\ \/ /\ CanCreate(Statement(c)) /\ db' = db \cup {Statement(c)}
                 /\ job'[c].pc = "up" /\ job'[c].plan = job[c].plan
                 /\ job'[c].at = job[c].at + 1
              \/ ~CanCreate(Statement(c)) /\ db' = db /\ job'[c].pc = "failed"
<1>1. job[c].pc = "up" /\ meta' = meta /\ last' = last /\ cut' = cut /\ crashed' = crashed
    BY DEF Apply
<1>2. job[c].at \in Statements(Hand(c))
    BY <1>1, AtHand DEF Apply, Statements, Hand
<1>3. Statement(c) \in Objects(Hand(c))
    BY <1>2 DEF Statement, Statements, Objects
<1>4. CASE CanCreate(Statement(c))
  <2> DEFINE k == [job[c] EXCEPT !.at = job[c].at + 1]
  <2>1. db' = db \cup {Statement(c)} /\ job' = [job EXCEPT ![c] = k]
      BY <1>4 DEF Apply, Statement, Hand
  <2>2. job[c] \in Job /\ c \in Active /\ job[c].at + 1 \in 1 .. 6
        /\ job[c].at + 1 \in 1 .. Len(Migration[Hand(c)].up) + 1
    <3>1. /\ job[c] \in Job /\ c \in Active
          /\ Len(Migration[Hand(c)].up) \in 1 .. 5
          /\ job[c].at \in 1 .. Len(Migration[Hand(c)].up)
        BY <1>1, <1>2, AtHand DEF Statements
    <3>2. \A len \in 1 .. 5 : \A at \in 1 .. len : at + 1 \in 1 .. 6 /\ at + 1 \in 1 .. len + 1
        OBVIOUS
    <3> QED BY <3>1, <3>2
  <2>3. /\ k \in Job /\ k.pc = "up" /\ k.plan = job[c].plan /\ k.at = job[c].at + 1
        /\ k.kind = job[c].kind /\ k.alone = job[c].alone
      BY <1>1, <2>2 DEF Job
  <2> HIDE DEF k
  <2>4. JobFits(k)
      BY <1>1, <2>2, <2>3, AtHand DEF JobFits, Hand
  <2>5. Moved(c) /\ job'[c] = k
      BY <1>1, <2>1, <2>2, <2>3, <2>4, Moving
  <2> QED BY <1>1, <1>2, <1>3, <1>4, <2>1, <2>3, <2>5
<1>5. CASE ~CanCreate(Statement(c))
  <2>1. db' = db /\ End(c, "failed")
      BY <1>5 DEF Apply, Statement, Hand
  <2> QED BY <1>1, <1>2, <1>3, <1>5, <2>1, AtHand, Ending
<1> QED BY <1>4, <1>5

LEMMA RecordMoves ==
    ASSUME Typed, NEW c \in Cmd, Record(c)
    PROVE  /\ Moved(c) /\ job[c].pc = "up" /\ cut' = cut /\ crashed' = crashed
           /\ job[c].at = Len(Migration[Hand(c)].up) + 1
           /\ db' = db \cup {SequelizeMeta}
           /\ \/ Hand(c) \in meta /\ meta' = meta /\ job'[c].pc = "failed"
              \/ /\ Hand(c) \notin meta /\ meta' = meta \cup {Hand(c)}
                 /\ \/ job[c].plan = {Hand(c)} /\ job'[c].pc = "ok"
                    \/ /\ job[c].plan # {Hand(c)} /\ job'[c].pc = "up" /\ job'[c].at = 1
                       /\ job'[c].plan = job[c].plan \ {Hand(c)}
<1>1. /\ job[c].pc = "up" /\ last' = last /\ cut' = cut /\ crashed' = crashed
      /\ db' = db \cup {SequelizeMeta} /\ job[c].at > Len(Migration[Hand(c)].up)
    BY DEF Record, Hand
<1>2. job[c].at = Len(Migration[Hand(c)].up) + 1
    BY <1>1, AtHand
<1>3. CASE Hand(c) \in meta
  <2>1. meta' = meta /\ End(c, "failed")
      BY <1>3 DEF Record, Hand
  <2> QED BY <1>1, <1>2, <1>3, <2>1, AtHand, Ending
<1>4. CASE Hand(c) \notin meta
  <2> DEFINE k == AfterMigration(job[c], Hand(c))
  <2>1. meta' = meta \cup {Hand(c)} /\ job' = [job EXCEPT ![c] = k]
      BY <1>4 DEF Record, Hand
  <2>2. /\ k \in Job /\ JobFits(k) /\ k.kind = job[c].kind /\ k.alone = job[c].alone
        /\ job[c].plan = {Hand(c)} => k.pc = "ok"
        /\ job[c].plan # {Hand(c)} =>
              k.pc = "up" /\ k.at = 1 /\ k.plan = job[c].plan \ {Hand(c)}
      BY <1>1, AtHand, AfterMigrationJob
  <2> HIDE DEF k
  <2>3. Moved(c) /\ job'[c] = k
      BY <1>1, <2>1, <2>2, AtHand, Moving
  <2> QED BY <1>1, <1>2, <1>4, <2>1, <2>2, <2>3
<1> QED BY <1>3, <1>4

LEMMA RevertMoves ==
    ASSUME Typed, NEW c \in Cmd, Revert(c)
    PROVE  /\ Moved(c) /\ job[c].pc = "down"
           /\ meta' = meta /\ cut' = cut /\ crashed' = crashed
           /\ \/ db' = db /\ job'[c].pc = "failed"
              \/ \E m \in All :
                   /\ job[c].plan = {m} /\ job'[c].plan = {m} /\ job'[c].pc = "unlog"
                   /\ db' = IF m = 1 THEN db ELSE Without(Own[m])
<1>1. /\ job[c].pc = "down" /\ meta' = meta /\ last' = last /\ cut' = cut /\ crashed' = crashed
    BY DEF Revert
<1>2. job[c] \in Job /\ c \in Active
    BY <1>1 DEF Typed, Active, Working
<1>3. PICK m \in All : job[c].plan = {m}
    BY <1>1 DEF Typed, JobFits
<1>4. Greatest(job[c].plan) = m
    BY <1>3, GreatestIs
<1>5. Migration[m].down = IF m = 1 THEN <<>> ELSE <<Own[m]>>
    BY Shape
<1> DEFINE k == [job[c] EXCEPT !.pc = "unlog"]
<1>6. \/ db' = db /\ End(c, "failed")
      \/ job' = [job EXCEPT ![c] = k] /\ db' = IF m = 1 THEN db ELSE Without(Own[m])
    BY <1>4, <1>5 DEF Revert
<1>7. CASE db' = db /\ End(c, "failed")
    BY <1>1, <1>2, <1>7, Ending
<1>8. CASE job' = [job EXCEPT ![c] = k] /\ db' = IF m = 1 THEN db ELSE Without(Own[m])
  <2>1. /\ k \in Job /\ k.pc = "unlog" /\ k.plan = {m}
        /\ k.kind = job[c].kind /\ k.alone = job[c].alone
      BY <1>2, <1>3 DEF Job, Working
  <2>2. JobFits(k)
    <3>1. job[c].kind # "refresh"
        BY <1>1 DEF Typed, JobFits
    <3> QED BY <2>1, <3>1 DEF JobFits
  <2>3. job' = [job EXCEPT ![c] = k]
      BY <1>8
  <2> HIDE DEF k
  <2>4. Moved(c) /\ job'[c] = k
      BY <1>1, <1>2, <2>1, <2>2, <2>3, Moving
  <2> QED BY <1>1, <1>3, <1>8, <2>1, <2>4
<1> QED BY <1>6, <1>7, <1>8

LEMMA UnlogMoves ==
    ASSUME Typed, NEW c \in Cmd, Unlog(c)
    PROVE  /\ Moved(c) /\ job[c].pc = "unlog" /\ cut' = cut /\ crashed' = crashed
           /\ meta' = meta \ job[c].plan /\ db' = db \cup {SequelizeMeta}
           /\ job'[c].pc = "ok"
<1>1. /\ job[c].pc = "unlog" /\ last' = last /\ cut' = cut /\ crashed' = crashed
      /\ meta' = meta \ job[c].plan /\ db' = db \cup {SequelizeMeta} /\ End(c, "ok")
    BY DEF Unlog
<1>2. c \in Active
    BY <1>1 DEF Active, Working
<1> QED BY <1>1, <1>2, Ending

LEMMA NextToDropIs ==
    ASSUME NEW S, S # {}
    PROVE  /\ NextToDrop(S) \in S
           /\ (\E o \in S : o.kind = "fk") => NextToDrop(S).kind = "fk"
<1> DEFINE keys == {o \in S : o.kind = "fk"}
<1>1. \E o \in S : keys = {} \/ o \in keys
    OBVIOUS
<1>2. NextToDrop(S) \in S /\ (keys = {} \/ NextToDrop(S) \in keys)
    BY <1>1 DEF NextToDrop
<1> QED BY <1>2

\* What is left when a table is dropped with the keys that refer to it.
Cascaded(t) == {p \in Without(t) : p.kind = "fk" => p.ref # t}

LEMMA DropMoves ==
    ASSUME Typed, NEW c \in Cmd, DropNext(c)
    PROVE  /\ Moved(c) /\ job[c].pc = "drop" /\ crashed' = crashed
           /\ \E o \in job[c].todo :
                /\ (\E k \in job[c].todo : k.kind = "fk") => o.kind = "fk"
                /\ \/ /\ o.kind = "fk" /\ o \notin db
                      /\ cut' = TRUE /\ db' = db /\ meta' = meta /\ job'[c].pc = "failed"
                   \/ /\ job'[c].pc = "drop" /\ job'[c].todo = job[c].todo \ {o} /\ cut' = cut
                      /\ db' = IF o.kind = "fk" THEN db \ {o} ELSE Cascaded(o.table)
                      /\ meta' = IF o = SequelizeMeta THEN {} ELSE meta
<1> DEFINE o == NextToDrop(job[c].todo)
<1>1. job[c].pc = "drop" /\ job[c].todo # {} /\ last' = last /\ crashed' = crashed
    BY DEF DropNext
<1>2. o \in job[c].todo /\ ((\E k \in job[c].todo : k.kind = "fk") => o.kind = "fk")
    BY <1>1, NextToDropIs
<1>3. job[c] \in Job /\ c \in Active
    BY <1>1 DEF Typed, Active, Working
<1>4. CASE o.kind = "fk" /\ o \notin db
  <2>1. End(c, "failed") /\ cut' = TRUE /\ db' = db /\ meta' = meta
      BY <1>4 DEF DropNext
  <2>2. Moved(c) /\ job'[c].pc = "failed"
      BY <1>1, <1>3, <2>1, Ending
  <2> HIDE DEF o
  <2> QED BY <1>1, <1>2, <1>4, <2>1, <2>2
<1>5. CASE ~(o.kind = "fk" /\ o \notin db)
  <2> DEFINE k == [job[c] EXCEPT !.todo = job[c].todo \ {o}]
  <2>1. /\ job' = [job EXCEPT ![c] = k] /\ cut' = cut
        /\ db' = IF o.kind = "fk" THEN db \ {o} ELSE Cascaded(o.table)
        /\ meta' = IF o = SequelizeMeta THEN {} ELSE meta
      BY <1>5 DEF DropNext, Cascaded
  <2> HIDE DEF o
  <2>2. /\ k \in Job /\ k.pc = "drop" /\ k.todo = job[c].todo \ {o} /\ k.at = job[c].at
        /\ k.kind = job[c].kind /\ k.alone = job[c].alone
      BY <1>1, <1>3 DEF Job
  <2> HIDE DEF k
  <2>3. JobFits(k)
    <3>1. job[c].at = 1
        BY <1>1 DEF Typed, JobFits
    <3> QED BY <2>2, <3>1 DEF JobFits
  <2>4. Moved(c) /\ job'[c] = k
      BY <1>1, <1>3, <2>1, <2>2, <2>3, Moving
  <2> QED BY <1>1, <1>2, <2>1, <2>2, <2>4
<1> QED BY <1>4, <1>5

LEMMA RunAfterDropMoves ==
    ASSUME Typed, NEW c \in Cmd, RunAfterDrop(c)
    PROVE  /\ Moved(c) /\ job[c].pc = "drop" /\ job[c].todo = {}
           /\ db' = db \cup {SequelizeMeta} /\ meta' = meta /\ cut' = cut /\ crashed' = crashed
           /\ \/ Pending = {} /\ job'[c].pc = "ok"
              \/ Pending # {} /\ job'[c].pc = "up" /\ job'[c].at = 1 /\ job'[c].plan = Pending
<1> DEFINE k == ToApply(job[c], Pending)
<1>1. /\ job[c].pc = "drop" /\ job[c].todo = {} /\ job' = [job EXCEPT ![c] = k]
      /\ db' = db \cup {SequelizeMeta} /\ meta' = meta /\ last' = last /\ cut' = cut
      /\ crashed' = crashed
    BY DEF RunAfterDrop
<1>2. job[c] \in Job /\ c \in Active /\ job[c].at = 1
    BY <1>1 DEF Typed, Active, Working, JobFits
<1>3. Pending \in SUBSET All
    BY DEF Pending
<1>4. /\ k \in Job /\ JobFits(k) /\ k.kind = job[c].kind /\ k.alone = job[c].alone
      /\ \/ Pending = {} /\ k.pc = "ok"
         \/ Pending # {} /\ k.pc = "up" /\ k.at = 1 /\ k.plan = Pending
    BY <1>2, <1>3, ToApplyJob
<1> HIDE DEF k
<1>5. Moved(c) /\ job'[c] = k
    BY <1>1, <1>2, <1>4, Moving
<1> QED BY <1>1, <1>4, <1>5

LEMMA CrashMoves ==
    ASSUME Typed, NEW c \in Cmd, Crash(c)
    PROVE  /\ Moved(c) /\ job'[c].pc = "dead" /\ db' = db /\ meta' = meta
           /\ crashed' = TRUE /\ (cut' <=> cut \/ job[c].pc \in {"unlog", "drop"})
           /\ cut' \in BOOLEAN
<1>1. /\ c \in Active /\ End(c, "dead") /\ last' = last /\ db' = db /\ meta' = meta
      /\ crashed' = TRUE /\ (cut' <=> cut \/ job[c].pc \in {"unlog", "drop"})
      /\ cut' \in BOOLEAN
    BY DEF Crash
<1> QED BY <1>1, Ending

LEMMA ObjectsTyped ==
    /\ SequelizeMeta \in AllObjects
    /\ \A m \in All : Objects(m) \subseteq AllObjects
BY DEF AllObjects

LEMMA TypedStep == Typed /\ [Next]_vars => Typed'
<1> SUFFICES ASSUME Typed, [Next]_vars PROVE Typed'
    OBVIOUS
<1> USE DEF Typed
<1>1. ASSUME NEW c \in Cmd, Run(c) PROVE Typed'
    BY <1>1, RunBegins, ObjectsTyped DEF Began, Run
<1>2. ASSUME NEW c \in Cmd, Apply(c) PROVE Typed'
    BY <1>2, ApplyMoves, AtHand, ObjectsTyped DEF Moved
<1>3. ASSUME NEW c \in Cmd, Record(c) PROVE Typed'
    BY <1>3, RecordMoves, AtHand, ObjectsTyped DEF Moved
<1>4. ASSUME NEW c \in Cmd, Rollback(c) PROVE Typed'
    BY <1>4, RollbackBegins, ObjectsTyped DEF Began, Rollback
<1>5. ASSUME NEW c \in Cmd, Revert(c) PROVE Typed'
    BY <1>5, RevertMoves DEF Moved, Without
<1>6. ASSUME NEW c \in Cmd, Unlog(c) PROVE Typed'
    BY <1>6, UnlogMoves, ObjectsTyped DEF Moved
<1>7. ASSUME NEW c \in Cmd, Refresh(c) PROVE Typed'
    BY <1>7, RefreshBegins DEF Began, Refresh
<1>8. ASSUME NEW c \in Cmd, DropNext(c) PROVE Typed'
    BY <1>8, DropMoves DEF Moved, Cascaded, Without
<1>9. ASSUME NEW c \in Cmd, RunAfterDrop(c) PROVE Typed'
    BY <1>9, RunAfterDropMoves, ObjectsTyped DEF Moved
<1>10. ASSUME NEW c \in Cmd, Crash(c) PROVE Typed'
    BY <1>10, CrashMoves DEF Moved
<1>11. CASE UNCHANGED vars
    BY <1>11 DEF vars
<1> QED BY <1>1, <1>2, <1>3, <1>4, <1>5, <1>6, <1>7, <1>8, <1>9, <1>10, <1>11 DEF Next, Step

-----------------------------------------------------------------------------
(* What the schema always keeps, and who is alone. *)

Homes == \A o \in db : o.kind = "index" => Table(o.table) \in db

Ledger == SequelizeMeta \notin db => meta = {}

Solo ==
    /\ ~cut => \A c, d \in Active : c = d
    /\ \A c \in Cmd : last = c /\ job[c].pc # "new" /\ job[c].alone => \A d \in Active : d = c

LEMMA ActiveStep ==
    ASSUME Typed, NEW c \in Cmd
    PROVE  /\ Moved(c) => Active' \subseteq Active
           /\ \A j : Began(c, j) => Active' \subseteq Active \cup {c}
BY DEF Moved, Began, Same, Active

LEMMA SoloMoved ==
    ASSUME Typed, Solo, NEW c \in Cmd, Moved(c), cut => cut'
    PROVE  Solo'
<1>1. Active' \subseteq Active /\ c \in Active /\ job[c].pc # "new"
    BY ActiveStep DEF Moved, Active, Working
<1>2. ~cut' => \A x, y \in Active' : x = y
    BY <1>1 DEF Solo
<1>3. ASSUME NEW x \in Cmd, last' = x, job'[x].pc # "new", job'[x].alone, NEW d \in Active'
      PROVE  d = x
    BY <1>1, <1>3 DEF Solo, Moved
<1> QED BY <1>2, <1>3 DEF Solo

LEMMA SoloBegan ==
    ASSUME Typed, Solo, NEW c \in Cmd, NEW j, Began(c, j)
    PROVE  Solo'
<1>1. Active' \subseteq Active \cup {c}
    BY ActiveStep
<1>2. ~cut' => \A x, y \in Active' : x = y
    BY <1>1 DEF Began
<1>3. ASSUME NEW x \in Cmd, last' = x, job'[x].pc # "new", job'[x].alone, NEW d \in Active'
      PROVE  d = x
    BY <1>1, <1>3 DEF Began
<1> QED BY <1>2, <1>3 DEF Solo

Frame == Homes /\ Ledger /\ Solo

LEMMA TableFields ==
    \A t : /\ Table(t).kind = "table" /\ Table(t).table = t
           /\ SequelizeMeta.kind = "table" /\ SequelizeMeta.table = "SequelizeMeta"
BY DEF Table, SequelizeMeta

LEMMA FrameStep == Typed /\ Frame /\ [Next]_vars => Frame'
<1> SUFFICES ASSUME Typed, Frame, [Next]_vars PROVE Frame'
    OBVIOUS
<1> USE TableFields DEF Frame
<1>1. ASSUME NEW c \in Cmd, Run(c) PROVE Frame'
  <2>1. Homes' /\ Ledger'
      BY <1>1 DEF Run, Homes, Ledger
  <2> QED BY <1>1, <2>1, RunBegins, SoloBegan
<1>2. ASSUME NEW c \in Cmd, Apply(c) PROVE Frame'
  <2>1. Ledger'
      BY <1>2, ApplyMoves DEF Ledger
  <2>2. Homes'
      BY <1>2, ApplyMoves DEF Homes, CanCreate
  <2> QED BY <1>2, <2>1, <2>2, ApplyMoves, SoloMoved
<1>3. ASSUME NEW c \in Cmd, Record(c) PROVE Frame'
  <2>1. Homes' /\ Ledger'
      BY <1>3 DEF Record, Homes, Ledger
  <2> QED BY <1>3, <2>1, RecordMoves, SoloMoved
<1>4. ASSUME NEW c \in Cmd, Rollback(c) PROVE Frame'
  <2>1. Homes' /\ Ledger'
      BY <1>4 DEF Rollback, Homes, Ledger
  <2> QED BY <1>4, <2>1, RollbackBegins, SoloBegan
<1>5. ASSUME NEW c \in Cmd, Revert(c) PROVE Frame'
  <2>1. Homes' /\ Ledger'
      BY <1>5, RevertMoves, OwnTables DEF Without, Homes, Ledger
  <2> QED BY <1>5, <2>1, RevertMoves, SoloMoved
<1>6. ASSUME NEW c \in Cmd, Unlog(c) PROVE Frame'
  <2>1. Homes' /\ Ledger'
      BY <1>6 DEF Unlog, Homes, Ledger
  <2> QED BY <1>6, <2>1, UnlogMoves, SoloMoved
<1>7. ASSUME NEW c \in Cmd, Refresh(c) PROVE Frame'
  <2>1. Homes' /\ Ledger'
      BY <1>7 DEF Refresh, Homes, Ledger
  <2> QED BY <1>7, <2>1, RefreshBegins, SoloBegan
<1>8. ASSUME NEW c \in Cmd, DropNext(c) PROVE Frame'
  <2>1. Homes'
    <3>1. PICK o \in job[c].todo :
             \/ db' = db
             \/ db' = IF o.kind = "fk" THEN db \ {o} ELSE Cascaded(o.table)
        BY <1>8, DropMoves
    <3>2. ASSUME NEW p \in db', p.kind = "index" PROVE Table(p.table) \in db'
      <4>1. p \in db /\ Table(p.table) \in db
          BY <3>1, <3>2 DEF Cascaded, Without, Homes
      <4>2. CASE db' = Cascaded(o.table)
          BY <3>2, <4>1, <4>2 DEF Cascaded, Without
      <4>3. CASE o.kind = "fk" /\ db' = db \ {o}
          BY <4>1, <4>3
      <4> QED BY <3>1, <4>1, <4>2, <4>3
    <3> QED BY <3>2 DEF Homes
  <2>2. Ledger'
    <3>1. PICK o \in job[c].todo :
             \/ db' = db /\ meta' = meta
             \/ /\ db' = IF o.kind = "fk" THEN db \ {o} ELSE Cascaded(o.table)
                /\ meta' = IF o = SequelizeMeta THEN {} ELSE meta
        BY <1>8, DropMoves
    <3>2. o.kind # "fk" /\ o.table = "SequelizeMeta" => o = SequelizeMeta
        BY <1>8, DropMoves, ObjectIs DEF Typed, Job
    <3> QED BY <3>1, <3>2 DEF Cascaded, Without, Ledger
  <2>3. Moved(c) /\ (cut => cut')
      BY <1>8, DropMoves
  <2> QED BY <2>1, <2>2, <2>3, SoloMoved
<1>9. ASSUME NEW c \in Cmd, RunAfterDrop(c) PROVE Frame'
  <2>1. Homes' /\ Ledger'
      BY <1>9 DEF RunAfterDrop, Homes, Ledger
  <2> QED BY <1>9, <2>1, RunAfterDropMoves, SoloMoved
<1>10. ASSUME NEW c \in Cmd, Crash(c) PROVE Frame'
  <2>1. Homes' /\ Ledger'
      BY <1>10 DEF Crash, Homes, Ledger
  <2> QED BY <1>10, <2>1, CrashMoves, SoloMoved
<1>11. CASE UNCHANGED vars
    BY <1>11 DEF vars, Homes, Ledger, Solo, Active
<1> QED BY <1>1, <1>2, <1>3, <1>4, <1>5, <1>6, <1>7, <1>8, <1>9, <1>10, <1>11 DEF Next, Step

-----------------------------------------------------------------------------
(* A recorded migration is applied. *)

\* What the statements of the migration at hand have created so far.
Done(j) == {Migration[Least(j.plan)].up[i] : i \in 1 .. j.at - 1}

LEMMA NothingDone == \A j : j.at = 1 => Done(j) = {}
BY DEF Done

LEMMA DoneSoFar ==
    ASSUME Typed, NEW c \in Cmd, job[c].pc = "up"
    PROVE  /\ Done(job[c]) \subseteq Objects(Hand(c))
           /\ job[c].at = Len(Migration[Hand(c)].up) + 1 => Done(job[c]) = Objects(Hand(c))
<1> DEFINE len == Len(Migration[Hand(c)].up)
<1>1. len \in 1 .. 5 /\ job[c].at \in 1 .. len + 1
    BY AtHand
<1> HIDE DEF len
<1>2. 1 .. job[c].at - 1 \subseteq 1 .. len
    BY <1>1
<1>3. job[c].at = len + 1 => 1 .. job[c].at - 1 = 1 .. len
    BY <1>1
<1>4. Done(job[c]) = {Migration[Hand(c)].up[i] : i \in 1 .. job[c].at - 1}
    BY DEF Done, Hand
<1>5. Objects(Hand(c)) = {Migration[Hand(c)].up[i] : i \in 1 .. len}
    BY DEF Objects, len
<1> QED BY <1>2, <1>3, <1>4, <1>5 DEF len

LEMMA OneMoreDone ==
    ASSUME Typed, NEW c \in Cmd, job[c].pc = "up", NEW j,
           j.plan = job[c].plan, j.at = job[c].at + 1
    PROVE  Done(j) = Done(job[c]) \cup {Statement(c)}
<1>1. job[c].at \in Nat \ {0}
    BY AtHand
<1>2. 1 .. j.at - 1 = (1 .. job[c].at - 1) \cup {job[c].at}
    BY <1>1
<1>3. Done(j) = {Migration[Hand(c)].up[i] : i \in 1 .. j.at - 1}
    BY DEF Done, Hand
<1>4. Done(job[c]) = {Migration[Hand(c)].up[i] : i \in 1 .. job[c].at - 1}
    BY DEF Done, Hand
<1> QED BY <1>2, <1>3, <1>4 DEF Statement

\* The drop of one migration's table leaves the objects of the others.
LEMMA OtherTables ==
    ASSUME NEW m \in All, m # 1, NEW n \in All, n # m, Objects(n) \subseteq db
    PROVE  Objects(n) \subseteq Without(Own[m])
BY ObjectOf, OwnTables DEF Without

\* The job of command c when no rollback or refresh was cut short.
AppliedBy(c) ==
    /\ job[c].pc = "unlog" => \A m \in meta \ job[c].plan : Objects(m) \subseteq db
    /\ job[c].pc = "drop" => SequelizeMeta \in job[c].todo \/ meta = {}
    /\ job[c].pc = "up" => Done(job[c]) \subseteq db

Applied ==
    /\ RecordedIsApplied
    /\ ~cut => \A c \in Cmd : AppliedBy(c)

\* A command begins: it changes no record, and drops nothing yet.
LEMMA AppliedBegan ==
    ASSUME Typed, Frame, Applied, NEW c \in Cmd, NEW j, Began(c, j),
           db \subseteq db', meta' = meta,
           j.pc # "unlog", j.pc = "up" => j.at = 1,
           j.pc = "drop" => j.todo = TablesAndKeys
    PROVE  Applied'
<1> DEFINE Between == \A d \in Cmd : job[d].pc \notin {"unlog", "drop"}
           Full == \A m \in meta : Objects(m) \subseteq db
<1> SUFFICES ASSUME ~cut' PROVE (\A d \in Cmd : AppliedBy(d)') /\ (Between' => Full')
  <2>1. RecordedIsApplied' <=> (~cut' /\ Between' => Full')
      BY DEF RecordedIsApplied
  <2>2. Applied' <=> RecordedIsApplied' /\ (~cut' => \A d \in Cmd : AppliedBy(d)')
      BY DEF Applied
  <2> QED BY <2>1, <2>2
<1>1. ~cut /\ Active = {}
    BY DEF Began
<1>2. \A d \in Cmd : job[d].pc \notin Working
    BY <1>1 DEF Active
<1>3. \A m \in meta : Objects(m) \subseteq db'
    BY <1>1, <1>2 DEF Applied, RecordedIsApplied, Working
<1>4. \A d \in Cmd : d # c => AppliedBy(d)'
    BY <1>2 DEF Began, Same, AppliedBy, Working
<1>5. AppliedBy(c)'
  <2>1. job'[c].pc = "up" => Done(job'[c]) = {}
      BY NothingDone DEF Began, Same
  <2>2. job'[c].pc = "drop" => SequelizeMeta \in job'[c].todo \/ meta = {}
      BY TableFields DEF Began, Same, TablesAndKeys, Frame, Ledger
  <2> QED BY <2>1, <2>2 DEF Began, Same, AppliedBy
<1> QED BY <1>3, <1>4, <1>5

\* Without an overlap the command that moves is the only one under way.
LEMMA OnlyOneMoves ==
    ASSUME Typed, Frame, ~cut, NEW c \in Cmd, Moved(c)
    PROVE  /\ \A d \in Cmd : d # c => job[d].pc \notin Working /\ job'[d] = job[d]
           /\ c \in Active
BY DEF Moved, Frame, Solo, Active

\* A step of a command under way: what it does to its own job is enough.
LEMMA AppliedMoved ==
    ASSUME Typed, Frame, Applied, NEW c \in Cmd, Moved(c), cut => cut',
           ~cut /\ ~cut' /\ AppliedBy(c) =>
             /\ AppliedBy(c)'
             /\ job'[c].pc \notin {"unlog", "drop"} =>
                  \/ \A m \in meta' : Objects(m) \subseteq db'
                  \/ /\ job[c].pc \notin {"unlog", "drop"} /\ db \subseteq db'
                     /\ \A m \in meta' \ meta : Objects(m) \subseteq db'
    PROVE  Applied'
<1> DEFINE Between == \A d \in Cmd : job[d].pc \notin {"unlog", "drop"}
           Full == \A m \in meta : Objects(m) \subseteq db
<1> SUFFICES ASSUME ~cut' PROVE (\A d \in Cmd : AppliedBy(d)') /\ (Between' => Full')
  <2>1. RecordedIsApplied' <=> (~cut' /\ Between' => Full')
      BY DEF RecordedIsApplied
  <2>2. Applied' <=> RecordedIsApplied' /\ (~cut' => \A d \in Cmd : AppliedBy(d)')
      BY DEF Applied
  <2> QED BY <2>1, <2>2
<1>1. ~cut /\ AppliedBy(c)
    BY DEF Applied
<1>2. \A d \in Cmd : d # c => job[d].pc \notin Working /\ job'[d] = job[d]
    BY <1>1, OnlyOneMoves
<1>3. \A d \in Cmd : d # c => AppliedBy(d)'
    BY <1>2 DEF AppliedBy, Working
<1>4. ASSUME \A d \in Cmd : job'[d].pc \notin {"unlog", "drop"}, NEW m \in meta'
      PROVE  Objects(m) \subseteq db'
  <2>1. CASE job[c].pc \notin {"unlog", "drop"} /\ db \subseteq db'
             /\ \A n \in meta' \ meta : Objects(n) \subseteq db'
    <3>1. \A n \in meta : Objects(n) \subseteq db
        BY <1>1, <1>2, <2>1 DEF Applied, RecordedIsApplied, Working
    <3> QED BY <2>1, <3>1
  <2> QED BY <1>1, <1>4, <2>1
<1> QED BY <1>1, <1>3, <1>4

LEMMA AppliedStep == Typed /\ Frame /\ Applied /\ [Next]_vars => Applied'
<1> SUFFICES ASSUME Typed, Frame, Applied, [Next]_vars PROVE Applied'
    OBVIOUS
<1>1. ASSUME NEW c \in Cmd, Run(c) PROVE Applied'
  <2>1. db \subseteq db' /\ meta' = meta
      BY <1>1 DEF Run
  <2> QED BY <1>1, <2>1, RunBegins, AppliedBegan
<1>2. ASSUME NEW c \in Cmd, Apply(c) PROVE Applied'
  <2>1. AppliedBy(c) => AppliedBy(c)'
      BY <1>2, ApplyMoves, OneMoreDone DEF AppliedBy
  <2>2. job[c].pc = "up" /\ db \subseteq db' /\ meta' = meta /\ Moved(c) /\ cut' = cut
      BY <1>2, ApplyMoves
  <2> QED BY <2>1, <2>2, AppliedMoved
<1>3. ASSUME NEW c \in Cmd, Record(c) PROVE Applied'
  <2>1. AppliedBy(c) => AppliedBy(c)'
    <3>1. job'[c].pc = "up" => Done(job'[c]) = {}
        BY <1>3, RecordMoves, NothingDone
    <3> QED BY <1>3, <3>1, RecordMoves DEF AppliedBy
  <2>2. job[c].pc = "up" /\ db \subseteq db' /\ Moved(c) /\ cut' = cut
      BY <1>3, RecordMoves
  <2>3. AppliedBy(c) => \A m \in meta' \ meta : Objects(m) \subseteq db'
      BY <1>3, RecordMoves, DoneSoFar DEF AppliedBy
  <2> QED BY <2>1, <2>2, <2>3, AppliedMoved
<1>4. ASSUME NEW c \in Cmd, Rollback(c) PROVE Applied'
  <2>1. db \subseteq db' /\ meta' = meta
      BY <1>4 DEF Rollback
  <2> QED BY <1>4, <2>1, RollbackBegins, AppliedBegan
<1>5. ASSUME NEW c \in Cmd, Revert(c) PROVE Applied'
  <2>1. Moved(c) /\ job[c].pc = "down" /\ meta' = meta /\ cut' = cut
      BY <1>5, RevertMoves
  <2>2. CASE db' = db /\ job'[c].pc = "failed"
      BY <2>1, <2>2, AppliedMoved DEF AppliedBy
  <2>3. CASE \E m \in All : /\ job'[c].plan = {m} /\ job'[c].pc = "unlog"
                            /\ db' = IF m = 1 THEN db ELSE Without(Own[m])
    <3>1. PICK m \in All : /\ job'[c].plan = {m} /\ job'[c].pc = "unlog"
                           /\ db' = IF m = 1 THEN db ELSE Without(Own[m])
        BY <2>3
    <3>2. ~cut => AppliedBy(c)'
      <4>1. ~cut => \A n \in meta : Objects(n) \subseteq db
          BY <2>1, OnlyOneMoves DEF Applied, RecordedIsApplied, Working
      <4>2. ~cut => \A n \in meta \ {m} : Objects(n) \subseteq db'
          BY <3>1, <4>1, OtherTables DEF Typed
      <4> QED BY <2>1, <3>1, <4>2 DEF AppliedBy
    <3> QED BY <2>1, <3>1, <3>2, AppliedMoved
  <2> QED BY <1>5, <2>2, <2>3, RevertMoves
<1>6. ASSUME NEW c \in Cmd, Unlog(c) PROVE Applied'
  <2>1. AppliedBy(c) => AppliedBy(c)' /\ \A m \in meta' : Objects(m) \subseteq db'
      BY <1>6, UnlogMoves DEF AppliedBy
  <2> QED BY <1>6, <2>1, UnlogMoves, AppliedMoved
<1>7. ASSUME NEW c \in Cmd, Refresh(c) PROVE Applied'
  <2>1. db \subseteq db' /\ meta' = meta
      BY <1>7 DEF Refresh
  <2> QED BY <1>7, <2>1, RefreshBegins, AppliedBegan
<1>8. ASSUME NEW c \in Cmd, DropNext(c) PROVE Applied'
  <2>1. ~cut' /\ AppliedBy(c) => AppliedBy(c)' /\ job'[c].pc = "drop"
      BY <1>8, DropMoves DEF AppliedBy
  <2>2. Moved(c) /\ (cut => cut')
      BY <1>8, DropMoves
  <2> QED BY <2>1, <2>2, AppliedMoved
<1>9. ASSUME NEW c \in Cmd, RunAfterDrop(c) PROVE Applied'
  <2>1. AppliedBy(c) => meta' = {}
      BY <1>9, RunAfterDropMoves DEF AppliedBy
  <2>2. AppliedBy(c)'
      BY <1>9, RunAfterDropMoves, NothingDone DEF AppliedBy
  <2> QED BY <1>9, <2>1, <2>2, RunAfterDropMoves, AppliedMoved
<1>10. ASSUME NEW c \in Cmd, Crash(c) PROVE Applied'
  <2>1. AppliedBy(c)'
      BY <1>10, CrashMoves DEF AppliedBy
  <2> QED BY <1>10, <2>1, CrashMoves, AppliedMoved
<1>11. CASE UNCHANGED vars
    BY <1>11 DEF vars, Applied, AppliedBy, RecordedIsApplied
<1> QED BY <1>1, <1>2, <1>3, <1>4, <1>5, <1>6, <1>7, <1>8, <1>9, <1>10, <1>11 DEF Next, Step

-----------------------------------------------------------------------------
(* The schema is that of the record. *)

\* The schema and the objects of migrations S, the extension left aside: nothing
\* drops it.
Rest == db \ {Extension, SequelizeMeta}
Of(S) == (UNION {Objects(m) : m \in S}) \ {Extension}

LEMMA OfOneMore ==
    \A S, m : Of(S \cup {m}) = Of(S) \cup (Objects(m) \ {Extension})
BY DEF Of

LEMMA OfOneLess ==
    ASSUME NEW S \in SUBSET All, NEW m \in All
    PROVE  Of(S \ {m}) = IF m = 1 THEN Of(S) ELSE {o \in Of(S) : o.table # Own[m]}
<1>1. \A n \in S : \A o \in Objects(n) :
          (n = 1 => o = Extension) /\ (o.table = Own[m] <=> n = m)
    BY ObjectOf, OwnTables
<1>2. CASE m = 1
    BY <1>1, <1>2 DEF Of
<1>3. CASE m # 1
    BY <1>1, <1>3 DEF Of
<1> QED BY <1>2, <1>3

\* A schema without tables and keys has no index either.
LEMMA NothingLeft ==
    ASSUME Typed, Frame, TablesAndKeys = {}
    PROVE  Rest = {}
<1> SUFFICES ASSUME NEW o \in db, o # Extension, o # SequelizeMeta PROVE FALSE
    BY DEF Rest
<1>1. o.kind = "index"
    BY ObjectIs DEF Typed, TablesAndKeys
<1>2. Table(o.table) \in TablesAndKeys
    BY <1>1, TableFields DEF Frame, Homes, TablesAndKeys
<1> QED BY <1>2

\* The tables and keys still to drop, after one more is dropped.
LEMMA DroppedOne ==
    ASSUME Typed, NEW todo \in SUBSET AllObjects, NEW o \in todo, TablesAndKeys \subseteq todo,
           db' = IF o.kind = "fk" THEN db \ {o} ELSE Cascaded(o.table)
    PROVE  TablesAndKeys' \subseteq todo \ {o}
<1>1. db' \subseteq db
    BY DEF Cascaded, Without
<1>2. o \notin db'
    BY DEF Cascaded, Without
<1> QED BY <1>1, <1>2 DEF TablesAndKeys

\* The job of command c when nothing failed, died or overlapped.
MatchesBy(c) ==
    /\ job[c].pc = "up" => Rest = Of(meta) \cup (Done(job[c]) \ {Extension})
    /\ job[c].pc = "down" => Rest = Of(meta)
    /\ job[c].pc = "unlog" => Rest = Of(meta \ job[c].plan)
    /\ job[c].pc = "drop" => /\ TablesAndKeys \subseteq job[c].todo
                             /\ SequelizeMeta \in job[c].todo \/ meta = {}

Smooth == \A c \in Cmd : job[c].pc \notin {"failed", "dead"}

Matches ==
    ~cut /\ Smooth =>
        /\ \A c \in Cmd : MatchesBy(c)
        /\ Active = {} => Rest = Of(meta)

\* A command begins, and finds the schema of the record.
LEMMA MatchesBegan ==
    ASSUME Typed, Frame, Matches, NEW c \in Cmd, NEW j, Began(c, j),
           Rest' = Rest, meta' = meta,
           j.pc # "unlog", j.pc = "up" => j.at = 1,
           j.pc = "drop" => j.todo = TablesAndKeys /\ db' = db
    PROVE  Matches'
<1> SUFFICES ASSUME ~cut', Smooth' PROVE (\A d \in Cmd : MatchesBy(d)') /\ Rest' = Of(meta')
  <2>1. Matches' <=> (~cut' /\ Smooth' => /\ \A d \in Cmd : MatchesBy(d)'
                                         /\ (Active' = {} => Rest' = Of(meta')))
      BY DEF Matches
  <2> QED BY <2>1
<1>1. ~cut /\ Active = {}
    BY DEF Began
<1>2. Smooth
    BY DEF Smooth, Began, Same
<1>3. Rest = Of(meta)
    BY <1>1, <1>2 DEF Matches
<1>4. \A d \in Cmd : job[d].pc \notin Working
    BY <1>1 DEF Active
<1>5. \A d \in Cmd : d # c => MatchesBy(d)'
    BY <1>4 DEF Began, Same, MatchesBy, Working
<1>6. MatchesBy(c)'
  <2>1. job'[c].pc = "up" => Done(job'[c]) = {}
      BY NothingDone DEF Began, Same
  <2>2. job'[c].pc = "drop" => /\ TablesAndKeys' \subseteq job'[c].todo
                               /\ SequelizeMeta \in job'[c].todo \/ meta = {}
      BY TableFields DEF Began, Same, TablesAndKeys, Frame, Ledger
  <2>3. job'[c].pc = "drop" => TablesAndKeys' \subseteq job'[c].todo
      BY <2>2
  <2>4. job'[c].pc # "unlog"
      BY DEF Began, Same
  <2> QED BY <1>3, <2>1, <2>2, <2>3, <2>4 DEF MatchesBy
<1> QED BY <1>3, <1>5, <1>6

\* A step of a command under way, which is the only one.
LEMMA MatchesMoved ==
    ASSUME Typed, Frame, Matches, NEW c \in Cmd, Moved(c), cut => cut',
           ~cut /\ MatchesBy(c) /\ job'[c].pc \notin {"failed", "dead"} =>
             /\ MatchesBy(c)'
             /\ job'[c].pc \notin Working => Rest' = Of(meta')
    PROVE  Matches'
<1> SUFFICES ASSUME ~cut', Smooth' PROVE /\ \A d \in Cmd : MatchesBy(d)'
                                        /\ (Active' = {} => Rest' = Of(meta'))
  <2>1. Matches' <=> (~cut' /\ Smooth' => /\ \A d \in Cmd : MatchesBy(d)'
                                         /\ (Active' = {} => Rest' = Of(meta')))
      BY DEF Matches
  <2> QED BY <2>1
<1>1. \A d \in Cmd : d # c => job[d].pc \notin Working /\ job'[d] = job[d]
    BY OnlyOneMoves
<1>2. Smooth
    BY <1>1 DEF Smooth, Moved, Active, Working
<1>3. MatchesBy(c)
    BY <1>2 DEF Matches
<1>4. job'[c].pc \notin {"failed", "dead"}
    BY DEF Smooth
<1>5. MatchesBy(c)' /\ (job'[c].pc \notin Working => Rest' = Of(meta'))
    BY <1>3, <1>4
<1>6. \A d \in Cmd : d # c => MatchesBy(d)'
    BY <1>1 DEF MatchesBy, Working
<1>7. Active' = {} => job'[c].pc \notin Working
    BY DEF Active
<1> QED BY <1>5, <1>6, <1>7

LEMMA MatchesStep == Typed /\ Frame /\ Matches /\ [Next]_vars => Matches'
<1> SUFFICES ASSUME Typed, Frame, Matches, [Next]_vars PROVE Matches'
    OBVIOUS
<1>1. ASSUME NEW c \in Cmd, Run(c) PROVE Matches'
  <2>1. Rest' = Rest /\ meta' = meta
      BY <1>1 DEF Run, Rest
  <2> QED BY <1>1, <2>1, RunBegins, MatchesBegan
<1>2. ASSUME NEW c \in Cmd, Apply(c) PROVE Matches'
  <2>1. Moved(c) /\ cut' = cut /\ job[c].pc = "up" /\ meta' = meta
      BY <1>2, ApplyMoves
  <2>2. CASE job'[c].pc = "failed"
      BY <2>1, <2>2, MatchesMoved
  <2>3. CASE job'[c].pc # "failed"
    <3>1. /\ db' = db \cup {Statement(c)} /\ job'[c].pc = "up"
          /\ Done(job'[c]) = Done(job[c]) \cup {Statement(c)}
        BY <1>2, <2>3, ApplyMoves, OneMoreDone
    <3>2. Statement(c) # SequelizeMeta
        BY <1>2, <2>1, ApplyMoves, AtHand, ObjectOf
    <3>3. Rest' = Rest \cup ({Statement(c)} \ {Extension})
        BY <3>1, <3>2 DEF Rest
    <3>4. MatchesBy(c) => MatchesBy(c)'
        BY <2>1, <3>1, <3>3 DEF MatchesBy
    <3> QED BY <2>1, <3>1, <3>4, MatchesMoved DEF Working
  <2> QED BY <2>2, <2>3
<1>3. ASSUME NEW c \in Cmd, Record(c) PROVE Matches'
  <2>1. Moved(c) /\ cut' = cut /\ job[c].pc = "up" /\ Rest' = Rest
      BY <1>3, RecordMoves DEF Rest
  <2>2. CASE job'[c].pc = "failed"
      BY <2>1, <2>2, MatchesMoved
  <2>3. CASE job'[c].pc # "failed"
    <3>1. meta' = meta \cup {Hand(c)} /\ Done(job[c]) = Objects(Hand(c))
        BY <1>3, <2>3, RecordMoves, DoneSoFar
    <3>2. MatchesBy(c) => Rest' = Of(meta')
        BY <2>1, <3>1, OfOneMore DEF MatchesBy
    <3>3. job'[c].pc = "ok" \/ (job'[c].pc = "up" /\ Done(job'[c]) = {})
      <4>1. job'[c].pc = "ok" \/ (job'[c].pc = "up" /\ job'[c].at = 1)
          BY <1>3, <2>3, RecordMoves
      <4> QED BY <4>1, NothingDone
    <3>4. MatchesBy(c) => MatchesBy(c)'
        BY <3>2, <3>3 DEF MatchesBy
    <3> QED BY <2>1, <3>2, <3>4, MatchesMoved
  <2> QED BY <2>2, <2>3
<1>4. ASSUME NEW c \in Cmd, Rollback(c) PROVE Matches'
  <2>1. Rest' = Rest /\ meta' = meta
      BY <1>4 DEF Rollback, Rest
  <2> QED BY <1>4, <2>1, RollbackBegins, MatchesBegan
<1>5. ASSUME NEW c \in Cmd, Revert(c) PROVE Matches'
  <2>1. Moved(c) /\ job[c].pc = "down" /\ meta' = meta /\ cut' = cut
      BY <1>5, RevertMoves
  <2>2. CASE job'[c].pc = "failed"
      BY <2>1, <2>2, MatchesMoved
  <2>3. CASE job'[c].pc # "failed"
    <3>1. PICK m \in All : /\ job'[c].plan = {m} /\ job'[c].pc = "unlog"
                           /\ db' = IF m = 1 THEN db ELSE Without(Own[m])
        BY <1>5, <2>3, RevertMoves
    <3>2. Of(meta \ {m}) = IF m = 1 THEN Of(meta) ELSE {o \in Of(meta) : o.table # Own[m]}
        BY OfOneLess DEF Typed
    <3>3. Rest' = IF m = 1 THEN Rest ELSE {o \in Rest : o.table # Own[m]}
        BY <3>1 DEF Rest, Without
    <3>4. MatchesBy(c) => MatchesBy(c)'
        BY <2>1, <3>1, <3>2, <3>3 DEF MatchesBy
    <3> QED BY <2>1, <3>1, <3>4, MatchesMoved DEF Working
  <2> QED BY <2>2, <2>3
<1>6. ASSUME NEW c \in Cmd, Unlog(c) PROVE Matches'
  <2>1. Rest' = Rest
      BY <1>6, UnlogMoves DEF Rest
  <2>2. MatchesBy(c) => MatchesBy(c)' /\ Rest' = Of(meta')
      BY <1>6, <2>1, UnlogMoves DEF MatchesBy
  <2> QED BY <1>6, <2>2, UnlogMoves, MatchesMoved
<1>7. ASSUME NEW c \in Cmd, Refresh(c) PROVE Matches'
  <2>1. Rest' = Rest /\ meta' = meta /\ db' = db
      BY <1>7 DEF Refresh, Rest
  <2> QED BY <1>7, <2>1, RefreshBegins, MatchesBegan
<1>8. ASSUME NEW c \in Cmd, DropNext(c) PROVE Matches'
  <2>1. Moved(c) /\ (cut => cut') /\ job[c].pc = "drop"
      BY <1>8, DropMoves
  <2>2. CASE job'[c].pc = "failed"
      BY <2>1, <2>2, MatchesMoved
  <2>3. CASE job'[c].pc # "failed"
    <3>1. PICK o \in job[c].todo :
             /\ job'[c].pc = "drop" /\ job'[c].todo = job[c].todo \ {o}
             /\ db' = IF o.kind = "fk" THEN db \ {o} ELSE Cascaded(o.table)
             /\ meta' = IF o = SequelizeMeta THEN {} ELSE meta
        BY <1>8, <2>3, DropMoves
    <3>2. job[c].todo \in SUBSET AllObjects
        BY DEF Typed, Job
    <3>3. TablesAndKeys \subseteq job[c].todo => TablesAndKeys' \subseteq job'[c].todo
        BY <3>1, <3>2, DroppedOne
    <3>4. MatchesBy(c) => MatchesBy(c)'
        BY <2>1, <3>1, <3>3 DEF MatchesBy
    <3> QED BY <2>1, <3>1, <3>4, MatchesMoved DEF Working
  <2> QED BY <2>2, <2>3
<1>9. ASSUME NEW c \in Cmd, RunAfterDrop(c) PROVE Matches'
  <2>1. Rest' = Rest /\ meta' = meta
      BY <1>9, RunAfterDropMoves DEF Rest
  <2>2. MatchesBy(c) => Rest' = Of(meta')
    <3> SUFFICES ASSUME MatchesBy(c) PROVE Rest' = Of(meta')
        OBVIOUS
    <3>1. TablesAndKeys = {} /\ meta = {}
        BY <1>9, RunAfterDropMoves DEF MatchesBy
    <3>2. Of(meta) = {}
        BY <3>1 DEF Of
    <3> QED BY <2>1, <3>1, <3>2, NothingLeft
  <2>3. MatchesBy(c) => MatchesBy(c)'
    <3>1. job'[c].pc = "ok" \/ (job'[c].pc = "up" /\ Done(job'[c]) = {})
      <4>1. job'[c].pc = "ok" \/ (job'[c].pc = "up" /\ job'[c].at = 1)
          BY <1>9, RunAfterDropMoves
      <4> QED BY <4>1, NothingDone
    <3> QED BY <2>2, <3>1 DEF MatchesBy
  <2> QED BY <1>9, <2>2, <2>3, RunAfterDropMoves, MatchesMoved
<1>10. ASSUME NEW c \in Cmd, Crash(c) PROVE Matches'
    BY <1>10, CrashMoves, MatchesMoved
<1>11. CASE UNCHANGED vars
    BY <1>11 DEF vars, Matches, MatchesBy, Smooth, Active, Rest, TablesAndKeys
<1> QED BY <1>1, <1>2, <1>3, <1>4, <1>5, <1>6, <1>7, <1>8, <1>9, <1>10, <1>11 DEF Next, Step

-----------------------------------------------------------------------------
(* A refresh that nobody disturbs. *)

\* While it drops: what is left of the schema is still to drop, and no key that
\* is still to drop is gone.
Dropping(c) ==
    /\ TablesAndKeys \subseteq job[c].todo
    /\ \A o \in job[c].todo : o.kind = "fk" => o \in db
    /\ SequelizeMeta \in job[c].todo \/ meta = {}

\* While it applies the migrations again: those before the one at hand are
\* applied and recorded, those after it are not.
Applying(c) ==
    /\ job[c].plan = Hand(c) .. 6 /\ meta = 1 .. Hand(c) - 1
    /\ SequelizeMeta \in db /\ (Hand(c) # 1 => Extension \in db)
    /\ Done(job[c]) \subseteq db
    /\ Rest = Of(meta) \cup (Done(job[c]) \ {Extension})

RestoresBy(c) ==
    /\ job[c].pc # "failed"
    /\ job[c].pc = "drop" => Dropping(c)
    /\ job[c].pc = "up" => Applying(c)
    /\ job[c].pc = "ok" => db = AllObjects /\ meta = All

Undisturbed(c) == last = c /\ job[c].kind = "refresh" /\ job[c].alone

Restores == \A c \in Cmd : Undisturbed(c) => RestoresBy(c)

LEMMA RestoresBegan ==
    ASSUME NEW c \in Cmd, NEW j, Began(c, j), j.kind # "refresh"
    PROVE  Restores'
BY DEF Began, Same, Restores, Undisturbed

\* Only the command itself moves while it is undisturbed.
LEMMA RestoresMoved ==
    ASSUME Typed, Frame, Restores, NEW c \in Cmd, Moved(c),
           Undisturbed(c) /\ RestoresBy(c) => RestoresBy(c)'
    PROVE  Restores'
<1> SUFFICES ASSUME NEW d \in Cmd, Undisturbed(d)' PROVE RestoresBy(d)'
    BY DEF Restores
<1>1. CASE d = c
  <2>1. Undisturbed(c)
      BY <1>1 DEF Undisturbed, Moved
  <2> QED BY <1>1, <2>1 DEF Restores
<1>2. CASE d # c
  <2>1. /\ last = d /\ job[d].kind = "refresh" /\ job[d].alone /\ c \in Active
      BY <1>2 DEF Undisturbed, Moved
  <2>2. job[d].pc # "new"
      BY <2>1 DEF Typed, JobFits
  <2> QED BY <1>2, <2>1, <2>2 DEF Frame, Solo
<1> QED BY <1>1, <1>2

LEMMA TableFirst ==
    ASSUME NEW m \in All, m # 1
    PROVE  Migration[m].up[1] = Table(Own[m]) /\ Table(Own[m]) \in Objects(m)
<1>1. 1 \in Statements(m)
  <2>1. \A len \in 1 .. 5 : 1 \in 1 .. len
      OBVIOUS
  <2> QED BY <2>1, Shape DEF Statements
<1>2. Migration[m].up[1] = Table(Own[m])
    BY <1>1, Shape DEF Sensible
<1> QED BY <1>1, <1>2 DEF Objects, Statements

\* The next statement of an undisturbed refresh succeeds.
LEMMA RefreshCanCreate ==
    ASSUME Typed, NEW c \in Cmd, job[c].pc = "up", Applying(c),
           job[c].at \in Statements(Hand(c))
    PROVE  CanCreate(Statement(c))
<1> DEFINE m == Hand(c)
           o == Statement(c)
<1>1. m \in All /\ o \in Objects(m) /\ Sensible(m, job[c].at) /\ o \in AllObjects
    BY AtHand, Shape, ObjectsTyped DEF Statement, Statements, Objects
<1>2. o.kind = "extension" \/ (m # 1 /\ o.kind \in {"table", "fk", "index"})
    BY <1>1, ObjectOf, ObjectIs DEF Extension
<1>3. CASE o.kind = "extension"
    BY <1>3 DEF CanCreate
<1>4. CASE m # 1 /\ o.kind = "table"
    BY <1>4 DEF CanCreate, Applying
<1>5. ASSUME m # 1, o.kind \in {"fk", "index"}
      PROVE  o \notin db /\ o.table = Own[m] /\ Table(o.table) \in db
  <2>1. o # SequelizeMeta /\ o # Extension /\ o.table = Own[m]
      BY <1>1, <1>5, ObjectOf
  <2>2. job[c].at # 1
      BY <1>5, <1>1, TableFirst, TableFields DEF Statement
  <2>3. \A n \in meta : n \in All /\ n # m
      BY <1>1, MigrationIs DEF Applying
  <2>4. o \notin Of(meta)
      BY <2>1, <2>3, <1>1, ObjectOf, OwnTables DEF Of
  <2>5. \A i \in 1 .. job[c].at - 1 : i \in Statements(m) /\ i # job[c].at
      BY AtHand DEF Statements
  <2>6. o \notin Done(job[c])
      BY <1>1, <2>5 DEF Done, Sensible, Statement, Hand
  <2>7. o \notin db
      BY <2>1, <2>4, <2>6 DEF Applying, Rest
  <2>8. 1 \in 1 .. job[c].at - 1
      BY <2>2, AtHand
  <2>9. Table(Own[m]) \in Done(job[c])
      BY <1>1, <1>5, <2>8, TableFirst DEF Done, Hand
  <2> QED BY <2>1, <2>7, <2>9 DEF Applying
<1>6. CASE m # 1 /\ o.kind = "index"
    BY <1>5, <1>6 DEF CanCreate
<1>7. CASE m # 1 /\ o.kind = "fk"
  <2>1. PICK n \in 2 .. m - 1 : o.ref = Own[n]
      BY <1>1, <1>7 DEF Sensible, Statement
  <2>2. n \in meta /\ n \in All /\ n # 1
      BY <1>1, MigrationIs DEF Applying
  <2>3. Table(Own[n]) \in Of(meta)
      BY <2>2, TableFirst, ObjectOf DEF Of
  <2>4. Table(o.ref) \in db
      BY <2>1, <2>3 DEF Applying, Rest
  <2> QED BY <1>5, <1>7, <2>4 DEF CanCreate
<1> QED BY <1>2, <1>3, <1>4, <1>6, <1>7

LEMMA ExtensionFirst ==
    Objects(1) = {Extension} /\ AllObjects = {SequelizeMeta, Extension} \cup Of(All)
<1>1. Objects(1) = {Extension}
    BY MigrationIs DEF Objects, AddUUIDExtension
<1>2. 1 \in All
    BY MigrationIs
<1> QED BY <1>1, <1>2 DEF AllObjects, Of

LEMMA PlanFrom ==
    ASSUME NEW m \in 1 .. 6
    PROVE  /\ m \notin 1 .. m - 1 /\ (1 .. m - 1) \cup {m} = 1 .. (m + 1) - 1
           /\ m = 6 => (1 .. m - 1) \cup {m} = 1 .. 6
           /\ m .. 6 = {m} <=> m = 6
           /\ m # 6 => m + 1 \in 1 .. 6 /\ (m .. 6) \ {m} = m + 1 .. 6
BY SMTT(30)

LEMMA LeastFrom ==
    ASSUME NEW m \in 1 .. 6
    PROVE  Least(m .. 6) = m
<1>1. m .. 6 \in SUBSET All /\ m .. 6 # {} /\ m \in m .. 6
    BY MigrationIs
<1>2. Least(m .. 6) \in m .. 6 /\ Least(m .. 6) <= m
    BY <1>1, LeastIs
<1> QED BY <1>2

LEMMA ApplyingApply ==
    ASSUME Typed, NEW c \in Cmd, Apply(c), Applying(c)
    PROVE  Applying(c)' /\ job'[c].pc = "up"
<1>1. /\ db' = db \cup {Statement(c)} /\ job'[c].pc = "up" /\ meta' = meta
      /\ job'[c].plan = job[c].plan /\ job'[c].at = job[c].at + 1
    BY ApplyMoves, RefreshCanCreate
<1>2. Hand(c)' = Hand(c)
    BY <1>1 DEF Hand
<1>3. Done(job'[c]) = Done(job[c]) \cup {Statement(c)}
    BY <1>1, ApplyMoves, OneMoreDone
<1>4. Statement(c) # SequelizeMeta
    BY ApplyMoves, AtHand, ObjectOf
<1>5. Rest' = Rest \cup ({Statement(c)} \ {Extension})
    BY <1>1, <1>4 DEF Rest
<1> QED BY <1>1, <1>2, <1>3, <1>5 DEF Applying

\* The migration at hand becomes the next one, or the schema is complete.
LEMMA ApplyingRecord ==
    ASSUME Typed, NEW c \in Cmd, Record(c), Applying(c)
    PROVE  \/ job'[c].pc = "up" /\ Applying(c)'
           \/ job'[c].pc = "ok" /\ db' = AllObjects /\ meta' = All
<1> DEFINE m == Hand(c)
<1>1. m \in 1 .. 6 /\ All = 1 .. 6 /\ job[c].plan = m .. 6 /\ meta = 1 .. m - 1
    BY RecordMoves, AtHand, MigrationIs DEF Applying
<1>2. m \notin meta /\ db' = db \cup {SequelizeMeta} /\ meta' = meta \cup {m}
    BY <1>1, PlanFrom, RecordMoves
<1>3. Done(job[c]) = Objects(m)
    BY RecordMoves, DoneSoFar
<1>4. Rest' = Of(meta')
  <2>1. Rest' = Rest
      BY <1>2 DEF Rest
  <2> QED BY <1>2, <1>3, <2>1, OfOneMore DEF Applying
<1>5. Extension \in db'
    BY <1>2, <1>3, ExtensionFirst DEF Applying
<1>6. CASE m = 6
  <2>1. job'[c].pc = "ok"
      BY <1>1, <1>2, <1>6, PlanFrom, RecordMoves
  <2>2. meta' = All
      BY <1>1, <1>2, <1>6, PlanFrom
  <2>3. db' = Rest' \cup {Extension, SequelizeMeta}
      BY <1>2, <1>5 DEF Rest
  <2> QED BY <1>4, <2>1, <2>2, <2>3, ExtensionFirst
<1>7. CASE m # 6
  <2>1. job'[c].pc = "up" /\ job'[c].at = 1 /\ job'[c].plan = (m .. 6) \ {m}
      BY <1>1, <1>2, <1>7, PlanFrom, RecordMoves
  <2>2. m + 1 \in 1 .. 6 /\ job'[c].plan = m + 1 .. 6 /\ meta' = 1 .. (m + 1) - 1
      BY <1>1, <1>2, <1>7, <2>1, PlanFrom
  <2>3. Hand(c)' = m + 1
      BY <2>2, LeastFrom DEF Hand
  <2>4. Done(job'[c]) = {}
      BY <2>1, NothingDone
  <2> QED BY <1>2, <1>4, <1>5, <2>1, <2>2, <2>3, <2>4 DEF Applying
<1> QED BY <1>6, <1>7

LEMMA DroppingDrop ==
    ASSUME Typed, NEW c \in Cmd, DropNext(c), Dropping(c)
    PROVE  Dropping(c)' /\ job'[c].pc = "drop"
<1>1. PICK o \in job[c].todo :
         /\ (\E k \in job[c].todo : k.kind = "fk") => o.kind = "fk"
         /\ job'[c].pc = "drop" /\ job'[c].todo = job[c].todo \ {o}
         /\ db' = IF o.kind = "fk" THEN db \ {o} ELSE Cascaded(o.table)
         /\ meta' = IF o = SequelizeMeta THEN {} ELSE meta
    BY DropMoves DEF Dropping
<1>2. job[c].todo \in SUBSET AllObjects
    BY DEF Typed, Job
<1>3. TablesAndKeys' \subseteq job'[c].todo
    BY <1>1, <1>2, DroppedOne DEF Dropping
<1>4. \A k \in job'[c].todo : k.kind = "fk" => k \in db'
    BY <1>1 DEF Dropping
<1> QED BY <1>1, <1>3, <1>4 DEF Dropping

LEMMA DroppingRun ==
    ASSUME Typed, Frame, NEW c \in Cmd, RunAfterDrop(c), Dropping(c)
    PROVE  Applying(c)' /\ job'[c].pc = "up"
<1>1. TablesAndKeys = {} /\ meta = {}
    BY RunAfterDropMoves DEF Dropping
<1>2. Pending = 1 .. 6
    BY <1>1, MigrationIs DEF Pending
<1>3. 1 \in Pending
    BY <1>2
<1>4. /\ job'[c].pc = "up" /\ job'[c].at = 1 /\ job'[c].plan = 1 .. 6
      /\ db' = db \cup {SequelizeMeta} /\ meta' = {}
    BY <1>1, <1>2, <1>3, RunAfterDropMoves
<1>5. Hand(c)' = 1
    BY <1>4, LeastFrom DEF Hand
<1>6. Rest' = {} /\ Of({}) = {} /\ 1 .. 1 - 1 = {}
  <2>1. Rest' = Rest
      BY <1>4 DEF Rest
  <2> QED BY <1>1, <2>1, NothingLeft DEF Of
<1>7. Done(job'[c]) = {}
    BY <1>4, NothingDone
<1> QED BY <1>4, <1>5, <1>6, <1>7 DEF Applying

LEMMA RestoresStep == Typed /\ Frame /\ Restores /\ [Next]_vars => Restores'
<1> SUFFICES ASSUME Typed, Frame, Restores, [Next]_vars PROVE Restores'
    OBVIOUS
<1>1. ASSUME NEW c \in Cmd, Run(c) PROVE Restores'
    BY <1>1, RunBegins, RestoresBegan
<1>2. ASSUME NEW c \in Cmd, Apply(c) PROVE Restores'
  <2>1. Moved(c) /\ (RestoresBy(c) => RestoresBy(c)')
      BY <1>2, ApplyMoves, ApplyingApply DEF RestoresBy
  <2> QED BY <2>1, RestoresMoved
<1>3. ASSUME NEW c \in Cmd, Record(c) PROVE Restores'
  <2>1. Moved(c) /\ (RestoresBy(c) => RestoresBy(c)')
      BY <1>3, RecordMoves, ApplyingRecord DEF RestoresBy
  <2> QED BY <2>1, RestoresMoved
<1>4. ASSUME NEW c \in Cmd, Rollback(c) PROVE Restores'
    BY <1>4, RollbackBegins, RestoresBegan
<1>5. ASSUME NEW c \in Cmd, Revert(c) PROVE Restores'
  <2>1. Moved(c) /\ job[c].pc = "down" /\ ~Undisturbed(c)
      BY <1>5, RevertMoves DEF Typed, JobFits, Undisturbed
  <2> QED BY <2>1, RestoresMoved
<1>6. ASSUME NEW c \in Cmd, Unlog(c) PROVE Restores'
  <2>1. Moved(c) /\ job[c].pc = "unlog" /\ ~Undisturbed(c)
      BY <1>6, UnlogMoves DEF Typed, JobFits, Undisturbed
  <2> QED BY <2>1, RestoresMoved
<1>7. ASSUME NEW c \in Cmd, Refresh(c) PROVE Restores'
  <2>1. PICK j \in Job :
           Began(c, j) /\ j.kind = "refresh" /\ j.pc = "drop" /\ j.todo = TablesAndKeys
      BY <1>7, RefreshBegins
  <2>2. job'[c].pc = "drop" /\ job'[c].todo = TablesAndKeys /\ last' = c
      BY <2>1 DEF Began, Same
  <2>3. db' = db /\ meta' = meta
      BY <1>7 DEF Refresh
  <2>4. Dropping(c)'
      BY <2>2, <2>3, TableFields DEF Dropping, TablesAndKeys, Frame, Ledger
  <2>5. RestoresBy(c)'
      BY <2>2, <2>4 DEF RestoresBy
  <2> QED BY <2>2, <2>5 DEF Restores, Undisturbed
<1>8. ASSUME NEW c \in Cmd, DropNext(c) PROVE Restores'
  <2>1. Moved(c) /\ (RestoresBy(c) => RestoresBy(c)')
      BY <1>8, DropMoves, DroppingDrop DEF RestoresBy
  <2> QED BY <2>1, RestoresMoved
<1>9. ASSUME NEW c \in Cmd, RunAfterDrop(c) PROVE Restores'
  <2>1. Moved(c) /\ (RestoresBy(c) => RestoresBy(c)')
      BY <1>9, RunAfterDropMoves, DroppingRun DEF RestoresBy
  <2> QED BY <2>1, RestoresMoved
<1>10. ASSUME NEW c \in Cmd, Crash(c) PROVE Restores'
  <2>1. Moved(c) /\ RestoresBy(c)'
      BY <1>10, CrashMoves DEF RestoresBy
  <2> QED BY <2>1, RestoresMoved
<1>11. CASE UNCHANGED vars
    BY <1>11 DEF vars, Restores, RestoresBy, Undisturbed, Dropping, Applying, Rest,
                 TablesAndKeys, Hand
<1> QED BY <1>1, <1>2, <1>3, <1>4, <1>5, <1>6, <1>7, <1>8, <1>9, <1>10, <1>11 DEF Next, Step

-----------------------------------------------------------------------------
(* The theorems. *)

IInv == Typed /\ Frame /\ Applied /\ Matches /\ Restores

LEMMA InitIInv == Init => IInv
<1> SUFFICES ASSUME Init PROVE IInv
    OBVIOUS
<1>1. \A c \in Cmd : job[c] = New
    BY DEF Init
<1>2. Active = {}
    BY <1>1, NewJob DEF Active, Working
<1>3. Typed
  <2>1. JobFits(New)
      BY NewJob DEF JobFits
  <2> QED BY <1>1, <2>1, NewJob DEF Init, Typed
<1>4. Frame
    BY <1>1, <1>2, NewJob DEF Frame, Homes, Ledger, Solo, Init
<1>5. Applied
    BY <1>1, NewJob DEF Applied, AppliedBy, RecordedIsApplied, Init
<1>6. Matches
    BY <1>1, NewJob DEF Matches, MatchesBy, Rest, Of, Init
<1>7. Restores
    BY <1>1, NewJob DEF Restores, Undisturbed
<1> QED BY <1>3, <1>4, <1>5, <1>6, <1>7 DEF IInv

\* IInv is inductive, so it holds in every state.
THEOREM Invariance == Spec => []IInv
<1>1. IInv /\ [Next]_vars => IInv'
    BY TypedStep, FrameStep, AppliedStep, MatchesStep, RestoresStep DEF IInv
<1> QED BY InitIInv, <1>1, PTL DEF Spec

\* Every variable keeps its type, and a command that applies, reverts or unlogs has
\* a migration to do it to.
THEOREM TypeCorrect == Spec => []TypeOK
<1>1. IInv => TypeOK
  <2> SUFFICES ASSUME IInv PROVE TypeOK
      OBVIOUS
  <2>1. \A c \in Cmd : job[c].pc \in {"up", "down", "unlog"} => job[c].plan # {}
      BY DEF IInv, Typed, JobFits
  <2> QED BY <2>1 DEF IInv, Typed, TypeOK
<1> QED BY Invariance, <1>1, PTL

\* Wherever runs die, fail or are repeated, a migration that SequelizeMeta names is
\* applied in full, as long as no rollback or refresh was cut short and no two
\* commands overlapped.
THEOREM RecordedIsAppliedHolds == Spec => []RecordedIsApplied
<1>1. IInv => RecordedIsApplied
    BY DEF IInv, Applied
<1> QED BY Invariance, <1>1, PTL

\* Commands that end well, one after the other, leave the schema of the migrations
\* that SequelizeMeta names and nothing else.
THEOREM SchemaIsThatOfTheRecordHolds == Spec => []SchemaIsThatOfTheRecord
<1>1. IInv => SchemaIsThatOfTheRecord
  <2> SUFFICES ASSUME IInv, ~cut, \A c \in Cmd : job[c].pc \in {"new", "ok"}
               PROVE  Rest = Of(meta)
      BY DEF SchemaIsThatOfTheRecord, Rest, Of
  <2>1. Smooth /\ Active = {}
      BY DEF Smooth, Active, Working
  <2> QED BY <2>1 DEF IInv, Matches
<1> QED BY Invariance, <1>1, PTL

\* migration:refresh, when it runs alone, never fails and ends with the complete
\* schema, from whatever half migrated or wrongly recorded state it starts.
THEOREM RefreshRestoresSchemaHolds == Spec => []RefreshRestoresSchema
<1>1. IInv => RefreshRestoresSchema
    BY DEF IInv, Restores, Undisturbed, RestoresBy, RefreshRestoresSchema
<1> QED BY Invariance, <1>1, PTL
=============================================================================
