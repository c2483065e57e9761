----------------------- MODULE OverlappingRuns_proofs -----------------------
(***************************************************************************)
(* Proof about Migrations when migration:run is given on several hosts at  *)
(* once: for any number of runs that overlap in any way, one of them gets  *)
(* through.                                                                *)
(*                                                                         *)
(* The runs follow each other through the migrations: those recorded are   *)
(* the first ones, and no run is past the next.  A run leads when it is at *)
(* the next migration and no key or index that it has still to create is   *)
(* there.  Its next statement cannot fail.  Whoever creates that object    *)
(* first leads from then on, and so does whoever records the migration     *)
(* first, so from the first run on some run leads or has got through.      *)
(* A run that got through has seen every migration recorded.               *)
(***************************************************************************)
EXTENDS Migrations_proofs

-----------------------------------------------------------------------------
(* The invariant. *)

\* Only runs were given and none of them died.
Runs == ~crashed /\ \A c \in Cmd : job[c].pc # "new" => job[c].kind \in {"none", "run"}

\* The objects that cannot be created twice.
Lasting(o) == o.kind \in {"fk", "index"}

\* The first migrations are recorded and applied, and only the next is under way.
Ordered ==
    /\ \A m \in meta, n \in All : n <= m => n \in meta
    /\ \A m \in meta : Objects(m) \subseteq db
    /\ \A m, n \in All : \A o \in Objects(m) \cap db : Lasting(o) /\ n < m => n \in meta

Forward(c) ==
    /\ job[c].pc \in {"new", "up", "ok", "failed"}
    /\ job[c].pc = "up" =>
          /\ \A n \in All : n < Hand(c) => n \in meta
          /\ \A n \in All : Hand(c) <= n => n \in job[c].plan
          /\ Done(job[c]) \subseteq db
    /\ job[c].pc = "ok" => All \subseteq meta /\ SequelizeMeta \in db

Leads(c) ==
    /\ job[c].pc = "up" /\ Hand(c) \notin meta
    /\ \A o \in Objects(Hand(c)) \ Done(job[c]) : Lasting(o) => o \notin db

SomeRunLeads ==
    \/ db = {} /\ meta = {} /\ \A c \in Cmd : job[c].pc = "new"
    \/ \E c \in Cmd : job[c].pc = "ok"
    \/ \E c \in Cmd : Leads(c)

Race == Runs => Ordered /\ SomeRunLeads /\ \A c \in Cmd : Forward(c)

-----------------------------------------------------------------------------
(* Runs that stay as they are. *)

LEMMA SameHand ==
    ASSUME NEW d \in Cmd, Same(job[d], job'[d])
    PROVE  Hand(d)' = Hand(d) /\ Done(job[d])' = Done(job[d])
BY DEF Same, Hand, Done

LEMMA ForwardKept ==
    ASSUME NEW d \in Cmd, Forward(d), Same(job[d], job'[d]), db \subseteq db', meta \subseteq meta'
    PROVE  Forward(d)'
<1>1. Hand(d)' = Hand(d) /\ Done(job[d])' = Done(job[d])
    BY SameHand
<1>2. job'[d].pc = job[d].pc /\ job'[d].plan = job[d].plan
    BY DEF Same
<1> QED BY <1>1, <1>2 DEF Forward

LEMMA LeadsKept ==
    ASSUME NEW d \in Cmd, Leads(d), Same(job[d], job'[d]), meta' = meta,
           \A o \in Objects(Hand(d)) \ Done(job[d]) : Lasting(o) /\ o \in db' => o \in db
    PROVE  Leads(d)'
<1>1. Hand(d)' = Hand(d) /\ Done(job[d])' = Done(job[d])
    BY SameHand
<1>2. job'[d].pc = job[d].pc
    BY DEF Same
<1> QED BY <1>1, <1>2 DEF Leads

LEMMA SameAsBefore == \A d \in Cmd : job'[d] = job[d] => Same(job[d], job'[d])
BY DEF Same

\* SequelizeMeta itself belongs to no migration.
LEMMA LedgerIsNoObject ==
    ASSUME Ordered, db' = db \cup {SequelizeMeta}, meta' = meta
    PROVE  Ordered' /\ \A m \in All : \A o \in Objects(m) : o \in db' => o \in db
<1>1. \A m \in All : \A o \in Objects(m) : o \in db' => o \in db
    BY ObjectOf
<1> QED BY <1>1 DEF Ordered

-----------------------------------------------------------------------------
(* A run begins. *)

LEMMA RaceRun ==
    ASSUME Typed, Ordered, SomeRunLeads, \A d \in Cmd : Forward(d), NEW c \in Cmd, Run(c)
    PROVE  Ordered' /\ SomeRunLeads' /\ \A d \in Cmd : Forward(d)'
<1>1. PICK j \in Job :
        /\ Began(c, j)
        /\ \/ Pending = {} /\ j.pc = "ok"
           \/ Pending # {} /\ j.pc = "up" /\ j.at = 1 /\ j.plan = Pending
    BY RunBegins
<1>2. /\ job[c].pc = "new" /\ Same(j, job'[c])
      /\ \A d \in Cmd : d # c => Same(job[d], job'[d])
    BY <1>1 DEF Began
<1>3. db' = db \cup {SequelizeMeta} /\ meta' = meta
    BY DEF Run
<1>4. Ordered' /\ \A m \in All : \A o \in Objects(m) : o \in db' => o \in db
    BY <1>3, LedgerIsNoObject
<1>5. CASE j.pc = "ok"
  <2>1. job'[c].pc = "ok"
      BY <1>2, <1>5 DEF Same
  <2>2. Forward(c)'
      BY <1>1, <1>3, <1>5, <2>1 DEF Forward, Pending
  <2> QED BY <1>2, <1>3, <1>4, <2>1, <2>2, ForwardKept DEF SomeRunLeads
<1>6. CASE Pending # {} /\ j.pc = "up" /\ j.at = 1 /\ j.plan = Pending
  <2> DEFINE h == Least(Pending)
  <2>1. job'[c].pc = "up" /\ job'[c].plan = Pending /\ job'[c].at = 1
      BY <1>2, <1>6 DEF Same
  <2>2. Hand(c)' = h /\ Done(job[c])' = {}
      BY <2>1, NothingDone DEF Hand, Done
  <2>3. Pending \in SUBSET All /\ h \in Pending /\ \A n \in Pending : h <= n
      BY <1>6, LeastIs DEF Pending
  <2>4. \A n \in All : n < h => n \in meta
      BY <2>3, MigrationIs DEF Pending
  <2>5. \A n \in All : h <= n => n \in Pending
      BY <2>3, MigrationIs DEF Pending, Ordered
  <2> HIDE DEF h
  <2>6. Forward(c)'
      BY <1>3, <2>1, <2>2, <2>4, <2>5 DEF Forward
  <2>7. \A d \in Cmd : Forward(d)'
      BY <1>2, <1>3, <2>6, ForwardKept
  <2>8. SomeRunLeads'
    <3>1. CASE db = {} /\ meta = {}
      <4>1. h \in All /\ h \notin meta'
          BY <1>3, <2>3, <3>1
      <4>2. \A o \in Objects(h) : o \notin db'
          BY <1>4, <3>1, <4>1
      <4>3. Leads(c)'
          BY <2>1, <2>2, <4>1, <4>2 DEF Leads
      <4> QED BY <4>3 DEF SomeRunLeads
    <3>2. ASSUME NEW d \in Cmd, job[d].pc = "ok" PROVE SomeRunLeads'
      <4>1. job'[d].pc = "ok"
          BY <1>2, <3>2 DEF Same
      <4> QED BY <4>1 DEF SomeRunLeads
    <3>3. ASSUME NEW d \in Cmd, Leads(d) PROVE SomeRunLeads'
      <4>1. job[d].pc = "up" /\ Same(job[d], job'[d])
          BY <1>2, <3>3 DEF Leads
      <4>2. Hand(d) \in All
          BY <4>1, AtHand
      <4>3. Leads(d)'
          BY <1>3, <1>4, <3>3, <4>1, <4>2, LeadsKept
      <4> QED BY <4>3 DEF SomeRunLeads
    <3> QED BY <3>1, <3>2, <3>3 DEF SomeRunLeads
  <2> QED BY <1>4, <2>7, <2>8
<1> QED BY <1>1, <1>5, <1>6

-----------------------------------------------------------------------------
(* A run executes a statement. *)

\* PostgreSQL accepts the next statement of the run that leads.
LEMMA LeaderCanCreate ==
    ASSUME Typed, Ordered, NEW c \in Cmd, Forward(c), Leads(c), job[c].at \in Statements(Hand(c))
    PROVE  CanCreate(Statement(c))
<1> DEFINE m == Hand(c)
           o == Statement(c)
<1>1. m \in All /\ o \in Objects(m) /\ Sensible(m, job[c].at) /\ o \in AllObjects
    BY AtHand, Shape, ObjectsTyped DEF Leads, Statement, Statements, Objects
<1>2. o.kind = "extension" \/ (m # 1 /\ o.kind \in {"table", "fk", "index"})
    BY <1>1, ObjectOf, ObjectIs DEF Extension
<1>3. \A n \in All : n < m => n \in meta /\ Objects(n) \subseteq db
    BY DEF Forward, Leads, Ordered
<1>4. CASE o.kind = "extension"
    BY <1>4 DEF CanCreate
<1>5. CASE m # 1 /\ o.kind = "table"
  <2>1. 1 \in All /\ 1 < m
      BY <1>1, <1>5, MigrationIs
  <2>2. Extension \in db
      BY <1>3, <2>1, ExtensionFirst
  <2> QED BY <1>5, <2>2 DEF CanCreate
<1>6. ASSUME m # 1, Lasting(o)
      PROVE  o \notin db /\ o.table = Own[m] /\ Table(o.table) \in db
  <2>1. o.table = Own[m]
      BY <1>1, ObjectOf
  <2>2. job[c].at # 1
      BY <1>6, <1>1, TableFirst, TableFields DEF Statement, Lasting
  <2>3. job[c].at \in 1 .. Len(Migration[m].up) + 1
      BY AtHand DEF Leads
  <2>4. \A i \in 1 .. job[c].at - 1 : i \in Statements(m) /\ i # job[c].at
      BY <2>3, <1>1, Shape DEF Statements
  <2>5. o \notin Done(job[c])
      BY <1>1, <2>4 DEF Done, Sensible, Statement, Hand
  <2>6. 1 \in 1 .. job[c].at - 1
      BY <2>2, <2>3, <1>1, Shape
  <2>7. Table(Own[m]) \in Done(job[c])
      BY <1>1, <1>6, <2>6, TableFirst DEF Done, Hand
  <2> QED BY <1>1, <1>6, <2>1, <2>5, <2>7 DEF Leads, Forward
<1>7. CASE m # 1 /\ o.kind = "index"
    BY <1>6, <1>7 DEF CanCreate, Lasting
<1>8. CASE m # 1 /\ o.kind = "fk"
  <2>1. PICK n \in 2 .. m - 1 : o.ref = Own[n]
      BY <1>1, <1>8 DEF Sensible, Statement
  <2>2. n < m /\ n \in All /\ n # 1
      BY <1>1, MigrationIs
  <2>3. Table(o.ref) \in db
      BY <1>3, <2>1, <2>2, TableFirst
  <2> QED BY <1>6, <1>8, <2>3 DEF CanCreate, Lasting
<1> QED BY <1>2, <1>4, <1>5, <1>7, <1>8

\* The statements a run has executed are those before its next one.
LEMMA NotYetDone ==
    ASSUME Typed, NEW c \in Cmd, NEW d \in Cmd, job[c].pc = "up", job[d].pc = "up",
           Hand(c) = Hand(d), job[c].at \in Statements(Hand(c)), Statement(c) \notin Done(job[d])
    PROVE  Done(job[d]) \subseteq Done(job[c])
<1> DEFINE up == Migration[Hand(c)].up
<1>1. job[c].at \in 1 .. 6 /\ job[d].at \in 1 .. 6
    BY AtHand DEF Typed, Job
<1>2. Done(job[d]) = {up[i] : i \in 1 .. job[d].at - 1}
    BY DEF Done, Hand
<1>3. Done(job[c]) = {up[i] : i \in 1 .. job[c].at - 1}
    BY DEF Done, Hand
<1>4. Statement(c) = up[job[c].at]
    BY DEF Statement
<1> HIDE DEF up
<1>5. job[c].at \notin 1 .. job[d].at - 1
    BY <1>2, <1>4
<1>6. 1 .. job[d].at - 1 \subseteq 1 .. job[c].at - 1
    BY <1>1, <1>5
<1> QED BY <1>2, <1>3, <1>6

LEMMA RaceApply ==
    ASSUME Typed, Ordered, SomeRunLeads, \A d \in Cmd : Forward(d), NEW c \in Cmd, Apply(c)
    PROVE  Ordered' /\ SomeRunLeads' /\ \A d \in Cmd : Forward(d)'
<1> DEFINE m == Hand(c)
           o == Statement(c)
<1>1. /\ Moved(c) /\ job[c].pc = "up" /\ meta' = meta
      /\ job[c].at \in Statements(m) /\ o \in Objects(m)
    BY ApplyMoves
<1>2. \A d \in Cmd : d # c => job'[d] = job[d] /\ Same(job[d], job'[d])
    BY <1>1, SameAsBefore DEF Moved
<1>3. m \in All /\ \A n \in All : n < m => n \in meta
    BY <1>1, AtHand DEF Forward
<1>4. \/ \E d \in Cmd : d # c /\ job[d].pc = "ok"
      \/ \E d \in Cmd : Leads(d)
    BY <1>1 DEF SomeRunLeads
<1>5. CASE ~CanCreate(o)
  <2>1. db' = db /\ job'[c].pc = "failed"
      BY <1>5, ApplyMoves
  <2>2. Ordered' /\ Forward(c)'
      BY <1>1, <2>1 DEF Ordered, Forward
  <2>3. \A d \in Cmd : Leads(d) => d # c /\ Leads(d)'
      BY <1>1, <1>2, <1>5, <2>1, LeaderCanCreate, LeadsKept
  <2> QED BY <1>1, <1>2, <1>4, <2>1, <2>2, <2>3, ForwardKept DEF SomeRunLeads
<1>6. CASE CanCreate(o)
  <2>1. /\ db' = db \cup {o} /\ job'[c].pc = "up" /\ job'[c].plan = job[c].plan
        /\ job'[c].at = job[c].at + 1
      BY <1>6, ApplyMoves
  <2>2. Hand(c)' = m
      BY <2>1 DEF Hand
  <2>3. Done(job[c])' = Done(job[c]) \cup {o}
    <3>1. Done(job'[c]) = Done(job[c]) \cup {o}
        BY <1>1, <2>1, OneMoreDone
    <3> QED BY <3>1 DEF Done
  <2>4. \A n \in All : o \in Objects(n) => n = m
      BY <1>1, <1>3, ObjectOf, OwnTables
  <2>5. Ordered'
      BY <1>1, <1>3, <2>1, <2>4 DEF Ordered
  <2>6. Forward(c)'
      BY <1>1, <1>3, <2>1, <2>2, <2>3 DEF Forward
  <2>7. \A d \in Cmd : Forward(d)'
      BY <1>1, <1>2, <2>1, <2>6, ForwardKept
  <2>8. ASSUME NEW d \in Cmd, Leads(d) PROVE SomeRunLeads'
    <3>1. job[d].pc = "up" /\ Hand(d) \in All /\ Hand(d) \notin meta
        BY <2>8, AtHand DEF Leads
    <3>2. CASE o \in Objects(Hand(d)) \ Done(job[d]) \/ d = c
      <4>1. Hand(d) = m /\ m \notin meta
          BY <2>4, <3>1, <3>2
      <4>2. Done(job[d]) \subseteq Done(job[c])
          BY <1>1, <3>1, <3>2, <4>1, NotYetDone
      <4>3. \A p \in Objects(m) \ Done(job[c])' : Lasting(p) => p \notin db'
          BY <2>1, <2>3, <2>8, <4>1, <4>2 DEF Leads
      <4>4. Leads(c)'
          BY <1>1, <2>1, <2>2, <4>1, <4>3 DEF Leads
      <4> QED BY <4>4 DEF SomeRunLeads
    <3>3. CASE o \notin Objects(Hand(d)) \ Done(job[d]) /\ d # c
      <4>1. Leads(d)'
          BY <1>1, <1>2, <2>1, <2>8, <3>3, LeadsKept
      <4> QED BY <4>1 DEF SomeRunLeads
    <3> QED BY <3>2, <3>3
  <2>9. SomeRunLeads'
      BY <1>2, <1>4, <2>8 DEF SomeRunLeads
  <2> QED BY <2>5, <2>7, <2>9
<1> QED BY <1>5, <1>6

-----------------------------------------------------------------------------
(* A run records a migration. *)

LEMMA RaceRecord ==
    ASSUME Typed, Ordered, SomeRunLeads, \A d \in Cmd : Forward(d), NEW c \in Cmd, Record(c)
    PROVE  Ordered' /\ SomeRunLeads' /\ \A d \in Cmd : Forward(d)'
<1> DEFINE m == Hand(c)
<1>1. /\ Moved(c) /\ job[c].pc = "up" /\ db' = db \cup {SequelizeMeta}
      /\ job[c].at = Len(Migration[m].up) + 1
    BY RecordMoves
<1>2. \A d \in Cmd : d # c => job'[d] = job[d] /\ Same(job[d], job'[d])
    BY <1>1, SameAsBefore DEF Moved
<1>3. /\ m \in All /\ m \in job[c].plan /\ job[c].plan \subseteq All
      /\ \A n \in job[c].plan : m <= n
    BY <1>1, AtHand
<1>4. /\ \A n \in All : n < m => n \in meta
      /\ \A n \in All : m <= n => n \in job[c].plan
      /\ Done(job[c]) \subseteq db
    BY <1>1 DEF Forward
<1>5. CASE m \in meta
  <2>1. meta' = meta /\ job'[c].pc = "failed"
      BY <1>5, RecordMoves
  <2>2. Ordered' /\ \A n \in All : \A o \in Objects(n) : o \in db' => o \in db
      BY <1>1, <2>1, LedgerIsNoObject
  <2>3. Forward(c)'
      BY <2>1 DEF Forward
  <2>4. \A d \in Cmd : Forward(d)'
      BY <1>1, <1>2, <2>1, <2>3, ForwardKept
  <2>5. ASSUME NEW d \in Cmd, Leads(d) PROVE Leads(d)'
    <3>1. d # c /\ Hand(d) \in All
        BY <1>5, <2>5, AtHand DEF Leads
    <3> QED BY <1>2, <2>1, <2>2, <2>5, <3>1, LeadsKept
  <2>6. SomeRunLeads'
      BY <1>1, <1>2, <2>5 DEF SomeRunLeads
  <2> QED BY <2>2, <2>4, <2>6
<1>6. CASE m \notin meta
  <2>1. meta' = meta \cup {m}
      BY <1>6, RecordMoves
  <2>2. Objects(m) \subseteq db
      BY <1>1, <1>4, DoneSoFar
  <2>3. Ordered'
    <3>1. \A k \in meta', n \in All : n <= k => n \in meta'
        BY <1>3, <1>4, <2>1, MigrationIs DEF Ordered
    <3>2. \A k \in meta' : Objects(k) \subseteq db'
        BY <1>1, <2>1, <2>2 DEF Ordered
    <3>3. \A k, n \in All : \A o \in Objects(k) \cap db' : Lasting(o) /\ n < k => n \in meta'
        BY <1>1, <2>1, ObjectOf DEF Ordered
    <3> QED BY <3>1, <3>2, <3>3 DEF Ordered
  <2>4. ASSUME NEW d \in Cmd, d # c PROVE Forward(d)'
      BY <1>1, <1>2, <2>1, <2>4, ForwardKept
  <2>5. CASE job[c].plan = {m} /\ job'[c].pc = "ok"
    <3>1. All \subseteq meta'
        BY <1>3, <1>4, <2>1, <2>5, MigrationIs
    <3>2. Forward(c)'
        BY <1>1, <2>5, <3>1 DEF Forward
    <3> QED BY <2>3, <2>4, <2>5, <3>2 DEF SomeRunLeads
  <2>6. CASE /\ job[c].plan # {m} /\ job'[c].pc = "up" /\ job'[c].at = 1
             /\ job'[c].plan = job[c].plan \ {m}
    <3> DEFINE h == Least(job[c].plan \ {m})
    <3>1. Hand(c)' = h /\ Done(job[c])' = {}
        BY <2>6, NothingDone DEF Hand, Done
    <3>2. h \in job[c].plan \ {m} /\ \A n \in job[c].plan \ {m} : h <= n
        BY <1>3, <2>6, LeastIs
    <3> HIDE DEF h
    <3>3. h \in All /\ m < h
        BY <1>3, <3>2, MigrationIs
    <3>4. \A n \in All : n < h => n \in meta'
        BY <1>3, <1>4, <2>1, <3>2, MigrationIs
    <3>5. \A n \in All : h <= n => n \in job'[c].plan
        BY <1>3, <1>4, <2>6, <3>3, MigrationIs
    <3>6. Forward(c)'
        BY <2>6, <3>1, <3>4, <3>5 DEF Forward
    <3>7. h \notin meta'
        BY <1>3, <1>6, <2>1, <3>3, MigrationIs DEF Ordered
    <3>8. \A o \in Objects(h) : Lasting(o) => o \notin db'
        BY <1>1, <1>3, <1>6, <3>3, ObjectOf DEF Ordered
    <3>9. Leads(c)'
        BY <2>6, <3>1, <3>7, <3>8 DEF Leads
    <3> QED BY <2>3, <2>4, <3>6, <3>9 DEF SomeRunLeads
  <2> QED BY <1>6, <2>5, <2>6, RecordMoves
<1> QED BY <1>5, <1>6

-----------------------------------------------------------------------------
(* The theorem. *)

LEMMA InitRace == Init => Race
<1> SUFFICES ASSUME Init PROVE Race
    OBVIOUS
<1>1. \A c \in Cmd : job[c].pc = "new"
    BY NewJob DEF Init
<1> QED BY <1>1 DEF Init, Race, SomeRunLeads, Ordered, Forward

\* Where only runs are under way after a step, only runs were before.
LEMMA RunsMoved ==
    ASSUME Typed, NEW c \in Cmd, Moved(c), job'[c].pc # "new", crashed' = crashed, Runs'
    PROVE  Runs
<1>1. \A d \in Cmd : job'[d].kind = job[d].kind /\ (job'[d].pc = "new" => job[d].pc = "new")
    BY DEF Moved
<1> QED BY <1>1 DEF Runs

LEMMA RunsBegan ==
    ASSUME NEW c \in Cmd, NEW j, Began(c, j), Runs'
    PROVE  Runs /\ (j.kind \in {"none", "run"} \/ j.pc = "new")
BY DEF Began, Same, Runs

LEMMA RaceStep == Typed /\ Race /\ [Next]_vars => Race'
<1> SUFFICES ASSUME Typed, Race, [Next]_vars, Runs'
             PROVE  Ordered' /\ SomeRunLeads' /\ \A c \in Cmd : Forward(c)'
    BY DEF Race
<1>1. ASSUME NEW c \in Cmd, Run(c)
      PROVE  Ordered' /\ SomeRunLeads' /\ \A d \in Cmd : Forward(d)'
    BY <1>1, RunBegins, RunsBegan, RaceRun DEF Race
<1>2. ASSUME NEW c \in Cmd, Apply(c)
      PROVE  Ordered' /\ SomeRunLeads' /\ \A d \in Cmd : Forward(d)'
  <2>1. Runs
      BY <1>2, ApplyMoves, RunsMoved
  <2> QED BY <1>2, <2>1, RaceApply DEF Race
<1>3. ASSUME NEW c \in Cmd, Record(c)
      PROVE  Ordered' /\ SomeRunLeads' /\ \A d \in Cmd : Forward(d)'
  <2>1. Runs
      BY <1>3, RecordMoves, RunsMoved
  <2> QED BY <1>3, <2>1, RaceRecord DEF Race
<1>4. ASSUME NEW c \in Cmd, Rollback(c) \/ Refresh(c) PROVE FALSE
    BY <1>4, RollbackBegins, RefreshBegins, RunsBegan
<1>5. ASSUME NEW c \in Cmd, Revert(c) \/ Unlog(c) \/ DropNext(c) \/ RunAfterDrop(c)
      PROVE  FALSE
  <2>1. job[c].pc \in {"down", "unlog", "drop"}
      BY <1>5 DEF Revert, Unlog, DropNext, RunAfterDrop
  <2>2. Moved(c) /\ job'[c].pc # "new" /\ crashed' = crashed
      BY <1>5, RevertMoves, UnlogMoves, DropMoves, RunAfterDropMoves
  <2>3. Runs
      BY <2>2, RunsMoved
  <2> QED BY <2>1, <2>3 DEF Race, Forward
<1>6. ASSUME NEW c \in Cmd, Crash(c) PROVE FALSE
    BY <1>6, CrashMoves DEF Runs
<1>7. CASE UNCHANGED vars
  <2>1. db' = db /\ meta' = meta /\ job' = job /\ Runs
      BY <1>7 DEF vars, Runs
  <2> QED BY <2>1 DEF Race, Ordered, SomeRunLeads, Forward, Leads, Hand, Done
<1> QED BY <1>1, <1>2, <1>3, <1>4, <1>5, <1>6, <1>7 DEF Next, Step

\* While only runs are given and none dies, the runs keep to their order and one
\* of them leads or has got through, whoever executes the next statement.
THEOREM RaceInvariance == Spec => [](Typed /\ Race)
<1>1. Init => Typed /\ Race
    BY InitIInv, InitRace DEF IInv
<1>2. Typed /\ Race /\ [Next]_vars => (Typed /\ Race)'
    BY TypedStep, RaceStep
<1> QED BY <1>1, <1>2, PTL DEF Spec

\* However many hosts run the migrations at the same time, one of the runs gets
\* through and the schema is complete, as long as none of them dies and nothing is
\* rolled back meanwhile.
THEOREM OneRunGetsThroughHolds == Spec => []OneRunGetsThrough
<1>1. Typed /\ Race => OneRunGetsThrough
  <2> SUFFICES ASSUME Typed, Race, ~crashed, Active = {}, \E c \in Cmd : job[c].pc # "new",
                      \A c \in Cmd : job[c].kind \in {"none", "run"}
               PROVE  \E c \in Cmd : job[c].pc = "ok" /\ db = AllObjects /\ meta = All
      BY DEF OneRunGetsThrough
  <2>1. SomeRunLeads
      BY DEF Race, Runs
  <2>2. \A c \in Cmd : ~Leads(c)
      BY AtHand DEF Leads
  <2>3. PICK c \in Cmd : job[c].pc = "ok"
      BY <2>1, <2>2 DEF SomeRunLeads
  <2>4. All \subseteq meta /\ SequelizeMeta \in db
      BY <2>3 DEF Race, Runs, Forward
  <2>5. meta = All
      BY <2>4 DEF Typed
  <2>6. AllObjects \subseteq db
    <3>1. \A m \in All : Objects(m) \subseteq db
        BY <2>5 DEF Race, Runs, Ordered
    <3>2. UNION {Objects(m) : m \in All} \subseteq db
        BY <3>1, Zenon
    <3> QED BY <2>4, <3>2 DEF AllObjects
  <2>7. db = AllObjects
      BY <2>6, Zenon DEF Typed
  <2> QED BY <2>3, <2>5, <2>7
<1> QED BY RaceInvariance, <1>1, PTL
=============================================================================
