---------------------- MODULE ClusterSupervisor_proofs ----------------------
(***************************************************************************)
(* Proofs about ClusterSupervisor, for every number of CPUs, every limit,  *)
(* every number of attempts and every supply of process ids.               *)
(*                                                                         *)
(* The argument rests on who may have a pending exit event: a worker that  *)
(* is not the latest of its slot has been reaped, so only the latest one   *)
(* can exit, and it uses up an attempt of its own slot exactly once.       *)
(***************************************************************************)
EXTENDS ClusterSupervisor, FiniteSetTheorems, TLAPS

\* The latest worker of a slot is one of its workers, every worker of a slot
\* was forked, and all but the latest are gone for good.
ForksInOrder ==
    \A s \in Slots :
        /\ worker[s] \in allWorkerPid[s]
        /\ \A p \in allWorkerPid[s] :
              /\ process[p] # "none"
              /\ p # worker[s] => process[p] = "reaped"

SlotsAreDisjoint ==
    \A s, t \in Slots : s # t => allWorkerPid[s] \cap allWorkerPid[t] = {}

\* A slot stays empty only when its attempts are used up.
EmptyIsExhausted ==
    \A s \in Slots : process[worker[s]] = "reaped" => attemptsRemaining[s] = 0

IInv ==
    /\ TypeOK
    /\ ForksInOrder
    /\ SlotsAreDisjoint
    /\ EmptyIsExhausted
    /\ NeverStranded
    /\ ClosedOnlyWhenExhausted

-----------------------------------------------------------------------------
\* There is at least one slot, whatever the limit: cpuMax cannot stop the
\* system from having a worker.
LEMMA SlotsNotEmpty == 1 \in Slots /\ Slots \subseteq Nat
BY ClusterConfigAssumption DEF Slots, NumberOfCpus

LEMMA SendOutcomes ==
    ASSUME NEW T PROVE SendOutcome(T) \subseteq {"running", "crashed"}
BY DEF SendOutcome

LEMMA InitIInv == Init => IInv
<1> SUFFICES ASSUME Init PROVE IInv
    OBVIOUS
<1> USE DEF Init
<1>1. worker \in [Slots -> Pid] /\ \A s, t \in Slots : worker[s] = worker[t] => s = t
    BY DEF Injection, IsInjective
<1>2. Range(worker) \subseteq Pid /\ \A s \in Slots : worker[s] \in Range(worker)
    BY <1>1 DEF Range
<1>3. TypeOK
    BY <1>1, <1>2, ClusterConfigAssumption DEF TypeOK, ProcessState
<1>4. \A s \in Slots : process[worker[s]] = "booting"
    BY <1>1, <1>2
<1>5. ForksInOrder /\ SlotsAreDisjoint /\ EmptyIsExhausted
    BY <1>1, <1>4 DEF ForksInOrder, SlotsAreDisjoint, EmptyIsExhausted
<1>6. NeverStranded /\ ClosedOnlyWhenExhausted
    BY <1>4, SlotsNotEmpty DEF NeverStranded, ClosedOnlyWhenExhausted
<1> QED BY <1>3, <1>5, <1>6 DEF IInv

-----------------------------------------------------------------------------
\* What every step that forks nothing and reaps nothing keeps.
LEMMA QuietStep ==
    ASSUME IInv, TypeOK',
           UNCHANGED <<attemptsRemaining, worker, allWorkerPid>>,
           \A p \in Pid : /\ process'[p] = "none" <=> process[p] = "none"
                          /\ process'[p] = "reaped" <=> process[p] = "reaped",
           primary' = primary \/ primary' = "crashed"
    PROVE  IInv'
<1> USE DEF IInv
<1>1. worker \in [Slots -> Pid] /\ allWorkerPid \in [Slots -> SUBSET Pid]
    BY DEF TypeOK
<1>2. ForksInOrder' /\ SlotsAreDisjoint' /\ EmptyIsExhausted'
    BY <1>1 DEF ForksInOrder, SlotsAreDisjoint, EmptyIsExhausted
<1>3. NeverStranded' /\ ClosedOnlyWhenExhausted'
    BY <1>1 DEF NeverStranded, ClosedOnlyWhenExhausted, TypeOK
<1> QED BY <1>2, <1>3

LEMMA ExhaustedStep ==
    ASSUME IInv, NEW s \in Slots, NEW p \in Pid, OnExit(s, p), OnExitExhausted(s, p)
    PROVE  IInv'
<1> USE DEF IInv, OnExit, OnExitExhausted
<1>1. TypeOK'
    BY DEF TypeOK, ProcessState, healthVars
<1>2. p = worker[s] /\ attemptsRemaining[s] = 0
    BY DEF TypeOK, ForksInOrder
<1>3. \A t \in Slots \ {s} : worker[t] # p
    BY <1>2 DEF ForksInOrder, SlotsAreDisjoint
<1>4. process' = [process EXCEPT ![p] = "reaped"] /\ process \in [Pid -> ProcessState]
    BY DEF TypeOK
<1>5. ForksInOrder' /\ SlotsAreDisjoint' /\ EmptyIsExhausted'
    BY <1>2, <1>3, <1>4 DEF ForksInOrder, SlotsAreDisjoint, EmptyIsExhausted, TypeOK
<1>6. CASE HasWorkerWithAttempts
  <2>1. PICK t \in Slots : attemptsRemaining[t] > 0
      BY <1>6 DEF HasWorkerWithAttempts
  <2>2. t # s /\ process[worker[t]] # "reaped"
      BY <2>1, <1>2 DEF EmptyIsExhausted, TypeOK
  <2>3. process'[worker[t]] # "reaped" /\ worker' = worker
      BY <2>2, <1>3, <1>4 DEF TypeOK
  <2> QED BY <1>1, <1>5, <1>6, <2>3 DEF NeverStranded, ClosedOnlyWhenExhausted
<1>7. CASE ~HasWorkerWithAttempts
  <2>1. \A t \in Slots : attemptsRemaining'[t] = 0
      BY <1>7 DEF HasWorkerWithAttempts, TypeOK
  <2>2. process'[worker'[s]] = "reaped" /\ primary' = "exited"
      BY <1>2, <1>4, <1>7
  <2> QED BY <1>1, <1>5, <2>1, <2>2 DEF NeverStranded, ClosedOnlyWhenExhausted
<1> QED BY <1>6, <1>7

LEMMA RestartStep ==
    ASSUME IInv, NEW s \in Slots, NEW p \in Pid, OnExit(s, p), OnExitRestart(s, p)
    PROVE  IInv'
<1> USE DEF IInv, OnExit, OnExitRestart
<1>1. PICK q \in Pid :
          /\ process[q] = "none"
          /\ worker' = [worker EXCEPT ![s] = q]
          /\ allWorkerPid' = [allWorkerPid EXCEPT ![s] = @ \cup {q}]
          /\ process' = [process EXCEPT ![p] = "reaped", ![q] = "booting"]
          /\ channel' = channel \cup {q}
    OBVIOUS
<1>2. TypeOK'
  <2>1. attemptsRemaining' \in [Slots -> 0 .. MaxWorkerAttempts]
    <3>1. attemptsRemaining[s] \in 0 .. MaxWorkerAttempts /\ attemptsRemaining[s] > 0
        BY DEF TypeOK
    <3>2. attemptsRemaining[s] - 1 \in 0 .. MaxWorkerAttempts
        BY <3>1, ClusterConfigAssumption
    <3> QED BY <3>2 DEF TypeOK
  <2>2. worker' \in [Slots -> Pid] /\ allWorkerPid' \in [Slots -> SUBSET Pid]
      BY <1>1 DEF TypeOK
  <2>3. process' \in [Pid -> ProcessState] /\ channel' \subseteq Pid
      BY <1>1 DEF TypeOK, ProcessState
  <2> QED BY <2>1, <2>2, <2>3 DEF TypeOK, healthVars
<1>3. p = worker[s] /\ p # q
    BY <1>1 DEF TypeOK, ForksInOrder
<1>4. \A t \in Slots : q \notin allWorkerPid[t]
    BY <1>1 DEF ForksInOrder
<1>5. \A t \in Slots \ {s} : p \notin allWorkerPid[t] /\ worker'[t] = worker[t]
                              /\ allWorkerPid'[t] = allWorkerPid[t]
    BY <1>1 DEF SlotsAreDisjoint, TypeOK
<1>6. worker'[s] = q /\ allWorkerPid'[s] = allWorkerPid[s] \cup {q}
    BY <1>1 DEF TypeOK
<1>7. /\ process'[q] = "booting" /\ process'[p] = "reaped"
      /\ \A x \in Pid \ {p, q} : process'[x] = process[x]
    BY <1>1, <1>3 DEF TypeOK
<1>8. ForksInOrder'
  <2> SUFFICES ASSUME NEW t \in Slots
               PROVE  /\ worker'[t] \in allWorkerPid'[t]
                      /\ \A x \in allWorkerPid'[t] :
                            /\ process'[x] # "none"
                            /\ x # worker'[t] => process'[x] = "reaped"
      BY DEF ForksInOrder
  <2>1. CASE t = s
      BY <2>1, <1>3, <1>6, <1>7 DEF ForksInOrder, TypeOK
  <2>2. CASE t # s
      BY <2>2, <1>4, <1>5, <1>7 DEF ForksInOrder, TypeOK
  <2> QED BY <2>1, <2>2
<1>9. SlotsAreDisjoint'
    BY <1>4, <1>5, <1>6 DEF SlotsAreDisjoint
<1>10. EmptyIsExhausted'
  <2> SUFFICES ASSUME NEW t \in Slots, process'[worker'[t]] = "reaped"
               PROVE  attemptsRemaining'[t] = 0
      BY DEF EmptyIsExhausted
  <2>1. t # s
      BY <1>6, <1>7
  <2>2. process[worker[t]] = "reaped"
      BY <2>1, <1>4, <1>5, <1>7 DEF ForksInOrder, TypeOK
  <2> QED BY <2>1, <2>2 DEF EmptyIsExhausted, TypeOK
<1>11. NeverStranded' /\ ClosedOnlyWhenExhausted'
    BY <1>6, <1>7 DEF NeverStranded, ClosedOnlyWhenExhausted
<1> QED BY <1>2, <1>8, <1>9, <1>10, <1>11

-----------------------------------------------------------------------------
LEMMA NextIInv == IInv /\ [Next]_vars => IInv'
<1> SUFFICES ASSUME IInv, [Next]_vars PROVE IInv'
    OBVIOUS
<1>0. TypeOK /\ process \in [Pid -> ProcessState]
    BY DEF IInv, TypeOK
<1> USE DEF configVars, healthVars, nodeVars, ProcessState
<1>1. CASE UNCHANGED vars
  <2>1. TypeOK'
      BY <1>0, <1>1 DEF TypeOK, vars
  <2> QED BY <1>1, <2>1, QuietStep DEF vars
<1>2. CASE Next
  <2>1. PICK p \in Pid :
          \/ WorkerBoots(p)
          \/ WorkerBroadcasts(p)
          \/ WorkerDies(p)
          \/ ChannelCloses(p)
          \/ HealthTick(p)
          \/ SendHealthCheck(p)
          \/ KillUnhealthy(p)
          \/ \E s \in Slots : OnExit(s, p) \/ OnOnline(s, p) \/ OnBroadcast(s, p)
      BY <1>2 DEF Next
  <2>2. CASE WorkerBoots(p)
    <3>1. TypeOK'
        BY <1>0, <2>2 DEF TypeOK, WorkerBoots
    <3> QED BY <1>0, <2>2, <3>1, QuietStep DEF WorkerBoots
  <2>3. CASE WorkerBroadcasts(p)
    <3>1. TypeOK'
        BY <1>0, <2>3 DEF TypeOK, WorkerBroadcasts
    <3> QED BY <1>0, <2>3, <3>1, QuietStep DEF WorkerBroadcasts
  <2>4. CASE WorkerDies(p)
    <3>1. TypeOK'
        BY <1>0, <2>4 DEF TypeOK, WorkerDies, Alive
    <3> QED BY <1>0, <2>4, <3>1, QuietStep DEF WorkerDies, Alive
  <2>5. CASE ChannelCloses(p)
    <3>1. TypeOK'
        BY <1>0, <2>5 DEF TypeOK, ChannelCloses
    <3> QED BY <1>0, <2>5, <3>1, QuietStep DEF ChannelCloses
  <2>6. CASE HealthTick(p)
    <3>1. TypeOK'
        BY <1>0, <2>6 DEF TypeOK, HealthTick
    <3> QED BY <1>0, <2>6, <3>1, QuietStep DEF HealthTick
  <2>7. CASE SendHealthCheck(p)
    <3>0. primary' \in {"running", "crashed"}
        BY <2>7, SendOutcomes DEF SendHealthCheck
    <3>1. TypeOK'
        BY <1>0, <2>7, <3>0 DEF TypeOK, SendHealthCheck
    <3> QED BY <1>0, <2>7, <3>0, <3>1, QuietStep DEF SendHealthCheck
  <2>8. CASE KillUnhealthy(p)
    <3>1. TypeOK'
        BY <1>0, <2>8 DEF TypeOK, KillUnhealthy
    <3> QED BY <1>0, <2>8, <3>1, QuietStep DEF KillUnhealthy
  <2>9. CASE \E s \in Slots : OnExit(s, p)
      BY <2>9, ExhaustedStep, RestartStep DEF OnExit
  <2>10. CASE \E s \in Slots : OnOnline(s, p)
    <3>1. TypeOK'
        BY <1>0, <2>10 DEF TypeOK, OnOnline
    <3> QED BY <1>0, <2>10, <3>1, QuietStep DEF OnOnline
  <2>11. CASE \E s \in Slots : OnBroadcast(s, p)
    <3>0. primary = "running" /\ primary' \in {"running", "crashed"}
        BY <2>11, SendOutcomes DEF OnBroadcast
    <3>1. TypeOK'
        BY <1>0, <2>11, <3>0 DEF TypeOK, OnBroadcast
    <3> QED BY <1>0, <2>11, <3>0, <3>1, QuietStep DEF OnBroadcast
  <2> QED BY <2>1, <2>2, <2>3, <2>4, <2>5, <2>6, <2>7, <2>8, <2>9, <2>10, <2>11
<1> QED BY <1>1, <1>2

\* Every variable keeps its type in every behaviour of the supervisor.
THEOREM TypeCorrect == Spec => []TypeOK
<1>1. IInv => TypeOK
    BY DEF IInv
<1> QED BY InitIInv, NextIInv, <1>1, PTL DEF Spec

\* A slot never has two workers that are alive or whose exit is yet to be
\* handled, and no worker serves two slots.
THEOREM OneWorkerPerSlotHolds == Spec => []OneWorkerPerSlot
<1>1. IInv => OneWorkerPerSlot
    BY DEF IInv, ForksInOrder, SlotsAreDisjoint, OneWorkerPerSlot
<1> QED BY InitIInv, NextIInv, <1>1, PTL DEF Spec

\* A running primary always has a worker left or an exit event to handle.
THEOREM NeverStrandedHolds == Spec => []NeverStranded
<1>1. IInv => NeverStranded
    BY DEF IInv
<1> QED BY InitIInv, NextIInv, <1>1, PTL DEF Spec

\* A worker whose 'online' was handled is under a health check until the audit
\* kills it, whatever became of its slot.
THEOREM OnlineWorkersAreWatchedHolds == Spec => []OnlineWorkersAreWatched
<1>1. Init => OnlineWorkersAreWatched
    BY DEF Init, OnlineWorkersAreWatched
<1>2. ASSUME TypeOK, OnlineWorkersAreWatched, [Next]_vars PROVE OnlineWorkersAreWatched'
  <2> USE <1>2 DEF TypeOK, OnlineWorkersAreWatched
  <2>1. ASSUME NEW p \in Pid, WorkerBoots(p) \/ WorkerBroadcasts(p) PROVE OnlineWorkersAreWatched'
      BY <2>1 DEF WorkerBoots, WorkerBroadcasts, healthVars
  <2>2. ASSUME NEW p \in Pid, WorkerDies(p) \/ ChannelCloses(p) PROVE OnlineWorkersAreWatched'
      BY <2>2 DEF WorkerDies, ChannelCloses, healthVars
  <2>3. ASSUME NEW p \in Pid, HealthTick(p) \/ SendHealthCheck(p) \/ KillUnhealthy(p)
        PROVE  OnlineWorkersAreWatched'
      BY <2>3 DEF HealthTick, SendHealthCheck, KillUnhealthy, nodeVars
  <2>4. ASSUME NEW s \in Slots, NEW p \in Pid, OnExit(s, p) PROVE OnlineWorkersAreWatched'
    <3>1. UNCHANGED <<watched, killed, inbox>>
        BY <2>4 DEF OnExit, healthVars
    <3>2. \A q \in Pid : process'[q] = "running" => process[q] = "running"
        BY <2>4 DEF OnExit, OnExitExhausted, OnExitRestart
    <3> QED BY <3>1, <3>2
  <2>5. ASSUME NEW s \in Slots, NEW p \in Pid, OnOnline(s, p) \/ OnBroadcast(s, p)
        PROVE  OnlineWorkersAreWatched'
    <3>1. process' = process /\ killed' = killed /\ watched \subseteq watched'
        BY <2>5 DEF OnOnline, OnBroadcast, healthVars
    <3>2. \A q \in Pid : "online" \notin inbox'[q] => "online" \notin inbox[q] \/ q \in watched'
        BY <2>5 DEF OnOnline, OnBroadcast
    <3> QED BY <3>1, <3>2
  <2>6. CASE UNCHANGED vars
      BY <2>6 DEF vars, healthVars, nodeVars
  <2> QED BY <2>1, <2>2, <2>3, <2>4, <2>5, <2>6 DEF Next
<1> QED BY <1>1, <1>2, TypeCorrect, PTL DEF Spec

\* closeEvent means that no slot has an attempt left and one has no worker.
THEOREM ClosedOnlyWhenExhaustedHolds == Spec => []ClosedOnlyWhenExhausted
<1>1. IInv => ClosedOnlyWhenExhausted
    BY DEF IInv
<1> QED BY InitIInv, NextIInv, <1>1, PTL DEF Spec

-----------------------------------------------------------------------------
\* The accounting of attempts: every set of forks is finite, and a fork adds
\* one process id exactly when it takes one attempt.
CountedForks ==
    \A s \in Slots :
        /\ IsFiniteSet(allWorkerPid[s])
        /\ Cardinality(allWorkerPid[s]) + attemptsRemaining[s] = MaxWorkerAttempts + 1

LEMMA InitCounted == Init => CountedForks
<1> SUFFICES ASSUME Init, NEW s \in Slots
             PROVE  /\ IsFiniteSet(allWorkerPid[s])
                    /\ Cardinality(allWorkerPid[s]) + attemptsRemaining[s]
                          = MaxWorkerAttempts + 1
    BY DEF CountedForks
<1>1. allWorkerPid[s] = {worker[s]} /\ attemptsRemaining[s] = MaxWorkerAttempts
    BY DEF Init
<1>2. IsFiniteSet({worker[s]}) /\ Cardinality({worker[s]}) = 1
    BY FS_Singleton
<1> QED BY <1>1, <1>2, ClusterConfigAssumption

\* Only a restart changes the forks or the attempts of a slot.
LEMMA OnlyRestartsFork ==
    ASSUME [Next]_vars,
           ~ \E s \in Slots, p \in Pid : OnExit(s, p) /\ OnExitRestart(s, p)
    PROVE  UNCHANGED <<attemptsRemaining, allWorkerPid, worker>>
BY DEF Next, vars, configVars, WorkerBoots, WorkerBroadcasts, WorkerDies,
       ChannelCloses, OnExit, OnExitExhausted, OnOnline, OnBroadcast, HealthTick,
       SendHealthCheck, KillUnhealthy

LEMMA NextCounted == IInv /\ CountedForks /\ [Next]_vars => CountedForks'
<1> SUFFICES ASSUME IInv, CountedForks, [Next]_vars PROVE CountedForks'
    OBVIOUS
<1>1. CASE ~ \E s \in Slots, p \in Pid : OnExit(s, p) /\ OnExitRestart(s, p)
    BY <1>1, OnlyRestartsFork DEF CountedForks
<1>2. CASE \E s \in Slots, p \in Pid : OnExit(s, p) /\ OnExitRestart(s, p)
  <2>1. PICK s \in Slots, p \in Pid : OnExit(s, p) /\ OnExitRestart(s, p)
      BY <1>2
  <2>2. PICK q \in Pid : /\ process[q] = "none"
                         /\ allWorkerPid' = [allWorkerPid EXCEPT ![s] = @ \cup {q}]
      BY <2>1 DEF OnExitRestart
  <2>3. attemptsRemaining' = [attemptsRemaining EXCEPT ![s] = @ - 1]
      BY <2>1 DEF OnExitRestart
  <2>4. q \notin allWorkerPid[s]
      BY <2>2 DEF IInv, ForksInOrder
  <2>5. /\ IsFiniteSet(allWorkerPid[s] \cup {q})
        /\ Cardinality(allWorkerPid[s] \cup {q}) = Cardinality(allWorkerPid[s]) + 1
      BY <2>4, FS_AddElement DEF CountedForks
  <2>6. Cardinality(allWorkerPid[s]) \in Nat
      BY FS_CardinalityType DEF CountedForks
  <2>7. attemptsRemaining[s] \in Int /\ MaxWorkerAttempts \in Nat
      BY ClusterConfigAssumption DEF IInv, TypeOK
  <2>8. /\ allWorkerPid'[s] = allWorkerPid[s] \cup {q}
        /\ attemptsRemaining'[s] = attemptsRemaining[s] - 1
      BY <2>2, <2>3 DEF IInv, TypeOK
  <2>9. \A t \in Slots \ {s} : /\ allWorkerPid'[t] = allWorkerPid[t]
                              /\ attemptsRemaining'[t] = attemptsRemaining[t]
      BY <2>2, <2>3 DEF IInv, TypeOK
  <2>10. Cardinality(allWorkerPid'[s]) + attemptsRemaining'[s] = MaxWorkerAttempts + 1
      BY <2>5, <2>6, <2>7, <2>8 DEF CountedForks
  <2> QED BY <2>5, <2>8, <2>9, <2>10 DEF CountedForks
<1> QED BY <1>1, <1>2

\* A slot forks at most 1 + maxWorkerAttempts workers, and each fork after the
\* first has taken one attempt.
THEOREM AttemptsAccountForForksHolds == Spec => []AttemptsAccountForForks
<1>1. CountedForks => AttemptsAccountForForks
    BY DEF CountedForks, AttemptsAccountForForks
<1> QED BY InitIInv, NextIInv, InitCounted, NextCounted, <1>1, PTL DEF Spec

-----------------------------------------------------------------------------
\* The refinement: the first fork of every slot is the initial state of
\* Supervision, and every step of the primary is one of its steps or none.
LEMMA InitRefines == Init => Abstract!Init
<1> SUFFICES ASSUME Init PROVE Abstract!Init
    OBVIOUS
<1>1. IInv
    BY InitIInv
<1>2. \A s \in Slots : process[worker[s]] # "reaped"
    BY <1>1, SlotsNotEmpty DEF Init, IInv, TypeOK, Range, Injection
<1> QED BY <1>2 DEF Init, Abstract!Init, SlotIsUp

\* A step that leaves the slots alone is a failure of the system or a stutter.
LEMMA QuietRefines ==
    ASSUME IInv, UNCHANGED <<attemptsRemaining, worker>>,
           \A p \in Pid : process'[p] = "reaped" <=> process[p] = "reaped",
           primary' = primary \/ (primary = "running" /\ primary' = "crashed")
    PROVE  [Abstract!Next]_(Abstract!vars)
<1>1. SlotIsUp' = SlotIsUp
    BY DEF SlotIsUp, IInv, TypeOK
<1> QED BY <1>1 DEF Abstract!Next, Abstract!vars, Abstract!Fail

LEMMA ExhaustedRefines ==
    ASSUME IInv, NEW s \in Slots, NEW p \in Pid, OnExit(s, p), OnExitExhausted(s, p)
    PROVE  Abstract!GoDown(s)
<1> USE DEF IInv, OnExit, OnExitExhausted
<1>1. p = worker[s] /\ attemptsRemaining[s] = 0
    BY DEF TypeOK, ForksInOrder
<1>2. \A t \in Slots \ {s} : worker[t] # p
    BY <1>1 DEF ForksInOrder, SlotsAreDisjoint
<1>3. SlotIsUp[s] = TRUE
    BY <1>1 DEF SlotIsUp
<1>4. SlotIsUp' = [SlotIsUp EXCEPT ![s] = FALSE]
    BY <1>1, <1>2 DEF SlotIsUp, TypeOK
<1>5. primary' = IF \A t \in Slots : attemptsRemaining[t] = 0 THEN "exited" ELSE "running"
    BY DEF HasWorkerWithAttempts, TypeOK
<1> QED BY <1>1, <1>3, <1>4, <1>5 DEF Abstract!GoDown

LEMMA RestartRefines ==
    ASSUME IInv, NEW s \in Slots, NEW p \in Pid, OnExit(s, p), OnExitRestart(s, p)
    PROVE  Abstract!Replace(s)
<1> USE DEF IInv, OnExit, OnExitRestart
<1>1. p = worker[s]
    BY DEF TypeOK, ForksInOrder
<1>2. PICK q \in Pid :
          /\ process[q] = "none"
          /\ worker' = [worker EXCEPT ![s] = q]
          /\ process' = [process EXCEPT ![p] = "reaped", ![q] = "booting"]
    OBVIOUS
<1>3. \A t \in Slots \ {s} : worker[t] # p /\ worker[t] # q
    BY <1>1, <1>2 DEF ForksInOrder, SlotsAreDisjoint
<1>4. SlotIsUp[s] = TRUE
    BY <1>1 DEF SlotIsUp
<1>5. SlotIsUp' = SlotIsUp
    BY <1>1, <1>2, <1>3 DEF SlotIsUp, TypeOK
<1> QED BY <1>4, <1>5 DEF Abstract!Replace

LEMMA NextRefines == IInv /\ [Next]_vars => [Abstract!Next]_(Abstract!vars)
<1> SUFFICES ASSUME IInv, [Next]_vars PROVE [Abstract!Next]_(Abstract!vars)
    OBVIOUS
<1>0. process \in [Pid -> ProcessState]
    BY DEF IInv, TypeOK
<1>1. CASE \E s \in Slots, p \in Pid : OnExit(s, p)
    BY <1>1, ExhaustedRefines, RestartRefines DEF OnExit, Abstract!Next
<1>2. CASE ~ \E s \in Slots, p \in Pid : OnExit(s, p)
  <2>1. UNCHANGED <<attemptsRemaining, worker>>
      BY <1>2, OnlyRestartsFork
  <2>2. \A p \in Pid : process'[p] = "reaped" <=> process[p] = "reaped"
      BY <1>0, <1>2 DEF Next, vars, nodeVars, WorkerBoots, WorkerBroadcasts, WorkerDies,
         Alive, ChannelCloses, OnOnline, OnBroadcast, HealthTick, SendHealthCheck,
         KillUnhealthy
  <2>3. ASSUME NEW p \in Pid, SendHealthCheck(p) \/ \E s \in Slots : OnBroadcast(s, p)
        PROVE  primary = "running" /\ primary' \in {"running", "crashed"}
      BY <2>3, SendOutcomes DEF SendHealthCheck, OnBroadcast
  <2>4. ASSUME NEW p \in Pid,
               ~ (SendHealthCheck(p) \/ \E s \in Slots : OnBroadcast(s, p)),
               \/ WorkerBoots(p) \/ WorkerBroadcasts(p) \/ WorkerDies(p)
               \/ ChannelCloses(p) \/ HealthTick(p) \/ KillUnhealthy(p)
               \/ \E s \in Slots : OnOnline(s, p)
        PROVE  primary' = primary
      BY <2>4 DEF WorkerBoots, WorkerBroadcasts, WorkerDies, ChannelCloses,
         HealthTick, KillUnhealthy, OnOnline
  <2>5. primary' = primary \/ (primary = "running" /\ primary' = "crashed")
      BY <1>2, <2>3, <2>4 DEF Next, vars
  <2> QED BY <2>1, <2>2, <2>5, QuietRefines
<1> QED BY <1>1, <1>2

\* Processes, channels, late messages and health checks implement Supervision.
THEOREM RefinesSupervision == Spec => ImplementsSupervision
<1>1. Init => Abstract!Init
    BY InitRefines
<1> QED BY <1>1, InitIInv, NextIInv, NextRefines, PTL
        DEF Spec, ImplementsSupervision, Abstract!Spec

-----------------------------------------------------------------------------
(* How far the findings reach: what crashes the primary, and which health   *)
(* checks outlive their worker.                                             *)

\* The channel of a worker stays open while it lives, and only workers that
\* were forked are checked.
ChannelsOfTheLiving ==
    /\ \A p \in Pid : Alive(p) => p \in channel
    /\ \A p \in watched \cup sending : process[p] # "none"

\* A worker comes online once, after it booted; it is checked or condemned only
\* after that, and never both.
OneCheckPerWorker ==
    /\ \A p \in Pid : "online" \in inbox[p] \/ p \in watched \cup killed =>
                         process[p] \notin {"none", "booting"}
    /\ \A p \in watched \cup killed : "online" \notin inbox[p]
    /\ watched \cap killed = {}

CauseInv == IInv /\ ChannelsOfTheLiving /\ OneCheckPerWorker

LEMMA InitCause == Init => CauseInv
<1>1. Init => ChannelsOfTheLiving
    BY DEF Init, ChannelsOfTheLiving, Alive
<1>2. Init => OneCheckPerWorker
    BY DEF Init, OneCheckPerWorker
<1> QED BY <1>1, <1>2, InitIInv DEF CauseInv

LEMMA OnExitCause ==
    ASSUME CauseInv, NEW s \in Slots, NEW p \in Pid, OnExit(s, p)
    PROVE  ChannelsOfTheLiving' /\ OneCheckPerWorker'
<1> USE DEF CauseInv, IInv, TypeOK
<1>1. UNCHANGED <<watched, sending, killed, inbox>> /\ process[p] = "dead"
    BY DEF OnExit, healthVars
<1>2. CASE OnExitExhausted(s, p)
  <2>1. process' = [process EXCEPT ![p] = "reaped"] /\ channel' = channel
      BY <1>2 DEF OnExitExhausted
  <2> QED BY <1>1, <2>1 DEF ChannelsOfTheLiving, OneCheckPerWorker, Alive
<1>3. CASE OnExitRestart(s, p)
  <2>1. PICK q \in Pid : /\ process[q] = "none"
                         /\ process' = [process EXCEPT ![p] = "reaped", ![q] = "booting"]
                         /\ channel' = channel \cup {q}
      BY <1>3 DEF OnExitRestart
  <2>2. /\ process'[p] = "reaped" /\ process'[q] = "booting"
        /\ \A x \in Pid \ {p, q} : process'[x] = process[x]
      BY <1>1, <2>1
  <2>3. q \notin watched \cup sending \cup killed /\ "online" \notin inbox[q]
      BY <2>1 DEF ChannelsOfTheLiving, OneCheckPerWorker
  <2> QED BY <1>1, <2>1, <2>2, <2>3 DEF ChannelsOfTheLiving, OneCheckPerWorker, Alive
<1> QED BY <1>2, <1>3 DEF OnExit

LEMMA NextCause == CauseInv /\ [Next]_vars => CauseInv'
<1> SUFFICES ASSUME CauseInv, [Next]_vars PROVE ChannelsOfTheLiving' /\ OneCheckPerWorker'
    BY NextIInv DEF CauseInv
<1> USE DEF CauseInv, IInv, TypeOK, ChannelsOfTheLiving, OneCheckPerWorker, Alive
<1>1. ASSUME NEW p \in Pid, WorkerBoots(p) PROVE ChannelsOfTheLiving' /\ OneCheckPerWorker'
    BY <1>1 DEF WorkerBoots, healthVars
<1>2. ASSUME NEW p \in Pid, WorkerBroadcasts(p) PROVE ChannelsOfTheLiving' /\ OneCheckPerWorker'
    BY <1>2 DEF WorkerBroadcasts, healthVars
<1>3. ASSUME NEW p \in Pid, WorkerDies(p) PROVE ChannelsOfTheLiving' /\ OneCheckPerWorker'
    BY <1>3 DEF WorkerDies, healthVars
<1>4. ASSUME NEW p \in Pid, ChannelCloses(p) PROVE ChannelsOfTheLiving' /\ OneCheckPerWorker'
    BY <1>4 DEF ChannelCloses, healthVars
<1>5. ASSUME NEW p \in Pid, HealthTick(p) \/ SendHealthCheck(p) \/ KillUnhealthy(p)
      PROVE  ChannelsOfTheLiving' /\ OneCheckPerWorker'
    BY <1>5 DEF HealthTick, SendHealthCheck, KillUnhealthy, nodeVars
<1>6. ASSUME NEW s \in Slots, NEW p \in Pid, OnExit(s, p)
      PROVE  ChannelsOfTheLiving' /\ OneCheckPerWorker'
    BY <1>6, OnExitCause
<1>7. ASSUME NEW s \in Slots, NEW p \in Pid, OnOnline(s, p)
      PROVE  ChannelsOfTheLiving' /\ OneCheckPerWorker'
    BY <1>7 DEF OnOnline
<1>8. ASSUME NEW s \in Slots, NEW p \in Pid, OnBroadcast(s, p)
      PROVE  ChannelsOfTheLiving' /\ OneCheckPerWorker'
    BY <1>8 DEF OnBroadcast, healthVars
<1>9. CASE UNCHANGED vars
    BY <1>9 DEF vars, healthVars, nodeVars
<1> QED BY <1>1, <1>2, <1>3, <1>4, <1>5, <1>6, <1>7, <1>8, <1>9 DEF Next

\* The primary crashes in no other step than a write to a worker whose process
\* has ended: a health request whose timer was pending, or a broadcast to a
\* slot that is marked online.
CrashIsAWriteToADeadWorker ==
    [][primary = "running" /\ primary' = "crashed" =>
           \E p \in Pid :
               /\ process[p] \in {"dead", "reaped"}
               /\ p \in sending \/ \E s \in Slots : isOnline[s] /\ worker[s] = p]_vars

LEMMA FailedSend ==
    ASSUME CauseInv, NEW T \in SUBSET Pid, "crashed" \in SendOutcome(T),
           \A p \in T : process[p] # "none"
    PROVE  \E p \in T : process[p] \in {"dead", "reaped"}
<1>1. PICK p \in T : p \notin channel \/ ~Alive(p)
    BY DEF SendOutcome
<1>2. ~Alive(p) /\ process[p] \in ProcessState
    BY <1>1 DEF CauseInv, ChannelsOfTheLiving, IInv, TypeOK
<1> QED BY <1>2 DEF Alive, ProcessState

LEMMA CrashStep ==
    ASSUME CauseInv, [Next]_vars, primary = "running", primary' = "crashed"
    PROVE  \E p \in Pid :
               /\ process[p] \in {"dead", "reaped"}
               /\ p \in sending \/ \E s \in Slots : isOnline[s] /\ worker[s] = p
<1>1. \/ \E p \in Pid : SendHealthCheck(p)
      \/ \E s \in Slots, p \in Pid : OnBroadcast(s, p) /\ p = worker[s]
    BY DEF Next, vars, WorkerBoots, WorkerBroadcasts, WorkerDies, ChannelCloses, HealthTick,
           KillUnhealthy, OnExit, OnExitExhausted, OnExitRestart, OnOnline, OnBroadcast
<1>2. ASSUME NEW p \in Pid, SendHealthCheck(p)
      PROVE  p \in sending /\ process[p] \in {"dead", "reaped"}
  <2>1. p \in sending /\ process[p] # "none" /\ "crashed" \in SendOutcome({p})
      BY <1>2 DEF SendHealthCheck, CauseInv, ChannelsOfTheLiving
  <2>2. {p} \in SUBSET Pid /\ \A q \in {p} : process[q] # "none"
      BY <2>1
  <2>3. \E q \in {p} : process[q] \in {"dead", "reaped"}
      BY <2>1, <2>2, FailedSend
  <2> QED BY <2>1, <2>3
<1>3. ASSUME NEW s \in Slots, NEW p \in Pid, OnBroadcast(s, p), p = worker[s]
      PROVE  \E t \in Slots : isOnline[t] /\ process[worker[t]] \in {"dead", "reaped"}
  <2> DEFINE T == {worker[t] : t \in {u \in Slots : isOnline[u]}}
  <2>1. "crashed" \in SendOutcome(T)
      BY <1>3 DEF OnBroadcast
  <2>2. \A t \in Slots : worker[t] \in Pid /\ process[worker[t]] # "none"
      BY DEF CauseInv, IInv, ForksInOrder, TypeOK
  <2>3. T \in SUBSET Pid /\ \A q \in T : process[q] # "none"
      BY <2>2
  <2>4. PICK q \in T : process[q] \in {"dead", "reaped"}
    <3> HIDE DEF T
    <3> QED BY <2>1, <2>3, FailedSend
  <2> QED BY <2>4
<1>4. \A t \in Slots : worker[t] \in Pid
    BY DEF CauseInv, IInv, TypeOK
<1> QED BY <1>1, <1>2, <1>3, <1>4

\* FailedSendIsSurvived fails for this one reason.
THEOREM OnlyDeadWorkersCrashThePrimary == Spec => CrashIsAWriteToADeadWorker
<1>1. CauseInv /\ [Next]_vars =>
          [primary = "running" /\ primary' = "crashed" =>
               \E p \in Pid :
                   /\ process[p] \in {"dead", "reaped"}
                   /\ p \in sending \/ \E s \in Slots : isOnline[s] /\ worker[s] = p]_vars
    BY CrashStep
<1> QED BY <1>1, InitCause, NextCause, PTL DEF Spec, CrashIsAWriteToADeadWorker

\* A health check that outlives its worker is that of a worker that was reaped
\* and that no audit ever condemned.
LeakedChecksAreOfCrashedWorkers ==
    \A s \in Slots : \A p \in watched \cap allWorkerPid[s] :
        p # worker[s] => process[p] = "reaped" /\ p \notin killed

\* Only a worker that died by itself leaves a health check behind, whether the
\* restart of its slot did not clear it (ReplacedWorkerIsUnsubscribed) or it began
\* with an 'online' read after that.
THEOREM OnlyCrashedWorkersLeakChecks == Spec => []LeakedChecksAreOfCrashedWorkers
<1>1. CauseInv => LeakedChecksAreOfCrashedWorkers
    BY DEF CauseInv, IInv, ForksInOrder, OneCheckPerWorker, LeakedChecksAreOfCrashedWorkers
<1> QED BY <1>1, InitCause, NextCause, PTL DEF Spec
=============================================================================
