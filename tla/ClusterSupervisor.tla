------------------------- MODULE ClusterSupervisor -------------------------
(***************************************************************************)
(* The primary process of the clustered server: SetupClusterService forks  *)
(* one worker per CPU slot, restarts a worker that exits while the slot    *)
(* has attempts left, starts a health check on every worker that comes     *)
(* online, relays broadcasts, and closes the system when no slot has an    *)
(* attempt left.                                                           *)
(*                                                                         *)
(* Every handler of the primary runs to completion on its event loop, so   *)
(* a handler is one action.  The worker processes and their IPC channels   *)
(* are Node's: they are modelled from how the service uses them.  The      *)
(* verdict of a health check is any verdict here; HealthAudit models how   *)
(* it is reached.                                                          *)
(***************************************************************************)
EXTENDS Integers, FiniteSets, Functions

CONSTANTS
    Cpus,                \* os.cpus().length
    CpuMax,              \* cluster.cpuMax of the configuration, 0: no limit
    MaxWorkerAttempts,   \* cluster.maxWorkerAttempts
    Pid                  \* the process ids the operating system hands out

ASSUME ClusterConfigAssumption ==
    /\ Cpus \in Nat \ {0}
    /\ CpuMax \in Nat
    /\ MaxWorkerAttempts \in Nat

VARIABLES
    primary,             \* "running", "exited" (closeEvent) or "crashed"
    attemptsRemaining,   \* WorkerConfig.attemptsRemaining of each slot
    worker,              \* WorkerConfig.worker: the worker of each slot
    allWorkerPid,        \* WorkerConfig.allWorkerPid, as a set
    isOnline,            \* WorkerConfig.isOnline
    watched,             \* workers with a health-check subscription
    sending,             \* workers with a pending timer(10) health request
    process,             \* life cycle of each process id
    channel,             \* process ids whose IPC channel the primary holds open
    inbox,               \* messages of each worker the primary has not read yet
    killed               \* workers SIGTERM was sent to

configVars == <<attemptsRemaining, worker, allWorkerPid, isOnline>>
healthVars == <<watched, sending, killed>>
nodeVars == <<process, channel, inbox>>
vars == <<primary, configVars, healthVars, nodeVars>>

\* A cpuMax of 0 means every CPU, and a larger one than there are is cut.
NumberOfCpus ==
    IF CpuMax = 0 THEN Cpus ELSE IF CpuMax <= Cpus THEN CpuMax ELSE Cpus

Slots == 1 .. NumberOfCpus

\* "dead" is a process whose exit event the primary has yet to handle.
ProcessState == {"none", "booting", "running", "dead", "reaped"}
Alive(p) == process[p] \in {"booting", "running"}

\* Node raises 'error' on a worker whose closed channel is written to, and
\* nothing listens to it; a dead worker whose channel still looks open may
\* swallow the write or fail it the same way.
SendOutcome(targets) ==
    IF targets \ channel # {} THEN {"crashed"}
    ELSE IF \E p \in targets : ~Alive(p) THEN {"running", "crashed"}
    ELSE {"running"}

-----------------------------------------------------------------------------
\* startInWorker forks one worker for every slot.
Init ==
    /\ primary = "running"
    /\ attemptsRemaining = [s \in Slots |-> MaxWorkerAttempts]
    /\ worker \in Injection(Slots, Pid)
    /\ allWorkerPid = [s \in Slots |-> {worker[s]}]
    /\ isOnline = [s \in Slots |-> FALSE]
    /\ watched = {}
    /\ sending = {}
    /\ killed = {}
    /\ process = [p \in Pid |-> IF p \in Range(worker) THEN "booting" ELSE "none"]
    /\ channel = Range(worker)
    /\ inbox = [p \in Pid |-> {}]

-----------------------------------------------------------------------------
\* The worker process.

WorkerBoots(p) ==
    /\ primary = "running"
    /\ process[p] = "booting"
    /\ process' = [process EXCEPT ![p] = "running"]
    /\ inbox' = [inbox EXCEPT ![p] = @ \cup {"online"}]
    /\ UNCHANGED <<primary, configVars, healthVars, channel>>

\* ProcessMessagingService.broadcastCommand in a worker; one at a time.
WorkerBroadcasts(p) ==
    /\ primary = "running"
    /\ process[p] = "running"
    /\ "broadcast" \notin inbox[p]
    /\ inbox' = [inbox EXCEPT ![p] = @ \cup {"broadcast"}]
    /\ UNCHANGED <<primary, configVars, healthVars, process, channel>>

\* A worker crashes, obeys SIGTERM, or leaves with its primary.
WorkerDies(p) ==
    /\ Alive(p)
    /\ process' = [process EXCEPT ![p] = "dead"]
    /\ UNCHANGED <<primary, configVars, healthVars, channel, inbox>>

\* The channel of a dead worker closes once what it wrote has been read,
\* before or after its exit event.
ChannelCloses(p) ==
    /\ primary = "running"
    /\ process[p] \in {"dead", "reaped"}
    /\ p \in channel
    /\ inbox[p] = {}
    /\ channel' = channel \ {p}
    /\ UNCHANGED <<primary, configVars, healthVars, process, inbox>>

-----------------------------------------------------------------------------
\* The handlers of the primary.  A handler closes over the configuration of
\* the slot s its worker p was forked for.

\* Mutant: an exhausted slot still counts as one with attempts.
ExhaustedCounts == \E s \in Slots : attemptsRemaining[s] >= 0

\* Mutant: one exhausted slot is enough to close the system.
EverySlotHasAttempts == \A s \in Slots : attemptsRemaining[s] > 0

HasWorkerWithAttempts == \E s \in Slots : attemptsRemaining[s] > 0

\* 'exit' with no attempt left: the slot stays empty, and the system closes
\* when no other slot has an attempt either.
OnExitExhausted(s, p) ==
    /\ attemptsRemaining[s] <= 0
    /\ primary' = IF HasWorkerWithAttempts THEN primary ELSE "exited"
    /\ process' = [process EXCEPT ![p] = "reaped"]
    /\ UNCHANGED <<attemptsRemaining, worker, allWorkerPid, channel>>

\* Mutant: the attempt is used up without looking whether there is one.
RestartUnchecked(s, p) ==
    /\ attemptsRemaining' = [attemptsRemaining EXCEPT ![s] = @ - 1]
    /\ \E q \in Pid :
          /\ process[q] = "none"
          /\ worker' = [worker EXCEPT ![s] = q]
          /\ allWorkerPid' = [allWorkerPid EXCEPT ![s] = @ \cup {q}]
          /\ process' = [process EXCEPT ![p] = "reaped", ![q] = "booting"]
          /\ channel' = channel \cup {q}
    /\ UNCHANGED primary

\* Mutant: a restart uses up no attempt.
RestartForFree(s, p) ==
    /\ attemptsRemaining[s] > 0
    /\ \E q \in Pid :
          /\ process[q] = "none"
          /\ worker' = [worker EXCEPT ![s] = q]
          /\ allWorkerPid' = [allWorkerPid EXCEPT ![s] = @ \cup {q}]
          /\ process' = [process EXCEPT ![p] = "reaped", ![q] = "booting"]
          /\ channel' = channel \cup {q}
    /\ UNCHANGED <<primary, attemptsRemaining>>

\* 'exit' with an attempt left: a new worker q takes the slot.
OnExitRestart(s, p) ==
    /\ attemptsRemaining[s] > 0
    /\ attemptsRemaining' = [attemptsRemaining EXCEPT ![s] = @ - 1]
    /\ \E q \in Pid :
          /\ process[q] = "none"
          /\ worker' = [worker EXCEPT ![s] = q]
          /\ allWorkerPid' = [allWorkerPid EXCEPT ![s] = @ \cup {q}]
          /\ process' = [process EXCEPT ![p] = "reaped", ![q] = "booting"]
          /\ channel' = channel \cup {q}
    /\ UNCHANGED primary

\* Mutant: a worker the primary itself stopped is not restarted.
OnUnexpectedExit(s, p) ==
    /\ primary = "running"
    /\ p \in allWorkerPid[s]
    /\ process[p] = "dead"
    /\ p \notin killed
    /\ isOnline' = [isOnline EXCEPT ![s] = FALSE]
    /\ OnExitExhausted(s, p) \/ OnExitRestart(s, p)
    /\ UNCHANGED <<healthVars, inbox>>

OnExit(s, p) ==
    /\ primary = "running"
    /\ p \in allWorkerPid[s]
    /\ process[p] = "dead"
    /\ isOnline' = [isOnline EXCEPT ![s] = FALSE]
    /\ OnExitExhausted(s, p) \/ OnExitRestart(s, p)
    /\ UNCHANGED <<healthVars, inbox>>

\* Mutant: the service keeps one health-check subscription for all workers.
OnOnlineSharedCheck(s, p) ==
    /\ primary = "running"
    /\ p \in allWorkerPid[s]
    /\ "online" \in inbox[p]
    /\ inbox' = [inbox EXCEPT ![p] = @ \ {"online"}]
    /\ isOnline' = [isOnline EXCEPT ![s] = TRUE]
    /\ watched' = {p}
    /\ UNCHANGED <<primary, attemptsRemaining, worker, allWorkerPid,
                   sending, killed, process, channel>>

\* 'online': the health check of the worker starts.
OnOnline(s, p) ==
    /\ primary = "running"
    /\ p \in allWorkerPid[s]
    /\ "online" \in inbox[p]
    /\ inbox' = [inbox EXCEPT ![p] = @ \ {"online"}]
    /\ isOnline' = [isOnline EXCEPT ![s] = TRUE]
    /\ watched' = watched \cup {p}
    /\ UNCHANGED <<primary, attemptsRemaining, worker, allWorkerPid,
                   sending, killed, process, channel>>

\* Only the subscription of the slot's latest worker relays a broadcast;
\* it goes to the worker of every slot marked online, the sender included.
OnBroadcast(s, p) ==
    /\ primary = "running"
    /\ p \in allWorkerPid[s]
    /\ inbox[p] = {"broadcast"}
    /\ inbox' = [inbox EXCEPT ![p] = {}]
    /\ IF p = worker[s]
       THEN primary' \in SendOutcome({worker[t] : t \in {u \in Slots : isOnline[u]}})
       ELSE UNCHANGED primary
    /\ UNCHANGED <<configVars, healthVars, process, channel>>

\* The interval of a health check starts the timer of its next request.
HealthTick(p) ==
    /\ primary = "running"
    /\ p \in watched
    /\ sending' = sending \cup {p}
    /\ UNCHANGED <<primary, configVars, watched, killed, nodeVars>>

\* timer(10) fires; no unsubscribe cancels it.
SendHealthCheck(p) ==
    /\ primary = "running"
    /\ p \in sending
    /\ sending' = sending \ {p}
    /\ primary' \in SendOutcome({p})
    /\ UNCHANGED <<configVars, watched, killed, nodeVars>>

\* Mutant: the audit replaces the worker itself instead of leaving that to the
\* exit event.
KillAndReplace(p) ==
    /\ primary = "running"
    /\ p \in watched
    /\ watched' = watched \ {p}
    /\ killed' = killed \cup {p}
    /\ \E s \in Slots, q \in Pid :
          /\ p = worker[s]
          /\ process[q] = "none"
          /\ worker' = [worker EXCEPT ![s] = q]
          /\ allWorkerPid' = [allWorkerPid EXCEPT ![s] = @ \cup {q}]
          /\ process' = [process EXCEPT ![q] = "booting"]
          /\ channel' = channel \cup {q}
    /\ UNCHANGED <<primary, attemptsRemaining, isOnline, sending, inbox>>

\* The audit of p failed: unsubscribe and SIGTERM.
KillUnhealthy(p) ==
    /\ primary = "running"
    /\ p \in watched
    /\ watched' = watched \ {p}
    /\ killed' = killed \cup {p}
    /\ UNCHANGED <<primary, configVars, sending, nodeVars>>

-----------------------------------------------------------------------------
Next ==
    \E p \in Pid :
        \/ WorkerBoots(p)
        \/ WorkerBroadcasts(p)
        \/ WorkerDies(p)
        \/ ChannelCloses(p)
        \/ HealthTick(p)
        \/ SendHealthCheck(p)
        \/ KillUnhealthy(p)
        \/ \E s \in Slots : OnExit(s, p) \/ OnOnline(s, p) \/ OnBroadcast(s, p)

Spec == Init /\ [][Next]_vars

\* Node delivers the events it has, timers included, and a process that was
\* sent SIGTERM ends: no worker installs a handler for it.
Fairness ==
    \A p \in Pid :
        /\ WF_vars(p \in killed /\ WorkerDies(p))
        /\ WF_vars(\E s \in Slots : OnExit(s, p))
        /\ WF_vars(\E s \in Slots : OnOnline(s, p) \/ OnBroadcast(s, p))
        /\ WF_vars(ChannelCloses(p))
        /\ WF_vars(HealthTick(p))
        /\ WF_vars(SendHealthCheck(p))

FairSpec == Spec /\ Fairness

-----------------------------------------------------------------------------
\* Every variable keeps its type.
TypeOK ==
    /\ primary \in {"running", "exited", "crashed"}
    /\ attemptsRemaining \in [Slots -> 0 .. MaxWorkerAttempts]
    /\ worker \in [Slots -> Pid]
    /\ allWorkerPid \in [Slots -> SUBSET Pid]
    /\ isOnline \in [Slots -> BOOLEAN]
    /\ watched \subseteq Pid
    /\ sending \subseteq Pid
    /\ process \in [Pid -> ProcessState]
    /\ channel \subseteq Pid
    /\ inbox \in [Pid -> SUBSET {"online", "broadcast"}]
    /\ killed \subseteq Pid

\* A slot never has two workers at once, and no two slots share one: startWorker
\* replaces a worker only from that worker's own exit event.
OneWorkerPerSlot ==
    /\ \A s \in Slots : \A p \in allWorkerPid[s] :
          process[p] \in {"booting", "running", "dead"} => p = worker[s]
    /\ \A s, t \in Slots : s # t => allWorkerPid[s] \cap allWorkerPid[t] = {}

\* Whatever the order of exits, restarts and late messages, a slot forks at most
\* 1 + maxWorkerAttempts workers, and the attempts left account for each fork.
AttemptsAccountForForks ==
    \A s \in Slots :
        Cardinality(allWorkerPid[s]) + attemptsRemaining[s] = MaxWorkerAttempts + 1

\* The primary never sits there running with no worker left and no event that
\* would fork one or close it (the return after checkAllWorkerRemainingAttempts).
NeverStranded ==
    primary = "running" => \E s \in Slots : process[worker[s]] # "reaped"

\* closeEvent is raised only when every attempt of every slot is used up and
\* some slot has lost its last worker.
ClosedOnlyWhenExhausted ==
    primary = "exited" =>
        /\ \A s \in Slots : attemptsRemaining[s] = 0
        /\ \E s \in Slots : process[worker[s]] = "reaped"

\* A worker whose 'online' was handled is under a health check until the audit
\* kills it, however many workers its slot went through before.
OnlineWorkersAreWatched ==
    \A p \in Pid :
        process[p] = "running" /\ "online" \notin inbox[p] => p \in watched \cup killed

\* A worker the audit condemned leaves its slot for another one, unless the
\* slot is exhausted or the primary is gone.
CondemnedIsReplaced ==
    \A s \in Slots, p \in Pid :
        p \in killed /\ worker[s] = p
            ~> worker[s] # p \/ attemptsRemaining[s] = 0 \/ primary # "running"

\* When the last worker of an exhausted system dies, the primary stops too.
ExhaustionStopsPrimary ==
    (\A s \in Slots : attemptsRemaining[s] = 0 /\ process[worker[s]] \in {"dead", "reaped"})
        ~> primary # "running"

\* The slots as Supervision sees them: a slot is up until the exit event of its
\* last worker has been handled.
SlotIsUp == [s \in Slots |-> process[worker[s]] # "reaped"]

Abstract == INSTANCE Supervision WITH
    Slots <- Slots, Budget <- MaxWorkerAttempts,
    system <- primary, budget <- attemptsRemaining, up <- SlotIsUp

\* The processes, channels and messages implement the promise about slots.
ImplementsSupervision == Abstract!Spec

-----------------------------------------------------------------------------
\* sendCommandToWorker's catch, and its test "should log errors when send command
\* to worker fails": a send that fails is logged and the primary goes on.  Node
\* does not throw for a closed channel, it emits an 'error' nobody listens to.
FailedSendIsSurvived == primary # "crashed"

\* setupSubscriptions' comment: when a slot gets a new worker, the subscriptions
\* of the previous one that are no longer needed are cleared.  The health check
\* that the previous worker's 'online' started is not.
ReplacedWorkerIsUnsubscribed ==
    [][\A s \in Slots : worker'[s] # worker[s] => worker[s] \notin watched']_vars
=============================================================================
