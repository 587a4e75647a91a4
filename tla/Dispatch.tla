------------------------------ MODULE Dispatch ------------------------------
(***************************************************************************)
(* Dispatch of scan jobs in a deployment of several Hullcheck pods that    *)
(* share one volume (src/pkg/jobs/jobs.go, shutdown in src/main.go).       *)
(*                                                                         *)
(* A request creates a job on one pod.  A job whose request carries        *)
(* credentials is pinned: it goes to that pod's localQueue.  Every other   *)
(* job is published as a file of queueDir, where the workers of all pods   *)
(* compete for it by rename.  Each pod has a persistWorker that applies    *)
(* job.json writes in order, and a graceful shutdown that drains it.       *)
(*                                                                         *)
(* An atomic step is one system call, one channel operation, or one        *)
(* critical section of m.mu.  What a scan does between its start and its   *)
(* end is the subject of other modules.                                    *)
(***************************************************************************)
EXTENDS Integers, Sequences, FiniteSets

CONSTANTS
    Pods,           \* the replicas of the deployment
    Jobs,           \* the scan jobs ever requested
    AdHoc,          \* those whose request carries credentials
    NameOf,         \* createdAt-id, the order of the queue's file names
    MaxConcurrency, \* workers per pod, and the capacity of wake
    LocalCap,       \* capacity of localQueue (500 in the code)
    MaxDrains,      \* bound: graceful shutdowns
    MaxKills,       \* bound: crashes, kills and expired shutdown timeouts
    MaxFaults,      \* bound: failing disk operations
    NoPod, NoJob

ASSUME AdHocAssumption == AdHoc \subseteq Jobs
ASSUME NameAssumption ==
    /\ NameOf \in [Jobs -> Nat]
    /\ \A j, k \in Jobs : NameOf[j] = NameOf[k] => j = k
ASSUME BoundAssumption ==
    /\ MaxConcurrency \in Nat \ {0}
    /\ LocalCap \in Nat \ {0}
    /\ MaxDrains \in Nat /\ MaxKills \in Nat /\ MaxFaults \in Nat
ASSUME NoneAssumption == NoPod \notin Pods /\ NoJob \notin Jobs

VARIABLES
    phase,      \* of each pod: where main's shutdown sequence is
    stage,      \* of each job: how far its CreateJob call is
    handler,    \* the pod whose handler runs, or ran, CreateJob
    queueDir,   \* the entries on the shared queue
    claimedDir, \* the entries renamed into queueDir/claimed
    localQueue, \* of each pod: the channel of pinned jobs
    wake,       \* of each pod: tokens in the wake channel
    pc,         \* of each worker: where its loop is
    snap,       \* of each worker: names claimNext has yet to try
    item,       \* of each worker: the job it holds
    jobs,       \* of each pod: the status of the jobs in m.jobs
    persistCh,  \* of each pod: the job.json writes not applied yet
    jobJSON,    \* of each job: the status in its job.json
    started,    \* history: how often a worker started the job
    result,     \* history: what the scan of the job reported
    drains, kills, faults

callVars   == <<stage, handler>>
diskVars   == <<queueDir, claimedDir, jobJSON>>
workerVars == <<pc, snap, item>>
history    == <<started, result>>
budget     == <<drains, kills, faults>>
memoryVars == <<localQueue, wake, jobs, persistCh>>
vars == <<phase, callVars, diskVars, memoryVars, workerVars, history, budget>>

Workers == Pods \X (1..MaxConcurrency)
Home(w) == w[1]
HomeOf(p) == {w \in Workers : Home(w) = p}

Outcomes == {"completed", "failed"}
Status   == {"queued", "running"} \union Outcomes
Phases   == {"up", "draining", "closed", "flushing", "released", "down"}
Stages   == {"new", "persisted", "registered", "published", "answered", "cut"}
PCs      == {"idle", "scan", "claimed", "gate", "run", "select", "off"}

\* What persistWorker is handed: the status in a snapshot of a job.
Writes   == [job : Jobs, status : Status]

\* CreateJob calls that have begun and not yet returned.
InFlight == {"persisted", "registered", "published"}

\* Phases in which another goroutine holds, or waits for, drainMu's write lock.
GateShut == {"closed", "flushing"}

TypeOK ==
    /\ phase \in [Pods -> Phases]
    /\ stage \in [Jobs -> Stages]
    /\ handler \in [Jobs -> Pods \union {NoPod}]
    /\ queueDir \in SUBSET Jobs
    /\ claimedDir \in SUBSET Jobs
    /\ localQueue \in [Pods -> Seq(Jobs)]
    /\ wake \in [Pods -> 0..MaxConcurrency]
    /\ pc \in [Workers -> PCs]
    /\ snap \in [Workers -> SUBSET Jobs]
    /\ item \in [Workers -> Jobs \union {NoJob}]
    /\ jobs \in [Pods -> [Jobs -> Status \union {"absent"}]]
    /\ persistCh \in [Pods -> Seq(Writes)]
    /\ jobJSON \in [Jobs -> Status \union {"none"}]
    /\ started \in [Jobs -> Nat]
    /\ result \in [Jobs -> Outcomes \union {"none"}]
    /\ drains \in 0..MaxDrains
    /\ kills \in 0..MaxKills
    /\ faults \in 0..MaxFaults

Init ==
    /\ phase = [p \in Pods |-> "up"]
    /\ stage = [j \in Jobs |-> "new"]
    /\ handler = [j \in Jobs |-> NoPod]
    /\ queueDir = {}
    /\ claimedDir = {}
    /\ localQueue = [p \in Pods |-> <<>>]
    /\ wake = [p \in Pods |-> 0]
    /\ pc = [w \in Workers |-> "idle"]
    /\ snap = [w \in Workers |-> {}]
    /\ item = [w \in Workers |-> NoJob]
    /\ jobs = [p \in Pods |-> [j \in Jobs |-> "absent"]]
    /\ persistCh = [p \in Pods |-> <<>>]
    /\ jobJSON = [j \in Jobs |-> "none"]
    /\ started = [j \in Jobs |-> 0]
    /\ result = [j \in Jobs |-> "none"]
    /\ drains = 0 /\ kills = 0 /\ faults = 0

-----------------------------------------------------------------------------
(* CreateJob, run by a request handler of pod p.                           *)

\* A system call fails: the code logs it and goes on.
Fault ==
    /\ faults < MaxFaults
    /\ faults' = faults + 1
    /\ UNCHANGED <<drains, kills>>

\* The synchronous first write of job.json; an error is only logged.
PersistJobSync(p, j) ==
    /\ phase[p] \in {"up", "draining"}
    /\ stage[j] = "new"
    /\ stage' = [stage EXCEPT ![j] = "persisted"]
    /\ handler' = [handler EXCEPT ![j] = p]
    /\ \/ jobJSON' = [jobJSON EXCEPT ![j] = "queued"] /\ UNCHANGED budget
       \/ Fault /\ UNCHANGED jobJSON
    /\ UNCHANGED <<phase, queueDir, claimedDir, localQueue, wake, workerVars,
                   jobs, persistCh, history>>

\* Mutant of HasAdHocCredentials: the request's credentials are not looked at.
NoCredentials(j) == FALSE

HasAdHocCredentials(j) == j \in AdHoc

\* Credentials in the request: the job enters this pod's m.jobs ...
RegisterPinned(j) ==
    /\ stage[j] = "persisted" /\ HasAdHocCredentials(j)
    /\ stage' = [stage EXCEPT ![j] = "registered"]
    /\ jobs' = [jobs EXCEPT ![handler[j]][j] = "queued"]
    /\ UNCHANGED <<phase, handler, diskVars, localQueue, wake, workerVars,
                   persistCh, history, budget>>

\* ... and then its localQueue; the send blocks while the channel is full.
SendLocal(j) ==
    /\ stage[j] = "registered"
    /\ Len(localQueue[handler[j]]) < LocalCap
    /\ localQueue' = [localQueue EXCEPT ![handler[j]] = Append(@, j)]
    /\ stage' = [stage EXCEPT ![j] = "answered"]
    /\ UNCHANGED <<phase, handler, diskVars, wake, workerVars, jobs,
                   persistCh, history, budget>>

\* enqueueShared up to the rename.  If the write or the rename fails the call
\* returns without a nudge, and CreateJob returns the job all the same.
PublishShared(j) ==
    /\ stage[j] = "persisted" /\ ~ HasAdHocCredentials(j)
    /\ \/ /\ queueDir' = queueDir \union {j}
          /\ stage' = [stage EXCEPT ![j] = "published"]
          /\ UNCHANGED budget
       \/ /\ Fault
          /\ stage' = [stage EXCEPT ![j] = "answered"]
          /\ UNCHANGED queueDir
    /\ UNCHANGED <<phase, handler, claimedDir, jobJSON, localQueue, wake,
                   workerVars, jobs, persistCh, history>>

\* Mutant of WakeAfterSend: the token is counted even when the channel is full.
WakeUnbounded(p) == wake[p] + 1

\* Mutant of WakeAfterSend: an unbuffered channel, heard by waiting workers only.
WakeUnbuffered(p) == Cardinality({w \in HomeOf(p) : pc[w] = "select"})

WakeAfterSend(p) == IF wake[p] < MaxConcurrency THEN wake[p] + 1 ELSE wake[p]

\* enqueueShared's last step: a send on wake that never blocks.
Nudge(j) ==
    /\ stage[j] = "published"
    /\ stage' = [stage EXCEPT ![j] = "answered"]
    /\ wake' = [wake EXCEPT ![handler[j]] = WakeAfterSend(handler[j])]
    /\ UNCHANGED <<phase, handler, diskVars, localQueue, workerVars, jobs,
                   persistCh, history, budget>>

-----------------------------------------------------------------------------
(* A worker of workerPool.                                                 *)

\* Both selects of the loop receive a pinned job when there is one.
TakeLocal(w) ==
    /\ pc[w] \in {"idle", "select"}
    /\ localQueue[Home(w)] # <<>>
    /\ item' = [item EXCEPT ![w] = Head(localQueue[Home(w)])]
    /\ localQueue' = [localQueue EXCEPT ![Home(w)] = Tail(@)]
    /\ pc' = [pc EXCEPT ![w] = "gate"]
    /\ UNCHANGED <<phase, callVars, diskVars, wake, snap, jobs,
                   persistCh, history, budget>>

\* claimNext lists queueDir; if that fails it has nothing to offer.
ReadDir(w) ==
    /\ pc[w] = "idle"
    /\ localQueue[Home(w)] = <<>>
    /\ pc' = [pc EXCEPT ![w] = "scan"]
    /\ \/ snap' = [snap EXCEPT ![w] = queueDir] /\ UNCHANGED budget
       \/ snap' = [snap EXCEPT ![w] = {}] /\ Fault
    /\ UNCHANGED <<phase, callVars, diskVars, localQueue, wake, item,
                   jobs, persistCh, history>>

Oldest(S) == {j \in S : \A k \in S : NameOf[j] <= NameOf[k]}

\* Mutant of RenameWins: the entry is opened, which also succeeds for the loser
\* of a race.
OpenWins(j) == TRUE

\* rename(2) finds the entry.
RenameWins(j) == j \in queueDir

\* Mutant of QueueAfterClaim: the claim copies the entry.
QueueAfterCopy(w, j) == queueDir

\* Mutant of QueueAfterClaim: every listed entry is moved away.
QueueAfterSweep(w, j) == queueDir \ snap[w]

QueueAfterClaim(w, j) == queueDir \ {j}

\* claimNext renames the oldest name left into queueDir/claimed.
Claim(w) ==
    /\ pc[w] = "scan"
    /\ \E j \in Oldest(snap[w]) :
         /\ RenameWins(j)
         /\ queueDir' = QueueAfterClaim(w, j)
         /\ claimedDir' = claimedDir \union {j}
         /\ item' = [item EXCEPT ![w] = j]
         /\ snap' = [snap EXCEPT ![w] = @ \ {j}]
    /\ pc' = [pc EXCEPT ![w] = "claimed"]
    /\ UNCHANGED <<phase, stage, handler, jobJSON, localQueue, wake, jobs,
                   persistCh, history, budget>>

\* The rename fails: another worker won the entry, or the volume failed.
LoseClaim(w) ==
    /\ pc[w] = "scan"
    /\ \E j \in Oldest(snap[w]) :
         /\ snap' = [snap EXCEPT ![w] = @ \ {j}]
         /\ IF RenameWins(j) THEN Fault ELSE UNCHANGED budget
    /\ UNCHANGED <<phase, callVars, diskVars, localQueue, wake, pc, item,
                   jobs, persistCh, history>>

\* No name left: claimNext returns false.
NothingToClaim(w) ==
    /\ pc[w] = "scan"
    /\ snap[w] = {}
    /\ pc' = [pc EXCEPT ![w] = "select"]
    /\ UNCHANGED <<phase, callVars, diskVars, localQueue, wake, snap,
                   item, jobs, persistCh, history, budget>>

\* claimNext reads the claimed file and removes it, also when the read failed:
\* then it tries the next name.
ReadClaim(w) ==
    /\ pc[w] = "claimed"
    /\ claimedDir' = claimedDir \ {item[w]}
    /\ \/ /\ pc' = [pc EXCEPT ![w] = "gate"]
          /\ snap' = [snap EXCEPT ![w] = {}]
          /\ UNCHANGED <<item, budget>>
       \/ /\ Fault
          /\ pc' = [pc EXCEPT ![w] = "scan"]
          /\ item' = [item EXCEPT ![w] = NoJob]
          /\ UNCHANGED snap
    /\ UNCHANGED <<phase, stage, handler, queueDir, jobJSON, localQueue, wake,
                   jobs, persistCh, history>>

\* Mutant of EnqueuePersist: the newest write goes first.
EnqueueFirst(p, j, s) ==
    persistCh' = [persistCh EXCEPT ![p] = <<[job |-> j, status |-> s]>> \o @]

\* persistJob: snapshot the status and append the write, m.mu held.
EnqueuePersist(p, j, s) ==
    persistCh' = [persistCh EXCEPT ![p] = Append(@, [job |-> j, status |-> s])]

\* The job is in m.jobs, or readFullJob finds its job.json.
JobKnown(p, j) == jobs[p][j] # "absent" \/ jobJSON[j] # "none"

\* runQueued takes drainMu for reading and executeJob starts the scan.  A job
\* that is not in m.jobs is adopted from its job.json.
Start(w) ==
    LET p == Home(w)
        j == item[w]
    IN /\ pc[w] = "gate"
       /\ phase[p] \notin GateShut
       /\ JobKnown(p, j)
       /\ jobs' = [jobs EXCEPT ![p][j] = "running"]
       /\ EnqueuePersist(p, j, "running")
       /\ started' = [started EXCEPT ![j] = @ + 1]
       /\ pc' = [pc EXCEPT ![w] = "run"]
       /\ UNCHANGED <<phase, callVars, diskVars, localQueue, wake, snap,
                      item, result, budget>>

\* The job is not in m.jobs and readFullJob returns nil: there is no job.json,
\* or it cannot be read or parsed.  executeJob gives up on the job.
Skip(w) ==
    /\ pc[w] = "gate"
    /\ phase[Home(w)] \notin GateShut
    /\ jobs[Home(w)][item[w]] = "absent"
    /\ IF jobJSON[item[w]] = "none" THEN UNCHANGED budget ELSE Fault
    /\ pc' = [pc EXCEPT ![w] = "idle"]
    /\ item' = [item EXCEPT ![w] = NoJob]
    /\ UNCHANGED <<phase, callVars, diskVars, localQueue, wake, snap,
                   jobs, persistCh, history>>

\* Mutant of FinalStatus: the error a scan recorded is not looked at.
ErrorIgnored(failed) == "completed"

FinalStatus(failed) == IF failed THEN "failed" ELSE "completed"

\* The runner returns, with or without having called SetError, or it panics and
\* executeJobSafely recovers; then drainMu is released.
Finish(w, failed) ==
    LET p == Home(w)
        j == item[w]
    IN /\ pc[w] = "run"
       /\ jobs' = [jobs EXCEPT ![p][j] = FinalStatus(failed)]
       /\ EnqueuePersist(p, j, FinalStatus(failed))
       /\ result' = [result EXCEPT ![j] = IF failed THEN "failed" ELSE "completed"]
       /\ pc' = [pc EXCEPT ![w] = "idle"]
       /\ item' = [item EXCEPT ![w] = NoJob]
       /\ UNCHANGED <<phase, callVars, diskVars, localQueue, wake, snap,
                      started, budget>>

\* The blocking select: a token on wake, or the poll tick.
Woken(w) ==
    /\ pc[w] = "select"
    /\ wake[Home(w)] > 0
    /\ wake' = [wake EXCEPT ![Home(w)] = @ - 1]
    /\ pc' = [pc EXCEPT ![w] = "idle"]
    /\ UNCHANGED <<phase, callVars, diskVars, localQueue, snap, item,
                   jobs, persistCh, history, budget>>

\* Mutant of Tick: the tick ends only the wait, not the select around it.
TickIgnored(w) == pc[w] = "select" /\ UNCHANGED vars

Tick(w) ==
    /\ pc[w] = "select"
    /\ pc' = [pc EXCEPT ![w] = "idle"]
    /\ UNCHANGED <<phase, callVars, diskVars, localQueue, wake, snap,
                   item, jobs, persistCh, history, budget>>

-----------------------------------------------------------------------------
(* The pod: its persistWorker, its shutdown, and its end.                  *)

\* persistWorker applies the oldest write; an error is only logged.
Persist(p) ==
    /\ persistCh[p] # <<>>
    /\ persistCh' = [persistCh EXCEPT ![p] = Tail(@)]
    /\ LET write == Head(persistCh[p])
       IN \/ /\ jobJSON' = [jobJSON EXCEPT ![write.job] = write.status]
             /\ UNCHANGED budget
          \/ Fault /\ UNCHANGED jobJSON
    /\ UNCHANGED <<phase, stage, handler, queueDir, claimedDir, localQueue,
                   wake, workerVars, jobs, history>>

Become(p, from, to) ==
    /\ phase[p] = from
    /\ phase' = [phase EXCEPT ![p] = to]

\* SIGTERM: readyz fails, requests are still served for drainDelay.
Drain(p) ==
    /\ Become(p, "up", "draining")
    /\ drains < MaxDrains
    /\ drains' = drains + 1
    /\ UNCHANGED <<callVars, diskVars, memoryVars, workerVars, history, kills, faults>>

\* Shutdown returns once no handler runs, and WaitIdle's goroutine asks for
\* drainMu's write lock: from here on no RLock succeeds.
CloseListener(p) ==
    /\ Become(p, "draining", "closed")
    /\ \A j \in Jobs : handler[j] = p => stage[j] \notin InFlight
    /\ UNCHANGED <<callVars, diskVars, memoryVars, workerVars, history, budget>>

\* The write lock is granted once every running scan has released its RLock.
AcquireDrain(p) ==
    /\ Become(p, "closed", "flushing")
    /\ \A w \in HomeOf(p) : pc[w] # "run"
    /\ UNCHANGED <<callVars, diskVars, memoryVars, workerVars, history, budget>>

\* Mutant of Drained: the writes still queued are not waited for.
NotDrained(p) == TRUE

\* drainPersist's sentinel has run: every write enqueued before it has too.
Drained(p) == persistCh[p] = <<>>

\* drainPersist returns and WaitIdle's goroutine unlocks drainMu; WaitIdle itself
\* has not returned yet.
ReleaseDrain(p) ==
    /\ Become(p, "flushing", "released")
    /\ Drained(p)
    /\ UNCHANGED <<callVars, diskVars, memoryVars, workerVars, history, budget>>

\* The process ends: all that is left is on the volume.
Stop(p) ==
    /\ phase' = [phase EXCEPT ![p] = "down"]
    /\ stage' = [j \in Jobs |-> IF handler[j] = p /\ stage[j] \in InFlight
                                THEN "cut" ELSE stage[j]]
    /\ localQueue' = [localQueue EXCEPT ![p] = <<>>]
    /\ wake' = [wake EXCEPT ![p] = 0]
    /\ pc' = [w \in Workers |-> IF Home(w) = p THEN "off" ELSE pc[w]]
    /\ snap' = [w \in Workers |-> IF Home(w) = p THEN {} ELSE snap[w]]
    /\ item' = [w \in Workers |-> IF Home(w) = p THEN NoJob ELSE item[w]]
    /\ jobs' = [jobs EXCEPT ![p] = [j \in Jobs |-> "absent"]]
    /\ persistCh' = [persistCh EXCEPT ![p] = <<>>]
    /\ UNCHANGED <<handler, diskVars, history>>

\* WaitIdle returns and main ends.
Exit(p) ==
    /\ phase[p] = "released"
    /\ Stop(p)
    /\ UNCHANGED budget

\* The pod is killed: a crash, an OOM kill, or a shutdownTimeout that expired.
Crash(p) ==
    /\ phase[p] # "down"
    /\ kills < MaxKills
    /\ Stop(p)
    /\ kills' = kills + 1
    /\ UNCHANGED <<drains, faults>>

\* A new process starts on the same volume.
Boot(p) ==
    /\ Become(p, "down", "up")
    /\ pc' = [w \in Workers |-> IF Home(w) = p THEN "idle" ELSE pc[w]]
    /\ UNCHANGED <<callVars, diskVars, localQueue, wake, snap, item, jobs,
                   persistCh, history, budget>>

-----------------------------------------------------------------------------
CreateStep(j) ==
    RegisterPinned(j) \/ SendLocal(j) \/ PublishShared(j) \/ Nudge(j)

\* Every step of a worker but the poll tick.
WorkerStep(w) ==
    \/ TakeLocal(w) \/ ReadDir(w) \/ Claim(w) \/ LoseClaim(w)
    \/ NothingToClaim(w) \/ ReadClaim(w) \/ Start(w) \/ Skip(w) \/ Woken(w)
    \/ \E failed \in BOOLEAN : Finish(w, failed)

ShutdownStep(p) == CloseListener(p) \/ AcquireDrain(p) \/ ReleaseDrain(p) \/ Exit(p)

Next ==
    \/ \E j \in Jobs : CreateStep(j) \/ \E p \in Pods : PersistJobSync(p, j)
    \/ \E w \in Workers : WorkerStep(w) \/ Tick(w)
    \/ \E p \in Pods : Persist(p) \/ ShutdownStep(p) \/ Boot(p)
                       \/ Drain(p) \/ Crash(p)

Spec == Init /\ [][Next]_vars

\* The scheduler runs every goroutine, and a runner returns: each tool it waits
\* for has a timeout.  Nothing is assumed of Boot: a pod may stay down.
Scheduling ==
    /\ \A j \in Jobs : WF_vars(CreateStep(j))
    /\ \A w \in Workers : WF_vars(WorkerStep(w))
    /\ \A p \in Pods : WF_vars(Persist(p)) /\ WF_vars(ShutdownStep(p))

\* time.Ticker fires again and again.
Polling == \A w \in Workers : WF_vars(Tick(w))

FairSpec == Spec /\ Scheduling

-----------------------------------------------------------------------------
(* Where a job is.                                                         *)

Holders(j) == {w \in Workers : item[w] = j}

InLocalQueue(j) ==
    \E p \in Pods : \E i \in DOMAIN localQueue[p] : localQueue[p][i] = j

\* No worker has the job, and none ever had it long enough to start it.
Untouched(j) == started[j] = 0 /\ \A w \in Workers : item[w] # j

\* Nothing will ever run the job, which its client was told is queued.
Lost(j) ==
    /\ stage[j] \in {"published", "answered"}
    /\ started[j] = 0
    /\ j \notin queueDir
    /\ Holders(j) = {}
    /\ ~ InLocalQueue(j)

-----------------------------------------------------------------------------
(* Safety.                                                                 *)

\* No job is scanned twice, whatever pods crash, restart or race for its
\* entry: claimNext's rename and localQueue hand it to one worker.
AtMostOnce == \A j \in Jobs : started[j] <= 1

\* A job has one owner: no two workers hold it, and what waits in a queue waits
\* once, in one queue, and neither was started nor is held by anybody.
OneOwner ==
    /\ \A v, w \in Workers : item[v] = item[w] /\ item[v] # NoJob => v = w
    /\ \A j \in queueDir : Untouched(j) /\ ~ InLocalQueue(j)
    /\ \A p, q \in Pods : \A a \in DOMAIN localQueue[p], b \in DOMAIN localQueue[q] :
          /\ Untouched(localQueue[p][a])
          /\ localQueue[p][a] = localQueue[q][b] => p = q /\ a = b

\* A worker holds a job exactly from its claim to the end of its scan.
HoldsWhileBusy ==
    \A w \in Workers : item[w] # NoJob <=> pc[w] \in {"claimed", "gate", "run"}

\* No worker of a pod that is down takes a step.
DownIsOff == \A w \in Workers : phase[Home(w)] = "down" => pc[w] = "off"

\* Until a worker has passed the gate the job it holds was started by nobody.
NotStartedAtGate ==
    \A w \in Workers : pc[w] \in {"claimed", "gate"} => started[item[w]] = 0

\* A CreateJob call that has begun runs on some pod.
CallHasHandler == \A j \in Jobs : stage[j] # "new" => handler[j] \in Pods

\* A job whose CreateJob has not handed it over is nowhere to be taken from.
NotHandedOver ==
    \A j \in Jobs :
        stage[j] \in {"new", "persisted", "registered"} =>
            Untouched(j) /\ j \notin queueDir /\ ~ InLocalQueue(j)

\* A job with credentials is only ever known to the pod that received them:
\* it is never published, and no other pod's worker holds it.
PinnedStaysHome ==
    \A j \in AdHoc :
        /\ j \notin queueDir \union claimedDir
        /\ \A p \in Pods :
              \/ jobs[p][j] # "absent"
              \/ \E i \in DOMAIN localQueue[p] : localQueue[p][i] = j
              => p = handler[j]
        /\ \A w \in Holders(j) : Home(w) = handler[j]

\* job.json, and every write still waiting for a persistWorker, only ever tells
\* an outcome the scan itself reported, also after write errors and restarts.
HonestLedger ==
    /\ \A j \in Jobs : jobJSON[j] \in Outcomes => jobJSON[j] = result[j]
    /\ \A p \in Pods : \A i \in DOMAIN persistCh[p] :
          LET write == persistCh[p][i]
          IN write.status \in Outcomes => write.status = result[write.job]

\* One failure costs at most the entries the failed pod's own workers had
\* claimed, one per worker; a failed disk operation costs one job.
LossBound ==
    Cardinality({j \in Jobs \ AdHoc : Lost(j)})
        <= MaxConcurrency * (kills + drains) + faults

Rank == [none |-> 0, queued |-> 1, running |-> 2, completed |-> 3, failed |-> 3]

\* A job.json never goes back: no late or reordered write of any pod undoes a
\* status another reader may have seen.
LedgerOnlyAdvances ==
    [][\A j \in Jobs : jobJSON'[j] # jobJSON[j] => Rank[jobJSON'[j]] > Rank[jobJSON[j]]]_vars

\* When WaitIdle gives drainMu back, no scan of the pod is under way and the
\* volume says of each of its jobs what its memory says.
DrainKeepsResults ==
    [][\A p \in Pods :
         phase[p] = "flushing" /\ phase'[p] = "released" =>
           /\ \A w \in HomeOf(p) : pc[w] # "run"
           /\ \A j \in Jobs : jobs[p][j] \in {"absent", jobJSON[j]}]_vars

\* Said of the graceful shutdown by README.md:257-262: a scaling event orphans
\* at most queued jobs that are pinned to the pod.  Refuted, see the README.
OnlyPinnedOrphaned == \A j \in Jobs \ AdHoc : ~ Lost(j)

-----------------------------------------------------------------------------
(* Liveness.                                                               *)

NoFailure == [](drains = 0 /\ kills = 0 /\ faults = 0)

\* Without failures and shutdowns every accepted scan ends, and its outcome
\* reaches the volume, where every pod can read it.  The nudge alone does it:
\* however a publication falls between a worker's listing and its wait, no
\* wake-up is lost.
EveryScanEnds ==
    NoFailure =>
        \A j \in Jobs :
            stage[j] = "persisted" ~> result[j] # "none" /\ jobJSON[j] = result[j]

\* No entry is left behind by the pod that published it: when that pod dies, even
\* before it nudged anyone and for good, the poll tick of the others finds it.
EntriesAreClaimed == Polling => \A j \in Jobs : j \in queueDir ~> j \notin queueDir

-----------------------------------------------------------------------------
(* Refinement: the dispatch is an at-most-once queue with a ledger.        *)

Waiting(j) ==
    \/ stage[j] \in {"persisted", "registered"}
    \/ j \in queueDir
    \/ InLocalQueue(j)
    \/ \E w \in Holders(j) : pc[w] \in {"claimed", "gate"}

QueueState(j) ==
    CASE stage[j] = "new" -> "new"
      [] result[j] # "none" -> result[j]
      [] \E w \in Holders(j) : pc[w] = "run" -> "running"
      [] Waiting(j) -> "waiting"
      [] OTHER -> "lost"

Queue == INSTANCE AtMostOnceQueue
           WITH state <- [j \in Jobs |-> QueueState(j)], ledger <- jobJSON

\* Crashes, shutdowns, races and write errors included, what a client can see
\* of a job is a behaviour of the at-most-once queue.
ImplementsQueue == Queue!QSpec
=============================================================================
