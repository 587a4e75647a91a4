------------------------ MODULE DispatchQueueProofs ------------------------
(***************************************************************************)
(* Dispatch implements AtMostOnceQueue: whatever the pods, their workers   *)
(* and the volume do, a client sees a job wait, run at most once, and end  *)
(* or be lost, while its job.json follows.  How many jobs that costs is    *)
(* counted at the end.                                                     *)
(***************************************************************************)
EXTENDS DispatchLedgerProofs, FiniteSetTheorems

Running(j) == \E w \in Holders(j) : pc[w] = "run"

\* The cases of QueueState exclude each other.
StatesFit ==
    \A j \in Jobs :
        /\ stage[j] = "new" => QueueState(j) = "new"
        /\ result[j] # "none" => QueueState(j) = result[j]
        /\ Running(j) => QueueState(j) = "running"
        /\ Waiting(j) => QueueState(j) = "waiting"
        /\ (stage[j] # "new" /\ result[j] = "none" /\ ~ Running(j) /\ ~ Waiting(j))
              => QueueState(j) = "lost"

LEMMA Cases ==
    ASSUME IInv, Ledgers
    PROVE  StatesFit
<1> SUFFICES ASSUME NEW j \in Jobs
             PROVE  /\ stage[j] = "new" => QueueState(j) = "new"
                    /\ result[j] # "none" => QueueState(j) = result[j]
                    /\ Running(j) => QueueState(j) = "running"
                    /\ Waiting(j) => QueueState(j) = "waiting"
                    /\ (stage[j] # "new" /\ result[j] = "none" /\ ~ Running(j) /\ ~ Waiting(j))
                          => QueueState(j) = "lost"
  BY DEF StatesFit
<1>1. stage[j] = "new" => started[j] = 0 /\ Holders(j) = {} /\ ~ Waiting(j)
  BY DEF IInv, Ownership, NotHandedOver, Untouched, Holders, Waiting
<1>2. started[j] = 0 => result[j] = "none"
  BY DEF Ledgers, OpenScans
<1>3. Running(j) => result[j] = "none" /\ started[j] > 0
  BY DEF Running, Holders, Ledgers, OpenScans
<1>4. Waiting(j) => started[j] = 0
  BY DEF Waiting, Holders, InLocalQueue, IInv, Ownership, OneOwner, NotHandedOver,
         NotStartedAtGate, Untouched
<1>5. /\ stage[j] = "new" => result[j] = "none" /\ ~ Running(j) /\ ~ Waiting(j)
      /\ result[j] # "none" => stage[j] # "new" /\ ~ Running(j) /\ ~ Waiting(j)
      /\ Running(j) => stage[j] # "new" /\ result[j] = "none" /\ ~ Waiting(j)
      /\ Waiting(j) => stage[j] # "new" /\ result[j] = "none" /\ ~ Running(j)
  <2>1. started[j] \in Nat
    BY DEF IInv, TypeInv, TypeOK
  <2>2. stage[j] = "new" => ~ Running(j)
    BY <1>1 DEF Running
  <2> QED BY <1>1, <1>2, <1>3, <1>4, <2>1, <2>2
<1> QED BY <1>5 DEF QueueState, Running

-----------------------------------------------------------------------------
(* Steps of the abstract queue.                                             *)

\* One job changes its state.
LEMMA OneMoves ==
    ASSUME NEW j \in Jobs, NEW s, QueueState(j)' = s,
           \A k \in Jobs \ {j} : QueueState(k)' = QueueState(k)
    PROVE  [k \in Jobs |-> QueueState(k)]' = [[k \in Jobs |-> QueueState(k)] EXCEPT ![j] = s]
OBVIOUS

LEMMA StaysThere ==
    ASSUME StatesFit, StatesFit', NEW j \in Jobs,
           stage'[j] = "new" <=> stage[j] = "new", result'[j] = result[j],
           Running(j)' <=> Running(j), Waiting(j)' <=> Waiting(j)
    PROVE  QueueState(j)' = QueueState(j)
BY DEF StatesFit

\* A step after which no job waits or runs that did not before either loses some
\* of them or changes nothing that a client can see.
LEMMA SomeAreLost ==
    ASSUME StatesFit, StatesFit', UNCHANGED <<jobJSON, result>>,
           \A j \in Jobs : /\ stage'[j] = "new" <=> stage[j] = "new"
                           /\ Waiting(j)' => Waiting(j)
                           /\ Running(j)' => Running(j)
    PROVE  [Queue!QNext]_Queue!qvars
<1> DEFINE S == {j \in Jobs : QueueState(j)' # QueueState(j)}
<1>1. ASSUME NEW j \in S
      PROVE  QueueState(j) \in {"waiting", "running"} /\ QueueState(j)' = "lost"
  <2>1. CASE stage[j] = "new" \/ result[j] # "none"
    BY <2>1 DEF StatesFit
  <2>2. CASE stage[j] # "new" /\ result[j] = "none"
    BY <2>2 DEF StatesFit
  <2> QED BY <2>1, <2>2
<1>2. CASE S = {}
  BY <1>2 DEF Queue!qvars
<1>3. CASE S # {}
  <2>1. Queue!Lose(S)
    BY <1>1 DEF Queue!Lose
  <2>2. S \subseteq Jobs
    OBVIOUS
  <2> HIDE DEF S
  <2>3. S \in (SUBSET Jobs) \ {{}}
    BY <1>3, <2>2
  <2> QED BY <2>1, <2>3 DEF Queue!QNext
<1> QED BY <1>2, <1>3

\* PersistJobSync: the job is accepted.
LEMMA QueueSubmit ==
    ASSUME IInv, StatesFit, StatesFit', NEW p \in Pods, NEW j \in Jobs, PersistJobSync(p, j)
    PROVE  Queue!QNext
<1>1. /\ UNCHANGED <<queueDir, localQueue, item, pc, result>>
      /\ stage[j] = "new" /\ stage'[j] = "persisted"
      /\ \A k \in Jobs \ {j} : stage'[k] = stage[k]
      /\ jobJSON' = [jobJSON EXCEPT ![j] = "queued"] \/ UNCHANGED jobJSON
  BY DEF PersistJobSync, workerVars, history, IInv, TypeInv, TypeOK
<1>2. QueueState(j) = "new" /\ QueueState(j)' = "waiting"
  BY <1>1 DEF StatesFit, Waiting
<1>3. \A k \in Jobs \ {j} : QueueState(k)' = QueueState(k)
  BY <1>1, StaysThere DEF Running, Waiting, Holders, InLocalQueue
<1>4. Queue!Submit(j)
  BY <1>1, <1>2, <1>3, OneMoves DEF Queue!Submit
<1> QED BY <1>4 DEF Queue!QNext

\* Start: the job's one run begins.
LEMMA QueueBegin ==
    ASSUME IInv, StatesFit, StatesFit', NEW w \in Workers, Start(w)
    PROVE  Queue!QNext
<1> DEFINE j == item[w]
<1>1. /\ UNCHANGED <<queueDir, localQueue, item, stage, result, jobJSON>> /\ j \in Jobs
      /\ pc[w] = "gate" /\ pc'[w] = "run" /\ \A v \in Workers \ {w} : pc'[v] = pc[v]
  BY DEF Start, callVars, diskVars, IInv, TypeInv, TypeOK, HoldsWhileBusy
<1>2. Waiting(j) /\ Running(j)'
  BY <1>1 DEF Waiting, Running, Holders
<1>3. QueueState(j) = "waiting" /\ QueueState(j)' = "running"
  BY <1>1, <1>2 DEF StatesFit
<1>4. \A k \in Jobs \ {j} : QueueState(k)' = QueueState(k)
  BY <1>1, StaysThere DEF Running, Waiting, Holders, InLocalQueue
<1>5. Queue!Begin(j)
  BY <1>1, <1>3, <1>4, OneMoves DEF Queue!Begin
<1> QED BY <1>1, <1>5 DEF Queue!QNext

\* Finish: the run ends as its runner reports.
LEMMA QueueEnd ==
    ASSUME IInv, StatesFit, StatesFit', NEW w \in Workers, NEW failed \in BOOLEAN,
           Finish(w, failed)
    PROVE  Queue!QNext
<1>0. PICK j \in Jobs : j = item[w]
  BY DEF Finish, IInv, TypeInv, TypeOK, HoldsWhileBusy
<1>1. /\ UNCHANGED <<queueDir, localQueue, stage, jobJSON>> /\ pc[w] = "run"
      /\ \A v \in Workers \ {w} : pc'[v] = pc[v] /\ item'[v] = item[v]
      /\ item'[w] = NoJob /\ pc'[w] = "idle"
  BY DEF Finish, callVars, diskVars, IInv, TypeInv, TypeOK
<1>2. PICK s \in Outcomes : result'[j] = s /\ \A k \in Jobs \ {j} : result'[k] = result[k]
  BY <1>0 DEF Finish, Outcomes, IInv, TypeInv, TypeOK
<1>3. QueueState(j) = "running" /\ QueueState(j)' = s
  <2>1. Running(j)
    BY <1>0, <1>1 DEF Running, Holders
  <2> QED BY <1>1, <1>2, <2>1 DEF StatesFit, Outcomes
<1>4. ASSUME NEW k \in Jobs \ {j}
      PROVE  QueueState(k)' = QueueState(k)
  <2>1. Holders(k)' = Holders(k) /\ w \notin Holders(k)
    BY <1>0, <1>1, NoneAssumption DEF Holders
  <2>2. (Running(k)' <=> Running(k)) /\ (Waiting(k)' <=> Waiting(k))
    BY <1>1, <2>1 DEF Running, Waiting, Holders, InLocalQueue
  <2> QED BY <1>1, <1>2, <2>2, StaysThere
<1>5. s \in Queue!Ends /\ Queue!End(j, s)
  BY <1>1, <1>2, <1>3, <1>4, OneMoves DEF Queue!End, Queue!Ends, Outcomes
<1> QED BY <1>1, <1>5 DEF Queue!QNext

\* Persist: job.json catches up with the run.
LEMMA QueueRecord ==
    ASSUME IInv, Ledgers, StatesFit, StatesFit', NEW p \in Pods, Persist(p)
    PROVE  [Queue!QNext]_Queue!qvars
<1> DEFINE e == persistCh[p][1]
           j == e.job
           s == e.status
<1>1. /\ UNCHANGED <<queueDir, localQueue, item, pc, stage, result>>
      /\ 1 \in DOMAIN persistCh[p] /\ j \in Jobs /\ s \in Status
      /\ jobJSON' = [jobJSON EXCEPT ![j] = s] \/ jobJSON' = jobJSON
  BY DequeueAt, WriteTypes DEF Persist, workerVars, history, IInv
<1>2. [k \in Jobs |-> QueueState(k)]' = [k \in Jobs |-> QueueState(k)]
  <2>1. \A k \in Jobs : QueueState(k)' = QueueState(k)
    BY <1>1, StaysThere DEF Running, Waiting, Holders, InLocalQueue
  <2> QED BY <2>1
<1>3. CASE jobJSON' = jobJSON
  BY <1>2, <1>3 DEF Queue!qvars
<1>4. CASE jobJSON' = [jobJSON EXCEPT ![j] = s] /\ s # jobJSON[j]
  <2>1. /\ s # "queued"
        /\ result[j] = "none" => \E w \in HomeOf(p) : item[w] = j /\ pc[w] = "run"
    BY <1>1 DEF Ledgers, WritesTellScans
  <2>2. /\ jobJSON[j] \in Status \union {"none"} /\ result[j] \in Outcomes \union {"none"}
    BY <1>1 DEF IInv, TypeInv, TypeOK
  <2>3. result[j] = "none" => Running(j)
    BY <2>1 DEF Running, Holders, HomeOf
  <2>4. QueueState(j) \in {"running"} \union Outcomes
    BY <1>1, <2>2, <2>3 DEF StatesFit
  <2>5. CASE s = "running"
    <3>1. jobJSON[j] \in {"none", "queued"}
      BY <1>1, <1>4, <2>2, <2>5 DEF Ledgers, StartBeforeEnd, Status, Outcomes
    <3>2. Queue!Record(j, s)
      BY <1>1, <1>2, <1>4, <2>4, <2>5, <3>1 DEF Queue!Record, Queue!Ends, Outcomes
    <3> QED BY <1>1, <2>5, <3>2 DEF Queue!QNext, Queue!Ledger
  <2>6. CASE s \in Outcomes
    <3>1. s = result[j] /\ jobJSON[j] \notin Outcomes
      BY <1>1, <1>4, <2>6 DEF Ledgers, HonestLedger
    <3>2. QueueState(j) = s
      BY <1>1, <2>6, <3>1 DEF StatesFit, Outcomes
    <3>3. Queue!Record(j, s)
      BY <1>1, <1>2, <1>4, <2>6, <3>1, <3>2 DEF Queue!Record, Queue!Ends, Outcomes
    <3> QED BY <1>1, <2>6, <3>3 DEF Queue!QNext, Queue!Ledger, Queue!Ends, Outcomes
  <2> QED BY <1>1, <2>1, <2>5, <2>6 DEF Status
<1> QED BY <1>1, <1>3, <1>4 DEF IInv, TypeInv, TypeOK

-----------------------------------------------------------------------------
(* The other steps.                                                         *)

\* Up to SendLocal, or the publication, a job waits in its CreateJob call.
LEMMA QueueCreate ==
    ASSUME IInv, StatesFit, StatesFit', NEW j \in Jobs, CreateStep(j)
    PROVE  [Queue!QNext]_Queue!qvars
<1>1. /\ UNCHANGED <<jobJSON, result, item, pc>>
      /\ \A k \in Jobs \ {j} : stage'[k] = stage[k]
      /\ stage[j] # "new" /\ stage'[j] # "new"
  BY DEF CreateStep, RegisterPinned, SendLocal, PublishShared, Nudge, diskVars, workerVars,
         history, IInv, TypeInv, TypeOK
<1>2. Waiting(j)' => Waiting(j)
  <2>1. CASE RegisterPinned(j) \/ SendLocal(j) \/ PublishShared(j)
    BY <2>1 DEF RegisterPinned, SendLocal, PublishShared, Waiting
  <2>2. CASE Nudge(j)
    BY <1>1, <2>2 DEF Nudge, Waiting, Holders, InLocalQueue, diskVars, IInv, TypeInv, TypeOK
  <2> QED BY <2>1, <2>2 DEF CreateStep
<1>3. ASSUME NEW k \in Jobs \ {j}, Waiting(k)'
      PROVE  Waiting(k)
  <2>1. queueDir' \subseteq queueDir \union {j}
    BY DEF CreateStep, RegisterPinned, SendLocal, PublishShared, Nudge, diskVars
  <2>2. InLocalQueue(k)' => InLocalQueue(k)
    <3>1. CASE SendLocal(j)
      <4>1. PICK h \in Pods : localQueue' = [localQueue EXCEPT ![h] = Append(localQueue[h], j)]
        BY <3>1 DEF SendLocal, IInv, TypeInv, CallHasHandler
      <4>2. \A q \in Pods : \A i \in DOMAIN localQueue'[q] :
              \/ i \in DOMAIN localQueue[q] /\ localQueue'[q][i] = localQueue[q][i]
              \/ localQueue'[q][i] = j
        BY <4>1, AppendAt, SeqDomain DEF IInv, TypeInv, TypeOK
      <4> QED BY <4>2 DEF InLocalQueue
    <3>2. CASE ~ SendLocal(j)
      BY <3>2 DEF CreateStep, RegisterPinned, PublishShared, Nudge, InLocalQueue
    <3> QED BY <3>1, <3>2
  <2> QED BY <1>1, <1>3, <2>1, <2>2 DEF Waiting, Holders
<1> QED BY <1>1, <1>2, <1>3, SomeAreLost DEF Running, Holders

\* A worker takes only what waited, and gives up only what it holds.
LEMMA QueueWorker ==
    ASSUME IInv, StatesFit, StatesFit', NEW w \in Workers, WorkerStep(w) \/ Tick(w),
           ~ Start(w), ~ \E failed \in BOOLEAN : Finish(w, failed)
    PROVE  [Queue!QNext]_Queue!qvars
<1>1. /\ UNCHANGED <<jobJSON, result, stage>> /\ queueDir' \subseteq queueDir
      /\ \A v \in Workers \ {w} : pc'[v] = pc[v] /\ item'[v] = item[v]
      /\ pc'[w] # "run"
  BY DEF WorkerStep, TakeLocal, ReadDir, Claim, LoseClaim, NothingToClaim, ReadClaim, Skip,
         Woken, Tick, QueueAfterClaim, callVars, diskVars, history, IInv, TypeInv, TypeOK
<1>2. \A j \in Jobs : InLocalQueue(j)' => InLocalQueue(j)
  <2>1. CASE TakeLocal(w)
    <3>1. \A q \in Pods : \A i \in DOMAIN localQueue'[q] :
            \E k \in DOMAIN localQueue[q] : localQueue'[q][i] = localQueue[q][k]
      BY <2>1, TailAt, WorkerHome DEF TakeLocal, IInv, TypeInv, TypeOK
    <3> QED BY <3>1 DEF InLocalQueue
  <2>2. CASE ~ TakeLocal(w)
    BY <2>2 DEF WorkerStep, ReadDir, Claim, LoseClaim, NothingToClaim, ReadClaim, Skip, Woken,
                Tick, InLocalQueue
  <2> QED BY <2>1, <2>2
<1>3. ASSUME NEW j \in Jobs, item'[w] = j, pc'[w] \in {"claimed", "gate"}
      PROVE  Waiting(j)
  <2>1. CASE TakeLocal(w)
    <3>1. localQueue[Home(w)] \in Seq(Jobs) /\ localQueue[Home(w)] # <<>>
      BY <2>1, WorkerHome DEF TakeLocal, IInv, TypeInv, TypeOK
    <3>2. 1 \in DOMAIN localQueue[Home(w)] /\ j = localQueue[Home(w)][1]
      BY <1>3, <2>1, <3>1, TailAt DEF TakeLocal, IInv, TypeInv, TypeOK
    <3> QED BY <3>2, WorkerHome DEF Waiting, InLocalQueue
  <2>2. CASE Claim(w)
    BY <1>3, <2>2 DEF Claim, RenameWins, Waiting, IInv, TypeInv, TypeOK
  <2>3. CASE ReadClaim(w)
    BY <1>3, <2>3 DEF ReadClaim, Waiting, Holders, IInv, TypeInv, TypeOK
  <2>4. CASE ReadDir(w) \/ LoseClaim(w) \/ NothingToClaim(w) \/ Skip(w) \/ Woken(w) \/ Tick(w)
    BY <1>3, <2>4 DEF ReadDir, LoseClaim, NothingToClaim, Skip, Woken, Tick, IInv, TypeInv, TypeOK
  <2> QED BY <2>1, <2>2, <2>3, <2>4 DEF WorkerStep
<1>4. ASSUME NEW j \in Jobs, Waiting(j)'
      PROVE  Waiting(j)
  <2>1. CASE \E v \in Holders(j)' : pc'[v] \in {"claimed", "gate"}
    BY <1>1, <1>3, <2>1 DEF Waiting, Holders
  <2>2. CASE ~ \E v \in Holders(j)' : pc'[v] \in {"claimed", "gate"}
    BY <1>1, <1>2, <1>4, <2>2 DEF Waiting
  <2> QED BY <2>1, <2>2
<1>5. \A j \in Jobs : Running(j)' => Running(j)
  BY <1>1 DEF Running, Holders
<1> QED BY <1>1, <1>4, <1>5, SomeAreLost

\* The end of a pod costs the jobs that it alone had.
LEMMA QueueStop ==
    ASSUME IInv, StatesFit, StatesFit', NEW p \in Pods, Stop(p)
    PROVE  [Queue!QNext]_Queue!qvars
<1>1. /\ UNCHANGED <<jobJSON, result, queueDir>>
      /\ \A j \in Jobs : stage'[j] \in {"new", "persisted", "registered"} => stage'[j] = stage[j]
      /\ \A j \in Jobs : stage[j] = "new" => stage'[j] = "new"
      /\ \A w \in Workers : pc'[w] # "off" => pc'[w] = pc[w] /\ item'[w] = item[w]
      /\ \A q \in Pods : localQueue'[q] = localQueue[q] \/ localQueue'[q] = <<>>
  BY DEF Stop, InFlight, diskVars, history, IInv, TypeInv, TypeOK
<1>2. \A j \in Jobs : (Waiting(j)' => Waiting(j)) /\ (Running(j)' => Running(j))
  BY <1>1 DEF Waiting, Running, Holders, InLocalQueue
<1> QED BY <1>1, <1>2, SomeAreLost

LEMMA QueueOther ==
    ASSUME IInv, StatesFit, StatesFit', NEW p \in Pods,
           CloseListener(p) \/ AcquireDrain(p) \/ ReleaseDrain(p) \/ Drain(p) \/ Boot(p)
    PROVE  [Queue!QNext]_Queue!qvars
<1>1. /\ UNCHANGED <<jobJSON, result, queueDir, localQueue, stage, item>>
      /\ \A w \in Workers : pc'[w] \in {"claimed", "gate", "run"} => pc'[w] = pc[w]
  BY DEF CloseListener, AcquireDrain, ReleaseDrain, Drain, Boot, callVars, diskVars, memoryVars,
         workerVars, history, IInv, TypeInv, TypeOK
<1> QED BY <1>1, SomeAreLost DEF Waiting, Running, Holders, InLocalQueue

LEMMA QueueStep ==
    ASSUME IInv, Ledgers, StatesFit, StatesFit', [Next]_vars
    PROVE  [Queue!QNext]_Queue!qvars
<1>1. CASE UNCHANGED vars
  <2>1. UNCHANGED <<jobJSON, result, stage, queueDir, localQueue, item, pc>>
    BY <1>1 DEF vars, callVars, diskVars, memoryVars, workerVars, history
  <2> QED BY <2>1, SomeAreLost DEF Waiting, Running, Holders, InLocalQueue
<1> QED
  BY <1>1, QueueSubmit, QueueCreate, QueueBegin, QueueEnd, QueueWorker, QueueRecord, QueueStop,
     QueueOther
     DEF Next, WorkerStep, ShutdownStep, Exit, Crash

\* Crashes, shutdowns, races and write errors included, what a client can see of the
\* jobs is a behaviour of the at-most-once queue.
THEOREM DispatchIsAQueue == Spec => ImplementsQueue
<1>1. Init => Queue!QInit
  <2> SUFFICES ASSUME Init PROVE Queue!QInit
    OBVIOUS
  <2>1. \A j \in Jobs : QueueState(j) = "new"
    BY LedgersInit, TypeInit, OwnershipInit, Cases DEF Init, IInv, StatesFit
  <2> QED BY <2>1 DEF Init, Queue!QInit
<1>2. Spec => []StatesFit
  <2>1. IInv /\ Ledgers => StatesFit
    BY Cases
  <2> QED BY <2>1, InductiveInvariant, LedgersInvariant, PTL
<1>3. IInv /\ Ledgers /\ StatesFit /\ StatesFit' /\ [Next]_vars => [Queue!QNext]_Queue!qvars
  BY QueueStep
<1> QED
  BY <1>1, <1>2, <1>3, InductiveInvariant, LedgersInvariant, PTL
     DEF Spec, ImplementsQueue, Queue!QSpec

-----------------------------------------------------------------------------
(* What the failures cost.  A job is lost by the step that fails, but for   *)
(* one whose first write of job.json failed: the claim that finds nothing   *)
(* of it gives it up later.  And a drain is paid for when it begins, while  *)
(* its jobs are lost when the pod ends.                                     *)

\* Nothing is known of the job but its entry, and nobody has started it.
Doomed(j) == stage[j] # "new" /\ jobJSON[j] = "none" /\ started[j] = 0

Damage == {j \in Jobs \ AdHoc : Lost(j) \/ Doomed(j)}

\* The pods whose shutdown has begun and not ended.
Away == {p \in Pods : phase[p] \notin {"up", "down"}}

Counted ==
    /\ IsFiniteSet(Damage) /\ IsFiniteSet(Away)
    /\ Cardinality(Damage) + MaxConcurrency * Cardinality(Away)
          <= MaxConcurrency * (kills + drains) + faults

\* What the workers of a pod hold, at most one job each.
Held(p) == {item[w] : w \in HomeOf(p)}

LEMMA CountedInit == Init => Counted
<1> SUFFICES ASSUME Init PROVE Counted
  OBVIOUS
<1>1. Damage = {} /\ Away = {} /\ kills = 0 /\ drains = 0 /\ faults = 0
  BY DEF Init, Damage, Away, Lost, Doomed
<1>2. MaxConcurrency * 0 = 0 /\ MaxConcurrency * (0 + 0) = 0
  BY BoundAssumption
<1> QED BY <1>1, <1>2, FS_EmptySet DEF Counted

\* What the damage can grow by, told by what makes a job a lost one.
LEMMA DamageGrows ==
    ASSUME IInv, Pinned, NEW X,
           \A j \in Jobs \ (AdHoc \union X) :
              /\ (/\ stage'[j] \in {"published", "answered"} /\ started'[j] = 0
                  /\ j \notin queueDir' /\ \A w \in Workers : item'[w] # j)
                 => \/ (/\ stage[j] \in {"published", "answered"} /\ started[j] = 0
                        /\ j \notin queueDir /\ \A w \in Workers : item[w] # j)
                    \/ Doomed(j)
              /\ Doomed(j)' => Doomed(j)
    PROVE  Damage' \subseteq Damage \union X
<1> SUFFICES ASSUME NEW j \in Jobs \ (AdHoc \union X), Lost(j)' \/ Doomed(j)'
             PROVE  Lost(j) \/ Doomed(j)
  BY DEF Damage
<1>1. ~ InLocalQueue(j)
  BY DEF Pinned, LocalMeansPinned
<1> QED BY <1>1 DEF Lost, Holders

LEMMA Types ==
    ASSUME TypeInv
    PROVE  MaxConcurrency \in Nat /\ kills \in Nat /\ drains \in Nat /\ faults \in Nat
BY BoundAssumption DEF TypeInv, TypeOK

\* A step that costs nothing, or a failed disk operation that costs one job.
LEMMA CostsOne ==
    ASSUME TypeInv, Counted, UNCHANGED <<phase, drains, kills>>, NEW j,
           \/ faults' = faults /\ Damage' \subseteq Damage
           \/ faults' = faults + 1 /\ Damage' \subseteq Damage \union {j}
    PROVE  Counted'
<1>1. Away' = Away
  BY DEF Away
<1>2. /\ IsFiniteSet(Damage \union {j}) /\ Cardinality(Damage) \in Nat
      /\ Cardinality(Damage \union {j}) <= Cardinality(Damage) + 1
      /\ Cardinality(Damage \union {j}) \in Nat
  <2>1. IsFiniteSet(Damage) /\ Cardinality(Damage) \in Nat
    BY FS_CardinalityType DEF Counted
  <2>2. /\ IsFiniteSet(Damage \union {j})
        /\ Cardinality(Damage \union {j})
              = IF j \in Damage THEN Cardinality(Damage) ELSE Cardinality(Damage) + 1
    BY <2>1, FS_AddElement
  <2> QED BY <2>1, <2>2
<1>3. /\ IsFiniteSet(Damage') /\ Cardinality(Damage') \in Nat
      /\ Cardinality(Damage') <= Cardinality(Damage) + (faults' - faults)
  <2>1. CASE faults' = faults /\ Damage' \subseteq Damage
    <3>1. IsFiniteSet(Damage') /\ Cardinality(Damage') <= Cardinality(Damage)
      BY <2>1, FS_Subset DEF Counted
    <3>2. Cardinality(Damage') \in Nat
      BY <3>1, FS_CardinalityType
    <3> QED BY <1>2, <2>1, <3>1, <3>2, Types
  <2>2. CASE faults' = faults + 1 /\ Damage' \subseteq Damage \union {j}
    <3>1. IsFiniteSet(Damage') /\ Cardinality(Damage') <= Cardinality(Damage \union {j})
      BY <1>2, <2>2, FS_Subset
    <3>2. Cardinality(Damage') \in Nat
      BY <3>1, FS_CardinalityType
    <3> QED BY <1>2, <2>2, <3>1, <3>2, Types
  <2> QED BY <2>1, <2>2
<1> DEFINE a == MaxConcurrency * Cardinality(Away)
           b == MaxConcurrency * (kills + drains)
<1>4. a \in Nat /\ b \in Nat /\ faults' \in Nat /\ faults \in Nat
  BY FS_CardinalityType, Types DEF Counted
<1>5. Cardinality(Damage) + a <= b + faults
  BY DEF Counted
<1> HIDE DEF a, b
<1>6. Cardinality(Damage') + a <= b + faults'
  BY <1>2, <1>3, <1>4, <1>5
<1> QED BY <1>1, <1>3, <1>6 DEF Counted, a, b

\* The end of a pod costs what its workers hold; it was paid for when the pod was
\* killed, or when its shutdown began.
LEMMA CostsHeld ==
    ASSUME TypeInv, Counted, NEW p \in Pods, phase[p] # "down",
           phase' = [phase EXCEPT ![p] = "down"], UNCHANGED <<drains, faults>>,
           \/ kills' = kills + 1
           \/ kills' = kills /\ p \in Away,
           Damage' \subseteq Damage \union Held(p)
    PROVE  Counted'
<1>1. IsFiniteSet(Held(p)) /\ Cardinality(Held(p)) <= MaxConcurrency
  <2> DEFINE f == [i \in 1..MaxConcurrency |-> item[<<p, i>>]]
  <2>1. f \in Surjection(1..MaxConcurrency, Held(p))
    BY DEF Surjection, Held, HomeOf, Home, Workers
  <2>2. ExistsSurjection(1..MaxConcurrency, Held(p))
    BY <2>1 DEF ExistsSurjection
  <2> QED BY <2>2, Types, FS_NatSurjection, FS_SurjCardinalityBound
<1>2. /\ IsFiniteSet(Damage') /\ Cardinality(Damage') \in Nat
      /\ Cardinality(Damage') <= Cardinality(Damage) + MaxConcurrency
      /\ Cardinality(Damage) \in Nat
  <2>1. /\ IsFiniteSet(Damage \union Held(p)) /\ IsFiniteSet(Damage \intersect Held(p))
        /\ Cardinality(Damage \union Held(p))
              = Cardinality(Damage) + Cardinality(Held(p)) - Cardinality(Damage \intersect Held(p))
    BY <1>1, FS_Union, FS_Intersection DEF Counted
  <2>2. /\ Cardinality(Damage) \in Nat /\ Cardinality(Held(p)) \in Nat
        /\ Cardinality(Damage \intersect Held(p)) \in Nat
    BY <1>1, <2>1, FS_CardinalityType DEF Counted
  <2>3. IsFiniteSet(Damage') /\ Cardinality(Damage') <= Cardinality(Damage \union Held(p))
    BY <2>1, FS_Subset
  <2>4. Cardinality(Damage') \in Nat
    BY <2>3, FS_CardinalityType
  <2> QED BY <1>1, <2>1, <2>2, <2>3, <2>4, Types
<1>3. /\ Away' = Away \ {p} /\ IsFiniteSet(Away') /\ Cardinality(Away) \in Nat
      /\ Cardinality(Away') = IF p \in Away THEN Cardinality(Away) - 1 ELSE Cardinality(Away)
      /\ Cardinality(Away') \in Nat
  <2>1. Away' = Away \ {p}
    BY DEF Away, TypeInv, TypeOK
  <2> QED BY <2>1, FS_RemoveElement, FS_CardinalityType DEF Counted
<1>4. \A x, y \in Int : MaxConcurrency * (x + y) = MaxConcurrency * x + MaxConcurrency * y
  BY Types
<1> DEFINE c == Cardinality(Away)
           k == kills + drains
<1>5. /\ MaxConcurrency * c \in Nat /\ MaxConcurrency * k \in Nat
      /\ MaxConcurrency * (c - 1) = MaxConcurrency * c - MaxConcurrency
      /\ MaxConcurrency * (k + 1) = MaxConcurrency * k + MaxConcurrency
  BY <1>3, Types
<1>6. Cardinality(Damage) + MaxConcurrency * c <= MaxConcurrency * k + faults
  BY DEF Counted
<1>7. CASE kills' = kills + 1
  <2>1. kills' + drains' = k + 1
    BY <1>7, Types
  <2>2. MaxConcurrency * Cardinality(Away') <= MaxConcurrency * c
    <3>1. Cardinality(Away') = c \/ Cardinality(Away') = c - 1
      BY <1>3
    <3> HIDE DEF c
    <3> QED BY <3>1, <1>5, Types
  <2>3. MaxConcurrency * Cardinality(Away') \in Nat
    BY <1>3, Types
  <2> HIDE DEF c, k
  <2>4. Cardinality(Damage') + MaxConcurrency * Cardinality(Away')
          <= MaxConcurrency * (k + 1) + faults
    BY <1>2, <1>5, <1>6, <2>2, <2>3, Types
  <2> QED BY <1>2, <1>3, <2>1, <2>4 DEF Counted
<1>8. CASE kills' = kills /\ p \in Away
  <2>1. kills' + drains' = k /\ Cardinality(Away') = c - 1
    BY <1>3, <1>8
  <2> HIDE DEF c, k
  <2>2. Cardinality(Damage') + MaxConcurrency * (c - 1) <= MaxConcurrency * k + faults
    BY <1>2, <1>5, <1>6, Types
  <2> QED BY <1>2, <1>3, <2>1, <2>2 DEF Counted
<1> QED BY <1>7, <1>8

\* A graceful shutdown is paid for when it begins.
LEMMA CostsDrain ==
    ASSUME TypeInv, Counted, NEW p \in Pods, phase[p] = "up",
           phase' = [phase EXCEPT ![p] = "draining"], drains' = drains + 1,
           UNCHANGED <<kills, faults>>, Damage' \subseteq Damage
    PROVE  Counted'
<1>1. /\ IsFiniteSet(Damage') /\ Cardinality(Damage') <= Cardinality(Damage)
      /\ Cardinality(Damage') \in Nat /\ Cardinality(Damage) \in Nat
  BY FS_Subset, FS_CardinalityType DEF Counted
<1>2. /\ IsFiniteSet(Away') /\ Cardinality(Away') = Cardinality(Away) + 1
      /\ Cardinality(Away) \in Nat
  <2>1. Away' = Away \union {p} /\ p \notin Away
    BY DEF Away, TypeInv, TypeOK
  <2> QED BY <2>1, FS_AddElement, FS_CardinalityType DEF Counted
<1> DEFINE c == Cardinality(Away)
           k == kills + drains
<1>3. /\ MaxConcurrency * c \in Nat /\ MaxConcurrency * k \in Nat
      /\ MaxConcurrency * (c + 1) = MaxConcurrency * c + MaxConcurrency
      /\ MaxConcurrency * (k + 1) = MaxConcurrency * k + MaxConcurrency
  BY <1>2, Types
<1>4. Cardinality(Damage) + MaxConcurrency * c <= MaxConcurrency * k + faults
  BY DEF Counted
<1>5. kills' + drains' = k + 1
  BY Types
<1> HIDE DEF c, k
<1>6. Cardinality(Damage') + MaxConcurrency * (c + 1) <= MaxConcurrency * (k + 1) + faults
  BY <1>1, <1>3, <1>4, Types
<1> QED BY <1>1, <1>2, <1>5, <1>6 DEF Counted, c

-----------------------------------------------------------------------------
LEMMA CountedCreate ==
    ASSUME IInv, Pinned, Counted, NEW j \in Jobs,
           CreateStep(j) \/ \E p \in Pods : PersistJobSync(p, j)
    PROVE  Counted'
<1>1. /\ UNCHANGED <<phase, drains, kills, item, started>>
      /\ \A k \in Jobs \ {j} : stage'[k] = stage[k] /\ jobJSON'[k] = jobJSON[k]
      /\ queueDir \subseteq queueDir'
  BY DEF CreateStep, RegisterPinned, SendLocal, PublishShared, Nudge, PersistJobSync, Fault,
         budget, diskVars, workerVars, history, IInv, TypeInv, TypeOK
<1>2. CASE UNCHANGED faults
  <2>1. j \notin AdHoc =>
          /\ (stage'[j] \in {"published", "answered"} /\ j \notin queueDir')
                => stage[j] \in {"published", "answered"}
          /\ (stage'[j] # "new" /\ jobJSON'[j] = "none") => stage[j] # "new" /\ jobJSON[j] = "none"
    <3>1. CASE PublishShared(j)
      BY <1>2, <3>1 DEF PublishShared, Fault, IInv, TypeInv, TypeOK
    <3>2. CASE RegisterPinned(j) \/ SendLocal(j) \/ Nudge(j)
      BY <3>2 DEF RegisterPinned, HasAdHocCredentials, SendLocal, Nudge, diskVars, IInv, TypeInv,
                  TypeOK, Pinned, LocalMeansPinned
    <3>3. CASE \E p \in Pods : PersistJobSync(p, j)
      BY <1>2, <3>3 DEF PersistJobSync, Fault, IInv, TypeInv, TypeOK
    <3> QED BY <3>1, <3>2, <3>3 DEF CreateStep
  <2>2. Damage' \subseteq Damage \union {}
    BY <1>1, <2>1, DamageGrows DEF Doomed
  <2> QED BY <1>1, <1>2, <2>2, CostsOne DEF IInv
<1>3. CASE ~ UNCHANGED faults
  <2>1. faults' = faults + 1
    BY <1>3 DEF CreateStep, RegisterPinned, SendLocal, PublishShared, Nudge, PersistJobSync, Fault,
                budget
  <2>2. Damage' \subseteq Damage \union {j}
    BY <1>1, DamageGrows DEF Doomed
  <2> QED BY <1>1, <2>1, <2>2, CostsOne DEF IInv
<1> QED BY <1>2, <1>3

\* What a worker drops without a fault had no job.json; a job.json that it cannot
\* read is a fault of its own.
LEMMA CountedWorker ==
    ASSUME IInv, Ledgers, Pinned, Counted, NEW w \in Workers, WorkerStep(w) \/ Tick(w)
    PROVE  Counted'
<1>1. /\ UNCHANGED <<phase, drains, kills, stage, jobJSON>>
      /\ \A v \in Workers \ {w} : item'[v] = item[v]
      /\ \A k \in Jobs : started'[k] = 0 => started[k] = 0
  BY DEF WorkerStep, TakeLocal, ReadDir, Claim, LoseClaim, NothingToClaim, ReadClaim, Start, Skip,
         Finish, Woken, Tick, Fault, budget, callVars, diskVars, history, IInv, TypeInv, TypeOK,
         HoldsWhileBusy
<1>2. \A k \in Jobs : Doomed(k)' => Doomed(k)
  BY <1>1 DEF Doomed
<1>3. CASE UNCHANGED faults
  <2>1. ASSUME NEW k \in Jobs \ AdHoc, stage[k] \in {"published", "answered"}, started'[k] = 0,
               k \notin queueDir', \A v \in Workers : item'[v] # k
        PROVE  (k \notin queueDir /\ \A v \in Workers : item[v] # k) \/ Doomed(k)
    <3>0. pc[w] \in {"idle", "scan", "select"} => item[w] # k
      BY NoneAssumption DEF IInv, TypeInv, TypeOK, HoldsWhileBusy
    <3>1. CASE Claim(w)
      <4>1. PICK j \in Jobs : queueDir' = queueDir \ {j} /\ item'[w] = j
        BY <3>1 DEF Claim, Oldest, QueueAfterClaim, IInv, TypeInv, TypeOK
      <4>2. pc[w] = "scan"
        BY <3>1 DEF Claim
      <4> QED BY <1>1, <2>1, <3>0, <4>1, <4>2
    <3>2. CASE Skip(w)
      <4>1. UNCHANGED queueDir /\ jobJSON[item[w]] = "none" /\ started[k] = 0
        <5>1. UNCHANGED queueDir /\ started[k] = 0
          BY <2>1, <3>2 DEF Skip, diskVars, history
        <5>2. ~ Fault
          BY <1>3 DEF Fault, IInv, TypeInv, TypeOK
        <5> QED BY <3>2, <5>1, <5>2 DEF Skip
      <4>2. item[w] = k => Doomed(k)
        BY <2>1, <4>1 DEF Doomed
      <4> QED BY <1>1, <2>1, <4>1, <4>2
    <3>3. CASE \E failed \in BOOLEAN : Finish(w, failed)
      <4>1. UNCHANGED <<queueDir, started>> /\ pc[w] = "run"
        BY <3>3 DEF Finish, diskVars
      <4>2. started[item[w]] > 0
        BY <4>1 DEF Ledgers, OpenScans
      <4> QED BY <1>1, <2>1, <4>1, <4>2
    <3>4. CASE ReadClaim(w)
      BY <1>1, <1>3, <2>1, <3>4 DEF ReadClaim, Fault, IInv, TypeInv, TypeOK
    <3>5. CASE TakeLocal(w)
      BY <1>1, <2>1, <3>0, <3>5 DEF TakeLocal, diskVars
    <3>6. CASE \/ ReadDir(w) \/ LoseClaim(w) \/ NothingToClaim(w) \/ Start(w) \/ Woken(w) \/ Tick(w)
      BY <2>1, <3>6 DEF ReadDir, LoseClaim, NothingToClaim, Start, Woken, Tick, diskVars
    <3> QED BY <3>1, <3>2, <3>3, <3>4, <3>5, <3>6 DEF WorkerStep
  <2>2. Damage' \subseteq Damage \union {}
    BY <1>1, <1>2, <2>1, DamageGrows
  <2> QED BY <1>1, <1>3, <2>2, CostsOne DEF IInv
<1>4. CASE ~ UNCHANGED faults
  <2>1. /\ faults' = faults + 1 /\ UNCHANGED <<queueDir, started>>
        /\ ReadDir(w) \/ LoseClaim(w) \/ ReadClaim(w) \/ Skip(w)
    BY <1>4 DEF WorkerStep, TakeLocal, ReadDir, Claim, LoseClaim, NothingToClaim, ReadClaim, Start,
                Skip, Finish, Woken, Tick, Fault, budget, diskVars, history
  <2>2. PICK j : j = item[w]
    OBVIOUS
  <2>3. Damage' \subseteq Damage \union {j}
    <3>1. \A k \in Jobs \ (AdHoc \union {j}) :
            (\A v \in Workers : item'[v] # k) => \A v \in Workers : item[v] # k
      BY <1>1, <2>2
    <3> QED BY <1>1, <1>2, <2>1, <3>1, DamageGrows
  <2> QED BY <1>1, <2>1, <2>3, CostsOne DEF IInv
<1> QED BY <1>3, <1>4

\* persistWorker writes of jobs that were started.
LEMMA CountedPersist ==
    ASSUME IInv, Ledgers, Pinned, Counted, NEW p \in Pods, Persist(p)
    PROVE  Counted'
<1>1. /\ UNCHANGED <<phase, stage, queueDir, item, started>> /\ UNCHANGED <<drains, kills>>
      /\ 1 \in DOMAIN persistCh[p]
      /\ \/ jobJSON' = [jobJSON EXCEPT ![persistCh[p][1].job] = persistCh[p][1].status]
         \/ jobJSON' = jobJSON
      /\ faults' = faults \/ faults' = faults + 1
  BY DequeueAt DEF Persist, Fault, budget, workerVars, history, IInv
<1>2. started[persistCh[p][1].job] > 0
  BY <1>1 DEF Ledgers, WritesTellScans
<1>3. \A k \in Jobs : Doomed(k)' => Doomed(k)
  BY <1>1, <1>2 DEF Doomed, IInv, TypeInv, TypeOK
<1>4. Damage' \subseteq Damage \union {}
  BY <1>1, <1>3, DamageGrows
<1> QED BY <1>1, <1>4, CostsOne DEF IInv

LEMMA CountedStop ==
    ASSUME IInv, Pinned, Counted, NEW p \in Pods, Exit(p) \/ Crash(p)
    PROVE  Counted'
<1>1. /\ UNCHANGED <<jobJSON, queueDir, started>>
      /\ \A j \in Jobs : /\ stage'[j] \in {"published", "answered"} => stage'[j] = stage[j]
                         /\ stage'[j] # "new" => stage[j] # "new"
      /\ \A w \in Workers : w \notin HomeOf(p) => item'[w] = item[w]
  <2>1. Stop(p)
    BY DEF Exit, Crash
  <2> QED BY <2>1 DEF Stop, InFlight, HomeOf, diskVars, history, IInv, TypeInv, TypeOK
<1>2. Damage' \subseteq Damage \union Held(p)
  <2>1. \A j \in Jobs : Doomed(j)' => Doomed(j)
    BY <1>1 DEF Doomed
  <2>2. \A j \in Jobs \ (AdHoc \union Held(p)) : \A w \in HomeOf(p) : item[w] # j
    BY DEF Held
  <2> QED BY <1>1, <2>1, <2>2, DamageGrows
<1>3. /\ phase[p] # "down" /\ phase' = [phase EXCEPT ![p] = "down"] /\ UNCHANGED <<drains, faults>>
      /\ kills' = kills + 1 \/ (kills' = kills /\ p \in Away)
  BY DEF Exit, Crash, Stop, Away, budget
<1> QED BY <1>2, <1>3, CostsHeld DEF IInv

LEMMA CountedOther ==
    ASSUME IInv, Pinned, Counted, NEW p \in Pods,
           CloseListener(p) \/ AcquireDrain(p) \/ ReleaseDrain(p) \/ Drain(p) \/ Boot(p)
    PROVE  Counted'
<1>1. UNCHANGED <<jobJSON, queueDir, started, stage, item>>
  BY DEF CloseListener, AcquireDrain, ReleaseDrain, Drain, Boot, callVars, diskVars, memoryVars,
         workerVars, history
<1>2. Damage' \subseteq Damage \union {}
  BY <1>1, DamageGrows DEF Doomed
<1>3. CASE Drain(p)
  BY <1>2, <1>3, CostsDrain DEF Drain, Become, IInv
<1>4. CASE CloseListener(p) \/ AcquireDrain(p) \/ ReleaseDrain(p) \/ Boot(p)
  <2>1. Away' = Away /\ UNCHANGED <<drains, kills, faults>>
    BY <1>4 DEF CloseListener, AcquireDrain, ReleaseDrain, Boot, Become, Away, budget, IInv, TypeInv,
                TypeOK
  <2>2. /\ IsFiniteSet(Damage') /\ Cardinality(Damage') <= Cardinality(Damage)
        /\ Cardinality(Damage') \in Nat /\ Cardinality(Damage) \in Nat
        /\ MaxConcurrency * Cardinality(Away) \in Nat
    BY <1>2, FS_Subset, FS_CardinalityType, Types DEF Counted, IInv
  <2> QED BY <2>1, <2>2, Types DEF Counted, IInv
<1> QED BY <1>3, <1>4

LEMMA CountedStep ==
    ASSUME IInv, Ledgers, Pinned, Counted, [Next]_vars
    PROVE  Counted'
<1>1. CASE UNCHANGED vars
  <2>1. Damage' = Damage /\ UNCHANGED <<phase, drains, kills, faults>>
    BY <1>1 DEF vars, callVars, diskVars, memoryVars, workerVars, history, budget, Damage, Lost,
                Doomed, Holders, InLocalQueue
  <2> QED BY <2>1, CostsOne DEF IInv
<1> QED
  BY <1>1, CountedCreate, CountedWorker, CountedPersist, CountedStop, CountedOther
     DEF Next, ShutdownStep

\* A pod that is killed or shut down costs at most one job for each of its workers,
\* a failed disk operation costs one job, and nothing else costs any.
THEOREM FailuresCostLittle == Spec => []LossBound
<1>1. IInv /\ Counted => LossBound
  <2> SUFFICES ASSUME IInv, Counted PROVE LossBound
    OBVIOUS
  <2> DEFINE L == {j \in Jobs \ AdHoc : Lost(j)}
  <2>1. L \subseteq Damage
    BY DEF Damage
  <2>2. /\ IsFiniteSet(L) /\ Cardinality(L) <= Cardinality(Damage)
    BY <2>1, FS_Subset DEF Counted
  <2>3. /\ Cardinality(L) \in Nat /\ Cardinality(Damage) \in Nat
        /\ MaxConcurrency * Cardinality(Away) \in Nat
    BY <2>2, FS_CardinalityType, Types DEF Counted, IInv
  <2>4. MaxConcurrency * (kills + drains) \in Nat /\ faults \in Nat
    BY Types DEF IInv
  <2> HIDE DEF L
  <2>5. Cardinality(L) <= MaxConcurrency * (kills + drains) + faults
    BY <2>2, <2>3, <2>4 DEF Counted
  <2> QED BY <2>5 DEF LossBound, L
<1>2. Spec => []Counted
  BY CountedInit, CountedStep, InductiveInvariant, LedgersInvariant, PinnedInvariant, PTL DEF Spec
<1> QED BY <1>1, <1>2, InductiveInvariant, PTL
=============================================================================
