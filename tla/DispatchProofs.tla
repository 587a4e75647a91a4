--------------------------- MODULE DispatchProofs ---------------------------
(***************************************************************************)
(* What holds of Dispatch for any number of pods, workers and jobs, and    *)
(* for any number of crashes, shutdowns and failed disk operations.        *)
(***************************************************************************)
EXTENDS Dispatch, TLAPS

-----------------------------------------------------------------------------
(* Types.                                                                  *)

TypeInv == TypeOK /\ CallHasHandler /\ HoldsWhileBusy /\ DownIsOff

LEMMA WorkerHome == \A w \in Workers : Home(w) \in Pods
BY DEF Workers, Home

LEMMA EmptySeq == \A S : <<>> \in Seq(S)
OBVIOUS

LEMMA TypeInit == Init => TypeInv
BY BoundAssumption, EmptySeq
   DEF Init, TypeInv, TypeOK, CallHasHandler, HoldsWhileBusy, DownIsOff, Home, Workers, Phases, Stages, PCs, Status, Outcomes

\* A step that may fail stays within the bound of the failures.
LEMMA TypeFault ==
    ASSUME TypeInv, Fault \/ UNCHANGED budget
    PROVE  faults' \in 0..MaxFaults /\ UNCHANGED <<drains, kills>>
BY BoundAssumption DEF Fault, TypeInv, TypeOK, budget

LEMMA TypePersistJobSync ==
    ASSUME TypeInv, NEW p \in Pods, NEW j \in Jobs, PersistJobSync(p, j)
    PROVE  TypeInv'
<1>1. stage' \in [Jobs -> Stages] /\ handler' \in [Jobs -> Pods \union {NoPod}]
  BY DEF PersistJobSync, TypeInv, TypeOK, Stages
<1>2. jobJSON' \in [Jobs -> Status \union {"none"}]
  BY DEF PersistJobSync, TypeInv, TypeOK, Status
<1>3. faults' \in 0..MaxFaults /\ UNCHANGED <<drains, kills>>
  BY TypeFault DEF PersistJobSync
<1>4. CallHasHandler' /\ HoldsWhileBusy' /\ DownIsOff'
  BY DEF PersistJobSync, TypeInv, TypeOK, CallHasHandler, HoldsWhileBusy, DownIsOff, workerVars
<1> QED
  BY <1>1, <1>2, <1>3, <1>4 DEF PersistJobSync, TypeInv, TypeOK, workerVars, history

\* Every later step of a CreateJob call keeps the types.
LEMMA TypeCreate ==
    ASSUME TypeInv, NEW j \in Jobs, CreateStep(j)
    PROVE  TypeInv'
<1>0. handler[j] \in Pods /\ UNCHANGED handler
  BY DEF CreateStep, RegisterPinned, SendLocal, PublishShared, Nudge, TypeInv, CallHasHandler
<1>1. stage' \in [Jobs -> Stages] /\ CallHasHandler' /\ HoldsWhileBusy' /\ DownIsOff'
  <2>1. /\ \E s \in Stages \ {"new"} : stage' = [stage EXCEPT ![j] = s]
        /\ UNCHANGED <<phase, workerVars>>
    BY DEF CreateStep, RegisterPinned, SendLocal, PublishShared, Nudge, Stages, workerVars
  <2> QED
    BY <1>0, <2>1 DEF TypeInv, TypeOK, CallHasHandler, HoldsWhileBusy, DownIsOff, workerVars
<1>2. CASE RegisterPinned(j)
  <2>1. jobs' \in [Pods -> [Jobs -> Status \union {"absent"}]]
    BY <1>0, <1>2 DEF RegisterPinned, TypeInv, TypeOK, Status
  <2> QED
    BY <1>1, <1>2, <2>1 DEF RegisterPinned, TypeInv, TypeOK, diskVars, workerVars, history, budget
<1>3. CASE SendLocal(j)
  <2>1. localQueue' \in [Pods -> Seq(Jobs)]
    BY <1>0, <1>3 DEF SendLocal, TypeInv, TypeOK
  <2> QED
    BY <1>1, <1>3, <2>1 DEF SendLocal, TypeInv, TypeOK, diskVars, workerVars, history, budget
<1>4. CASE PublishShared(j)
  <2>1. queueDir' \in SUBSET Jobs
    BY <1>4 DEF PublishShared, TypeInv, TypeOK
  <2>2. faults' \in 0..MaxFaults /\ UNCHANGED <<drains, kills>>
    BY <1>4, TypeFault DEF PublishShared
  <2> QED
    BY <1>1, <1>4, <2>1, <2>2 DEF PublishShared, TypeInv, TypeOK, workerVars, history
<1>5. CASE Nudge(j)
  <2>1. wake' \in [Pods -> 0..MaxConcurrency]
    BY <1>0, <1>5, BoundAssumption DEF Nudge, WakeAfterSend, TypeInv, TypeOK
  <2> QED
    BY <1>1, <1>5, <2>1 DEF Nudge, TypeInv, TypeOK, diskVars, workerVars, history, budget
<1> QED BY <1>2, <1>3, <1>4, <1>5 DEF CreateStep

\* Every step of a worker keeps the types.
LEMMA TypeWorker ==
    ASSUME TypeInv, NEW w \in Workers, WorkerStep(w) \/ Tick(w)
    PROVE  TypeInv'
<1>0. Home(w) \in Pods
  BY WorkerHome
<1>1. UNCHANGED <<phase, stage, handler>> /\ CallHasHandler'
  BY DEF WorkerStep, TakeLocal, ReadDir, Claim, LoseClaim, NothingToClaim, ReadClaim,
         Start, Skip, Finish, Woken, Tick, callVars, TypeInv, CallHasHandler
<1>2. pc' \in [Workers -> PCs]
  BY DEF WorkerStep, TakeLocal, ReadDir, Claim, LoseClaim, NothingToClaim, ReadClaim,
         Start, Skip, Finish, Woken, Tick, TypeInv, TypeOK, PCs
<1>3. HoldsWhileBusy' /\ DownIsOff'
  <2>1. /\ pc[w] # "off" /\ pc'[w] # "off"
        /\ \A v \in Workers \ {w} : pc'[v] = pc[v] /\ item'[v] = item[v]
    <3>1. CASE TakeLocal(w) \/ ReadDir(w) \/ Claim(w) \/ LoseClaim(w) \/ NothingToClaim(w)
      BY <3>1 DEF TakeLocal, ReadDir, Claim, LoseClaim, NothingToClaim, TypeInv, TypeOK
    <3>2. CASE ReadClaim(w) \/ Start(w) \/ Skip(w) \/ Woken(w) \/ Tick(w)
      BY <3>2 DEF ReadClaim, Start, Skip, Woken, Tick, TypeInv, TypeOK
    <3>3. CASE \E failed \in BOOLEAN : Finish(w, failed)
      BY <3>3 DEF Finish, TypeInv, TypeOK
    <3> QED BY <3>1, <3>2, <3>3 DEF WorkerStep
  <2>2. item'[w] # NoJob <=> pc'[w] \in {"claimed", "gate", "run"}
    <3>1. CASE TakeLocal(w)
      <4>1. Head(localQueue[Home(w)]) \in Jobs
        BY <1>0, <3>1 DEF TakeLocal, TypeInv, TypeOK
      <4> QED
        BY <3>1, <4>1, NoneAssumption DEF TakeLocal, TypeInv, TypeOK
    <3>2. CASE Claim(w)
      BY <3>2, NoneAssumption DEF Claim, Oldest, TypeInv, TypeOK
    <3>3. CASE ReadClaim(w)
      BY <3>3 DEF ReadClaim, TypeInv, TypeOK, HoldsWhileBusy
    <3>4. CASE ReadDir(w) \/ LoseClaim(w) \/ NothingToClaim(w) \/ Start(w)
                          \/ Woken(w) \/ Tick(w)
      BY <3>4 DEF ReadDir, LoseClaim, NothingToClaim, Start, Woken, Tick, TypeInv, TypeOK, HoldsWhileBusy
    <3>5. CASE Skip(w) \/ \E failed \in BOOLEAN : Finish(w, failed)
      BY <3>5 DEF Skip, Finish, TypeInv, TypeOK
    <3> QED BY <3>1, <3>2, <3>3, <3>4, <3>5 DEF WorkerStep
  <2> QED
    BY <1>1, <2>1, <2>2 DEF TypeInv, HoldsWhileBusy, DownIsOff
<1>4. CASE TakeLocal(w)
  <2>1. localQueue' \in [Pods -> Seq(Jobs)] /\ item' \in [Workers -> Jobs \union {NoJob}]
    BY <1>0, <1>4 DEF TakeLocal, TypeInv, TypeOK
  <2> QED
    BY <1>1, <1>2, <1>3, <1>4, <2>1 DEF TakeLocal, TypeInv, TypeOK, diskVars, history, budget
<1>5. CASE ReadDir(w)
  <2>1. snap' \in [Workers -> SUBSET Jobs]
    BY <1>5 DEF ReadDir, TypeInv, TypeOK
  <2>2. faults' \in 0..MaxFaults /\ UNCHANGED <<drains, kills>>
    BY <1>5, TypeFault DEF ReadDir
  <2> QED
    BY <1>1, <1>2, <1>3, <1>5, <2>1, <2>2 DEF ReadDir, TypeInv, TypeOK, diskVars, history
<1>6. CASE Claim(w)
  <2>1. /\ queueDir' \in SUBSET Jobs /\ claimedDir' \in SUBSET Jobs
        /\ item' \in [Workers -> Jobs \union {NoJob}]
        /\ snap' \in [Workers -> SUBSET Jobs]
    BY <1>6 DEF Claim, Oldest, QueueAfterClaim, TypeInv, TypeOK
  <2> QED
    BY <1>1, <1>2, <1>3, <1>6, <2>1 DEF Claim, TypeInv, TypeOK, history, budget
<1>7. CASE LoseClaim(w)
  <2>1. snap' \in [Workers -> SUBSET Jobs]
    BY <1>7 DEF LoseClaim, Oldest, TypeInv, TypeOK
  <2>2. faults' \in 0..MaxFaults /\ UNCHANGED <<drains, kills>>
    BY <1>7, TypeFault DEF LoseClaim
  <2> QED
    BY <1>1, <1>2, <1>3, <1>7, <2>1, <2>2 DEF LoseClaim, TypeInv, TypeOK, diskVars, history
<1>8. CASE NothingToClaim(w)
  BY <1>1, <1>2, <1>3, <1>8 DEF NothingToClaim, TypeInv, TypeOK, diskVars, history, budget
<1>9. CASE ReadClaim(w)
  <2>1. /\ claimedDir' \in SUBSET Jobs
        /\ item' \in [Workers -> Jobs \union {NoJob}]
        /\ snap' \in [Workers -> SUBSET Jobs]
    BY <1>9 DEF ReadClaim, TypeInv, TypeOK
  <2>2. faults' \in 0..MaxFaults /\ UNCHANGED <<drains, kills>>
    BY <1>9, TypeFault DEF ReadClaim
  <2> QED
    BY <1>1, <1>2, <1>3, <1>9, <2>1, <2>2 DEF ReadClaim, TypeInv, TypeOK, history
<1>10. CASE Start(w)
  <2>0. item[w] \in Jobs
    BY <1>10 DEF Start, TypeInv, TypeOK, HoldsWhileBusy
  <2>1. /\ jobs' \in [Pods -> [Jobs -> Status \union {"absent"}]]
        /\ started' \in [Jobs -> Nat]
    BY <1>0, <1>10, <2>0 DEF Start, TypeInv, TypeOK, Status
  <2>2. [job |-> item[w], status |-> "running"] \in Writes
    BY <2>0 DEF Writes, Status
  <2>3. persistCh' \in [Pods -> Seq(Writes)]
    BY <1>0, <1>10, <2>2 DEF Start, EnqueuePersist, TypeInv, TypeOK
  <2> QED
    BY <1>1, <1>2, <1>3, <1>10, <2>1, <2>3 DEF Start, TypeInv, TypeOK, diskVars, budget
<1>11. CASE Skip(w)
  <2>1. item' \in [Workers -> Jobs \union {NoJob}]
    BY <1>11 DEF Skip, TypeInv, TypeOK
  <2>2. faults' \in 0..MaxFaults /\ UNCHANGED <<drains, kills>>
    BY <1>11, BoundAssumption DEF Skip, Fault, budget, TypeInv, TypeOK
  <2> QED
    BY <1>1, <1>2, <1>3, <1>11, <2>1, <2>2 DEF Skip, TypeInv, TypeOK, diskVars, history
<1>12. ASSUME NEW failed \in BOOLEAN, Finish(w, failed)
       PROVE  TypeInv'
  <2>0. item[w] \in Jobs
    BY <1>12 DEF Finish, TypeInv, TypeOK, HoldsWhileBusy
  <2>1. FinalStatus(failed) \in Outcomes
    BY DEF FinalStatus, Outcomes
  <2>2. /\ jobs' \in [Pods -> [Jobs -> Status \union {"absent"}]]
        /\ result' \in [Jobs -> Outcomes \union {"none"}]
        /\ item' \in [Workers -> Jobs \union {NoJob}]
    BY <1>0, <1>12, <2>0, <2>1 DEF Finish, TypeInv, TypeOK, Status, Outcomes
  <2>3. [job |-> item[w], status |-> FinalStatus(failed)] \in Writes
    BY <2>0, <2>1 DEF Writes, Status
  <2>4. persistCh' \in [Pods -> Seq(Writes)]
    BY <1>0, <1>12, <2>3 DEF Finish, EnqueuePersist, TypeInv, TypeOK
  <2> QED
    BY <1>1, <1>2, <1>3, <1>12, <2>2, <2>4 DEF Finish, TypeInv, TypeOK, diskVars, budget
<1>13. CASE Woken(w)
  <2>1. wake' \in [Pods -> 0..MaxConcurrency]
    BY <1>0, <1>13, BoundAssumption DEF Woken, TypeInv, TypeOK
  <2> QED
    BY <1>1, <1>2, <1>3, <1>13, <2>1 DEF Woken, TypeInv, TypeOK, diskVars, history, budget
<1>14. CASE Tick(w)
  BY <1>1, <1>2, <1>3, <1>14 DEF Tick, TypeInv, TypeOK, diskVars, history, budget
<1> QED
  BY <1>4, <1>5, <1>6, <1>7, <1>8, <1>9, <1>10, <1>11, <1>12, <1>13, <1>14 DEF WorkerStep

LEMMA TypePersist ==
    ASSUME TypeInv, NEW p \in Pods, Persist(p)
    PROVE  TypeInv'
<1>1. Head(persistCh[p]) \in Writes /\ persistCh' \in [Pods -> Seq(Writes)]
  BY DEF Persist, TypeInv, TypeOK
<1>2. Head(persistCh[p]).status \in Status
  BY <1>1 DEF Writes
<1>3. jobJSON' \in [Jobs -> Status \union {"none"}]
  BY <1>2 DEF Persist, TypeInv, TypeOK
<1>4. faults' \in 0..MaxFaults /\ UNCHANGED <<drains, kills>>
  BY TypeFault DEF Persist
<1> QED
  BY <1>1, <1>3, <1>4 DEF Persist, TypeInv, TypeOK, CallHasHandler, HoldsWhileBusy, DownIsOff, workerVars, history

\* The end of a process keeps the types.
LEMMA TypeStop ==
    ASSUME TypeInv, NEW p \in Pods, Stop(p), drains' \in 0..MaxDrains,
           kills' \in 0..MaxKills, faults' \in 0..MaxFaults
    PROVE  TypeInv'
<1>1. phase' \in [Pods -> Phases] /\ stage' \in [Jobs -> Stages] /\ pc' \in [Workers -> PCs]
  BY DEF Stop, TypeInv, TypeOK, Phases, Stages, PCs
<1>2. snap' \in [Workers -> SUBSET Jobs] /\ item' \in [Workers -> Jobs \union {NoJob}]
  BY DEF Stop, TypeInv, TypeOK
<1>3. localQueue' \in [Pods -> Seq(Jobs)] /\ persistCh' \in [Pods -> Seq(Writes)]
  BY EmptySeq DEF Stop, TypeInv, TypeOK
<1>4. wake' \in [Pods -> 0..MaxConcurrency]
  BY BoundAssumption DEF Stop, TypeInv, TypeOK
<1>5. jobs' \in [Pods -> [Jobs -> Status \union {"absent"}]]
  BY DEF Stop, TypeInv, TypeOK
<1>6. CallHasHandler' /\ HoldsWhileBusy' /\ DownIsOff'
  BY DEF Stop, TypeInv, TypeOK, CallHasHandler, HoldsWhileBusy, DownIsOff, InFlight
<1> QED
  BY <1>1, <1>2, <1>3, <1>4, <1>5, <1>6 DEF Stop, TypeInv, TypeOK, diskVars, history

\* Every step of a pod as a whole keeps the types.
LEMMA TypePod ==
    ASSUME TypeInv, NEW p \in Pods,
           ShutdownStep(p) \/ Boot(p) \/ Drain(p) \/ Crash(p)
    PROVE  TypeInv'
<1>1. CASE CloseListener(p) \/ AcquireDrain(p) \/ ReleaseDrain(p)
  <2>1. /\ phase' \in [Pods -> Phases]
        /\ \A q \in Pods : phase'[q] = "down" => phase[q] = "down"
    BY <1>1 DEF CloseListener, AcquireDrain, ReleaseDrain, Become, TypeInv, TypeOK, Phases
  <2>2. UNCHANGED <<callVars, diskVars, memoryVars, workerVars, history, budget>>
    BY <1>1 DEF CloseListener, AcquireDrain, ReleaseDrain
  <2> QED
    BY <2>1, <2>2, WorkerHome DEF TypeInv, TypeOK, CallHasHandler, HoldsWhileBusy, DownIsOff, callVars, diskVars, memoryVars,
                      workerVars, history, budget
<1>2. CASE Drain(p)
  <2>1. /\ phase' \in [Pods -> Phases] /\ drains' \in 0..MaxDrains
        /\ \A q \in Pods : phase'[q] = "down" => phase[q] = "down"
    BY <1>2, BoundAssumption DEF Drain, Become, TypeInv, TypeOK, Phases
  <2> QED
    BY <1>2, <2>1, WorkerHome DEF Drain, TypeInv, TypeOK, CallHasHandler, HoldsWhileBusy, DownIsOff, callVars, diskVars, memoryVars,
                      workerVars, history
<1>3. CASE Boot(p)
  <2>1. phase' \in [Pods -> Phases] /\ pc' \in [Workers -> PCs]
    BY <1>3 DEF Boot, Become, TypeInv, TypeOK, Phases, PCs
  <2>2. HoldsWhileBusy' /\ DownIsOff'
    BY <1>3, WorkerHome DEF Boot, Become, TypeInv, TypeOK, HoldsWhileBusy, DownIsOff
  <2> QED
    BY <1>3, <2>1, <2>2 DEF Boot, TypeInv, TypeOK, CallHasHandler, callVars, diskVars, history, budget
<1>4. CASE Exit(p)
  BY <1>4, TypeStop DEF Exit, budget, TypeInv, TypeOK
<1>5. CASE Crash(p)
  <2>1. kills' \in 0..MaxKills
    BY <1>5, BoundAssumption DEF Crash, TypeInv, TypeOK
  <2> QED
    BY <1>5, <2>1, TypeStop DEF Crash, TypeInv, TypeOK
<1> QED BY <1>1, <1>2, <1>3, <1>4, <1>5 DEF ShutdownStep

LEMMA TypeStutter == TypeInv /\ UNCHANGED vars => TypeInv'
BY DEF TypeInv, TypeOK, CallHasHandler, HoldsWhileBusy, DownIsOff, vars, callVars, diskVars, memoryVars, workerVars,
       history, budget

\* Type correctness: every variable keeps its type, and a CreateJob call that
\* has begun has a pod.
THEOREM TypeCorrect == Spec => []TypeInv
<1>1. TypeInv /\ [Next]_vars => TypeInv'
  BY TypePersistJobSync, TypeCreate, TypeWorker, TypePersist, TypePod, TypeStutter DEF Next
<1> QED BY <1>1, TypeInit, PTL DEF Spec

THEOREM TypeCorrectness == Spec => []TypeOK
BY TypeCorrect, PTL DEF TypeInv

-----------------------------------------------------------------------------
(* Ownership.  A job moves from its CreateJob call to one queue, from there *)
(* to one worker, and is started only by the worker that holds it.          *)

Ownership == OneOwner /\ NotStartedAtGate /\ NotHandedOver /\ AtMostOnce

IInv == TypeInv /\ Ownership

Early == {"new", "persisted", "registered"}
Before == {"claimed", "gate"}

LEMMA SeqDomain ==
    ASSUME NEW S, NEW s \in Seq(S)
    PROVE  Len(s) \in Nat /\ DOMAIN s = 1..Len(s) /\ \A i \in DOMAIN s : s[i] \in S
OBVIOUS

LEMMA AppendAt ==
    ASSUME NEW S, NEW s \in Seq(S), NEW e \in S
    PROVE  /\ DOMAIN Append(s, e) = 1..(Len(s) + 1)
           /\ \A i \in 1..Len(s) : Append(s, e)[i] = s[i]
           /\ Append(s, e)[Len(s) + 1] = e
OBVIOUS

LEMMA TailAt ==
    ASSUME NEW S, NEW s \in Seq(S), s # <<>>
    PROVE  /\ 1 \in DOMAIN s /\ Head(s) = s[1]
           /\ \A i \in DOMAIN Tail(s) : i + 1 \in DOMAIN s /\ i \in Nat \ {0}
                                      /\ Tail(s)[i] = s[i + 1]
OBVIOUS

LEMMA OwnershipInit == Init => Ownership
<1> SUFFICES ASSUME Init PROVE Ownership
  OBVIOUS
<1>1. \A p \in Pods : DOMAIN localQueue[p] = {}
  BY DEF Init
<1>2. \A w \in Workers : pc[w] = "idle" /\ item[w] = NoJob
  BY DEF Init
<1>3. queueDir = {} /\ \A j \in Jobs : started[j] = 0
  BY DEF Init
<1> QED
  BY <1>1, <1>2, <1>3, NoneAssumption
     DEF Ownership, OneOwner, NotStartedAtGate, NotHandedOver, AtMostOnce, Untouched, InLocalQueue

\* A step that only gives jobs up, or touches none of them, keeps ownership.
LEMMA OwnershipRelease ==
    ASSUME IInv,
           \A w \in Workers : item'[w] \in {item[w], NoJob},
           queueDir' = queueDir,
           \A p \in Pods : localQueue'[p] \in {localQueue[p], <<>>},
           started' = started,
           \A w \in Workers : pc'[w] \in Before => pc[w] \in Before /\ item'[w] = item[w],
           \A j \in Jobs : stage'[j] \in Early => stage[j] \in Early
    PROVE  Ownership'
<1>1. \A j \in Jobs : Untouched(j) => Untouched(j)'
  BY NoneAssumption DEF Untouched
<1>2. \A p \in Pods : \A i \in DOMAIN localQueue'[p] :
        i \in DOMAIN localQueue[p] /\ localQueue'[p][i] = localQueue[p][i]
  BY EmptySeq
<1>3. \A p \in Pods : \A i \in DOMAIN localQueue[p] : localQueue[p][i] \in Jobs
  BY SeqDomain DEF IInv, TypeInv, TypeOK
<1>4. \A j \in Jobs : InLocalQueue(j)' => InLocalQueue(j)
  BY <1>2 DEF InLocalQueue
<1>5. OneOwner'
  <2>1. \A v, w \in Workers : item'[v] = item'[w] /\ item'[v] # NoJob => v = w
    BY DEF IInv, Ownership, OneOwner
  <2>2. \A j \in queueDir' : Untouched(j)' /\ ~ InLocalQueue(j)'
    BY <1>1, <1>4 DEF IInv, TypeInv, TypeOK, Ownership, OneOwner
  <2>3. \A p, q \in Pods : \A a \in DOMAIN localQueue'[p], b \in DOMAIN localQueue'[q] :
          /\ Untouched(localQueue[p][a])'
          /\ localQueue'[p][a] = localQueue'[q][b] => p = q /\ a = b
    BY <1>1, <1>2, <1>3 DEF IInv, Ownership, OneOwner
  <2> QED BY <2>1, <2>2, <2>3 DEF OneOwner
<1>6. NotStartedAtGate'
  BY DEF IInv, Ownership, NotStartedAtGate, Before
<1>7. NotHandedOver'
  BY <1>1, <1>4 DEF IInv, Ownership, NotHandedOver, Early
<1>8. AtMostOnce'
  BY DEF IInv, Ownership, AtMostOnce
<1> QED BY <1>5, <1>6, <1>7, <1>8 DEF Ownership

\* CreateJob hands the job to the pod's own localQueue: it was nowhere before.
LEMMA OwnershipSendLocal ==
    ASSUME IInv, NEW j \in Jobs, SendLocal(j)
    PROVE  Ownership'
<1> DEFINE h == handler[j]
           L == localQueue[h]
<1>1. h \in Pods /\ L \in Seq(Jobs)
  BY DEF SendLocal, IInv, TypeInv, TypeOK, CallHasHandler
<1>2. Untouched(j) /\ j \notin queueDir /\ ~ InLocalQueue(j)
  BY DEF SendLocal, IInv, Ownership, NotHandedOver
<1>3. /\ localQueue'[h] = Append(L, j)
      /\ \A p \in Pods \ {h} : localQueue'[p] = localQueue[p]
  BY <1>1 DEF SendLocal, IInv, TypeInv, TypeOK
<1>4. UNCHANGED <<queueDir, item, pc, started>>
  BY DEF SendLocal, diskVars, workerVars, history
<1>5. \A k \in Jobs : Untouched(k)' <=> Untouched(k)
  BY <1>4 DEF Untouched
<1>6. \A p \in Pods : \A i \in DOMAIN localQueue'[p] :
        \/ i \in DOMAIN localQueue[p] /\ localQueue'[p][i] = localQueue[p][i]
        \/ p = h /\ i = Len(L) + 1 /\ localQueue'[p][i] = j
  BY <1>1, <1>3, AppendAt, SeqDomain
<1>7. \A p \in Pods : \A i \in DOMAIN localQueue[p] :
        localQueue[p][i] \in Jobs /\ localQueue[p][i] # j
  BY <1>2, SeqDomain DEF IInv, TypeInv, TypeOK, InLocalQueue
<1>8. \A k \in Jobs \ {j} : InLocalQueue(k)' => InLocalQueue(k)
  BY <1>6 DEF InLocalQueue
<1>9. OneOwner'
  <2>1. \A v, w \in Workers : item'[v] = item'[w] /\ item'[v] # NoJob => v = w
    BY <1>4 DEF IInv, Ownership, OneOwner
  <2>2. \A k \in queueDir' : Untouched(k)' /\ ~ InLocalQueue(k)'
    BY <1>2, <1>4, <1>5, <1>8 DEF IInv, TypeInv, TypeOK, Ownership, OneOwner
  <2>3. ASSUME NEW p \in Pods, NEW q \in Pods,
               NEW a \in DOMAIN localQueue'[p], NEW b \in DOMAIN localQueue'[q]
        PROVE  /\ Untouched(localQueue[p][a])'
               /\ localQueue'[p][a] = localQueue'[q][b] => p = q /\ a = b
    <3>1. CASE a \in DOMAIN localQueue[p] /\ localQueue'[p][a] = localQueue[p][a]
      <4>1. Untouched(localQueue[p][a])'
        BY <1>5, <1>7, <3>1 DEF IInv, Ownership, OneOwner
      <4>2. localQueue'[p][a] = localQueue'[q][b] => p = q /\ a = b
        BY <1>6, <1>7, <3>1 DEF IInv, Ownership, OneOwner
      <4> QED BY <4>1, <4>2
    <3>2. CASE p = h /\ a = Len(L) + 1 /\ localQueue'[p][a] = j
      BY <1>2, <1>5, <1>6, <1>7, <3>2
    <3> QED BY <1>6, <3>1, <3>2
  <2> QED BY <2>1, <2>2, <2>3 DEF OneOwner
<1>10. NotStartedAtGate'
  BY <1>4 DEF IInv, Ownership, NotStartedAtGate
<1>11. NotHandedOver'
  <2>1. \A k \in Jobs : stage'[k] \in Early => k # j /\ stage[k] \in Early
    BY DEF SendLocal, Early, IInv, TypeInv, TypeOK
  <2> QED
    BY <1>4, <1>5, <1>8, <2>1 DEF IInv, Ownership, NotHandedOver, Early
<1>12. AtMostOnce'
  BY <1>4 DEF IInv, Ownership, AtMostOnce
<1> QED BY <1>9, <1>10, <1>11, <1>12 DEF Ownership

\* CreateJob publishes the job, or fails to: it was nowhere before.
LEMMA OwnershipPublishShared ==
    ASSUME IInv, NEW j \in Jobs, PublishShared(j)
    PROVE  Ownership'
<1>1. Untouched(j) /\ j \notin queueDir /\ ~ InLocalQueue(j)
  BY DEF PublishShared, IInv, Ownership, NotHandedOver
<1>2. UNCHANGED <<localQueue, item, pc, started>> /\ queueDir' \subseteq queueDir \union {j}
  BY DEF PublishShared, workerVars, history
<1>3. \A k \in Jobs : (Untouched(k)' <=> Untouched(k)) /\ (InLocalQueue(k)' <=> InLocalQueue(k))
  BY <1>2 DEF Untouched, InLocalQueue
<1>4. OneOwner'
  <2>1. \A v, w \in Workers : item'[v] = item'[w] /\ item'[v] # NoJob => v = w
    BY <1>2 DEF IInv, Ownership, OneOwner
  <2>2. \A k \in queueDir' : Untouched(k)' /\ ~ InLocalQueue(k)'
    BY <1>1, <1>2, <1>3 DEF IInv, TypeInv, TypeOK, Ownership, OneOwner
  <2>3. \A p, q \in Pods : \A a \in DOMAIN localQueue'[p], b \in DOMAIN localQueue'[q] :
          /\ Untouched(localQueue[p][a])'
          /\ localQueue'[p][a] = localQueue'[q][b] => p = q /\ a = b
    BY <1>2 DEF IInv, Ownership, OneOwner, Untouched
  <2> QED BY <2>1, <2>2, <2>3 DEF OneOwner
<1>5. NotStartedAtGate' /\ AtMostOnce'
  BY <1>2 DEF IInv, Ownership, NotStartedAtGate, AtMostOnce
<1>6. NotHandedOver'
  <2>1. \A k \in Jobs : stage'[k] \in Early => k # j /\ stage[k] \in Early
    BY DEF PublishShared, Early, IInv, TypeInv, TypeOK
  <2> QED
    BY <1>2, <1>3, <2>1 DEF IInv, Ownership, NotHandedOver, Early
<1> QED BY <1>4, <1>5, <1>6 DEF Ownership

\* A free worker takes a job out of the queue it waited in; d tells how far each
\* localQueue has moved.
LEMMA OwnershipTake ==
    ASSUME IInv, NEW w \in Workers, NEW j \in Jobs, NEW d \in [Pods -> {0, 1}],
           item' = [item EXCEPT ![w] = j], UNCHANGED <<started, stage>>,
           \A v \in Workers \ {w} : pc'[v] = pc[v],
           Untouched(j), stage[j] \notin Early,
           queueDir' \subseteq queueDir \ {j},
           \A p \in Pods : \A i \in DOMAIN localQueue'[p] :
             /\ i \in Int /\ i + d[p] \in DOMAIN localQueue[p]
             /\ localQueue'[p][i] = localQueue[p][i + d[p]]
             /\ localQueue'[p][i] # j
    PROVE  Ownership'
<1>1. /\ \A v \in Workers \ {w} : item'[v] = item[v] /\ item[v] # j
      /\ item'[w] = j
  BY DEF Untouched, IInv, TypeInv, TypeOK
<1>2. \A k \in Jobs \ {j} : Untouched(k) => Untouched(k)'
  BY <1>1 DEF Untouched
<1>3. \A p \in Pods : \A i \in DOMAIN localQueue[p] : localQueue[p][i] \in Jobs
  BY SeqDomain DEF IInv, TypeInv, TypeOK
<1>4. \A k \in Jobs : InLocalQueue(k)' => InLocalQueue(k)
  BY DEF InLocalQueue
<1>5. OneOwner'
  <2>1. \A u, v \in Workers : item'[u] = item'[v] /\ item'[u] # NoJob => u = v
    BY <1>1 DEF IInv, Ownership, OneOwner
  <2>2. \A k \in queueDir' : Untouched(k)' /\ ~ InLocalQueue(k)'
    BY <1>2, <1>4 DEF IInv, TypeInv, TypeOK, Ownership, OneOwner
  <2>3. ASSUME NEW p \in Pods, NEW q \in Pods,
               NEW a \in DOMAIN localQueue'[p], NEW b \in DOMAIN localQueue'[q]
        PROVE  /\ Untouched(localQueue[p][a])'
               /\ localQueue'[p][a] = localQueue'[q][b] => p = q /\ a = b
    <3>1. Untouched(localQueue[p][a])'
      BY <1>2, <1>3 DEF IInv, Ownership, OneOwner
    <3>2. ASSUME localQueue'[p][a] = localQueue'[q][b]
          PROVE  p = q /\ a = b
      <4>1. p = q /\ a + d[p] = b + d[q]
        BY <3>2 DEF IInv, Ownership, OneOwner
      <4>2. a \in Int /\ b \in Int /\ d[p] \in Int /\ d[q] \in Int
        OBVIOUS
      <4> QED BY <4>1, <4>2
    <3> QED BY <3>1, <3>2
  <2> QED BY <2>1, <2>2, <2>3 DEF OneOwner
<1>6. NotStartedAtGate'
  BY <1>1 DEF IInv, Ownership, NotStartedAtGate, Untouched
<1>7. NotHandedOver'
  BY <1>2, <1>4 DEF IInv, Ownership, NotHandedOver, Early
<1>8. AtMostOnce'
  BY DEF IInv, Ownership, AtMostOnce
<1> QED BY <1>5, <1>6, <1>7, <1>8 DEF Ownership

LEMMA OwnershipTakeLocal ==
    ASSUME IInv, NEW w \in Workers, TakeLocal(w)
    PROVE  Ownership'
<1> DEFINE h == Home(w)
           L == localQueue[h]
           d == [p \in Pods |-> IF p = h THEN 1 ELSE 0]
<1>1. h \in Pods /\ L \in Seq(Jobs) /\ L # <<>>
  BY WorkerHome DEF TakeLocal, IInv, TypeInv, TypeOK
<1>2. PICK j \in Jobs : 1 \in DOMAIN L /\ j = L[1] /\ j = Head(L)
  BY <1>1, TailAt, SeqDomain
<1>3. Untouched(j) /\ stage[j] \notin Early
  BY <1>1, <1>2 DEF IInv, Ownership, OneOwner, NotHandedOver, InLocalQueue, Early
<1>4. ASSUME NEW p \in Pods, NEW i \in DOMAIN localQueue'[p]
      PROVE  /\ i \in Int /\ i + d[p] \in DOMAIN localQueue[p]
             /\ localQueue'[p][i] = localQueue[p][i + d[p]]
             /\ localQueue'[p][i] # j
  <2>1. CASE p = h
    <3>1. localQueue'[p] = Tail(L)
      BY <1>1, <2>1 DEF TakeLocal, IInv, TypeInv, TypeOK
    <3>2. i \in Nat \ {0} /\ i + 1 \in DOMAIN L /\ localQueue'[p][i] = L[i + 1]
      BY <1>1, <3>1, TailAt
    <3>3. L[i + 1] # L[1]
      BY <1>1, <1>2, <3>2 DEF IInv, Ownership, OneOwner
    <3> QED BY <1>2, <2>1, <3>2, <3>3
  <2>2. CASE p # h
    <3>1. localQueue'[p] = localQueue[p] /\ d[p] = 0
      BY <1>1, <2>2 DEF TakeLocal, IInv, TypeInv, TypeOK
    <3>2. i \in Int
      BY <3>1, SeqDomain DEF IInv, TypeInv, TypeOK
    <3>3. localQueue[p][i] # L[1]
      BY <1>1, <1>2, <2>2, <3>1 DEF IInv, Ownership, OneOwner
    <3> QED BY <1>2, <3>1, <3>2, <3>3
  <2> QED BY <2>1, <2>2
<1>5. queueDir' \subseteq queueDir \ {j}
  BY <1>1, <1>2 DEF TakeLocal, diskVars, IInv, Ownership, OneOwner, InLocalQueue
<1>6. /\ item' = [item EXCEPT ![w] = j] /\ UNCHANGED <<started, stage>>
      /\ \A v \in Workers \ {w} : pc'[v] = pc[v]
  BY <1>2 DEF TakeLocal, history, callVars, IInv, TypeInv, TypeOK
<1>7. d \in [Pods -> {0, 1}]
  OBVIOUS
<1> HIDE DEF d
<1> QED BY <1>3, <1>4, <1>5, <1>6, <1>7, OwnershipTake

LEMMA OwnershipClaim ==
    ASSUME IInv, NEW w \in Workers, Claim(w)
    PROVE  Ownership'
<1>1. PICK j \in Jobs : /\ j \in queueDir /\ queueDir' = queueDir \ {j}
                        /\ item' = [item EXCEPT ![w] = j]
  BY DEF Claim, Oldest, RenameWins, QueueAfterClaim, IInv, TypeInv, TypeOK
<1>2. Untouched(j) /\ ~ InLocalQueue(j) /\ stage[j] \notin Early
  BY <1>1 DEF IInv, Ownership, OneOwner, NotHandedOver, Early
<1>3. /\ UNCHANGED <<started, stage>> /\ UNCHANGED localQueue
      /\ \A v \in Workers \ {w} : pc'[v] = pc[v]
  BY DEF Claim, history, IInv, TypeInv, TypeOK
<1>6. queueDir' \subseteq queueDir \ {j} /\ item' = [item EXCEPT ![w] = j]
  BY <1>1
<1> DEFINE d == [p \in Pods |-> 0]
<1>4. \A p \in Pods : \A i \in DOMAIN localQueue'[p] :
        /\ i \in Int /\ i + d[p] \in DOMAIN localQueue[p]
        /\ localQueue'[p][i] = localQueue[p][i + d[p]]
        /\ localQueue'[p][i] # j
  BY <1>2, <1>3, SeqDomain DEF InLocalQueue, IInv, TypeInv, TypeOK
<1>5. d \in [Pods -> {0, 1}]
  OBVIOUS
<1> HIDE DEF d
<1> QED BY <1>2, <1>3, <1>4, <1>5, <1>6, OwnershipTake

\* The holder passes the gate and starts the job, which nobody had started.
LEMMA OwnershipStart ==
    ASSUME IInv, NEW w \in Workers, Start(w)
    PROVE  Ownership'
<1> DEFINE j == item[w]
<1>1. /\ j \in Jobs /\ started[j] = 0
      /\ started' = [started EXCEPT ![j] = 1]
  <2>1. pc[w] = "gate" /\ started' = [started EXCEPT ![j] = started[j] + 1]
    BY DEF Start
  <2>2. j \in Jobs
    BY <2>1 DEF IInv, TypeInv, TypeOK, HoldsWhileBusy
  <2>3. started[j] = 0
    BY <2>1 DEF IInv, Ownership, NotStartedAtGate
  <2> QED BY <2>1, <2>2, <2>3
<1>2. UNCHANGED <<item, queueDir, localQueue, stage>> /\ pc' = [pc EXCEPT ![w] = "run"]
  BY DEF Start, diskVars, callVars
<1>3. \A k \in Jobs : Untouched(k) => Untouched(k)' /\ k # j
  BY <1>1, <1>2 DEF Untouched, IInv, TypeInv, TypeOK
<1>4. \A p \in Pods : \A i \in DOMAIN localQueue[p] : localQueue[p][i] \in Jobs
  BY SeqDomain DEF IInv, TypeInv, TypeOK
<1>5. \A k \in Jobs : InLocalQueue(k)' <=> InLocalQueue(k)
  BY <1>2 DEF InLocalQueue
<1>6. OneOwner'
  <2>1. \A u, v \in Workers : item'[u] = item'[v] /\ item'[u] # NoJob => u = v
    BY <1>2 DEF IInv, Ownership, OneOwner
  <2>2. \A k \in queueDir' : Untouched(k)' /\ ~ InLocalQueue(k)'
    BY <1>2, <1>3, <1>5 DEF IInv, TypeInv, TypeOK, Ownership, OneOwner
  <2>3. \A p, q \in Pods : \A a \in DOMAIN localQueue'[p], b \in DOMAIN localQueue'[q] :
          /\ Untouched(localQueue[p][a])'
          /\ localQueue'[p][a] = localQueue'[q][b] => p = q /\ a = b
    BY <1>2, <1>3, <1>4 DEF IInv, Ownership, OneOwner
  <2> QED BY <2>1, <2>2, <2>3 DEF OneOwner
<1>7. NotStartedAtGate'
  <2>1. ASSUME NEW v \in Workers, pc'[v] \in Before
        PROVE  started'[item'[v]] = 0
    <3>1. v # w /\ pc[v] \in Before
      BY <1>2, <2>1 DEF Before, IInv, TypeInv, TypeOK
    <3>2. item[v] # j /\ item[v] \in Jobs
      BY <1>1, <3>1, NoneAssumption
         DEF Before, IInv, TypeInv, TypeOK, HoldsWhileBusy, Ownership, OneOwner
    <3> QED
      BY <1>1, <1>2, <3>1, <3>2 DEF Before, IInv, TypeInv, TypeOK, Ownership, NotStartedAtGate
  <2> QED BY <2>1 DEF NotStartedAtGate, Before
<1>8. NotHandedOver'
  BY <1>2, <1>3, <1>5 DEF IInv, Ownership, NotHandedOver
<1>9. AtMostOnce'
  BY <1>1 DEF IInv, TypeInv, TypeOK, Ownership, AtMostOnce
<1> QED BY <1>6, <1>7, <1>8, <1>9 DEF Ownership

\* All other steps only give jobs up, or touch none of them.
LEMMA OwnershipOther ==
    ASSUME IInv, Next, ~ \E j \in Jobs : SendLocal(j) \/ PublishShared(j),
           ~ \E w \in Workers : TakeLocal(w) \/ Claim(w) \/ Start(w)
    PROVE  Ownership'
<1>1. ASSUME NEW j \in Jobs, NEW p \in Pods, PersistJobSync(p, j)
      PROVE  Ownership'
  BY <1>1, OwnershipRelease
     DEF PersistJobSync, Early, workerVars, history, IInv, TypeInv, TypeOK
<1>2. ASSUME NEW j \in Jobs, RegisterPinned(j) \/ Nudge(j)
      PROVE  Ownership'
  BY <1>2, OwnershipRelease
     DEF RegisterPinned, Nudge, Early, diskVars, workerVars, history, IInv, TypeInv, TypeOK
<1>3. ASSUME NEW w \in Workers,
             ReadDir(w) \/ LoseClaim(w) \/ NothingToClaim(w) \/ Woken(w) \/ Tick(w)
      PROVE  Ownership'
  BY <1>3, OwnershipRelease
     DEF ReadDir, LoseClaim, NothingToClaim, Woken, Tick, Before, callVars, diskVars,
         history, IInv, TypeInv, TypeOK
<1>4. ASSUME NEW w \in Workers, ReadClaim(w)
      PROVE  Ownership'
  BY <1>4, OwnershipRelease DEF ReadClaim, Before, history, IInv, TypeInv, TypeOK
<1>5. ASSUME NEW w \in Workers, Skip(w) \/ \E failed \in BOOLEAN : Finish(w, failed)
      PROVE  Ownership'
  BY <1>5, OwnershipRelease
     DEF Skip, Finish, Before, callVars, diskVars, history, IInv, TypeInv, TypeOK
<1>6. ASSUME NEW p \in Pods, Persist(p)
      PROVE  Ownership'
  BY <1>6, OwnershipRelease DEF Persist, workerVars, history
<1>7. ASSUME NEW p \in Pods,
             CloseListener(p) \/ AcquireDrain(p) \/ ReleaseDrain(p) \/ Drain(p)
      PROVE  Ownership'
  BY <1>7, OwnershipRelease
     DEF CloseListener, AcquireDrain, ReleaseDrain, Drain, callVars, diskVars, memoryVars,
         workerVars, history
<1>8. ASSUME NEW p \in Pods, Stop(p)
      PROVE  Ownership'
  BY <1>8, OwnershipRelease
     DEF Stop, Early, Before, InFlight, diskVars, history, IInv, TypeInv, TypeOK
<1>9. ASSUME NEW p \in Pods, Boot(p)
      PROVE  Ownership'
  BY <1>9, OwnershipRelease
     DEF Boot, Before, callVars, diskVars, history, IInv, TypeInv, TypeOK
<1> QED
  BY <1>1, <1>2, <1>3, <1>4, <1>5, <1>6, <1>7, <1>8, <1>9
     DEF Next, CreateStep, WorkerStep, ShutdownStep, Exit, Crash

LEMMA OwnershipStutter == IInv /\ UNCHANGED vars => Ownership'
BY DEF IInv, Ownership, OneOwner, NotStartedAtGate, NotHandedOver, AtMostOnce, Untouched,
       InLocalQueue, vars, callVars, diskVars, memoryVars, workerVars, history

\* The invariant behind the ownership theorems is preserved by every step.
THEOREM InductiveInvariant == Spec => []IInv
<1>1. Init => IInv
  BY TypeInit, OwnershipInit DEF IInv
<1>2. IInv /\ [Next]_vars => IInv'
  <2> SUFFICES ASSUME IInv, [Next]_vars PROVE Ownership'
    BY TypePersistJobSync, TypeCreate, TypeWorker, TypePersist, TypePod, TypeStutter
       DEF IInv, Next
  <2> QED
    BY OwnershipSendLocal, OwnershipPublishShared, OwnershipTakeLocal, OwnershipClaim,
       OwnershipStart, OwnershipOther, OwnershipStutter
<1> QED BY <1>1, <1>2, PTL DEF Spec

\* No job is ever scanned twice, whatever the pods do to each other: the claim by
\* rename, localQueue and the gate hand it to one worker once.
THEOREM RunsAtMostOnce == Spec => []AtMostOnce
BY InductiveInvariant, PTL DEF IInv, Ownership

\* A job that waits in a queue waits in one, once, and nobody holds it; no two
\* workers, on whatever pods, hold the same job.
THEOREM JobsHaveOneOwner == Spec => []OneOwner
BY InductiveInvariant, PTL DEF IInv, Ownership
=============================================================================
