------------------------ MODULE DispatchLedgerProofs ------------------------
(***************************************************************************)
(* What Dispatch keeps true of what a job leaves behind, for any number of *)
(* pods, workers, jobs and failures: its pod, if it carries credentials;   *)
(* its job.json; and the memory of the pod that ran it.                    *)
(***************************************************************************)
EXTENDS DispatchProofs

-----------------------------------------------------------------------------
(* Pinned jobs.  A job with credentials goes from its CreateJob call to the *)
(* handler's own localQueue and from there to one of that pod's workers: it *)
(* is never listed, so that no claim can be its.                            *)

\* Only jobs with credentials are handed over within a pod.
LocalMeansPinned ==
    \A j \in Jobs : stage[j] = "registered" \/ InLocalQueue(j) => j \in AdHoc

\* A job is in no pod's memory before its CreateJob call, and before it is started
\* only if it is pinned.
KnownBeforeStart ==
    \A j \in Jobs : (\E p \in Pods : jobs[p][j] # "absent") =>
        /\ stage[j] # "new"
        /\ started[j] = 0 => j \in AdHoc

\* What is published or listed carries no credentials.
NeverListed ==
    /\ \A j \in Jobs : stage[j] = "published" => j \notin AdHoc
    /\ \A w \in Workers : AdHoc \intersect snap[w] = {}

Pinned == LocalMeansPinned /\ KnownBeforeStart /\ NeverListed /\ PinnedStaysHome

-----------------------------------------------------------------------------
(* The ledger.  A job is started once, so that its pod enqueues one write   *)
(* for the start and then one for the end, which are applied in this order. *)

\* A running scan has been started and has not reported; only a started one has.
OpenScans ==
    /\ \A w \in Workers : pc[w] = "run" => started[item[w]] > 0 /\ result[item[w]] = "none"
    /\ \A j \in Jobs : started[j] = 0 => result[j] = "none"

\* A write is queued on the pod whose worker runs the job, or was left by one that
\* has ended it, and "queued" is written before that.
WritesTellScans ==
    \A p \in Pods : \A i \in DOMAIN persistCh[p] :
        LET j == persistCh[p][i].job
        IN  /\ persistCh[p][i].status # "queued"
            /\ started[j] > 0
            /\ result[j] = "none" => \E w \in HomeOf(p) : item[w] = j /\ pc[w] = "run"

\* The write of a start comes before that of the end, on the volume and in the channels.
StartBeforeEnd ==
    \A p \in Pods : \A i \in DOMAIN persistCh[p] :
        persistCh[p][i].status = "running" =>
            /\ jobJSON[persistCh[p][i].job] \notin Outcomes
            /\ \A q \in Pods : \A k \in DOMAIN persistCh[q] :
                  persistCh[q][k].job = persistCh[p][i].job /\ persistCh[q][k].status \in Outcomes
                      => q = p /\ i < k

\* Nothing is on the volume of a job that nobody has submitted.
NotWrittenYet == \A j \in Jobs : stage[j] = "new" => jobJSON[j] = "none"

Ledgers == OpenScans /\ WritesTellScans /\ StartBeforeEnd /\ NotWrittenYet /\ HonestLedger

-----------------------------------------------------------------------------
(* Memory.  One pod knows a job, and it alone has writes of it.             *)

\* No scan runs on a pod whose shutdown holds drainMu.
DrainedIsQuiet == \A w \in Workers : phase[Home(w)] = "flushing" => pc[w] # "run"

OnePodKnows ==
    /\ \A p, q \in Pods, j \in Jobs :
          jobs[p][j] # "absent" /\ jobs[q][j] # "absent" => p = q
    /\ \A p, q \in Pods : \A i \in DOMAIN persistCh[q] :
          jobs[p][persistCh[q][i].job] # "absent" => p = q
    /\ \A w \in Workers : pc[w] = "run" => jobs[Home(w)][item[w]] # "absent"

\* The last write of a job that waits on its pod, or else job.json, is what is in
\* that pod's memory.
IsLast(p, i) == \A k \in DOMAIN persistCh[p] : k > i => persistCh[p][k].job # persistCh[p][i].job

MemoryMatches ==
    /\ \A j \in Jobs : stage[j] = "persisted" /\ started[j] = 0 => jobJSON[j] = "queued"
    /\ \A p \in Pods, j \in Jobs : jobs[p][j] # "absent" =>
          IF \E i \in DOMAIN persistCh[p] : persistCh[p][i].job = j
          THEN \A i \in DOMAIN persistCh[p] :
                  persistCh[p][i].job = j /\ IsLast(p, i) => persistCh[p][i].status = jobs[p][j]
          ELSE jobJSON[j] = jobs[p][j]

Memories == DrainedIsQuiet /\ OnePodKnows /\ (faults = 0 => MemoryMatches)

-----------------------------------------------------------------------------
(* What the steps do to the channels.                                       *)

\* Every entry of a channel is a write.
LEMMA WriteTypes ==
    ASSUME TypeInv, NEW p \in Pods, NEW i \in DOMAIN persistCh[p]
    PROVE  /\ persistCh[p][i] \in Writes
           /\ persistCh[p][i].job \in Jobs /\ persistCh[p][i].status \in Status
<1>1. persistCh[p][i] \in Writes
  BY SeqDomain DEF TypeInv, TypeOK
<1> QED BY <1>1 DEF Writes

\* A write goes to the end of its pod's channel.
LEMMA EnqueueAt ==
    ASSUME TypeInv, NEW p \in Pods, NEW j \in Jobs, NEW s \in Status,
           EnqueuePersist(p, j, s)
    PROVE  \E n \in Nat :
             /\ n \in DOMAIN persistCh'[p]
             /\ persistCh'[p][n] = [job |-> j, status |-> s]
             /\ \A i \in DOMAIN persistCh[p] : i \in Nat /\ i < n
             /\ \A q \in Pods : \A i \in DOMAIN persistCh[q] :
                   i \in DOMAIN persistCh'[q] /\ persistCh'[q][i] = persistCh[q][i]
             /\ \A q \in Pods : \A i \in DOMAIN persistCh'[q] :
                   i \in DOMAIN persistCh[q] \/ (q = p /\ i = n)
<1> DEFINE e == [job |-> j, status |-> s]
           c == persistCh[p]
<1>1. c \in Seq(Writes) /\ e \in Writes
  BY DEF TypeInv, TypeOK, Writes
<1>2. /\ persistCh'[p] = Append(c, e)
      /\ \A q \in Pods \ {p} : persistCh'[q] = persistCh[q]
  BY DEF EnqueuePersist, TypeInv, TypeOK
<1>3. Len(c) \in Nat /\ DOMAIN c = 1..Len(c)
  BY <1>1, SeqDomain
<1>4. /\ DOMAIN persistCh'[p] = 1..(Len(c) + 1)
      /\ \A i \in 1..Len(c) : persistCh'[p][i] = c[i]
      /\ persistCh'[p][Len(c) + 1] = e
  BY <1>1, <1>2, AppendAt
<1> HIDE DEF c, e
<1>5. /\ Len(c) + 1 \in Nat /\ Len(c) + 1 \in DOMAIN persistCh'[p]
      /\ \A i \in DOMAIN c : i \in Nat /\ i < Len(c) + 1
  BY <1>3, <1>4
<1>6. /\ \A i \in DOMAIN c : i \in DOMAIN persistCh'[p] /\ persistCh'[p][i] = c[i]
      /\ \A i \in DOMAIN persistCh'[p] : i \in DOMAIN c \/ i = Len(c) + 1
  BY <1>3, <1>4
<1> QED
  BY <1>2, <1>4, <1>5, <1>6 DEF c, e

\* persistWorker applies the write at the front; the others move up by one.
LEMMA DequeueAt ==
    ASSUME TypeInv, NEW p \in Pods, Persist(p)
    PROVE  /\ 1 \in DOMAIN persistCh[p] /\ persistCh[p][1] \in Writes
           /\ \/ jobJSON' = [jobJSON EXCEPT ![persistCh[p][1].job] = persistCh[p][1].status]
                 /\ faults' = faults
              \/ jobJSON' = jobJSON /\ faults' = faults + 1
           /\ \E d \in [Pods -> {0, 1}] :
                /\ d[p] = 1
                /\ \A q \in Pods : \A i \in DOMAIN persistCh'[q] :
                      /\ i \in Nat \ {0} /\ i + d[q] \in DOMAIN persistCh[q]
                      /\ persistCh'[q][i] = persistCh[q][i + d[q]]
                /\ \A q \in Pods : \A i \in DOMAIN persistCh[q] :
                      i - d[q] \in DOMAIN persistCh'[q] \/ (q = p /\ i = 1)
<1> DEFINE c == persistCh[p]
           d == [q \in Pods |-> IF q = p THEN 1 ELSE 0]
<1>1. c \in Seq(Writes) /\ c # <<>>
  BY DEF Persist, TypeInv, TypeOK
<1>2. 1 \in DOMAIN c /\ Head(c) = c[1] /\ c[1] \in Writes
  BY <1>1, TailAt, SeqDomain
<1>3. /\ persistCh'[p] = Tail(c)
      /\ \A q \in Pods \ {p} : persistCh'[q] = persistCh[q]
  BY DEF Persist, TypeInv, TypeOK
<1>4. \A q \in Pods : \A i \in DOMAIN persistCh'[q] :
        /\ i \in Nat \ {0} /\ i + d[q] \in DOMAIN persistCh[q]
        /\ persistCh'[q][i] = persistCh[q][i + d[q]]
  <2>1. \A i \in DOMAIN Tail(c) : i + 1 \in DOMAIN c /\ i \in Nat \ {0} /\ Tail(c)[i] = c[i + 1]
    BY <1>1, TailAt
  <2>2. \A q \in Pods : \A i \in DOMAIN persistCh[q] : i \in Nat \ {0} /\ i + 0 = i
    BY SeqDomain DEF TypeInv, TypeOK
  <2>3. d[p] = 1 /\ \A q \in Pods \ {p} : d[q] = 0
    OBVIOUS
  <2> HIDE DEF d
  <2> QED BY <1>3, <2>1, <2>2, <2>3
<1>5. \A q \in Pods : \A i \in DOMAIN persistCh[q] :
        i - d[q] \in DOMAIN persistCh'[q] \/ (q = p /\ i = 1)
  <2>1. DOMAIN c = 1..Len(c) /\ Len(c) \in Nat
    BY <1>1, SeqDomain
  <2>2. DOMAIN Tail(c) = 1..(Len(c) - 1)
    BY <1>1
  <2>3. \A i \in DOMAIN c : i - 1 \in DOMAIN Tail(c) \/ i = 1
    BY <2>1, <2>2
  <2>4. \A q \in Pods : \A i \in DOMAIN persistCh[q] : i \in Nat /\ i - 0 = i
    BY SeqDomain DEF TypeInv, TypeOK
  <2> QED BY <1>3, <2>3, <2>4
<1>6. d \in [Pods -> {0, 1}] /\ d[p] = 1
  OBVIOUS
<1>7. \/ jobJSON' = [jobJSON EXCEPT ![c[1].job] = c[1].status] /\ faults' = faults
      \/ jobJSON' = jobJSON /\ faults' = faults + 1
  BY <1>2 DEF Persist, Fault, budget
<1> HIDE DEF d
<1> QED BY <1>2, <1>4, <1>5, <1>6, <1>7 DEF c

-----------------------------------------------------------------------------
(* The ledger.                                                              *)

LEMMA LedgersInit == Init => Ledgers
<1> SUFFICES ASSUME Init PROVE Ledgers
  OBVIOUS
<1>1. \A p \in Pods : DOMAIN persistCh[p] = {}
  BY DEF Init
<1>2. (\A w \in Workers : pc[w] = "idle") /\ \A j \in Jobs : jobJSON[j] = "none" /\ result[j] = "none"
  BY DEF Init
<1> QED
  BY <1>1, <1>2
     DEF Ledgers, OpenScans, WritesTellScans, StartBeforeEnd, NotWrittenYet, HonestLedger, Outcomes

\* Most steps neither write, nor start or end a scan.
LEMMA LedgersQuiet ==
    ASSUME Ledgers, UNCHANGED <<jobJSON, persistCh, started, result>>,
           \A w \in Workers : /\ pc'[w] = "run" <=> pc[w] = "run"
                              /\ pc[w] = "run" => item'[w] = item[w],
           \A j \in Jobs : stage'[j] = "new" => stage[j] = "new"
    PROVE  Ledgers'
<1>1. WritesTellScans'
  <2> SUFFICES ASSUME NEW p \in Pods, NEW i \in DOMAIN persistCh[p]
               PROVE  LET j == persistCh[p][i].job
                      IN  /\ persistCh[p][i].status # "queued"
                          /\ started[j] > 0
                          /\ result[j] = "none" =>
                                \E w \in HomeOf(p) : item'[w] = j /\ pc'[w] = "run"
    BY DEF WritesTellScans
  <2> QED BY DEF Ledgers, WritesTellScans, HomeOf
<1> QED
  BY <1>1 DEF Ledgers, OpenScans, StartBeforeEnd, NotWrittenYet, HonestLedger

LEMMA LedgersSubmit ==
    ASSUME TypeInv, Ledgers, NEW p \in Pods, NEW j \in Jobs, PersistJobSync(p, j)
    PROVE  Ledgers'
<1>1. /\ UNCHANGED <<persistCh, pc, item, started, result>>
      /\ stage[j] = "new" /\ stage' = [stage EXCEPT ![j] = "persisted"]
      /\ jobJSON' = [jobJSON EXCEPT ![j] = "queued"] \/ jobJSON' = jobJSON
  BY DEF PersistJobSync, workerVars, history
<1>2. /\ \A k \in Jobs : jobJSON'[k] = jobJSON[k] \/ jobJSON'[k] \notin Outcomes
      /\ \A k \in Jobs : stage'[k] = "new" => stage[k] = "new" /\ jobJSON'[k] = jobJSON[k]
  BY <1>1 DEF TypeInv, TypeOK, Outcomes
<1>3. \A q \in Pods : \A i \in DOMAIN persistCh[q] : persistCh[q][i].job \in Jobs
  BY WriteTypes
<1> QED
  BY <1>1, <1>2, <1>3 DEF Ledgers, OpenScans, WritesTellScans, StartBeforeEnd, NotWrittenYet, HonestLedger

\* A start is the first write of its job.
LEMMA LedgersStart ==
    ASSUME IInv, Ledgers, NEW w \in Workers, Start(w)
    PROVE  Ledgers'
<1> DEFINE p == Home(w)
           j == item[w]
           e == [job |-> j, status |-> "running"]
<1>1. p \in Pods /\ j \in Jobs /\ pc[w] = "gate" /\ started[j] = 0 /\ result[j] = "none"
  BY WorkerHome DEF Start, IInv, TypeInv, TypeOK, HoldsWhileBusy, Ownership, NotStartedAtGate,
                    Ledgers, OpenScans
<1>2. /\ EnqueuePersist(p, j, "running") /\ UNCHANGED <<jobJSON, result, item, stage>>
      /\ pc' = [pc EXCEPT ![w] = "run"]
      /\ started' = [started EXCEPT ![j] = started[j] + 1]
  BY DEF Start, callVars, diskVars
<1>3. PICK n \in Nat :
        /\ n \in DOMAIN persistCh'[p] /\ persistCh'[p][n] = e
        /\ \A i \in DOMAIN persistCh[p] : i \in Nat /\ i < n
        /\ \A q \in Pods : \A i \in DOMAIN persistCh[q] :
              i \in DOMAIN persistCh'[q] /\ persistCh'[q][i] = persistCh[q][i]
        /\ \A q \in Pods : \A i \in DOMAIN persistCh'[q] :
              i \in DOMAIN persistCh[q] \/ (q = p /\ i = n)
  BY <1>1, <1>2, EnqueueAt DEF IInv, Status
<1>4. \A q \in Pods : \A i \in DOMAIN persistCh[q] :
        persistCh[q][i].job \in Jobs /\ persistCh[q][i].job # j
  BY <1>1, WriteTypes DEF IInv, Ledgers, WritesTellScans
<1>5. jobJSON[j] \notin Outcomes
  BY <1>1 DEF Ledgers, HonestLedger, Outcomes
<1>6. started'[j] = 1 /\ \A k \in Jobs \ {j} : started'[k] = started[k]
  BY <1>1, <1>2 DEF IInv, TypeInv, TypeOK
<1>7. OpenScans'
  BY <1>1, <1>2, <1>6 DEF IInv, TypeInv, TypeOK, HoldsWhileBusy, Ledgers, OpenScans
<1>8. WritesTellScans'
  <2> SUFFICES ASSUME NEW q \in Pods, NEW i \in DOMAIN persistCh'[q]
               PROVE  LET k == persistCh'[q][i].job
                      IN  /\ persistCh'[q][i].status # "queued"
                          /\ started'[k] > 0
                          /\ result'[k] = "none" =>
                                \E v \in HomeOf(q) : item'[v] = k /\ pc'[v] = "run"
    BY DEF WritesTellScans
  <2>1. CASE i \in DOMAIN persistCh[q]
    <3>1. \A v \in Workers : pc[v] = "run" => pc'[v] = "run"
      BY <1>1, <1>2 DEF IInv, TypeInv, TypeOK
    <3> QED
      BY <1>2, <1>3, <1>4, <1>6, <2>1, <3>1 DEF Ledgers, WritesTellScans, HomeOf
  <2>2. CASE q = p /\ i = n
    <3>1. w \in HomeOf(p) /\ pc'[w] = "run"
      BY <1>2 DEF HomeOf, IInv, TypeInv, TypeOK
    <3> QED
      BY <1>2, <1>3, <1>6, <2>2, <3>1
  <2> QED BY <1>3, <2>1, <2>2
<1>9. StartBeforeEnd'
  BY <1>2, <1>3, <1>4, <1>5 DEF Ledgers, StartBeforeEnd, Outcomes
<1>10. NotWrittenYet' /\ HonestLedger'
  BY <1>2, <1>3 DEF Ledgers, NotWrittenYet, HonestLedger, Outcomes
<1> QED BY <1>7, <1>8, <1>9, <1>10 DEF Ledgers

\* An end is queued behind the start, on the same pod.
LEMMA LedgersFinish ==
    ASSUME IInv, Ledgers, NEW w \in Workers, NEW failed \in BOOLEAN, Finish(w, failed)
    PROVE  Ledgers'
<1> DEFINE p == Home(w)
           j == item[w]
           s == FinalStatus(failed)
           e == [job |-> j, status |-> s]
<1>1. /\ p \in Pods /\ j \in Jobs /\ pc[w] = "run" /\ started[j] > 0 /\ result[j] = "none"
      /\ s \in Outcomes
  BY WorkerHome DEF Finish, IInv, TypeInv, TypeOK, HoldsWhileBusy, Ledgers, OpenScans,
                    FinalStatus, Outcomes
<1>2. /\ EnqueuePersist(p, j, s) /\ UNCHANGED <<jobJSON, started, stage>>
      /\ pc' = [pc EXCEPT ![w] = "idle"] /\ item' = [item EXCEPT ![w] = NoJob]
      /\ result' = [result EXCEPT ![j] = s]
  BY DEF Finish, FinalStatus, callVars, diskVars
<1>3. PICK n \in Nat :
        /\ n \in DOMAIN persistCh'[p] /\ persistCh'[p][n] = e
        /\ \A i \in DOMAIN persistCh[p] : i \in Nat /\ i < n
        /\ \A q \in Pods : \A i \in DOMAIN persistCh[q] :
              i \in DOMAIN persistCh'[q] /\ persistCh'[q][i] = persistCh[q][i]
        /\ \A q \in Pods : \A i \in DOMAIN persistCh'[q] :
              i \in DOMAIN persistCh[q] \/ (q = p /\ i = n)
  BY <1>1, <1>2, EnqueueAt DEF IInv, Status
<1>4. \A v \in Workers \ {w} : /\ pc'[v] = pc[v] /\ item'[v] = item[v]
                               /\ pc[v] = "run" => item[v] # j
  BY <1>1, <1>2, NoneAssumption DEF IInv, TypeInv, TypeOK, Ownership, OneOwner
<1>5. result'[j] = s /\ \A k \in Jobs \ {j} : result'[k] = result[k]
  BY <1>1, <1>2 DEF IInv, TypeInv, TypeOK
<1>6. \A q \in Pods : \A i \in DOMAIN persistCh[q] :
        /\ persistCh[q][i] \in Writes /\ persistCh[q][i].job \in Jobs
        /\ persistCh[q][i].job = j => q = p /\ persistCh[q][i].status \notin Outcomes
  <2> SUFFICES ASSUME NEW q \in Pods, NEW i \in DOMAIN persistCh[q]
               PROVE  /\ persistCh[q][i] \in Writes /\ persistCh[q][i].job \in Jobs
                      /\ persistCh[q][i].job = j =>
                            q = p /\ persistCh[q][i].status \notin Outcomes
    OBVIOUS
  <2>1. persistCh[q][i] \in Writes /\ persistCh[q][i].job \in Jobs
    BY WriteTypes DEF IInv
  <2>2. ASSUME persistCh[q][i].job = j PROVE q = p
    <3>1. PICK v \in HomeOf(q) : item[v] = j /\ pc[v] = "run"
      BY <1>1, <2>2 DEF Ledgers, WritesTellScans
    <3>2. v = w
      BY <1>4, <3>1 DEF HomeOf
    <3> QED BY <3>1, <3>2 DEF HomeOf
  <2>3. persistCh[q][i].job = j => persistCh[q][i].status \notin Outcomes
    BY <1>1 DEF Ledgers, HonestLedger, Outcomes
  <2> QED BY <2>1, <2>2, <2>3
<1>7. jobJSON[j] \notin Outcomes
  BY <1>1 DEF Ledgers, HonestLedger, Outcomes
<1>8. OpenScans'
  BY <1>1, <1>2, <1>4, <1>5 DEF IInv, TypeInv, TypeOK, HoldsWhileBusy, Ledgers, OpenScans
<1>9. WritesTellScans'
  <2> SUFFICES ASSUME NEW q \in Pods, NEW i \in DOMAIN persistCh'[q]
               PROVE  LET k == persistCh'[q][i].job
                      IN  /\ persistCh'[q][i].status # "queued"
                          /\ started'[k] > 0
                          /\ result'[k] = "none" =>
                                \E v \in HomeOf(q) : item'[v] = k /\ pc'[v] = "run"
    BY DEF WritesTellScans
  <2>0. s # "none" /\ s # "queued"
    BY <1>1 DEF Outcomes
  <2>1. CASE i \in DOMAIN persistCh[q]
    <3>1. /\ persistCh'[q][i] = persistCh[q][i] /\ persistCh[q][i].status # "queued"
          /\ started[persistCh[q][i].job] > 0
      BY <1>3, <2>1 DEF Ledgers, WritesTellScans
    <3>2. CASE persistCh[q][i].job = j
      BY <1>2, <1>5, <2>0, <3>1, <3>2
    <3>3. CASE persistCh[q][i].job # j
      <4>1. result'[persistCh[q][i].job] = result[persistCh[q][i].job]
        BY <1>5, <1>6, <2>1, <3>3
      <4>2. ASSUME result[persistCh[q][i].job] = "none"
            PROVE  \E v \in HomeOf(q) : item'[v] = persistCh[q][i].job /\ pc'[v] = "run"
        <5>1. PICK v \in HomeOf(q) : item[v] = persistCh[q][i].job /\ pc[v] = "run"
          BY <2>1, <4>2 DEF Ledgers, WritesTellScans
        <5>2. v # w /\ v \in Workers
          BY <3>3, <5>1 DEF HomeOf
        <5> QED BY <1>4, <5>1, <5>2
      <4> QED BY <1>2, <3>1, <4>1, <4>2
    <3> QED BY <3>2, <3>3
  <2>2. CASE q = p /\ i = n
    BY <1>1, <1>2, <1>3, <1>5, <2>0, <2>2
  <2> QED BY <1>3, <2>1, <2>2
<1>10. StartBeforeEnd'
  <2>1. s # "running"
    BY <1>1 DEF Outcomes
  <2> QED
    BY <1>2, <1>3, <1>6, <1>7, <2>1 DEF Ledgers, StartBeforeEnd
<1>11. NotWrittenYet' /\ HonestLedger'
  BY <1>1, <1>2, <1>3, <1>5, <1>6, <1>7 DEF Ledgers, NotWrittenYet, HonestLedger
<1> QED BY <1>8, <1>9, <1>10, <1>11 DEF Ledgers

\* persistWorker applies writes in the order they were queued.
LEMMA LedgersPersist ==
    ASSUME IInv, Ledgers, NEW p \in Pods, Persist(p)
    PROVE  Ledgers'
<1> DEFINE e == persistCh[p][1]
<1>1. /\ 1 \in DOMAIN persistCh[p] /\ e \in Writes
      /\ jobJSON' = [jobJSON EXCEPT ![e.job] = e.status] \/ jobJSON' = jobJSON
  BY DequeueAt DEF IInv
<1>2. PICK d \in [Pods -> {0, 1}] : /\ d[p] = 1
        /\ \A q \in Pods : \A i \in DOMAIN persistCh'[q] :
              /\ i \in Nat \ {0} /\ i + d[q] \in DOMAIN persistCh[q]
              /\ persistCh'[q][i] = persistCh[q][i + d[q]]
  BY DequeueAt DEF IInv
<1>3. UNCHANGED <<stage, pc, item, started, result>>
  BY DEF Persist, workerVars, history
<1>4. /\ e.job \in Jobs
      /\ \A k \in Jobs \ {e.job} : jobJSON'[k] = jobJSON[k]
      /\ jobJSON'[e.job] \in {jobJSON[e.job], e.status}
  BY <1>1 DEF IInv, TypeInv, TypeOK, Writes
<1>5. \A q \in Pods : \A i \in DOMAIN persistCh[q] : persistCh[q][i].job \in Jobs
  BY WriteTypes DEF IInv
<1>6. OpenScans'
  BY <1>3 DEF Ledgers, OpenScans
<1>7. WritesTellScans'
  BY <1>2, <1>3 DEF Ledgers, WritesTellScans
<1>8. StartBeforeEnd'
  <2> SUFFICES ASSUME NEW q \in Pods, NEW i \in DOMAIN persistCh'[q],
                      persistCh'[q][i].status = "running"
               PROVE  /\ jobJSON'[persistCh'[q][i].job] \notin Outcomes
                      /\ \A r \in Pods : \A k \in DOMAIN persistCh'[r] :
                            persistCh'[r][k].job = persistCh'[q][i].job
                              /\ persistCh'[r][k].status \in Outcomes => r = q /\ i < k
    BY DEF StartBeforeEnd
  <2>1. /\ i \in Nat \ {0} /\ i + d[q] \in DOMAIN persistCh[q] /\ d[q] \in {0, 1}
        /\ persistCh'[q][i] = persistCh[q][i + d[q]]
    BY <1>2
  <2>2. jobJSON'[persistCh'[q][i].job] \notin Outcomes
    <3>1. jobJSON[persistCh'[q][i].job] \notin Outcomes
      BY <2>1 DEF Ledgers, StartBeforeEnd
    <3>2. e.job = persistCh'[q][i].job => e.status \notin Outcomes
      <4>1. ASSUME e.job = persistCh'[q][i].job, e.status \in Outcomes
            PROVE  FALSE
        <5>1. p = q /\ i + d[q] < 1
          BY <1>1, <2>1, <4>1 DEF Ledgers, StartBeforeEnd
        <5> QED BY <2>1, <5>1
      <4> QED BY <4>1
    <3> QED BY <1>4, <1>5, <2>1, <3>1, <3>2
  <2>3. ASSUME NEW r \in Pods, NEW k \in DOMAIN persistCh'[r],
               persistCh'[r][k].job = persistCh'[q][i].job, persistCh'[r][k].status \in Outcomes
        PROVE  r = q /\ i < k
    <3>1. /\ k \in Nat \ {0} /\ k + d[r] \in DOMAIN persistCh[r] /\ d[r] \in {0, 1}
          /\ persistCh'[r][k] = persistCh[r][k + d[r]]
      BY <1>2
    <3>2. r = q /\ i + d[q] < k + d[r]
      BY <2>1, <2>3, <3>1 DEF Ledgers, StartBeforeEnd
    <3> QED BY <2>1, <3>1, <3>2
  <2> QED BY <2>2, <2>3
<1>9. NotWrittenYet'
  <2>1. started[e.job] > 0
    BY <1>1 DEF Ledgers, WritesTellScans
  <2>2. stage[e.job] # "new"
    BY <1>4, <2>1 DEF IInv, Ownership, NotHandedOver, Untouched
  <2> QED BY <1>3, <1>4, <2>2 DEF Ledgers, NotWrittenYet
<1>10. HonestLedger'
  <2>1. e.status \in Outcomes => e.status = result[e.job]
    BY <1>1 DEF Ledgers, HonestLedger
  <2> QED BY <1>2, <1>3, <1>4, <2>1 DEF Ledgers, HonestLedger
<1> QED BY <1>6, <1>7, <1>8, <1>9, <1>10 DEF Ledgers

\* What a pod had not written when it ends is never written.
LEMMA LedgersStop ==
    ASSUME IInv, Ledgers, NEW p \in Pods, Stop(p)
    PROVE  Ledgers'
<1>1. /\ DOMAIN persistCh'[p] = {}
      /\ \A q \in Pods \ {p} : persistCh'[q] = persistCh[q]
      /\ UNCHANGED <<jobJSON, started, result>>
  BY DEF Stop, diskVars, history, IInv, TypeInv, TypeOK
<1>2. \A w \in Workers : IF Home(w) = p THEN pc'[w] = "off"
                         ELSE pc'[w] = pc[w] /\ item'[w] = item[w]
  BY DEF Stop
<1>3. \A j \in Jobs : stage'[j] = "new" => stage[j] = "new"
  BY DEF Stop
<1>4. OpenScans'
  BY <1>1, <1>2 DEF Ledgers, OpenScans
<1>5. WritesTellScans'
  <2> SUFFICES ASSUME NEW q \in Pods \ {p}, NEW i \in DOMAIN persistCh[q]
               PROVE  LET j == persistCh[q][i].job
                      IN  /\ persistCh[q][i].status # "queued"
                          /\ started[j] > 0
                          /\ result[j] = "none" =>
                                \E w \in HomeOf(q) : item'[w] = j /\ pc'[w] = "run"
    BY <1>1 DEF WritesTellScans
  <2> QED BY <1>2 DEF Ledgers, WritesTellScans, HomeOf
<1>6. StartBeforeEnd' /\ NotWrittenYet' /\ HonestLedger'
  BY <1>1, <1>3 DEF Ledgers, StartBeforeEnd, NotWrittenYet, HonestLedger
<1> QED BY <1>4, <1>5, <1>6 DEF Ledgers

LEMMA LedgersStep ==
    ASSUME IInv, Ledgers, [Next]_vars
    PROVE  Ledgers'
<1>1. ASSUME NEW j \in Jobs, RegisterPinned(j) \/ SendLocal(j) \/ PublishShared(j) \/ Nudge(j)
      PROVE  Ledgers'
  BY <1>1, LedgersQuiet
     DEF RegisterPinned, SendLocal, PublishShared, Nudge, diskVars, workerVars, history,
         IInv, TypeInv, TypeOK
<1>2. ASSUME NEW w \in Workers, TakeLocal(w) \/ ReadDir(w) \/ Claim(w) \/ LoseClaim(w)
                                  \/ NothingToClaim(w)
      PROVE  Ledgers'
  BY <1>2, LedgersQuiet
     DEF TakeLocal, ReadDir, Claim, LoseClaim, NothingToClaim, callVars, diskVars, history,
         IInv, TypeInv, TypeOK
<1>3. ASSUME NEW w \in Workers, ReadClaim(w) \/ Skip(w) \/ Woken(w) \/ Tick(w)
      PROVE  Ledgers'
  BY <1>3, LedgersQuiet
     DEF ReadClaim, Skip, Woken, Tick, callVars, diskVars, history, IInv, TypeInv, TypeOK
<1>4. ASSUME NEW p \in Pods, CloseListener(p) \/ AcquireDrain(p) \/ ReleaseDrain(p) \/ Drain(p)
      PROVE  Ledgers'
  BY <1>4, LedgersQuiet
     DEF CloseListener, AcquireDrain, ReleaseDrain, Drain, callVars, diskVars, memoryVars,
         workerVars, history
<1>5. ASSUME NEW p \in Pods, Boot(p)
      PROVE  Ledgers'
  <2>1. \A w \in Workers : pc'[w] = "run" <=> pc[w] = "run"
    BY <1>5 DEF Boot, Become, IInv, TypeInv, TypeOK, DownIsOff
  <2> QED
    BY <1>5, <2>1, LedgersQuiet DEF Boot, callVars, diskVars, history
<1>6. CASE UNCHANGED vars
  BY <1>6, LedgersQuiet DEF vars, callVars, diskVars, memoryVars, workerVars, history
<1> QED
  BY <1>1, <1>2, <1>3, <1>4, <1>5, <1>6, LedgersSubmit, LedgersStart, LedgersFinish,
     LedgersPersist, LedgersStop
     DEF Next, CreateStep, WorkerStep, ShutdownStep, Exit, Crash, IInv

LEMMA LedgersInvariant == Spec => []Ledgers
BY LedgersInit, LedgersStep, InductiveInvariant, PTL DEF Spec

\* job.json, and every write still waiting for a persistWorker, only ever tells an
\* outcome the scan itself reported, whatever crashes, restarts or fails to be written.
THEOREM LedgerIsHonest == Spec => []HonestLedger
BY LedgersInvariant, PTL DEF Ledgers

LEMMA Ranks == /\ Rank["none"] = 0 /\ Rank["queued"] = 1 /\ Rank["running"] = 2
               /\ \A s \in Outcomes : Rank[s] = 3
BY DEF Rank, Outcomes

\* Only a CreateJob call and a persistWorker write job.json.
LEMMA WhoWrites ==
    ASSUME Next
    PROVE  \/ jobJSON' = jobJSON
           \/ \E p \in Pods, j \in Jobs : PersistJobSync(p, j)
           \/ \E p \in Pods : Persist(p)
<1>1. ASSUME NEW j \in Jobs, CreateStep(j)
      PROVE  jobJSON' = jobJSON
  BY <1>1 DEF CreateStep, RegisterPinned, SendLocal, PublishShared, Nudge, diskVars
<1>2. ASSUME NEW w \in Workers, WorkerStep(w) \/ Tick(w)
      PROVE  jobJSON' = jobJSON
  BY <1>2 DEF WorkerStep, TakeLocal, ReadDir, Claim, LoseClaim, NothingToClaim, ReadClaim,
              Start, Skip, Finish, Woken, Tick, diskVars
<1>3. ASSUME NEW p \in Pods, ShutdownStep(p) \/ Boot(p) \/ Drain(p) \/ Crash(p)
      PROVE  jobJSON' = jobJSON
  BY <1>3 DEF ShutdownStep, CloseListener, AcquireDrain, ReleaseDrain, Exit, Boot, Drain,
              Crash, Stop, diskVars
<1> QED BY <1>1, <1>2, <1>3 DEF Next

\* A job.json never goes back: no late or reordered write of any pod undoes a status
\* that another reader may have seen.
THEOREM LedgerNeverGoesBack == Spec => LedgerOnlyAdvances
<1> DEFINE Advances == \A j \in Jobs : jobJSON'[j] # jobJSON[j] =>
                                          Rank[jobJSON'[j]] > Rank[jobJSON[j]]
<1>1. IInv /\ Ledgers /\ [Next]_vars => [Advances]_vars
  <2> SUFFICES ASSUME IInv, Ledgers, Next, NEW j \in Jobs, jobJSON'[j] # jobJSON[j]
               PROVE  Rank[jobJSON'[j]] > Rank[jobJSON[j]]
    OBVIOUS
  <2>1. ASSUME NEW p \in Pods, NEW k \in Jobs, PersistJobSync(p, k)
        PROVE  Rank[jobJSON'[j]] > Rank[jobJSON[j]]
    <3>1. k = j /\ stage[j] = "new" /\ jobJSON'[j] = "queued"
      BY <2>1 DEF PersistJobSync, IInv, TypeInv, TypeOK
    <3>2. jobJSON[j] = "none"
      BY <3>1 DEF Ledgers, NotWrittenYet
    <3> QED BY <3>1, <3>2, Ranks
  <2>2. ASSUME NEW p \in Pods, Persist(p)
        PROVE  Rank[jobJSON'[j]] > Rank[jobJSON[j]]
    <3> DEFINE e == persistCh[p][1]
    <3>1. 1 \in DOMAIN persistCh[p] /\ e.job = j /\ jobJSON'[j] = e.status
      <4>1. /\ 1 \in DOMAIN persistCh[p]
            /\ jobJSON' = [jobJSON EXCEPT ![e.job] = e.status] \/ jobJSON' = jobJSON
        BY <2>2, DequeueAt DEF IInv
      <4> QED BY <4>1 DEF IInv, TypeInv, TypeOK
    <3>2. e.status \in {"running"} \union Outcomes
      BY <3>1, WriteTypes DEF IInv, Status, Ledgers, WritesTellScans
    <3>3. jobJSON[j] \in {"none", "queued", "running"} \union Outcomes
      BY DEF IInv, TypeInv, TypeOK, Status
    <3>4. CASE e.status = "running"
      <4>1. jobJSON[j] \notin Outcomes
        BY <3>1, <3>4 DEF Ledgers, StartBeforeEnd
      <4> QED BY <3>1, <3>3, <3>4, <4>1, Ranks
    <3>5. CASE e.status \in Outcomes
      <4>1. jobJSON[j] \notin Outcomes
        BY <3>1, <3>5 DEF Ledgers, HonestLedger
      <4> QED BY <3>1, <3>3, <3>5, <4>1, Ranks
    <3> QED BY <3>2, <3>4, <3>5
  <2> QED BY <2>1, <2>2, WhoWrites
<1> QED BY <1>1, InductiveInvariant, LedgersInvariant, PTL DEF Spec, LedgerOnlyAdvances

-----------------------------------------------------------------------------
(* Pinned jobs.                                                             *)

LEMMA PinnedInit == Init => Pinned
<1> SUFFICES ASSUME Init PROVE Pinned
  OBVIOUS
<1>1. /\ \A p \in Pods : DOMAIN localQueue[p] = {} /\ \A j \in Jobs : jobs[p][j] = "absent"
      /\ \A w \in Workers : item[w] = NoJob /\ snap[w] = {}
      /\ queueDir = {} /\ claimedDir = {} /\ \A j \in Jobs : stage[j] = "new"
  BY DEF Init
<1> QED
  BY <1>1, AdHocAssumption, NoneAssumption
     DEF Pinned, LocalMeansPinned, KnownBeforeStart, NeverListed, PinnedStaysHome, Holders, InLocalQueue

\* Most steps show a job to nobody who had not seen it.
LEMMA PinnedQuiet ==
    ASSUME TypeInv, Pinned, UNCHANGED <<handler, started>>,
           \A j \in Jobs : stage'[j] \in {stage[j], "answered", "cut"},
           queueDir' \subseteq queueDir, claimedDir' \subseteq claimedDir,
           \A p \in Pods : \A i \in DOMAIN localQueue'[p] :
              \E k \in DOMAIN localQueue[p] : localQueue'[p][i] = localQueue[p][k],
           \A w \in Workers : item'[w] \in {item[w], NoJob} /\ snap'[w] \subseteq snap[w] \union queueDir,
           \A p \in Pods, j \in Jobs : jobs'[p][j] # "absent" => jobs[p][j] # "absent"
    PROVE  Pinned'
<1>1. \A j \in Jobs : stage'[j] \in {"new", "registered", "published"} => stage'[j] = stage[j]
  OBVIOUS
<1>2. \A j \in Jobs : InLocalQueue(j)' => InLocalQueue(j)
  BY DEF InLocalQueue
<1>3. LocalMeansPinned' /\ KnownBeforeStart'
  BY <1>1, <1>2 DEF Pinned, LocalMeansPinned, KnownBeforeStart
<1>4. NeverListed'
  BY <1>1 DEF Pinned, NeverListed, PinnedStaysHome
<1>5. PinnedStaysHome'
  <2> SUFFICES ASSUME NEW j \in AdHoc
               PROVE  /\ j \notin queueDir' \union claimedDir'
                      /\ \A p \in Pods :
                            \/ jobs'[p][j] # "absent"
                            \/ \E i \in DOMAIN localQueue'[p] : localQueue'[p][i] = j
                            => p = handler[j]
                      /\ \A w \in Workers : item'[w] = j => Home(w) = handler[j]
    BY DEF PinnedStaysHome, Holders
  <2>1. j \in Jobs /\ j # NoJob
    BY AdHocAssumption, NoneAssumption
  <2>2. /\ j \notin queueDir \union claimedDir
        /\ \A w \in Workers : item[w] = j => Home(w) = handler[j]
    BY DEF Pinned, PinnedStaysHome, Holders
  <2>3. ASSUME NEW p \in Pods,
               jobs'[p][j] # "absent" \/ \E i \in DOMAIN localQueue'[p] : localQueue'[p][i] = j
        PROVE  p = handler[j]
    BY <2>1, <2>3 DEF Pinned, PinnedStaysHome
  <2> QED BY <2>1, <2>2, <2>3
<1> QED BY <1>3, <1>4, <1>5 DEF Pinned

\* A CreateJob call begins: nobody knows its job yet, and it gets its pod.
LEMMA PinnedSubmit ==
    ASSUME IInv, Pinned, NEW p \in Pods, NEW j \in Jobs, PersistJobSync(p, j)
    PROVE  Pinned'
<1>1. /\ UNCHANGED <<queueDir, claimedDir, localQueue, item, snap, jobs, started>>
      /\ stage[j] = "new" /\ stage' = [stage EXCEPT ![j] = "persisted"]
      /\ handler' = [handler EXCEPT ![j] = p]
  BY DEF PersistJobSync, workerVars, history
<1>2. /\ stage'[j] = "persisted"
      /\ \A k \in Jobs \ {j} : stage'[k] = stage[k] /\ handler'[k] = handler[k]
  BY <1>1 DEF IInv, TypeInv, TypeOK
<1>3. /\ ~ InLocalQueue(j) /\ \A w \in Workers : item[w] # j
      /\ \A q \in Pods : jobs[q][j] = "absent"
  BY <1>1 DEF IInv, Ownership, NotHandedOver, Untouched, Pinned, KnownBeforeStart
<1>4. \A k \in Jobs : InLocalQueue(k)' <=> InLocalQueue(k)
  BY <1>1 DEF InLocalQueue
<1>5. LocalMeansPinned' /\ KnownBeforeStart' /\ NeverListed'
  BY <1>1, <1>2, <1>3, <1>4 DEF Pinned, LocalMeansPinned, KnownBeforeStart, NeverListed
<1>6. PinnedStaysHome'
  <2> SUFFICES ASSUME NEW k \in AdHoc
               PROVE  /\ k \notin queueDir \union claimedDir
                      /\ \A q \in Pods :
                            \/ jobs[q][k] # "absent"
                            \/ \E i \in DOMAIN localQueue[q] : localQueue[q][i] = k
                            => q = handler'[k]
                      /\ \A w \in Workers : item[w] = k => Home(w) = handler'[k]
    BY <1>1 DEF PinnedStaysHome, Holders
  <2>1. k \in Jobs
    BY AdHocAssumption
  <2>2. CASE k = j
    BY <1>3, <2>2 DEF Pinned, PinnedStaysHome, InLocalQueue
  <2>3. CASE k # j
    BY <1>2, <2>1, <2>3 DEF Pinned, PinnedStaysHome, Holders
  <2> QED BY <2>2, <2>3
<1> QED BY <1>5, <1>6 DEF Pinned

LEMMA PinnedRegister ==
    ASSUME IInv, Pinned, NEW j \in Jobs, RegisterPinned(j)
    PROVE  Pinned'
<1>1. /\ UNCHANGED <<handler, queueDir, claimedDir, localQueue, item, snap, started>>
      /\ stage[j] = "persisted" /\ j \in AdHoc /\ handler[j] \in Pods
      /\ stage' = [stage EXCEPT ![j] = "registered"]
      /\ jobs' = [jobs EXCEPT ![handler[j]][j] = "queued"]
  BY DEF RegisterPinned, HasAdHocCredentials, diskVars, workerVars, history, IInv, TypeInv, CallHasHandler
<1>2. /\ stage'[j] = "registered" /\ \A k \in Jobs \ {j} : stage'[k] = stage[k]
      /\ \A q \in Pods, k \in Jobs : jobs'[q][k] = jobs[q][k] \/ (q = handler[j] /\ k = j)
  BY <1>1 DEF IInv, TypeInv, TypeOK
<1>3. \A k \in Jobs : InLocalQueue(k)' <=> InLocalQueue(k)
  BY <1>1 DEF InLocalQueue
<1>4. LocalMeansPinned' /\ KnownBeforeStart' /\ NeverListed'
  BY <1>1, <1>2, <1>3 DEF Pinned, LocalMeansPinned, KnownBeforeStart, NeverListed
<1>5. PinnedStaysHome'
  BY <1>1, <1>2, AdHocAssumption DEF Pinned, PinnedStaysHome, Holders
<1> QED BY <1>4, <1>5 DEF Pinned

LEMMA PinnedSendLocal ==
    ASSUME IInv, Pinned, NEW j \in Jobs, SendLocal(j)
    PROVE  Pinned'
<1> DEFINE h == handler[j]
           L == localQueue[h]
<1>1. /\ UNCHANGED <<handler, queueDir, claimedDir, jobs, item, snap, started>>
      /\ stage[j] = "registered" /\ h \in Pods /\ L \in Seq(Jobs)
      /\ stage' = [stage EXCEPT ![j] = "answered"]
      /\ localQueue'[h] = Append(L, j)
      /\ \A p \in Pods \ {h} : localQueue'[p] = localQueue[p]
  BY DEF SendLocal, diskVars, workerVars, history, IInv, TypeInv, TypeOK, CallHasHandler
<1>2. \A p \in Pods : \A i \in DOMAIN localQueue'[p] :
        \/ \E k \in DOMAIN localQueue[p] : localQueue'[p][i] = localQueue[p][k]
        \/ p = h /\ localQueue'[p][i] = j
  <2>1. DOMAIN L = 1..Len(L) /\ Len(L) \in Nat
    BY <1>1, SeqDomain
  <2>2. \A i \in DOMAIN localQueue'[h] :
          (i \in DOMAIN L /\ localQueue'[h][i] = L[i]) \/ localQueue'[h][i] = j
    BY <1>1, <2>1, AppendAt
  <2> HIDE DEF L, h
  <2>3. \A p \in Pods \ {h} : \A i \in DOMAIN localQueue'[p] :
          i \in DOMAIN localQueue[p] /\ localQueue'[p][i] = localQueue[p][i]
    BY <1>1
  <2> QED BY <2>2, <2>3 DEF L
<1>3. j \in AdHoc /\ \A k \in Jobs : InLocalQueue(k)' => InLocalQueue(k) \/ k = j
  BY <1>1, <1>2 DEF InLocalQueue, Pinned, LocalMeansPinned
<1>4. stage'[j] = "answered" /\ \A k \in Jobs \ {j} : stage'[k] = stage[k]
  BY <1>1 DEF IInv, TypeInv, TypeOK
<1>5. LocalMeansPinned' /\ KnownBeforeStart' /\ NeverListed'
  BY <1>1, <1>3, <1>4 DEF Pinned, LocalMeansPinned, KnownBeforeStart, NeverListed
<1>6. PinnedStaysHome'
  BY <1>1, <1>2, AdHocAssumption DEF Pinned, PinnedStaysHome, Holders
<1> QED BY <1>5, <1>6 DEF Pinned

LEMMA PinnedPublish ==
    ASSUME IInv, Pinned, NEW j \in Jobs, PublishShared(j)
    PROVE  Pinned'
<1>1. /\ UNCHANGED <<handler, claimedDir, localQueue, jobs, item, snap, started>>
      /\ j \notin AdHoc /\ queueDir' \subseteq queueDir \union {j}
      /\ stage[j] = "persisted"
      /\ \/ stage' = [stage EXCEPT ![j] = "published"]
         \/ stage' = [stage EXCEPT ![j] = "answered"]
  BY DEF PublishShared, HasAdHocCredentials, workerVars, history
<1>2. stage'[j] \in {"published", "answered"} /\ \A k \in Jobs \ {j} : stage'[k] = stage[k]
  BY <1>1 DEF IInv, TypeInv, TypeOK
<1>3. \A k \in Jobs : InLocalQueue(k)' <=> InLocalQueue(k)
  BY <1>1 DEF InLocalQueue
<1>4. LocalMeansPinned' /\ KnownBeforeStart' /\ NeverListed'
  BY <1>1, <1>2, <1>3 DEF Pinned, LocalMeansPinned, KnownBeforeStart, NeverListed
<1>5. PinnedStaysHome'
  BY <1>1 DEF Pinned, PinnedStaysHome, Holders
<1> QED BY <1>4, <1>5 DEF Pinned

\* A worker takes a job out of its own pod's localQueue, or one that is listed.
LEMMA PinnedTake ==
    ASSUME IInv, Pinned, NEW w \in Workers, TakeLocal(w) \/ Claim(w)
    PROVE  Pinned'
<1>0. Home(w) \in Pods
  BY WorkerHome
<1>1. /\ UNCHANGED <<handler, stage, jobs, started>>
      /\ queueDir' \subseteq queueDir
      /\ claimedDir' \subseteq claimedDir \union queueDir
      /\ \A v \in Workers : snap'[v] \subseteq snap[v]
  <2>1. CASE TakeLocal(w)
    BY <2>1 DEF TakeLocal, callVars, diskVars, history
  <2>2. CASE Claim(w)
    <3>1. \E j \in queueDir : claimedDir' = claimedDir \union {j}
      BY <2>2 DEF Claim, RenameWins
    <3>2. \A v \in Workers : snap'[v] \subseteq snap[v]
      BY <2>2 DEF Claim, IInv, TypeInv, TypeOK
    <3> QED BY <2>2, <3>1, <3>2 DEF Claim, QueueAfterClaim, history
  <2> QED BY <2>1, <2>2
<1>2. PICK j \in Jobs :
        /\ item' = [item EXCEPT ![w] = j]
        /\ j \in queueDir \/ \E i \in DOMAIN localQueue[Home(w)] : localQueue[Home(w)][i] = j
  <2>1. CASE TakeLocal(w)
    <3>1. localQueue[Home(w)] \in Seq(Jobs) /\ localQueue[Home(w)] # <<>>
      BY <1>0, <2>1 DEF TakeLocal, IInv, TypeInv, TypeOK
    <3>2. 1 \in DOMAIN localQueue[Home(w)] /\ Head(localQueue[Home(w)]) = localQueue[Home(w)][1]
      BY <3>1, TailAt
    <3>3. localQueue[Home(w)][1] \in Jobs
      BY <3>1, <3>2, SeqDomain
    <3> QED BY <2>1, <3>2, <3>3 DEF TakeLocal
  <2>2. CASE Claim(w)
    BY <2>2 DEF Claim, RenameWins, IInv, TypeInv, TypeOK
  <2> QED BY <2>1, <2>2
<1>3. \A p \in Pods : \A i \in DOMAIN localQueue'[p] :
        \E k \in DOMAIN localQueue[p] : localQueue'[p][i] = localQueue[p][k]
  <2>1. CASE TakeLocal(w)
    <3>1. localQueue[Home(w)] \in Seq(Jobs) /\ localQueue[Home(w)] # <<>>
      BY <1>0, <2>1 DEF TakeLocal, IInv, TypeInv, TypeOK
    <3>2. /\ localQueue'[Home(w)] = Tail(localQueue[Home(w)])
          /\ \A p \in Pods \ {Home(w)} : localQueue'[p] = localQueue[p]
      BY <1>0, <2>1 DEF TakeLocal, IInv, TypeInv, TypeOK
    <3>3. \A i \in DOMAIN Tail(localQueue[Home(w)]) :
            /\ i + 1 \in DOMAIN localQueue[Home(w)]
            /\ Tail(localQueue[Home(w)])[i] = localQueue[Home(w)][i + 1]
      BY <3>1, TailAt
    <3> QED BY <3>2, <3>3
  <2>2. CASE Claim(w)
    BY <2>2 DEF Claim
  <2> QED BY <2>1, <2>2
<1>4. \A k \in Jobs : InLocalQueue(k)' => InLocalQueue(k)
  BY <1>3 DEF InLocalQueue
<1>5. LocalMeansPinned' /\ KnownBeforeStart' /\ NeverListed'
  BY <1>1, <1>4 DEF Pinned, LocalMeansPinned, KnownBeforeStart, NeverListed
<1>6. PinnedStaysHome'
  <2> SUFFICES ASSUME NEW k \in AdHoc
               PROVE  /\ k \notin queueDir' \union claimedDir'
                      /\ \A p \in Pods :
                            \/ jobs[p][k] # "absent"
                            \/ \E i \in DOMAIN localQueue'[p] : localQueue'[p][i] = k
                            => p = handler[k]
                      /\ \A v \in Workers : item'[v] = k => Home(v) = handler[k]
    BY <1>1 DEF PinnedStaysHome, Holders
  <2>1. k \notin queueDir' \union claimedDir'
    BY <1>1 DEF Pinned, PinnedStaysHome
  <2>2. \A p \in Pods :
            \/ jobs[p][k] # "absent"
            \/ \E i \in DOMAIN localQueue'[p] : localQueue'[p][i] = k
            => p = handler[k]
    BY <1>3 DEF Pinned, PinnedStaysHome
  <2>3. ASSUME NEW v \in Workers, item'[v] = k
        PROVE  Home(v) = handler[k]
    BY <1>0, <1>2, <2>3 DEF IInv, TypeInv, TypeOK, Pinned, PinnedStaysHome, Holders
  <2> QED BY <2>1, <2>2, <2>3
<1> QED BY <1>5, <1>6 DEF Pinned

\* The worker that holds a job makes it known to its pod, or changes what its pod
\* knows of it.
LEMMA PinnedRun ==
    ASSUME IInv, Ledgers, Pinned, NEW w \in Workers,
           Start(w) \/ \E failed \in BOOLEAN : Finish(w, failed)
    PROVE  Pinned'
<1> DEFINE j == item[w]
<1>1. /\ UNCHANGED <<handler, stage, queueDir, claimedDir, localQueue, snap>>
      /\ j \in Jobs /\ Home(w) \in Pods
      /\ \A v \in Workers : item'[v] \in {item[v], NoJob}
      /\ \A k \in Jobs : started'[k] = 0 => started[k] = 0 /\ k # j
  <2>1. j \in Jobs /\ Home(w) \in Pods
    BY WorkerHome DEF Start, Finish, IInv, TypeInv, TypeOK, HoldsWhileBusy
  <2>2. CASE Start(w)
    BY <2>1, <2>2 DEF Start, callVars, diskVars, IInv, TypeInv, TypeOK
  <2>3. CASE \E failed \in BOOLEAN : Finish(w, failed)
    BY <2>1, <2>3 DEF Finish, callVars, diskVars, IInv, TypeInv, TypeOK, Ledgers, OpenScans
  <2> QED BY <2>1, <2>2, <2>3
<1>2. \A p \in Pods, k \in Jobs : jobs'[p][k] = jobs[p][k] \/ (p = Home(w) /\ k = j)
  <2>1. \E s \in Status : jobs' = [jobs EXCEPT ![Home(w)][j] = s]
    BY DEF Start, Finish, FinalStatus, Status, Outcomes
  <2> QED BY <1>1, <2>1 DEF IInv, TypeInv, TypeOK
<1>3. stage[j] # "new" /\ (j \in AdHoc => Home(w) = handler[j])
  BY <1>1 DEF IInv, Ownership, NotHandedOver, Untouched, Pinned, PinnedStaysHome, Holders
<1>4. \A k \in Jobs : InLocalQueue(k)' <=> InLocalQueue(k)
  BY <1>1 DEF InLocalQueue
<1>5. LocalMeansPinned' /\ KnownBeforeStart' /\ NeverListed'
  BY <1>1, <1>2, <1>3, <1>4 DEF Pinned, LocalMeansPinned, KnownBeforeStart, NeverListed
<1>6. PinnedStaysHome'
  BY <1>1, <1>2, <1>3, AdHocAssumption, NoneAssumption DEF Pinned, PinnedStaysHome, Holders
<1> QED BY <1>5, <1>6 DEF Pinned

LEMMA PinnedStep ==
    ASSUME IInv, Ledgers, Pinned, [Next]_vars
    PROVE  Pinned'
<1>1. ASSUME NEW j \in Jobs, Nudge(j)
      PROVE  Pinned'
  BY <1>1, PinnedQuiet DEF Nudge, diskVars, workerVars, history, IInv, TypeInv, TypeOK
<1>2. ASSUME NEW w \in Workers, ReadDir(w) \/ LoseClaim(w) \/ NothingToClaim(w)
      PROVE  Pinned'
  BY <1>2, PinnedQuiet
     DEF ReadDir, LoseClaim, NothingToClaim, callVars, diskVars, history, IInv, TypeInv, TypeOK
<1>3. ASSUME NEW w \in Workers, ReadClaim(w) \/ Skip(w) \/ Woken(w) \/ Tick(w)
      PROVE  Pinned'
  BY <1>3, PinnedQuiet
     DEF ReadClaim, Skip, Woken, Tick, callVars, diskVars, history, IInv, TypeInv, TypeOK
<1>4. ASSUME NEW p \in Pods, CloseListener(p) \/ AcquireDrain(p) \/ ReleaseDrain(p) \/ Drain(p)
      PROVE  Pinned'
  BY <1>4, PinnedQuiet
     DEF CloseListener, AcquireDrain, ReleaseDrain, Drain, callVars, diskVars, memoryVars,
         workerVars, history, IInv
<1>5. ASSUME NEW p \in Pods, Persist(p) \/ Boot(p)
      PROVE  Pinned'
  BY <1>5, PinnedQuiet DEF Persist, Boot, callVars, diskVars, workerVars, history, IInv
<1>6. ASSUME NEW p \in Pods, Stop(p)
      PROVE  Pinned'
  <2>1. \A q \in Pods : \A i \in DOMAIN localQueue'[q] :
          \E k \in DOMAIN localQueue[q] : localQueue'[q][i] = localQueue[q][k]
    BY <1>6 DEF Stop, IInv, TypeInv, TypeOK
  <2>2. \A q \in Pods, j \in Jobs : jobs'[q][j] # "absent" => jobs[q][j] # "absent"
    BY <1>6 DEF Stop, IInv, TypeInv, TypeOK
  <2> QED
    BY <1>6, <2>1, <2>2, PinnedQuiet DEF Stop, diskVars, history, IInv
<1>7. CASE UNCHANGED vars
  BY <1>7, PinnedQuiet DEF vars, callVars, diskVars, memoryVars, workerVars, history, IInv
<1> QED
  BY <1>1, <1>2, <1>3, <1>4, <1>5, <1>6, <1>7, PinnedSubmit, PinnedRegister, PinnedSendLocal,
     PinnedPublish, PinnedTake, PinnedRun
     DEF Next, CreateStep, WorkerStep, ShutdownStep, Exit, Crash

LEMMA PinnedInvariant == Spec => []Pinned
BY PinnedInit, PinnedStep, InductiveInvariant, LedgersInvariant, PTL DEF Spec

\* A job with credentials is only ever known to the pod that received them: it is
\* never on the volume's queue, and no other pod's worker gets hold of it.
THEOREM CredentialsStayHome == Spec => []PinnedStaysHome
BY PinnedInvariant, PTL DEF Pinned

-----------------------------------------------------------------------------
(* The memory of the pods.                                                  *)

LEMMA MemoriesInit == Init => Memories
<1> SUFFICES ASSUME Init PROVE Memories
  OBVIOUS
<1>1. /\ \A p \in Pods : DOMAIN persistCh[p] = {} /\ \A j \in Jobs : jobs[p][j] = "absent"
      /\ (\A w \in Workers : pc[w] = "idle") /\ \A j \in Jobs : stage[j] = "new"
  BY DEF Init
<1>2. DrainedIsQuiet /\ MemoryMatches
  BY <1>1 DEF DrainedIsQuiet, MemoryMatches
<1>3. OnePodKnows
  BY <1>1 DEF OnePodKnows
<1> QED BY <1>2, <1>3 DEF Memories

\* drainMu's write lock is granted when no scan runs, and no scan starts while it is held.
LEMMA DrainedStep ==
    ASSUME IInv, DrainedIsQuiet, [Next]_vars
    PROVE  DrainedIsQuiet'
<1>1. ASSUME NEW j \in Jobs, CreateStep(j) \/ \E p \in Pods : PersistJobSync(p, j)
      PROVE  DrainedIsQuiet'
  BY <1>1 DEF CreateStep, RegisterPinned, SendLocal, PublishShared, Nudge, PersistJobSync,
              workerVars, DrainedIsQuiet
<1>2. ASSUME NEW w \in Workers, WorkerStep(w) \/ Tick(w)
      PROVE  DrainedIsQuiet'
  <2>1. /\ UNCHANGED phase /\ \A v \in Workers \ {w} : pc'[v] = pc[v]
        /\ pc'[w] = "run" => pc[w] = "run" \/ phase[Home(w)] \notin GateShut
    BY <1>2 DEF WorkerStep, TakeLocal, ReadDir, Claim, LoseClaim, NothingToClaim, ReadClaim,
                Start, Skip, Finish, Woken, Tick, IInv, TypeInv, TypeOK
  <2> QED BY <2>1 DEF DrainedIsQuiet, GateShut
<1>3. ASSUME NEW p \in Pods, Persist(p) \/ Boot(p)
      PROVE  DrainedIsQuiet'
  BY <1>3, WorkerHome DEF Persist, Boot, Become, workerVars, IInv, TypeInv, TypeOK, DrainedIsQuiet
<1>4. ASSUME NEW p \in Pods, CloseListener(p) \/ AcquireDrain(p) \/ ReleaseDrain(p) \/ Drain(p)
      PROVE  DrainedIsQuiet'
  <2>1. /\ UNCHANGED pc /\ \A q \in Pods \ {p} : phase'[q] = phase[q]
        /\ phase'[p] = "flushing" => \A w \in HomeOf(p) : pc[w] # "run"
    BY <1>4 DEF CloseListener, AcquireDrain, ReleaseDrain, Drain, Become, workerVars,
                IInv, TypeInv, TypeOK
  <2> QED BY <2>1, WorkerHome DEF DrainedIsQuiet, HomeOf
<1>5. ASSUME NEW p \in Pods, Stop(p)
      PROVE  DrainedIsQuiet'
  BY <1>5, WorkerHome DEF Stop, IInv, TypeInv, TypeOK, DrainedIsQuiet
<1>6. CASE UNCHANGED vars
  BY <1>6 DEF vars, workerVars, DrainedIsQuiet
<1> QED
  BY <1>1, <1>2, <1>3, <1>4, <1>5, <1>6 DEF Next, ShutdownStep, Exit, Crash

\* The steps that change none of what OnePodKnows looks at, or only take from it.
LEMMA KnowsQuiet ==
    ASSUME TypeInv, OnePodKnows,
           \A p \in Pods, j \in Jobs : jobs'[p][j] = jobs[p][j] \/ jobs'[p][j] = "absent",
           \A p \in Pods : \A i \in DOMAIN persistCh'[p] :
              \E k \in DOMAIN persistCh[p] : persistCh'[p][i] = persistCh[p][k],
           \A w \in Workers : pc'[w] = "run" =>
              /\ pc[w] = "run" /\ item'[w] = item[w]
              /\ \A j \in Jobs : jobs'[Home(w)][j] = jobs[Home(w)][j]
    PROVE  OnePodKnows'
<1>1. \A p, q \in Pods, j \in Jobs :
        jobs'[p][j] # "absent" /\ jobs'[q][j] # "absent" => p = q
  BY DEF OnePodKnows
<1>2. \A p, q \in Pods : \A i \in DOMAIN persistCh'[q] :
        jobs'[p][persistCh'[q][i].job] # "absent" => p = q
  <2> SUFFICES ASSUME NEW p \in Pods, NEW q \in Pods, NEW i \in DOMAIN persistCh'[q],
                      jobs'[p][persistCh'[q][i].job] # "absent"
               PROVE  p = q
    OBVIOUS
  <2>1. PICK k \in DOMAIN persistCh[q] : persistCh'[q][i] = persistCh[q][k]
    OBVIOUS
  <2>2. persistCh[q][k].job \in Jobs
    BY WriteTypes
  <2> QED BY <2>1, <2>2 DEF OnePodKnows
<1>3. \A w \in Workers : pc'[w] = "run" => jobs'[Home(w)][item'[w]] # "absent"
  <2> SUFFICES ASSUME NEW w \in Workers, pc'[w] = "run"
               PROVE  jobs'[Home(w)][item'[w]] # "absent"
    OBVIOUS
  <2>1. item[w] \in Jobs
    BY DEF TypeInv, TypeOK, HoldsWhileBusy
  <2> QED BY <2>1 DEF OnePodKnows
<1> QED BY <1>1, <1>2, <1>3 DEF OnePodKnows

\* A pinned job becomes known before anything is written of it.
LEMMA KnowsRegister ==
    ASSUME IInv, Ledgers, Pinned, OnePodKnows, NEW j \in Jobs, RegisterPinned(j)
    PROVE  OnePodKnows'
<1> DEFINE h == handler[j]
<1>1. /\ UNCHANGED <<persistCh, pc, item>> /\ h \in Pods
      /\ stage[j] = "persisted" /\ j \in AdHoc
      /\ jobs'[h][j] = "queued"
      /\ \A q \in Pods, k \in Jobs : jobs'[q][k] = jobs[q][k] \/ (q = h /\ k = j)
  BY DEF RegisterPinned, HasAdHocCredentials, workerVars, IInv, TypeInv, TypeOK, CallHasHandler
<1>2. \A q \in Pods : jobs[q][j] # "absent" => q = h
  BY <1>1 DEF Pinned, PinnedStaysHome
<1>3. \A q \in Pods : \A i \in DOMAIN persistCh[q] :
        persistCh[q][i].job \in Jobs /\ persistCh[q][i].job # j
  <2>1. started[j] = 0
    BY <1>1 DEF IInv, Ownership, NotHandedOver, Untouched
  <2> QED BY <2>1, WriteTypes DEF IInv, Ledgers, WritesTellScans
<1>4. \A w \in Workers : pc[w] = "run" =>
        item[w] \in Jobs /\ jobs'[Home(w)][item[w]] # "absent"
  <2> SUFFICES ASSUME NEW w \in Workers, pc[w] = "run"
               PROVE  item[w] \in Jobs /\ jobs'[Home(w)][item[w]] # "absent"
    OBVIOUS
  <2>1. item[w] \in Jobs /\ Home(w) \in Pods
    BY WorkerHome DEF IInv, TypeInv, TypeOK, HoldsWhileBusy
  <2>2. jobs[Home(w)][item[w]] # "absent"
    BY DEF OnePodKnows
  <2> QED BY <1>1, <2>1, <2>2
<1> QED BY <1>1, <1>2, <1>3, <1>4 DEF OnePodKnows

\* The pod whose worker runs a job is the one that knows it.
LEMMA KnowsRun ==
    ASSUME IInv, Ledgers, Pinned, OnePodKnows, NEW w \in Workers,
           Start(w) \/ \E failed \in BOOLEAN : Finish(w, failed)
    PROVE  OnePodKnows'
<1> DEFINE p == Home(w)
           j == item[w]
<1>1. j \in Jobs /\ p \in Pods
  BY WorkerHome DEF Start, Finish, IInv, TypeInv, TypeOK, HoldsWhileBusy
<1>2. PICK s \in Status : EnqueuePersist(p, j, s) /\ jobs' = [jobs EXCEPT ![p][j] = s]
  BY DEF Start, Finish, FinalStatus, Status, Outcomes
<1>3. /\ jobs'[p][j] = s
      /\ \A q \in Pods, k \in Jobs : jobs'[q][k] = jobs[q][k] \/ (q = p /\ k = j)
  BY <1>1, <1>2 DEF IInv, TypeInv, TypeOK
<1>4. \A q \in Pods : jobs[q][j] # "absent" => q = p
  <2>1. CASE Start(w)
    <3>1. started[j] = 0
      BY <2>1 DEF Start, IInv, Ownership, NotStartedAtGate
    <3> QED
      BY <1>1, <3>1 DEF Pinned, KnownBeforeStart, PinnedStaysHome, Holders
  <2>2. CASE \E failed \in BOOLEAN : Finish(w, failed)
    BY <1>1, <2>2 DEF Finish, OnePodKnows
  <2> QED BY <2>1, <2>2
<1>5. \A q \in Pods : \A i \in DOMAIN persistCh[q] : persistCh[q][i].job = j => q = p
  <2>1. CASE Start(w)
    <3>1. started[j] = 0
      BY <2>1 DEF Start, IInv, Ownership, NotStartedAtGate
    <3> QED
      BY <3>1 DEF Ledgers, WritesTellScans
  <2>2. CASE \E failed \in BOOLEAN : Finish(w, failed)
    <3>1. jobs[p][j] # "absent"
      BY <2>2 DEF Finish, OnePodKnows
    <3> QED BY <1>1, <3>1 DEF OnePodKnows
  <2> QED BY <2>1, <2>2
<1>6. \A q \in Pods : \A i \in DOMAIN persistCh'[q] :
        \/ i \in DOMAIN persistCh[q] /\ persistCh'[q][i] = persistCh[q][i]
        \/ q = p /\ persistCh'[q][i].job = j
  <2>1. PICK n \in Nat :
          /\ persistCh'[p][n] = [job |-> j, status |-> s]
          /\ \A q \in Pods : \A i \in DOMAIN persistCh[q] : persistCh'[q][i] = persistCh[q][i]
          /\ \A q \in Pods : \A i \in DOMAIN persistCh'[q] :
                i \in DOMAIN persistCh[q] \/ (q = p /\ i = n)
    BY <1>1, <1>2, EnqueueAt DEF IInv
  <2>2. persistCh'[p][n].job = j
    BY <2>1
  <2> QED BY <2>1, <2>2
<1>7. \A q \in Pods : \A i \in DOMAIN persistCh[q] : persistCh[q][i].job \in Jobs
  BY WriteTypes DEF IInv
<1>8. s # "absent"
  BY DEF Status, Outcomes
<1>9. \A q, r \in Pods, k \in Jobs :
        jobs'[q][k] # "absent" /\ jobs'[r][k] # "absent" => q = r
  BY <1>3, <1>4 DEF OnePodKnows
<1>10. \A q, r \in Pods : \A i \in DOMAIN persistCh'[r] :
        jobs'[q][persistCh'[r][i].job] # "absent" => q = r
  <2> SUFFICES ASSUME NEW q \in Pods, NEW r \in Pods, NEW i \in DOMAIN persistCh'[r],
                      jobs'[q][persistCh'[r][i].job] # "absent"
               PROVE  q = r
    OBVIOUS
  <2>1. CASE persistCh'[r][i].job = j
    <3>1. q = p
      BY <1>3, <1>4, <1>1, <2>1
    <3>2. r = p
      BY <1>5, <1>6, <2>1
    <3> QED BY <3>1, <3>2
  <2>2. CASE persistCh'[r][i].job # j
    BY <1>3, <1>6, <1>7, <2>2 DEF OnePodKnows
  <2> QED BY <2>1, <2>2
<1>11. \A v \in Workers : pc'[v] = "run" => jobs'[Home(v)][item'[v]] # "absent"
  <2> SUFFICES ASSUME NEW v \in Workers, pc'[v] = "run"
               PROVE  jobs'[Home(v)][item'[v]] # "absent"
    OBVIOUS
  <2>1. item'[v] = item[v] /\ (v = w \/ pc[v] = "run")
    BY DEF Start, Finish, IInv, TypeInv, TypeOK
  <2>2. item[v] \in Jobs /\ Home(v) \in Pods
    BY <1>1, <2>1, WorkerHome DEF IInv, TypeInv, TypeOK, HoldsWhileBusy
  <2> QED BY <1>3, <1>8, <2>1, <2>2 DEF OnePodKnows
<1> QED BY <1>9, <1>10, <1>11 DEF OnePodKnows

LEMMA KnowsStep ==
    ASSUME IInv, Ledgers, Pinned, OnePodKnows, [Next]_vars
    PROVE  OnePodKnows'
<1>1. ASSUME NEW j \in Jobs, \/ SendLocal(j) \/ PublishShared(j) \/ Nudge(j)
                             \/ \E p \in Pods : PersistJobSync(p, j)
      PROVE  OnePodKnows'
  BY <1>1, KnowsQuiet DEF SendLocal, PublishShared, Nudge, PersistJobSync, workerVars, IInv
<1>2. ASSUME NEW w \in Workers, TakeLocal(w) \/ ReadDir(w) \/ Claim(w) \/ LoseClaim(w)
                                  \/ NothingToClaim(w)
      PROVE  OnePodKnows'
  BY <1>2, KnowsQuiet
     DEF TakeLocal, ReadDir, Claim, LoseClaim, NothingToClaim, IInv, TypeInv, TypeOK
<1>3. ASSUME NEW w \in Workers, ReadClaim(w) \/ Skip(w) \/ Woken(w) \/ Tick(w)
      PROVE  OnePodKnows'
  BY <1>3, KnowsQuiet DEF ReadClaim, Skip, Woken, Tick, IInv, TypeInv, TypeOK
<1>4. ASSUME NEW p \in Pods, CloseListener(p) \/ AcquireDrain(p) \/ ReleaseDrain(p) \/ Drain(p)
      PROVE  OnePodKnows'
  BY <1>4, KnowsQuiet
     DEF CloseListener, AcquireDrain, ReleaseDrain, Drain, memoryVars, workerVars, IInv
<1>5. ASSUME NEW p \in Pods, Boot(p)
      PROVE  OnePodKnows'
  BY <1>5, KnowsQuiet DEF Boot, Become, IInv, TypeInv, TypeOK
<1>6. ASSUME NEW p \in Pods, Persist(p)
      PROVE  OnePodKnows'
  <2>1. \A q \in Pods : \A i \in DOMAIN persistCh'[q] :
          \E k \in DOMAIN persistCh[q] : persistCh'[q][i] = persistCh[q][k]
    BY <1>6, DequeueAt DEF IInv
  <2> QED BY <1>6, <2>1, KnowsQuiet DEF Persist, workerVars, IInv
<1>7. ASSUME NEW p \in Pods, Stop(p)
      PROVE  OnePodKnows'
  <2>1. \A q \in Pods : \A i \in DOMAIN persistCh'[q] :
          \E k \in DOMAIN persistCh[q] : persistCh'[q][i] = persistCh[q][k]
    BY <1>7 DEF Stop, IInv, TypeInv, TypeOK
  <2>2. \A q \in Pods, j \in Jobs : jobs'[q][j] = IF q = p THEN "absent" ELSE jobs[q][j]
    BY <1>7 DEF Stop, IInv, TypeInv, TypeOK
  <2>3. \A w \in Workers : pc'[w] = "run" => Home(w) # p /\ pc[w] = "run" /\ item'[w] = item[w]
    BY <1>7 DEF Stop
  <2> QED BY <2>1, <2>2, <2>3, WorkerHome, KnowsQuiet DEF IInv
<1>8. CASE UNCHANGED vars
  BY <1>8, KnowsQuiet DEF vars, memoryVars, workerVars, IInv
<1> QED
  BY <1>1, <1>2, <1>3, <1>4, <1>5, <1>6, <1>7, <1>8, KnowsRegister, KnowsRun
     DEF Next, CreateStep, WorkerStep, ShutdownStep, Exit, Crash

\* The steps that touch neither the volume, nor the memory, nor the channels.
LEMMA MatchesQuiet ==
    ASSUME MemoryMatches, UNCHANGED <<jobJSON, persistCh, jobs, started>>,
           \A j \in Jobs : stage'[j] = "persisted" => stage[j] = "persisted"
    PROVE  MemoryMatches'
BY DEF MemoryMatches, IsLast

\* The write of a CreateJob call is of a job that no pod knows.
LEMMA MatchesSubmit ==
    ASSUME IInv, Pinned, MemoryMatches, NEW p \in Pods, NEW j \in Jobs,
           PersistJobSync(p, j), UNCHANGED faults
    PROVE  MemoryMatches'
<1>1. /\ UNCHANGED <<persistCh, jobs, started>> /\ stage[j] = "new"
      /\ jobJSON' = [jobJSON EXCEPT ![j] = "queued"]
      /\ \A k \in Jobs \ {j} : stage'[k] = stage[k]
  BY DEF PersistJobSync, Fault, history, IInv, TypeInv, TypeOK
<1>2. jobJSON'[j] = "queued" /\ \A k \in Jobs \ {j} : jobJSON'[k] = jobJSON[k]
  BY <1>1 DEF IInv, TypeInv, TypeOK
<1>3. \A q \in Pods : jobs[q][j] = "absent"
  BY <1>1 DEF Pinned, KnownBeforeStart
<1> QED BY <1>1, <1>2, <1>3 DEF MemoryMatches, IsLast

\* A pinned job enters the memory as what CreateJob has just written.
LEMMA MatchesRegister ==
    ASSUME IInv, Ledgers, MemoryMatches, NEW j \in Jobs, RegisterPinned(j)
    PROVE  MemoryMatches'
<1> DEFINE h == handler[j]
<1>1. /\ UNCHANGED <<jobJSON, persistCh, started>> /\ stage[j] = "persisted"
      /\ jobs'[h][j] = "queued"
      /\ \A q \in Pods, k \in Jobs : jobs'[q][k] = jobs[q][k] \/ (q = h /\ k = j)
      /\ \A k \in Jobs : stage'[k] = "persisted" => stage[k] = "persisted"
  BY DEF RegisterPinned, diskVars, history, IInv, TypeInv, TypeOK, CallHasHandler
<1>2. started[j] = 0
  BY <1>1 DEF IInv, Ownership, NotHandedOver, Untouched
<1>3. \A q \in Pods : \A i \in DOMAIN persistCh[q] : persistCh[q][i].job # j
  BY <1>2 DEF Ledgers, WritesTellScans
<1>4. jobJSON[j] = "queued"
  BY <1>1, <1>2 DEF MemoryMatches
<1> QED BY <1>1, <1>3, <1>4 DEF MemoryMatches, IsLast

\* A worker writes what it puts in the memory, behind what it wrote before.
LEMMA MatchesRun ==
    ASSUME IInv, MemoryMatches, NEW w \in Workers,
           Start(w) \/ \E failed \in BOOLEAN : Finish(w, failed)
    PROVE  MemoryMatches'
<1> DEFINE p == Home(w)
           j == item[w]
<1>1. j \in Jobs /\ p \in Pods
  BY WorkerHome DEF Start, Finish, IInv, TypeInv, TypeOK, HoldsWhileBusy
<1>2. PICK s \in Status : EnqueuePersist(p, j, s) /\ jobs' = [jobs EXCEPT ![p][j] = s]
  BY DEF Start, Finish, FinalStatus, Status, Outcomes
<1>3. /\ jobs'[p][j] = s
      /\ \A q \in Pods, k \in Jobs : jobs'[q][k] = jobs[q][k] \/ (q = p /\ k = j)
  BY <1>1, <1>2 DEF IInv, TypeInv, TypeOK
<1>4. PICK n \in Nat :
        /\ n \in DOMAIN persistCh'[p] /\ persistCh'[p][n] = [job |-> j, status |-> s]
        /\ \A i \in DOMAIN persistCh[p] : i \in Nat /\ i < n
        /\ \A q \in Pods : \A i \in DOMAIN persistCh[q] :
              i \in DOMAIN persistCh'[q] /\ persistCh'[q][i] = persistCh[q][i]
        /\ \A q \in Pods : \A i \in DOMAIN persistCh'[q] :
              i \in DOMAIN persistCh[q] \/ (q = p /\ i = n)
  BY <1>1, <1>2, EnqueueAt DEF IInv
<1>5. persistCh'[p][n].job = j /\ persistCh'[p][n].status = s
  BY <1>4
<1>6. \A k \in Jobs : stage'[k] = "persisted" /\ started'[k] = 0 => jobJSON'[k] = "queued"
  <2>1. /\ UNCHANGED <<stage, jobJSON>>
        /\ \A k \in Jobs : started'[k] = 0 => started[k] = 0
    BY <1>1 DEF Start, Finish, callVars, diskVars, IInv, TypeInv, TypeOK
  <2> QED BY <2>1 DEF MemoryMatches
<1>7. ASSUME NEW q \in Pods, NEW k \in Jobs, jobs'[q][k] # "absent"
      PROVE  IF \E i \in DOMAIN persistCh'[q] : persistCh'[q][i].job = k
             THEN \A i \in DOMAIN persistCh'[q] :
                     persistCh'[q][i].job = k /\ IsLast(q, i)' => persistCh'[q][i].status = jobs'[q][k]
             ELSE jobJSON'[k] = jobs'[q][k]
  <2>1. CASE q = p /\ k = j
    <3>1. ASSUME NEW i \in DOMAIN persistCh'[q], persistCh'[q][i].job = k, IsLast(q, i)'
          PROVE  i = n
      BY <1>4, <1>5, <2>1, <3>1 DEF IsLast
    <3> QED BY <1>3, <1>4, <1>5, <2>1, <3>1
  <2>2. CASE ~ (q = p /\ k = j)
    <3>1. jobs'[q][k] = jobs[q][k] /\ UNCHANGED jobJSON
      BY <1>3, <2>2 DEF Start, Finish, diskVars
    <3>2. \A i \in DOMAIN persistCh'[q] : persistCh'[q][i].job = k =>
            i \in DOMAIN persistCh[q] /\ persistCh'[q][i] = persistCh[q][i]
      BY <1>4, <1>5, <2>2
    <3>3. \A i \in DOMAIN persistCh[q] : persistCh[q][i].job = k /\ IsLast(q, i)' => IsLast(q, i)
      BY <1>4 DEF IsLast
    <3>4. (\E i \in DOMAIN persistCh'[q] : persistCh'[q][i].job = k)
            <=> \E i \in DOMAIN persistCh[q] : persistCh[q][i].job = k
      BY <1>4, <3>2
    <3> QED BY <3>1, <3>2, <3>3, <3>4, <1>7 DEF MemoryMatches
  <2> QED BY <2>1, <2>2
<1> QED BY <1>6, <1>7 DEF MemoryMatches

\* What is applied is the oldest write; if it is the last of its job, job.json says
\* from now on what the memory says.
LEMMA MatchesPersist ==
    ASSUME IInv, Ledgers, OnePodKnows, MemoryMatches, NEW p \in Pods, Persist(p),
           UNCHANGED faults
    PROVE  MemoryMatches'
<1> DEFINE e == persistCh[p][1]
<1>1. /\ 1 \in DOMAIN persistCh[p] /\ e.job \in Jobs
      /\ jobJSON' = [jobJSON EXCEPT ![e.job] = e.status]
      /\ UNCHANGED <<jobs, stage, started>>
  <2>1. faults' # faults + 1
    BY DEF IInv, TypeInv, TypeOK
  <2> QED
    BY <2>1, DequeueAt, WriteTypes DEF Persist, history, IInv
<1>2. /\ jobJSON'[e.job] = e.status
      /\ \A k \in Jobs \ {e.job} : jobJSON'[k] = jobJSON[k]
  BY <1>1 DEF IInv, TypeInv, TypeOK
<1>3. PICK d \in [Pods -> {0, 1}] :
        /\ d[p] = 1
        /\ \A q \in Pods : \A i \in DOMAIN persistCh'[q] :
              /\ i \in Nat \ {0} /\ i + d[q] \in DOMAIN persistCh[q]
              /\ persistCh'[q][i] = persistCh[q][i + d[q]]
        /\ \A q \in Pods : \A i \in DOMAIN persistCh[q] :
              i - d[q] \in DOMAIN persistCh'[q] \/ (q = p /\ i = 1)
  BY DequeueAt DEF IInv
<1>4. \A q \in Pods : \A i \in DOMAIN persistCh[q] :
        /\ i \in Nat \ {0} /\ d[q] \in {0, 1} /\ (i - d[q]) + d[q] = i
  BY SeqDomain DEF IInv, TypeInv, TypeOK
<1>5. \A k \in Jobs : stage'[k] = "persisted" /\ started'[k] = 0 => jobJSON'[k] = "queued"
  <2>1. started[e.job] > 0
    BY <1>1 DEF Ledgers, WritesTellScans
  <2> QED BY <1>1, <1>2, <2>1 DEF MemoryMatches
<1>6. ASSUME NEW q \in Pods, NEW k \in Jobs, jobs[q][k] # "absent"
      PROVE  IF \E i \in DOMAIN persistCh'[q] : persistCh'[q][i].job = k
             THEN \A i \in DOMAIN persistCh'[q] :
                     persistCh'[q][i].job = k /\ IsLast(q, i)' => persistCh'[q][i].status = jobs[q][k]
             ELSE jobJSON'[k] = jobs[q][k]
  <2>1. CASE \E i \in DOMAIN persistCh'[q] : persistCh'[q][i].job = k
    <3>1. ASSUME NEW i \in DOMAIN persistCh'[q], persistCh'[q][i].job = k, IsLast(q, i)'
          PROVE  persistCh'[q][i].status = jobs[q][k]
      <4>1. /\ i \in Nat \ {0} /\ d[q] \in {0, 1} /\ i + d[q] \in DOMAIN persistCh[q]
            /\ persistCh'[q][i] = persistCh[q][i + d[q]]
        BY <1>3
      <4>2. ASSUME NEW m \in DOMAIN persistCh[q], m > i + d[q]
            PROVE  persistCh[q][m].job # k
        <5>1. /\ m \in Nat \ {0} /\ m - d[q] > i /\ (m - d[q]) + d[q] = m /\ m # 1
          BY <1>4, <4>1, <4>2
        <5>2. m - d[q] \in DOMAIN persistCh'[q]
          BY <1>3, <5>1
        <5>3. persistCh'[q][m - d[q]] = persistCh[q][m]
          BY <1>3, <5>1, <5>2
        <5> QED BY <3>1, <5>1, <5>2, <5>3 DEF IsLast
      <4>3. IsLast(q, i + d[q])
        BY <3>1, <4>1, <4>2 DEF IsLast
      <4> QED BY <1>6, <3>1, <4>1, <4>3 DEF MemoryMatches
    <3> QED BY <2>1, <3>1
  <2>2. CASE ~ \E i \in DOMAIN persistCh'[q] : persistCh'[q][i].job = k
    <3>1. ASSUME NEW i \in DOMAIN persistCh[q], persistCh[q][i].job = k
          PROVE  q = p /\ i = 1
      <4>1. CASE i - d[q] \in DOMAIN persistCh'[q]
        <5>1. persistCh'[q][i - d[q]] = persistCh[q][i]
          BY <1>3, <1>4, <4>1
        <5> QED BY <2>2, <3>1, <4>1, <5>1
      <4> QED BY <1>3, <4>1
    <3>2. CASE k = e.job
      <4>1. q = p
        BY <1>1, <1>6, <3>2 DEF OnePodKnows
      <4>2. IsLast(p, 1)
        BY <1>4, <3>1, <3>2, <4>1 DEF IsLast
      <4> QED BY <1>1, <1>2, <1>6, <2>2, <3>2, <4>1, <4>2 DEF MemoryMatches
    <3>3. CASE k # e.job
      BY <1>2, <1>6, <2>2, <3>1, <3>3 DEF MemoryMatches
    <3> QED BY <3>2, <3>3
  <2> QED BY <2>1, <2>2
<1> QED BY <1>1, <1>5, <1>6 DEF MemoryMatches

\* A pod that ends forgets everything, and its writes with it.
LEMMA MatchesStop ==
    ASSUME IInv, MemoryMatches, NEW p \in Pods, Stop(p)
    PROVE  MemoryMatches'
<1>1. /\ \A q \in Pods \ {p} : persistCh'[q] = persistCh[q] /\ jobs'[q] = jobs[q]
      /\ \A j \in Jobs : jobs'[p][j] = "absent" /\ (stage'[j] = "persisted" => stage[j] = "persisted")
      /\ UNCHANGED <<jobJSON, started>>
  BY DEF Stop, diskVars, history, IInv, TypeInv, TypeOK
<1> QED BY <1>1 DEF MemoryMatches, IsLast

LEMMA MatchesStep ==
    ASSUME IInv, Ledgers, Pinned, OnePodKnows, faults = 0 => MemoryMatches, [Next]_vars
    PROVE  faults' = 0 => MemoryMatches'
<1>1. ASSUME NEW j \in Jobs, NEW p \in Pods, PersistJobSync(p, j), faults' = 0
      PROVE  MemoryMatches'
  <2>1. UNCHANGED faults
    BY <1>1 DEF PersistJobSync, Fault, budget, IInv, TypeInv, TypeOK
  <2> QED BY <1>1, <2>1, MatchesSubmit
<1>2. ASSUME NEW j \in Jobs, SendLocal(j) \/ PublishShared(j) \/ Nudge(j), faults' = 0
      PROVE  MemoryMatches'
  <2>1. UNCHANGED faults
    BY <1>2 DEF SendLocal, PublishShared, Nudge, Fault, budget, IInv, TypeInv, TypeOK
  <2> QED
    BY <1>2, <2>1, MatchesQuiet
       DEF SendLocal, PublishShared, Nudge, diskVars, history, IInv, TypeInv, TypeOK
<1>3. ASSUME NEW j \in Jobs, RegisterPinned(j), faults' = 0
      PROVE  MemoryMatches'
  BY <1>3, MatchesRegister DEF RegisterPinned, budget
<1>4. ASSUME NEW w \in Workers, \/ TakeLocal(w) \/ ReadDir(w) \/ Claim(w) \/ LoseClaim(w)
                                \/ NothingToClaim(w), faults' = 0
      PROVE  MemoryMatches'
  <2>1. UNCHANGED faults
    BY <1>4 DEF TakeLocal, ReadDir, Claim, LoseClaim, NothingToClaim, Fault, budget,
                IInv, TypeInv, TypeOK
  <2> QED
    BY <1>4, <2>1, MatchesQuiet
       DEF TakeLocal, ReadDir, Claim, LoseClaim, NothingToClaim, callVars, diskVars, history
<1>5. ASSUME NEW w \in Workers, ReadClaim(w) \/ Skip(w) \/ Woken(w) \/ Tick(w), faults' = 0
      PROVE  MemoryMatches'
  <2>1. UNCHANGED faults
    BY <1>5 DEF ReadClaim, Skip, Woken, Tick, Fault, budget, IInv, TypeInv, TypeOK
  <2> QED
    BY <1>5, <2>1, MatchesQuiet
       DEF ReadClaim, Skip, Woken, Tick, callVars, diskVars, history
<1>6. ASSUME NEW w \in Workers, Start(w) \/ \E failed \in BOOLEAN : Finish(w, failed),
             faults' = 0
      PROVE  MemoryMatches'
  BY <1>6, MatchesRun DEF Start, Finish, budget
<1>7. ASSUME NEW p \in Pods, Persist(p), faults' = 0
      PROVE  MemoryMatches'
  <2>1. UNCHANGED faults
    BY <1>7 DEF Persist, Fault, budget, IInv, TypeInv, TypeOK
  <2> QED BY <1>7, <2>1, MatchesPersist
<1>8. ASSUME NEW p \in Pods, \/ CloseListener(p) \/ AcquireDrain(p) \/ ReleaseDrain(p)
                             \/ Drain(p) \/ Boot(p), faults' = 0
      PROVE  MemoryMatches'
  BY <1>8, MatchesQuiet
     DEF CloseListener, AcquireDrain, ReleaseDrain, Drain, Boot, callVars, diskVars,
         memoryVars, history, budget
<1>9. ASSUME NEW p \in Pods, Exit(p) \/ Crash(p), faults' = 0
      PROVE  MemoryMatches'
  BY <1>9, MatchesStop DEF Exit, Crash, budget
<1>10. CASE UNCHANGED vars /\ faults' = 0
  BY <1>10, MatchesQuiet DEF vars, callVars, diskVars, memoryVars, history, budget
<1> QED
  BY <1>1, <1>2, <1>3, <1>4, <1>5, <1>6, <1>7, <1>8, <1>9, <1>10
     DEF Next, CreateStep, WorkerStep, ShutdownStep

LEMMA MemoriesInvariant == Spec => []Memories
<1>1. IInv /\ Ledgers /\ Pinned /\ Memories /\ [Next]_vars => Memories'
  BY DrainedStep, KnowsStep, MatchesStep DEF Memories
<1> QED
  BY <1>1, MemoriesInit, InductiveInvariant, LedgersInvariant, PinnedInvariant, PTL DEF Spec

\* When a graceful shutdown gives drainMu back no scan of the pod is under way and,
\* unless a disk operation failed, the volume says of each of its jobs what its
\* memory said: nothing the pod knew is lost with it.
THEOREM DrainKeepsEverything ==
    Spec /\ [](faults = 0) => DrainKeepsResults
<1> DEFINE Kept ==
        \A p \in Pods : phase[p] = "flushing" /\ phase'[p] = "released" =>
           /\ \A w \in HomeOf(p) : pc[w] # "run"
           /\ \A j \in Jobs : jobs[p][j] \in {"absent", jobJSON[j]}
<1>1. IInv /\ Memories /\ faults = 0 /\ [Next]_vars => [Kept]_vars
  <2> SUFFICES ASSUME IInv, Memories, faults = 0, Next, NEW p \in Pods,
                      phase[p] = "flushing", phase'[p] = "released"
               PROVE  /\ \A w \in HomeOf(p) : pc[w] # "run"
                      /\ \A j \in Jobs : jobs[p][j] \in {"absent", jobJSON[j]}
    OBVIOUS
  <2>1. ReleaseDrain(p)
    <3>1. ASSUME NEW j \in Jobs, CreateStep(j) \/ \E q \in Pods : PersistJobSync(q, j)
          PROVE  UNCHANGED phase
      BY <3>1 DEF CreateStep, RegisterPinned, SendLocal, PublishShared, Nudge, PersistJobSync
    <3>2. ASSUME NEW w \in Workers, WorkerStep(w) \/ Tick(w)
          PROVE  UNCHANGED phase
      BY <3>2 DEF WorkerStep, TakeLocal, ReadDir, Claim, LoseClaim, NothingToClaim, ReadClaim,
                  Start, Skip, Finish, Woken, Tick
    <3>3. ASSUME NEW q \in Pods, Persist(q) \/ ShutdownStep(q) \/ Boot(q) \/ Drain(q) \/ Crash(q)
          PROVE  ReleaseDrain(p)
      BY <3>3 DEF Persist, ShutdownStep, CloseListener, AcquireDrain, ReleaseDrain, Exit, Boot,
                  Drain, Crash, Stop, Become, IInv, TypeInv, TypeOK
    <3> QED BY <3>1, <3>2, <3>3 DEF Next
  <2>2. \A w \in HomeOf(p) : pc[w] # "run"
    BY DEF HomeOf, Memories, DrainedIsQuiet
  <2>3. DOMAIN persistCh[p] = {}
    BY <2>1 DEF ReleaseDrain, Drained
  <2> QED BY <2>2, <2>3 DEF Memories, MemoryMatches
<1> QED
  BY <1>1, InductiveInvariant, MemoriesInvariant, PTL DEF Spec, DrainKeepsResults
=============================================================================
