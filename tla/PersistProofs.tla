---------------------------- MODULE PersistProofs ----------------------------
(***************************************************************************)
(* What Persist keeps true for any number of scans, tools and readers, any *)
(* capacity of persistCh and any number of calls: the volume follows the   *)
(* memory, line by line and version by version, and no reader goes back.   *)
(***************************************************************************)
EXTENDS Persist, SequenceTheorems, FiniteSetTheorems, TLAPS

-----------------------------------------------------------------------------
(* Types.                                                                  *)

LEMMA JobForType == \A g \in Goroutines : JobFor(g) \in Jobs
BY PersistAssumption DEF Goroutines, JobFor

\* Take removes the oldest task; the others move up by one.
LEMMA TakeFirst ==
    ASSUME NEW S, NEW s \in Seq(S), s # <<>>
    PROVE  LET rest == SubSeq(s, 1, Due - 1) \o SubSeq(s, Due + 1, Len(s))
           IN  /\ s[Due] \in S
               /\ rest \in Seq(S) /\ Len(rest) = Len(s) - 1 /\ Len(rest) \in Nat
               /\ \A i \in 1..Len(rest) : rest[i] = s[i + 1]
<1> DEFINE r == SubSeq(s, 2, Len(s))
<1>1. Len(s) \in Nat \ {0} /\ \A i \in 1..Len(s) : s[i] \in S
  OBVIOUS
<1>2. r \in Seq(S) /\ Len(r) = Len(s) - 1
  <2>1. 2 \in Int /\ Len(s) \in Int
    BY <1>1
  <2>2. \A i \in 2..Len(s) : s[i] \in S
    BY <1>1
  <2>3. r \in Seq(S)
    BY <2>1, <2>2, SubSeqProperties, Zenon
  <2>4. Len(r) = IF 2 <= Len(s) THEN Len(s) - 2 + 1 ELSE 0
    BY <2>1, <2>2, SubSeqProperties
  <2> DEFINE a == Len(s)
             b == Len(r)
  <2>5. a \in Nat \ {0} /\ b = IF 2 <= a THEN a - 2 + 1 ELSE 0
    BY <1>1, <2>4
  <2> HIDE DEF r, a, b
  <2>6. b = a - 1
    BY <2>5
  <2> QED BY <2>3, <2>6 DEF a, b
<1>3. \A i \in 1..(Len(s) - 1) : r[i] = s[i + 1]
  <2> SUFFICES ASSUME NEW i \in 1..(Len(s) - 1) PROVE r[i] = s[i + 1]
    OBVIOUS
  <2>1. i \in 1..(Len(s) - 2 + 1) /\ 2 + i - 1 = i + 1
    BY <1>1
  <2> QED BY <1>1, <2>1, SubSeqProperties
<1>4. SubSeq(s, 1, 0) = <<>>
  BY SubSeqEmpty
<1> HIDE DEF r
<1>5. SubSeq(s, 1, 0) \o r = r
  BY <1>2, <1>4, ConcatEmptySeq
<1>6. Due = 1 /\ Due - 1 = 0 /\ Due + 1 = 2
  BY DEF Due
<1>7. SubSeq(s, 1, Due - 1) \o SubSeq(s, Due + 1, Len(s)) = r
  BY <1>5, <1>6 DEF r
<1> QED BY <1>1, <1>2, <1>3, <1>6, <1>7

\* What a goroutine is about to send is a task.
TypeInv ==
    /\ TypeOK
    /\ \A g \in Goroutines : made[g] \in Tasks <=> pc[g] = "send"

LEMMA Kinded == /\ \A e \in Tasks : e.kind \in Kinds /\ e.job \in Jobs /\ e.n \in Nat /\ e.lines \in Nat
                /\ NoTask \notin Tasks /\ Sentinel \notin Tasks /\ NoTask # Sentinel
                /\ NoTask.kind = "none" /\ Sentinel.kind = "sentinel"
<1>1. NoTask.kind = "none" /\ Sentinel.kind = "sentinel"
  BY DEF NoTask, Sentinel
<1>2. \A e \in Tasks : e.kind \in Kinds /\ e.job \in Jobs /\ e.n \in Nat /\ e.lines \in Nat
  BY DEF Tasks
<1> QED BY <1>1, <1>2 DEF Kinds

LEMMA PersistTypeInit == Init => TypeInv
<1> SUFFICES ASSUME Init PROVE TypeInv
  OBVIOUS
<1>1. asks \in [Readers -> Jobs]
  <2>1. (CHOOSE j \in Jobs : TRUE) \in Jobs
    BY PersistAssumption
  <2> QED BY <2>1 DEF Init
<1>2. persistCh \in Seq(Tasks \union {Sentinel}) /\ Len(persistCh) <= ChanCap
  <2>1. <<>> \in Seq(Tasks \union {Sentinel}) /\ Len(<<>>) = 0
    OBVIOUS
  <2> QED BY <2>1, PersistAssumption DEF Init
<1>3. mem \in [Jobs -> Snapshot] /\ file \in [Jobs -> Snapshot]
  BY DEF Init, Snapshot
<1>4. seen \in [Readers -> [Jobs -> Nat]] /\ logFile \in [Jobs -> Seq(Nat)]
  <2>1. <<>> \in Seq(Nat)
    OBVIOUS
  <2> QED BY <2>1 DEF Init
<1>5. /\ left \in [Tools -> 0..MaxUpdates] /\ owner \in Goroutines \union {Nobody}
      /\ known \in SUBSET Jobs
  BY PersistAssumption DEF Init
<1>7. torn \in SUBSET Jobs /\ faults \in 0..MaxFaults /\ dropped \in SUBSET Tasks
  BY PersistAssumption DEF Init
<1>6. /\ pc = [g \in Goroutines |-> "idle"] /\ made = [g \in Goroutines |-> NoTask]
      /\ op = [g \in Goroutines |-> "job"] /\ task = NoTask
      /\ life = [j \in Jobs |-> "waiting"] /\ rpc = [r \in Readers |-> "idle"] /\ drain = "off"
  BY DEF Init
<1> QED
  BY <1>1, <1>2, <1>3, <1>4, <1>5, <1>6, <1>7, Kinded DEF TypeInv, TypeOK, Kinds

\* A goroutine begins a call.
LEMMA TypeBegin ==
    ASSUME TypeInv, NEW g \in Goroutines, NEW kind \in Kinds, Begin(g, kind),
           life' \in [Jobs -> {"waiting", "starting", "running", "finishing", "ended", "skipped"}],
           left' \in [Tools -> 0..MaxUpdates]
    PROVE  TypeInv'
<1>1. /\ pc' \in [Goroutines -> {"idle", "lock", "announced", "adopt", "send", "unlock"}]
      /\ op' \in [Goroutines -> Kinds]
      /\ \A h \in Goroutines : pc'[h] = "send" <=> pc[h] = "send"
  BY DEF Begin, TypeInv, TypeOK
<1>2. UNCHANGED <<made, owner, rpc, asks, seen, known, mem, persistCh, task, file, logFile, torn, faults, dropped, drain>>
  BY DEF Begin, readVars, fileVars
<1> QED BY <1>1, <1>2 DEF TypeInv, TypeOK

LEMMA TypeCall ==
    ASSUME TypeInv, \/ \E j \in Jobs : ExecuteBegins(j) \/ ExecuteEnds(j)
                    \/ \E t \in Tools : ToolStep(t)
    PROVE  TypeInv'
<1>1. ASSUME NEW j \in Jobs, ExecuteBegins(j) \/ ExecuteEnds(j)
      PROVE  TypeInv'
  <2>1. /\ Begin(j, "job") /\ j \in Goroutines /\ "job" \in Kinds
        /\ life' \in [Jobs -> {"waiting", "starting", "running", "finishing", "ended", "skipped"}]
        /\ left' \in [Tools -> 0..MaxUpdates]
    BY <1>1 DEF ExecuteBegins, ExecuteEnds, TypeInv, TypeOK, Kinds, Goroutines
  <2> QED BY <2>1, TypeBegin
<1>2. ASSUME NEW t \in Tools, NEW kind \in Kinds, Update(t, kind)
      PROVE  TypeInv'
  <2>1. left[t] \in 0..MaxUpdates /\ left[t] > 0 /\ left' = [left EXCEPT ![t] = left[t] - 1]
    BY <1>2 DEF Update, TypeInv, TypeOK
  <2>2. left[t] - 1 \in 0..MaxUpdates
    BY <2>1, PersistAssumption
  <2>3. /\ Begin(t, kind) /\ t \in Goroutines
        /\ life' \in [Jobs -> {"waiting", "starting", "running", "finishing", "ended", "skipped"}]
        /\ left' \in [Tools -> 0..MaxUpdates]
    BY <1>2, <2>1, <2>2 DEF Update, TypeInv, TypeOK, Goroutines
  <2> QED BY <2>3, TypeBegin
<1>3. ASSUME NEW t \in Tools, Return(t)
      PROVE  TypeInv'
  <2>1. left' \in [Tools -> 0..MaxUpdates]
    BY <1>3, PersistAssumption DEF Return, TypeInv, TypeOK
  <2>2. UNCHANGED <<life, pc, op, made, owner, rpc, asks, seen, known, mem, persistCh, task, file,
                    logFile, torn, faults, dropped, drain>>
    BY <1>3 DEF Return, readVars, fileVars
  <2> QED BY <2>1, <2>2 DEF TypeInv, TypeOK
<1> QED BY <1>1, <1>2, <1>3 DEF ToolStep

LEMMA TypeChange ==
    ASSUME TypeInv, NEW g \in Goroutines, NEW m \in Snapshot, Change(g, m)
    PROVE  \E new \in Snapshot, e \in Tasks :
             /\ mem' = [mem EXCEPT ![JobFor(g)] = new]
             /\ made' = [made EXCEPT ![g] = e]
             /\ pc' = [pc EXCEPT ![g] = "send"]
             /\ e.kind = op[g] /\ e.job = JobFor(g) /\ e.lines = new.lines
             /\ op[g] = "job" => /\ new.ver = m.ver + 1 /\ new.lines = m.lines
                                 /\ e.n = new.ver
             /\ op[g] = "log" => /\ new.ver = m.ver /\ new.lines = m.lines + 1
                                 /\ e.n = new.lines
<1> DEFINE new == IF op[g] = "job" THEN [m EXCEPT !.ver = @ + 1] ELSE [m EXCEPT !.lines = @ + 1]
           e == [kind |-> op[g], job |-> JobFor(g), lines |-> new.lines,
                 n |-> IF op[g] = "job" THEN new.ver ELSE new.lines]
<1>1. JobFor(g) \in Jobs /\ op[g] \in Kinds /\ m.ver \in Nat /\ m.lines \in Nat
  BY JobForType DEF TypeInv, TypeOK, Snapshot
<1>2. /\ new \in Snapshot
      /\ op[g] = "job" => new.ver = m.ver + 1 /\ new.lines = m.lines
      /\ op[g] = "log" => new.ver = m.ver /\ new.lines = m.lines + 1
  BY <1>1 DEF Snapshot
<1>3. mem' = [mem EXCEPT ![JobFor(g)] = new] /\ made' = [made EXCEPT ![g] = e]
  BY DEF Change
<1> HIDE DEF new
<1>4. new.ver \in Nat /\ new.lines \in Nat
  BY <1>2 DEF Snapshot
<1>5. /\ e \in Tasks /\ e.kind = op[g] /\ e.job = JobFor(g) /\ e.lines = new.lines
      /\ op[g] = "job" => e.n = new.ver
      /\ op[g] = "log" => e.n = new.lines
  BY <1>1, <1>4 DEF Tasks
<1>6. pc' = [pc EXCEPT ![g] = "send"]
  BY DEF Change, AfterStep
<1> HIDE DEF e
<1> QED BY <1>2, <1>3, <1>5, <1>6

LEMMA FaultType == TypeInv /\ Fault => faults' \in 0..MaxFaults
BY PersistAssumption DEF Fault, TypeInv, TypeOK

LEMMA TypeCritical ==
    ASSUME TypeInv, \/ \E g \in Goroutines : CallStep(g)
                    \/ \E j \in Jobs : Adopt(j) \/ AdoptFails(j)
    PROVE  TypeInv'
<1>1. ASSUME NEW g \in Goroutines, Announce(g) \/ TurnToDisk(g)
      PROVE  TypeInv'
  <2>1. /\ pc' \in [Goroutines -> {"idle", "lock", "announced", "adopt", "send", "unlock"}]
        /\ owner' \in Goroutines \union {Nobody}
        /\ \A h \in Goroutines : pc'[h] = "send" <=> pc[h] = "send"
    BY <1>1 DEF Announce, TurnToDisk, Locked, TypeInv, TypeOK
  <2>2. UNCHANGED <<life, left, op, made, rpc, asks, seen, known, mem, persistCh, task, file,
                    logFile, torn, faults, dropped, drain>>
    BY <1>1 DEF Announce, TurnToDisk, readVars, fileVars
  <2> QED BY <2>1, <2>2 DEF TypeInv, TypeOK
<1>2. ASSUME NEW g \in Goroutines, Unlock(g)
      PROVE  TypeInv'
  <2>1. /\ pc' \in [Goroutines -> {"idle", "lock", "announced", "adopt", "send", "unlock"}]
        /\ owner' \in Goroutines \union {Nobody}
        /\ \A h \in Goroutines : pc'[h] = "send" <=> pc[h] = "send"
    BY <1>2 DEF Unlock, Release, AfterStep, TypeInv, TypeOK
  <2>2. /\ life' \in [Jobs -> {"waiting", "starting", "running", "finishing", "ended", "skipped"}]
        /\ rpc' \in [Readers -> {"idle", "wait", "read", "disk"}]
        /\ op' \in [Goroutines -> Kinds]
    BY <1>2 DEF Unlock, Release, Kinds, TypeInv, TypeOK
  <2>3. UNCHANGED <<left, made, asks, seen, known, mem, persistCh, task, file, logFile, torn, faults, dropped, drain>>
    BY <1>2 DEF Unlock, fileVars
  <2> QED BY <2>1, <2>2, <2>3 DEF TypeInv, TypeOK
<1>3. ASSUME NEW g \in Goroutines, Send(g)
      PROVE  TypeInv'
  <2>1. made[g] \in Tasks
    BY <1>3 DEF Send, TypeInv
  <2>2. persistCh' \in Seq(Tasks \union {Sentinel}) /\ Len(persistCh') <= ChanCap
    BY <1>3, <2>1, PersistAssumption DEF Send, HasRoom, TypeInv, TypeOK
  <2>3. /\ pc' \in [Goroutines -> {"idle", "lock", "announced", "adopt", "send", "unlock"}]
        /\ made' \in [Goroutines -> Tasks \union {NoTask}]
        /\ \A h \in Goroutines : made'[h] \in Tasks <=> pc'[h] = "send"
    BY <1>3, Kinded DEF Send, AfterStep, TypeInv, TypeOK
  <2>4. UNCHANGED <<life, left, op, owner, rpc, asks, seen, known, mem, task, file, logFile, torn, faults, dropped, drain>>
    BY <1>3 DEF Send, readVars, fileVars
  <2> QED BY <2>2, <2>3, <2>4 DEF TypeInv, TypeOK
<1>4. ASSUME NEW g \in Goroutines, NEW m \in Snapshot, Change(g, m), known' \in SUBSET Jobs,
             UNCHANGED <<life, left, op, owner, rpc, asks, seen, persistCh, task, file, logFile, torn, faults,
                         dropped, drain>>
      PROVE  TypeInv'
  <2>1. PICK new \in Snapshot, e \in Tasks :
          /\ mem' = [mem EXCEPT ![JobFor(g)] = new] /\ made' = [made EXCEPT ![g] = e]
          /\ pc' = [pc EXCEPT ![g] = "send"]
    BY <1>4, TypeChange
  <2>2. /\ mem' \in [Jobs -> Snapshot] /\ made' \in [Goroutines -> Tasks \union {NoTask}]
        /\ pc' \in [Goroutines -> {"idle", "lock", "announced", "adopt", "send", "unlock"}]
        /\ \A h \in Goroutines : made'[h] \in Tasks <=> pc'[h] = "send"
    BY <2>1 DEF TypeInv, TypeOK
  <2> QED BY <1>4, <2>2 DEF TypeInv, TypeOK
<1>5. ASSUME NEW g \in Goroutines, ChangeKnown(g)
      PROVE  TypeInv'
  <2>1. mem[JobFor(g)] \in Snapshot
    BY JobForType, <1>5 DEF TypeInv, TypeOK
  <2> QED BY <1>4, <1>5, <2>1 DEF ChangeKnown, TypeInv, TypeOK, readVars, fileVars
<1>6. ASSUME NEW j \in Jobs, Adopt(j)
      PROVE  TypeInv'
  <2>1. [ver |-> file[j].ver, lines |-> Len(logFile[j])] \in Snapshot /\ j \in Goroutines
    BY DEF TypeInv, TypeOK, Snapshot, Goroutines
  <2>2. known' \in SUBSET Jobs
    BY <1>6 DEF Adopt, TypeInv, TypeOK
  <2> QED BY <1>4, <1>6, <2>1, <2>2 DEF Adopt, readVars, fileVars
<1>7. ASSUME NEW j \in Jobs, AdoptFails(j)
      PROVE  TypeInv'
  <2>1. /\ pc' \in [Goroutines -> {"idle", "lock", "announced", "adopt", "send", "unlock"}]
        /\ owner' \in Goroutines \union {Nobody}
        /\ \A h \in Goroutines : pc'[h] = "send" <=> pc[h] = "send"
    BY <1>7 DEF AdoptFails, Release, Goroutines, TypeInv, TypeOK
  <2>2. /\ life' \in [Jobs -> {"waiting", "starting", "running", "finishing", "ended", "skipped"}]
        /\ rpc' \in [Readers -> {"idle", "wait", "read", "disk"}]
    BY <1>7 DEF AdoptFails, Release, TypeInv, TypeOK
  <2>3. faults' \in 0..MaxFaults
    BY <1>7, FaultType DEF AdoptFails
  <2>4. UNCHANGED <<left, op, made, asks, seen, known, mem, persistCh, task, file, logFile, torn,
                    dropped, drain>>
    BY <1>7 DEF AdoptFails
  <2> QED BY <2>1, <2>2, <2>3, <2>4 DEF TypeInv, TypeOK
<1> QED BY <1>1, <1>2, <1>3, <1>5, <1>6, <1>7 DEF CallStep

LEMMA TypeRead ==
    ASSUME TypeInv, NEW r \in Readers, ReadStep(r) \/ \E j \in Jobs : Ask(r, j)
    PROVE  TypeInv'
<1>1. rpc' \in [Readers -> {"idle", "wait", "read", "disk"}] /\ asks' \in [Readers -> Jobs]
  <2>1. CASE ReadStep(r)
    BY <2>1 DEF ReadStep, ReadMemory, Miss, ReadDisk, ReadDiskFails, TypeInv, TypeOK
  <2>2. CASE \E j \in Jobs : Ask(r, j)
    BY <2>2 DEF Ask, WhenLocked, TypeInv, TypeOK
  <2> QED BY <2>1, <2>2
<1>2. seen' \in [Readers -> [Jobs -> Nat]]
  <2>1. \A j \in Jobs : mem[j].ver \in Nat /\ file[j].ver \in Nat
    BY DEF TypeInv, TypeOK, Snapshot
  <2>2. asks[r] \in Jobs
    BY DEF TypeInv, TypeOK
  <2>3. \/ UNCHANGED seen
        \/ \E v \in Nat : seen' = [seen EXCEPT ![r][asks[r]] = v]
    <3>1. CASE ReadMemory(r)
      BY <2>1, <2>2, <3>1 DEF ReadMemory
    <3>2. CASE ReadDisk(r)
      BY <2>1, <2>2, <3>2 DEF ReadDisk
    <3>3. CASE Miss(r) \/ ReadDiskFails(r) \/ \E j \in Jobs : Ask(r, j)
      BY <3>3 DEF Miss, ReadDiskFails, Ask
    <3> QED BY <3>1, <3>2, <3>3 DEF ReadStep
  <2>4. ASSUME NEW v \in Nat, seen' = [seen EXCEPT ![r][asks[r]] = v]
        PROVE  seen' \in [Readers -> [Jobs -> Nat]]
    <3>1. [seen[r] EXCEPT ![asks[r]] = v] \in [Jobs -> Nat]
      BY <2>2 DEF TypeInv, TypeOK
    <3> QED BY <2>4, <3>1 DEF TypeInv, TypeOK
  <2> QED BY <2>3, <2>4 DEF TypeInv, TypeOK
<1>3. UNCHANGED <<life, left, pc, op, made, owner, known, mem, persistCh, task, file, logFile, torn,
                  dropped, drain>>
  BY DEF ReadStep, ReadMemory, Miss, ReadDisk, ReadDiskFails, Ask, fileVars
<1>4. faults' \in 0..MaxFaults
  <2>1. CASE ReadDiskFails(r)
    BY <2>1, FaultType DEF ReadDiskFails
  <2>2. CASE ReadMemory(r) \/ Miss(r) \/ ReadDisk(r) \/ \E j \in Jobs : Ask(r, j)
    BY <2>2 DEF ReadMemory, Miss, ReadDisk, Ask, fileVars, TypeInv, TypeOK
  <2> QED BY <2>1, <2>2 DEF ReadStep
<1> QED BY <1>1, <1>2, <1>3, <1>4 DEF TypeInv, TypeOK

\* What every write leaves alone, and what it is about.
LEMMA TaskDoneKeeps ==
    WriteStep => /\ task' = NoTask
                 /\ UNCHANGED <<life, left, pc, op, made, owner, rpc, asks, seen, known, mem,
                                persistCh, drain>>
BY DEF WriteStep, WriteJob, WriteJobFails, WriteLine, WriteLineUnread, WriteLineFails, TaskDone,
       readVars

LEMMA TaskInHand == TypeInv /\ WriteStep => task \in Tasks
BY Kinded DEF WriteStep, WriteJob, WriteJobFails, WriteLine, WriteLineUnread, WriteLineFails, TypeInv,
              TypeOK

LEMMA TypePersist ==
    ASSUME TypeInv, WorkerStep \/ DrainStep \/ WaitIdle
    PROVE  TypeInv'
<1>1. UNCHANGED <<life, left, pc, op, made, owner, rpc, asks, seen, known, mem>>
  BY TaskDoneKeeps DEF WorkerStep, Take, Drained, DrainStep, DrainLocked, SendSentinel, WaitIdle,
         readVars
<1>2. /\ task' \in Tasks \union {NoTask, Sentinel}
      /\ persistCh' \in Seq(Tasks \union {Sentinel}) /\ Len(persistCh') <= ChanCap
  <2>1. CASE Take
    <3>1. /\ persistCh[Due] \in Tasks \union {Sentinel}
          /\ persistCh' \in Seq(Tasks \union {Sentinel}) /\ Len(persistCh') = Len(persistCh) - 1
          /\ Len(persistCh) \in Nat
      <4>1. persistCh \in Seq(Tasks \union {Sentinel}) /\ persistCh # <<>>
        BY <2>1 DEF Take, TypeInv, TypeOK
      <4>2. Len(persistCh) \in Nat
        BY <4>1
      <4>3. /\ persistCh[Due] \in Tasks \union {Sentinel}
            /\ persistCh' \in Seq(Tasks \union {Sentinel}) /\ Len(persistCh') = Len(persistCh) - 1
        BY <2>1, <4>1, TakeFirst, Zenon DEF Take
      <4> QED BY <4>2, <4>3
    <3> QED BY <2>1, <3>1, PersistAssumption DEF Take, TypeInv, TypeOK
  <2>2. CASE SendSentinel
    BY <2>2, PersistAssumption DEF SendSentinel, HasRoom, SentinelPlace, TypeInv, TypeOK
  <2>3. CASE WriteStep \/ Drained \/ DrainLocked \/ WaitIdle
    BY <2>3, TaskDoneKeeps DEF Drained, DrainLocked, WaitIdle, TypeInv, TypeOK
  <2> QED BY <2>1, <2>2, <2>3 DEF WorkerStep, DrainStep
<1>3. file' \in [Jobs -> Snapshot] /\ logFile' \in [Jobs -> Seq(Nat)]
  <2>1. CASE WriteJob
    <3>1. task \in Tasks
      BY <2>1, TaskInHand DEF WriteStep
    <3>2. [ver |-> task.n, lines |-> task.lines] \in Snapshot
      BY <3>1, Kinded DEF Snapshot
    <3> QED BY <2>1, <3>2 DEF WriteJob, TypeInv, TypeOK
  <2>2. CASE WriteLine
    <3>1. task \in Tasks
      BY <2>2, TaskInHand DEF WriteStep
    <3>2. task.n \in Nat /\ task.job \in Jobs
      BY <3>1, Kinded
    <3>3. Append(logFile[task.job], task.n) \in Seq(Nat)
      BY <3>2 DEF TypeInv, TypeOK
    <3> QED BY <2>2, <3>3 DEF WriteLine, TypeInv, TypeOK
  <2>3. CASE WriteJobFails \/ WriteLineUnread \/ WriteLineFails
    BY <2>3 DEF WriteJobFails, WriteLineUnread, WriteLineFails, TypeInv, TypeOK
  <2>4. CASE Take \/ Drained \/ DrainStep \/ WaitIdle
    BY <2>4 DEF Take, Drained, DrainStep, DrainLocked, SendSentinel, WaitIdle, fileVars, TypeInv, TypeOK
  <2> QED BY <2>1, <2>2, <2>3, <2>4 DEF WorkerStep, WriteStep
<1>4. torn' \in SUBSET Jobs /\ faults' \in 0..MaxFaults /\ dropped' \in SUBSET Tasks
  <2>1. CASE WriteStep
    <3>1. task \in Tasks /\ task.job \in Jobs
      BY <2>1, TaskInHand, Kinded
    <3>2. /\ torn' \subseteq torn \union {task.job} /\ dropped' \subseteq dropped \union {task}
          /\ UNCHANGED faults \/ Fault
      BY <2>1 DEF WriteStep, WriteJob, WriteJobFails, WriteLine, WriteLineUnread, WriteLineFails
    <3>3. faults' \in 0..MaxFaults
      BY <3>2, FaultType DEF TypeInv, TypeOK
    <3> QED BY <3>1, <3>2, <3>3 DEF TypeInv, TypeOK
  <2>2. CASE Take \/ Drained \/ DrainStep \/ WaitIdle
    BY <2>2 DEF Take, Drained, DrainStep, DrainLocked, SendSentinel, WaitIdle, fileVars, TypeInv, TypeOK
  <2> QED BY <2>1, <2>2 DEF WorkerStep
<1>5. drain' \in {"off", "locking", "sentinel", "waiting", "done"}
  BY TaskDoneKeeps DEF WorkerStep, Take, Drained, DrainStep, DrainLocked, SendSentinel, WaitIdle,
         TypeInv, TypeOK
<1> QED BY <1>1, <1>2, <1>3, <1>4, <1>5 DEF TypeInv, TypeOK

LEMMA TypeStep == TypeInv /\ [Next]_vars => TypeInv'
<1> SUFFICES ASSUME TypeInv, [Next]_vars PROVE TypeInv'
  OBVIOUS
<1>1. CASE UNCHANGED vars
  BY <1>1 DEF vars, readVars, fileVars, TypeInv, TypeOK
<1> QED
  BY <1>1, TypeCall, TypeCritical, TypeRead, TypePersist DEF Next, ExecuteStep

LEMMA TypeInvariant == Spec => []TypeInv
BY PersistTypeInit, TypeStep, PTL DEF Spec

\* persistCh never holds more than it has room for, and what every goroutine of the
\* pod has in hand is what its place in a call says.
THEOREM PersistTypes == Spec => []TypeOK
BY TypeInvariant, PTL DEF TypeInv

-----------------------------------------------------------------------------
(* Calls.  m.mu has one owner, and a scan's goroutines only call while it   *)
(* runs.                                                                    *)

\* The places at which a writer waits for m.mu's readers, or holds m.mu.
Holding == {"announced", "adopt", "send", "unlock"}

OneWriter == \A g \in Goroutines : owner = g <=> pc[g] \in Holding

CallsWhileAlive ==
    /\ \A j \in Jobs : op[j] = "job" /\ (pc[j] # "idle" <=> life[j] \in {"starting", "finishing"})
    /\ \A t \in Tools : pc[t] # "adopt" /\ (pc[t] # "idle" => life[JobOf[t]] = "running")

KnownWhenBegun ==
    /\ \A j \in known : life[j] \notin {"waiting", "skipped"}
    /\ \A j \in Jobs : pc[j] = "adopt" => j \notin known

DrainedAlone ==
    drain \in {"sentinel", "waiting"} => \A j \in Jobs : life[j] \in {"waiting", "ended", "skipped"}

Calls == OneWriter /\ CallsWhileAlive /\ KnownWhenBegun /\ DrainedAlone

LEMMA CallsInit == Init => Calls
BY PersistAssumption
   DEF Init, Calls, OneWriter, CallsWhileAlive, KnownWhenBegun, DrainedAlone, Holding, Goroutines

\* Beginning a call.
LEMMA CallsBegin ==
    ASSUME TypeInv, Calls, \/ \E j \in Jobs : ExecuteBegins(j) \/ ExecuteEnds(j)
                           \/ \E t \in Tools : ToolStep(t)
    PROVE  Calls'
<1>1. ASSUME NEW j \in Jobs, ExecuteBegins(j)
      PROVE  Calls'
  <2>1. /\ life[j] = "waiting" /\ pc[j] = "idle" /\ drain \notin {"sentinel", "waiting"}
        /\ pc' = [pc EXCEPT ![j] = "lock"] /\ op' = [op EXCEPT ![j] = "job"]
        /\ life' = [life EXCEPT ![j] = "starting"]
        /\ owner' = owner /\ known' = known /\ drain' = drain
    BY <1>1 DEF ExecuteBegins, Begin, GateShut
  <2>2. OneWriter'
    BY <2>1 DEF Calls, OneWriter, Holding, TypeInv, TypeOK
  <2>3. CallsWhileAlive'
    BY <2>1, PersistAssumption DEF Calls, CallsWhileAlive, TypeInv, TypeOK, Goroutines
  <2>4. KnownWhenBegun' /\ DrainedAlone'
    BY <2>1 DEF Calls, KnownWhenBegun, DrainedAlone, TypeInv, TypeOK, Goroutines
  <2> QED BY <2>2, <2>3, <2>4 DEF Calls
<1>2. ASSUME NEW j \in Jobs, ExecuteEnds(j)
      PROVE  Calls'
  <2>1. /\ life[j] = "running" /\ pc[j] = "idle" /\ \A t \in Tools : JobOf[t] = j => pc[t] = "idle"
        /\ pc' = [pc EXCEPT ![j] = "lock"] /\ op' = [op EXCEPT ![j] = "job"]
        /\ life' = [life EXCEPT ![j] = "finishing"]
        /\ owner' = owner /\ known' = known /\ drain' = drain
    BY <1>2 DEF ExecuteEnds, Begin, ToolsOf
  <2>2. OneWriter'
    BY <2>1 DEF Calls, OneWriter, Holding, TypeInv, TypeOK
  <2>3. CallsWhileAlive'
    BY <2>1, PersistAssumption DEF Calls, CallsWhileAlive, TypeInv, TypeOK, Goroutines
  <2>4. KnownWhenBegun' /\ DrainedAlone'
    BY <2>1 DEF Calls, KnownWhenBegun, DrainedAlone, TypeInv, TypeOK, Goroutines
  <2> QED BY <2>2, <2>3, <2>4 DEF Calls
<1>3. ASSUME NEW t \in Tools, NEW kind \in Kinds, Update(t, kind)
      PROVE  Calls'
  <2>1. /\ life[JobOf[t]] = "running" /\ pc[t] = "idle" /\ t \notin Jobs
        /\ pc' = [pc EXCEPT ![t] = "lock"] /\ op' = [op EXCEPT ![t] = kind]
        /\ life' = life /\ owner' = owner /\ known' = known /\ drain' = drain
    BY <1>3, PersistAssumption DEF Update, Begin
  <2>2. OneWriter'
    BY <2>1 DEF Calls, OneWriter, Holding, TypeInv, TypeOK
  <2>3. CallsWhileAlive'
    BY <2>1, PersistAssumption DEF Calls, CallsWhileAlive, TypeInv, TypeOK, Goroutines
  <2>4. KnownWhenBegun' /\ DrainedAlone'
    BY <2>1 DEF Calls, KnownWhenBegun, DrainedAlone, TypeInv, TypeOK, Goroutines
  <2> QED BY <2>2, <2>3, <2>4 DEF Calls
<1>4. ASSUME NEW t \in Tools, Return(t)
      PROVE  Calls'
  BY <1>4 DEF Return, Calls, OneWriter, CallsWhileAlive, KnownWhenBegun, DrainedAlone
<1> QED BY <1>1, <1>2, <1>3, <1>4 DEF ToolStep

\* The one that holds m.mu is its owner, and the others do not.
LEMMA CallsWithin ==
    ASSUME TypeInv, Calls, NEW g \in Goroutines,
           \/ Announce(g) \/ ChangeKnown(g) \/ TurnToDisk(g) \/ Send(g)
           \/ g \in Jobs /\ Adopt(g)
    PROVE  Calls'
<1>1. /\ pc[g] # "idle" /\ \E place \in Holding : pc' = [pc EXCEPT ![g] = place]
      /\ owner' = g /\ (owner = g \/ owner = Nobody)
      /\ UNCHANGED <<life, op, drain>>
  <2>1. CASE Announce(g)
    BY <2>1 DEF Announce, Holding
  <2>2. CASE ChangeKnown(g) \/ TurnToDisk(g) \/ Send(g) \/ (g \in Jobs /\ Adopt(g))
    <3>1. pc[g] \in Holding /\ UNCHANGED <<life, op, drain, owner>>
      BY <2>2 DEF ChangeKnown, TurnToDisk, Send, Adopt, Locked, Holding
    <3>2. owner = g
      BY <3>1 DEF Calls, OneWriter
    <3>3. \E place \in Holding : pc' = [pc EXCEPT ![g] = place]
      BY <2>2 DEF ChangeKnown, TurnToDisk, Send, Adopt, Change, AfterStep, Holding
    <3> QED BY <3>1, <3>2, <3>3 DEF Holding
  <2> QED BY <2>1, <2>2
<1>2. PICK place \in Holding : pc' = [pc EXCEPT ![g] = place]
  BY <1>1
<1>3. \A h \in Goroutines : pc'[h] = IF h = g THEN place ELSE pc[h]
  BY <1>2 DEF TypeInv, TypeOK
<1>4. place = "adopt" => g \in Jobs /\ g \notin known
  <2>1. pc'[g] = place
    BY <1>3
  <2> QED
    BY <2>1 DEF Announce, ChangeKnown, TurnToDisk, Send, Adopt, Change, AfterStep, TypeInv,
                   TypeOK
<1>5. OneWriter'
  <2>1. ASSUME NEW h \in Goroutines, h # g
        PROVE  pc[h] \notin Holding
    BY <1>1, <2>1, PersistAssumption DEF Calls, OneWriter, Goroutines
  <2> QED BY <1>1, <1>3, <2>1 DEF OneWriter
<1>6. CallsWhileAlive'
  <2>1. \A h \in Goroutines : pc'[h] # "idle" <=> pc[h] # "idle"
    BY <1>1, <1>3 DEF Holding
  <2>2. \A t \in Tools : t \in Goroutines /\ t \notin Jobs
    BY PersistAssumption DEF Goroutines
  <2> QED BY <1>1, <1>3, <1>4, <2>1, <2>2 DEF Calls, CallsWhileAlive, Goroutines
<1>7. KnownWhenBegun'
  <2>1. CASE g \in Jobs /\ Adopt(g)
    <3>1. known' = known \union {g} /\ pc[g] = "adopt" /\ pc'[g] = "send"
      BY <1>3, <2>1 DEF Adopt, Change, AfterStep, TypeInv, TypeOK
    <3>2. life[g] \notin {"waiting", "skipped"}
      BY <2>1, <3>1 DEF Calls, CallsWhileAlive
    <3> QED BY <1>1, <1>3, <2>1, <3>1, <3>2 DEF Calls, KnownWhenBegun, Goroutines
  <2>2. CASE ~ (g \in Jobs /\ Adopt(g))
    <3>1. known' = known
      BY <2>2 DEF Announce, ChangeKnown, TurnToDisk, Send
    <3> QED BY <1>1, <1>3, <1>4, <3>1 DEF Calls, KnownWhenBegun, Goroutines
  <2> QED BY <2>1, <2>2
<1>8. DrainedAlone'
  BY <1>1 DEF Calls, DrainedAlone
<1> QED BY <1>5, <1>6, <1>7, <1>8 DEF Calls

\* Unlocking, and with the last call the end of the scan.
LEMMA CallsUnlock ==
    ASSUME TypeInv, Calls, NEW g \in Goroutines, Unlock(g)
    PROVE  Calls'
<1>1. /\ pc[g] = "unlock" /\ owner' = Nobody /\ UNCHANGED <<known, drain>>
      /\ \A h \in Goroutines : op'[h] = IF h = g THEN "job" ELSE op[h]
      /\ \A h \in Goroutines : pc'[h] = IF h = g THEN "idle" ELSE pc[h]
      /\ \A j \in Jobs : /\ j # g => life'[j] = life[j]
                         /\ j = g /\ life[j] = "starting" => life'[j] = "running"
                         /\ j = g /\ life[j] = "finishing" => life'[j] = "ended"
  BY DEF Unlock, Release, AfterStep, TypeInv, TypeOK
<1>2. owner = g
  BY <1>1 DEF Calls, OneWriter, Holding
<1>3. OneWriter'
  <2>1. \A h \in Goroutines : h # Nobody /\ (h # g => pc[h] \notin Holding)
    BY <1>2, PersistAssumption DEF Calls, OneWriter, Goroutines
  <2> QED BY <1>1, <2>1 DEF OneWriter, Holding
<1>4. g \in Jobs => life[g] \in {"starting", "finishing"}
  BY <1>1 DEF Calls, CallsWhileAlive
<1>5. CallsWhileAlive'
  <2>1. ASSUME NEW j \in Jobs
        PROVE  op'[j] = "job" /\ (pc'[j] # "idle" <=> life'[j] \in {"starting", "finishing"})
    BY <1>1, <1>4 DEF Calls, CallsWhileAlive, Goroutines
  <2>2. ASSUME NEW t \in Tools
        PROVE  pc'[t] # "adopt" /\ (pc'[t] # "idle" => life'[JobOf[t]] = "running")
    BY <1>1, <1>4, PersistAssumption DEF Calls, CallsWhileAlive, Goroutines
  <2> QED BY <2>1, <2>2 DEF CallsWhileAlive
<1>6. KnownWhenBegun'
  <2>1. \A j \in Jobs : /\ life'[j] \in {"waiting", "skipped"} => life'[j] = life[j]
                        /\ pc'[j] = "adopt" => pc[j] = "adopt"
    BY <1>1, <1>4 DEF Goroutines
  <2> QED BY <1>1, <2>1 DEF Calls, KnownWhenBegun, TypeInv, TypeOK
<1>7. DrainedAlone'
  <2>1. \A j \in Jobs : life[j] \in {"waiting", "ended", "skipped"} => j # g
    BY <1>4
  <2> QED BY <1>1, <2>1 DEF Calls, DrainedAlone
<1> QED BY <1>3, <1>5, <1>6, <1>7 DEF Calls

\* Unlocking without an answer from the volume: the job is skipped.
LEMMA CallsFail ==
    ASSUME TypeInv, Calls, NEW j \in Jobs, AdoptFails(j)
    PROVE  Calls'
<1>1. /\ pc[j] = "adopt" /\ owner' = Nobody /\ UNCHANGED <<op, known, drain>>
      /\ \A h \in Goroutines : pc'[h] = IF h = j THEN "idle" ELSE pc[h]
      /\ \A k \in Jobs : life'[k] = IF k = j THEN "skipped" ELSE life[k]
      /\ j \in Goroutines
  BY DEF AdoptFails, Release, TypeInv, TypeOK, Goroutines
<1>2. owner = j /\ j \notin known /\ life[j] \in {"starting", "finishing"}
  BY <1>1 DEF Calls, OneWriter, Holding, KnownWhenBegun, CallsWhileAlive
<1>3. OneWriter'
  <2>1. \A h \in Goroutines : h # Nobody /\ (h # j => pc[h] \notin Holding)
    BY <1>2, PersistAssumption DEF Calls, OneWriter, Goroutines
  <2> QED BY <1>1, <2>1 DEF OneWriter, Holding
<1>4. CallsWhileAlive'
  <2>1. ASSUME NEW k \in Jobs
        PROVE  op'[k] = "job" /\ (pc'[k] # "idle" <=> life'[k] \in {"starting", "finishing"})
    BY <1>1 DEF Calls, CallsWhileAlive, Goroutines
  <2>2. ASSUME NEW t \in Tools
        PROVE  pc'[t] # "adopt" /\ (pc'[t] # "idle" => life'[JobOf[t]] = "running")
    BY <1>1, <1>2, PersistAssumption DEF Calls, CallsWhileAlive, Goroutines
  <2> QED BY <2>1, <2>2 DEF CallsWhileAlive
<1>5. KnownWhenBegun' /\ DrainedAlone'
  BY <1>1, <1>2 DEF Calls, KnownWhenBegun, DrainedAlone, Goroutines, TypeInv, TypeOK
<1> QED BY <1>3, <1>4, <1>5 DEF Calls

LEMMA CallsStep == TypeInv /\ Calls /\ [Next]_vars => Calls'
<1> SUFFICES ASSUME TypeInv, Calls, [Next]_vars PROVE Calls'
  OBVIOUS
<1>1. CASE \/ UNCHANGED vars \/ WorkerStep \/ SendSentinel \/ WaitIdle
           \/ \E r \in Readers : ReadStep(r) \/ \E j \in Jobs : Ask(r, j)
  <2>1. UNCHANGED <<life, pc, op, owner, known>>
    BY <1>1, TaskDoneKeeps
       DEF vars, WorkerStep, Take, Drained, SendSentinel, WaitIdle, ReadStep, ReadMemory, Miss,
           ReadDisk, ReadDiskFails, Ask
  <2>2. drain' \in {"sentinel", "waiting"} => drain \in {"sentinel", "waiting"}
    BY <1>1, TaskDoneKeeps
       DEF vars, WorkerStep, Take, Drained, SendSentinel, WaitIdle, ReadStep, ReadMemory, Miss,
           ReadDisk, ReadDiskFails, Ask
  <2> QED BY <2>1, <2>2 DEF Calls, OneWriter, CallsWhileAlive, KnownWhenBegun, DrainedAlone
<1>2. CASE DrainLocked
  BY <1>2 DEF DrainLocked, Calls, OneWriter, CallsWhileAlive, KnownWhenBegun, DrainedAlone
<1>3. CASE \E j \in Jobs : Adopt(j)
  BY <1>3, CallsWithin DEF Goroutines
<1>4. CASE \E j \in Jobs : AdoptFails(j)
  BY <1>4, CallsFail
<1> QED
  BY <1>1, <1>2, <1>3, <1>4, CallsBegin, CallsWithin, CallsUnlock
  DEF Next, ExecuteStep, CallStep, DrainStep

-----------------------------------------------------------------------------
(* The way to the volume.  A change passes from the goroutine that made it  *)
(* through persistCh to the task at hand; Pipe puts the three in one line.  *)

InHand == IF owner = Nobody THEN NoTask ELSE made[owner]

Pipe == [i \in Nat |->
           IF i = 0 THEN task
           ELSE IF i <= Len(persistCh) THEN persistCh[i]
           ELSE IF i = Len(persistCh) + 1 THEN InHand
           ELSE NoTask]

LEMMA PipeIs ==
    ASSUME TypeInv
    PROVE  /\ Len(persistCh) \in Nat
           /\ Pipe[0] = task
           /\ \A i \in 1..Len(persistCh) : Pipe[i] = persistCh[i]
           /\ Pipe[Len(persistCh) + 1] = InHand
           /\ \A i \in Nat : i > Len(persistCh) + 1 => Pipe[i] = NoTask
           /\ \A i \in Nat : Pipe[i] \in Tasks \union {NoTask, Sentinel}
           /\ InHand \in Tasks \union {NoTask}
<1>1. persistCh \in Seq(Tasks \union {Sentinel}) /\ Len(persistCh) \in Nat
  BY DEF TypeInv, TypeOK
<1>2. \A i \in 1..Len(persistCh) : persistCh[i] \in Tasks \union {Sentinel}
  BY <1>1
<1>3. InHand \in Tasks \union {NoTask} /\ task \in Tasks \union {NoTask, Sentinel}
  BY DEF InHand, TypeInv, TypeOK
<1> QED BY <1>1, <1>2, <1>3 DEF Pipe

\* The line stays as it is when only the hands that pass it on change.
LEMMA PipeStays == UNCHANGED <<task, persistCh, InHand>> => Pipe' = Pipe
BY DEF Pipe

LEMMA PipeHanded ==
    ASSUME TypeInv, TypeInv', Calls, NEW g \in Goroutines,
           Announce(g) \/ Send(g) \/ Unlock(g) \/ (g \in Jobs /\ AdoptFails(g))
    PROVE  Pipe' = Pipe
<1>1. CASE Announce(g)
  <2>1. owner = Nobody /\ owner' = g /\ made' = made /\ pc[g] = "lock" /\ g # Nobody
    BY <1>1, PersistAssumption DEF Announce, Goroutines
  <2>2. made[g] = NoTask
    BY <2>1 DEF TypeInv, TypeOK
  <2>3. InHand' = InHand
    BY <2>1, <2>2 DEF InHand
  <2> QED BY <1>1, <2>3, PipeStays DEF Announce
<1>2. CASE Unlock(g) \/ (g \in Jobs /\ AdoptFails(g))
  <2>1. /\ pc[g] \in {"unlock", "adopt"} /\ owner' = Nobody
        /\ UNCHANGED <<made, task, persistCh>>
    BY <1>2 DEF Unlock, AdoptFails, Release
  <2>2. made[g] = NoTask /\ owner = g
    BY <2>1 DEF TypeInv, TypeOK, Calls, OneWriter, Holding
  <2>3. InHand' = InHand
    BY <2>1, <2>2 DEF InHand
  <2> QED BY <2>1, <2>3, PipeStays
<1>3. CASE Send(g)
  <2>1. /\ pc[g] = "send" /\ persistCh' = Append(persistCh, made[g]) /\ task' = task
        /\ made' = [made EXCEPT ![g] = NoTask] /\ owner' = owner
    BY <1>3 DEF Send
  <2>2. made[g] \in Tasks /\ owner = g /\ g # Nobody
    BY <2>1, PersistAssumption DEF TypeInv, Calls, OneWriter, Holding, Goroutines
  <2>3. InHand = made[g] /\ InHand' = NoTask
    BY <2>1, <2>2 DEF InHand, TypeInv, TypeOK
  <2>4. persistCh \in Seq(Tasks \union {Sentinel}) /\ Len(persistCh) \in Nat
    BY DEF TypeInv, TypeOK
  <2>5. /\ Len(persistCh') = Len(persistCh) + 1
        /\ \A i \in 1..Len(persistCh) : persistCh'[i] = persistCh[i]
        /\ persistCh'[Len(persistCh) + 1] = InHand
    BY <2>1, <2>2, <2>3, <2>4
  <2>6. \A i \in Nat : Pipe'[i] = Pipe[i]
    BY <2>1, <2>3, <2>4, <2>5 DEF Pipe
  <2> QED BY <2>6 DEF Pipe
<1> QED BY <1>1, <1>2, <1>3

\* A task is added behind all others.
Added(e) == \E p \in Nat : /\ \A i \in Nat : i >= p => Pipe[i] = NoTask
                           /\ \A i \in Nat : Pipe'[i] = IF i = p THEN e ELSE Pipe[i]

LEMMA PipeGrows ==
    ASSUME TypeInv, InHand = NoTask,
           NEW e, \/ UNCHANGED <<task, persistCh>> /\ InHand' = e
                  \/ UNCHANGED <<task, InHand>> /\ persistCh' = Append(persistCh, e)
                                                /\ e \in Tasks \union {Sentinel}
    PROVE  Added(e)
<1> DEFINE p == Len(persistCh) + 1
<1>1. persistCh \in Seq(Tasks \union {Sentinel}) /\ p \in Nat
  BY DEF TypeInv, TypeOK
<1>2. \A i \in Nat : i >= p => Pipe[i] = NoTask
  BY PipeIs
<1>3. CASE UNCHANGED <<task, persistCh>> /\ InHand' = e
  <2>1. \A i \in Nat : Pipe'[i] = IF i = p THEN e ELSE Pipe[i]
    BY <1>1, <1>3 DEF Pipe
  <2> QED BY <1>1, <1>2, <2>1 DEF Added
<1>4. CASE UNCHANGED <<task, InHand>> /\ persistCh' = Append(persistCh, e) /\ e \in Tasks \union {Sentinel}
  <2>1. /\ Len(persistCh') = p /\ persistCh'[p] = e
        /\ \A i \in 1..Len(persistCh) : persistCh'[i] = persistCh[i]
    BY <1>1, <1>4
  <2>2. \A i \in Nat : Pipe'[i] = IF i = p THEN e ELSE Pipe[i]
    BY <1>1, <1>4, <2>1 DEF Pipe
  <2> QED BY <1>1, <1>2, <2>2 DEF Added
<1> QED BY <1>3, <1>4

\* The worker takes the first: all others move up by one.
LEMMA PipeMoves ==
    ASSUME TypeInv, Take
    PROVE  Pipe[0] = NoTask /\ \A i \in Nat : Pipe'[i] = Pipe[i + 1]
<1>1. /\ persistCh \in Seq(Tasks \union {Sentinel}) /\ persistCh # <<>>
      /\ task = NoTask /\ task' = persistCh[Due] /\ UNCHANGED <<made, owner>>
  BY DEF Take, TypeInv, TypeOK
<1>2. /\ Len(persistCh') = Len(persistCh) - 1 /\ Len(persistCh') \in Nat
      /\ \A i \in 1..Len(persistCh') : persistCh'[i] = persistCh[i + 1]
  BY <1>1, TakeFirst, Zenon DEF Take
<1>3. InHand' = InHand /\ Due = 1
  BY <1>1 DEF InHand, Due
<1>4. Len(persistCh) \in Nat
  BY <1>1
<1>5. \A i \in Nat : Pipe'[i] = Pipe[i + 1]
  <2> SUFFICES ASSUME NEW i \in Nat PROVE Pipe'[i] = Pipe[i + 1]
    OBVIOUS
  <2>1. CASE i = 0
    BY <1>1, <1>2, <1>3, <1>4, <2>1 DEF Pipe
  <2>2. CASE i # 0
    BY <1>2, <1>3, <1>4, <2>2 DEF Pipe
  <2> QED BY <2>1, <2>2
<1> QED BY <1>1, <1>5 DEF Pipe

\* The worker is done with the first.
LEMMA PipeShrinks ==
    ASSUME UNCHANGED <<persistCh, made, owner>>, task' = NoTask
    PROVE  \A i \in Nat : Pipe'[i] = IF i = 0 THEN NoTask ELSE Pipe[i]
<1>1. InHand' = InHand
  BY DEF InHand
<1> QED BY <1>1 DEF Pipe

Is(e, kind) == e \in Tasks /\ e.kind = kind

\* A task is on its way.
Coming(kind, j, n) == \E i \in Nat : Is(Pipe[i], kind) /\ Pipe[i].job = j /\ Pipe[i].n = n

\* combined.log has only lines older than n.
Behind(j, n) == \A i \in DOMAIN logFile[j] : logFile[j][i] < n

\* What is on its way was done by the memory and not yet by the volume.
Between(e) ==
    /\ e.job \in known /\ e.lines <= mem[e.job].lines
    /\ e.kind = "job" => file[e.job].ver < e.n /\ e.n <= mem[e.job].ver
    /\ e.kind = "log" => Behind(e.job, e.n) /\ e.n <= mem[e.job].lines

BetweenBoth == \A i \in Nat : Pipe[i] \in Tasks => Between(Pipe[i])

\* It arrives in the order in which it was made, and a version behind the lines that
\* were there before it.
InOrder ==
    \A i, k \in Nat :
        (Pipe[i] \in Tasks /\ Pipe[k] \in Tasks /\ Pipe[i].job = Pipe[k].job /\ i < k) =>
            /\ Pipe[i].kind = Pipe[k].kind => Pipe[i].n < Pipe[k].n
            /\ Pipe[i].kind = "job" /\ Pipe[k].kind = "log" => Pipe[i].lines < Pipe[k].n

\* Nothing is missing: the newest version and every line are on the volume, or on
\* their way, or were dropped by a write that failed.
VersionTold(j, n) == file[j].ver = n \/ Dropped("job", j, n) \/ Coming("job", j, n)

LineTold(j, n) == Logged(j, n) \/ Dropped("log", j, n) \/ Coming("log", j, n)

NothingMissing ==
    \A j \in known :
        /\ VersionTold(j, mem[j].ver)
        /\ \A n \in 1..mem[j].lines : LineTold(j, n)

\* The sentinel is the last in the line, and the line stays as it is.
SentinelLast ==
    \A i \in Nat : Pipe[i] = Sentinel =>
        /\ drain = "waiting"
        /\ \A k \in Nat : k > i => Pipe[k] = NoTask

\* A reader that found nothing in memory has seen nothing newer than the volume's.
SeenIsThere ==
    /\ \A r \in Readers, j \in Jobs :
          seen[r][j] <= IF j \in known THEN mem[j].ver ELSE file[j].ver
    /\ \A r \in Readers : rpc[r] = "disk" => seen[r][asks[r]] <= file[asks[r]].ver

\* The part of VolumeFollowsMemory that is about one job.
Follows(j) ==
    /\ file[j].ver <= mem[j].ver
    /\ \A i \in DOMAIN logFile[j] :
          /\ logFile[j][i] <= mem[j].lines
          /\ \A k \in 1..(i - 1) : logFile[j][k] < logFile[j][i]

JobsFollow == \A j \in known : Follows(j)

\* Nobody logs for a job that no pod has adopted.
Untouched == \A j \in Jobs \ known : logFile[j] = <<>>

Line == BetweenBoth /\ InOrder /\ NothingMissing /\ SentinelLast

Volume == JobsFollow /\ Untouched /\ LinesBeforeStatus /\ SeenIsThere

LEMMA LineInit == Init => Line /\ Volume
<1> SUFFICES ASSUME Init PROVE Line /\ Volume
  OBVIOUS
<1>1. TypeInv
  BY PersistTypeInit
<1>2. \A i \in Nat : Pipe[i] = NoTask
  <2>1. persistCh = <<>> /\ Len(<<>>) = 0 /\ InHand = NoTask /\ task = NoTask
    BY DEF Init, InHand
  <2> QED BY <2>1 DEF Pipe
<1>3. /\ known = {} /\ \A r \in Readers : rpc[r] # "disk"
      /\ \A r \in Readers, j \in Jobs : seen[r][j] = 0
      /\ \A j \in Jobs : file[j].ver = 1 /\ file[j].lines = 0 /\ logFile[j] = <<>>
  BY DEF Init
<1>4. Line
  BY <1>2, <1>3, Kinded DEF Line, BetweenBoth, InOrder, NothingMissing, SentinelLast
<1>5. Volume
  BY <1>3 DEF Volume, JobsFollow, Untouched, LinesBeforeStatus, LinesUpTo, SeenIsThere
<1> QED BY <1>4, <1>5

\* Steps that touch neither side.
LEMMA LineKept ==
    ASSUME Line, Pipe' = Pipe, UNCHANGED <<known, mem, file, logFile, dropped>>,
           drain = "waiting" => drain' = "waiting"
    PROVE  Line'
<1>1. BetweenBoth' /\ InOrder' /\ SentinelLast'
  BY DEF Line, BetweenBoth, Between, Behind, InOrder, SentinelLast
<1>2. NothingMissing'
  BY DEF Line, NothingMissing, VersionTold, LineTold, Coming, Dropped, Logged
<1> QED BY <1>1, <1>2 DEF Line

LEMMA VolumeKept ==
    ASSUME Volume, UNCHANGED <<known, mem, file, logFile, dropped, seen, asks>>,
           \A r \in Readers : rpc'[r] = "disk" => rpc[r] = "disk"
    PROVE  Volume'
<1>1. JobsFollow' /\ Untouched' /\ SeenIsThere'
  BY DEF Volume, JobsFollow, Follows, Untouched, SeenIsThere
<1>2. LinesBeforeStatus'
  BY DEF Volume, LinesBeforeStatus, LinesUpTo, Dropped, Logged
<1> QED BY <1>1, <1>2 DEF Volume

\* The job from which a change goes on: what is in memory, or what the volume has.
LEMMA ChangeFrom ==
    ASSUME TypeInv, Calls, Volume, NEW g \in Goroutines, ChangeKnown(g) \/ (g \in Jobs /\ Adopt(g))
    PROVE  /\ known' = known \union {JobFor(g)} /\ owner = g /\ pc[g] # "idle"
           /\ \E m \in Snapshot :
                /\ Change(g, m)
                /\ JobFor(g) \in known => m = mem[JobFor(g)]
                /\ JobFor(g) \notin known => m.ver = file[JobFor(g)].ver /\ m.lines = 0
           /\ UNCHANGED <<owner, persistCh, task, file, logFile, dropped, drain, seen, rpc, asks>>
<1>1. CASE ChangeKnown(g)
  <2>1. mem[JobFor(g)] \in Snapshot
    BY JobForType DEF TypeInv, TypeOK
  <2>2. pc[g] = "announced" /\ JobFor(g) \in known
    BY <1>1 DEF ChangeKnown, Locked
  <2>3. owner = g
    BY <2>2 DEF Calls, OneWriter, Holding
  <2> QED BY <1>1, <2>1, <2>2, <2>3 DEF ChangeKnown, readVars, fileVars
<1>2. CASE g \in Jobs /\ Adopt(g)
  <2>1. pc[g] = "adopt" /\ JobFor(g) = g
    BY <1>2 DEF Adopt, JobFor
  <2>2. owner = g /\ g \notin known
    BY <1>2, <2>1 DEF Calls, OneWriter, Holding, KnownWhenBegun
  <2> DEFINE m == [ver |-> file[g].ver, lines |-> Len(logFile[g])]
  <2>3. m \in Snapshot /\ m.ver = file[g].ver /\ m.lines = 0
    <3>1. logFile[g] = <<>>
      BY <1>2, <2>2 DEF Volume, Untouched
    <3>2. Len(logFile[g]) = 0
      BY <3>1
    <3> QED BY <1>2, <3>2 DEF TypeInv, TypeOK, Snapshot
  <2>4. Change(g, m)
    BY <1>2 DEF Adopt
  <2> HIDE DEF m
  <2> QED BY <1>2, <2>1, <2>2, <2>3, <2>4 DEF Adopt, readVars, fileVars
<1> QED BY <1>1, <1>2

\* A change of the memory: its task goes to the end of the line.
LEMMA LineChange ==
    ASSUME TypeInv, TypeInv', Calls, Line, Volume,
           NEW g \in Goroutines, ChangeKnown(g) \/ (g \in Jobs /\ Adopt(g))
    PROVE  Line' /\ Volume'
<1> DEFINE j == JobFor(g)
<1>1. PICK m \in Snapshot :
        /\ Change(g, m)
        /\ j \in known => m = mem[j]
        /\ j \notin known => m.ver = file[j].ver /\ m.lines = 0
  BY ChangeFrom
<1>2. PICK new \in Snapshot, e \in Tasks :
        /\ mem' = [mem EXCEPT ![j] = new]
        /\ made' = [made EXCEPT ![g] = e]
        /\ pc' = [pc EXCEPT ![g] = "send"]
        /\ e.kind = op[g] /\ e.job = j /\ e.lines = new.lines
        /\ op[g] = "job" => new.ver = m.ver + 1 /\ new.lines = m.lines /\ e.n = new.ver
        /\ op[g] = "log" => new.ver = m.ver /\ new.lines = m.lines + 1 /\ e.n = new.lines
  BY <1>1, TypeChange, Zenon
<1>3. /\ known' = known \union {j} /\ owner = g /\ pc[g] # "idle" /\ pc[g] # "send"
      /\ UNCHANGED <<owner, persistCh, task, file, logFile, dropped, drain, seen, rpc, asks>>
  <2>1. pc[g] # "send"
    BY DEF ChangeKnown, Locked, Adopt
  <2> QED BY <2>1, ChangeFrom
<1>4. /\ j \in Jobs /\ m.ver \in Nat /\ m.lines \in Nat /\ new.ver \in Nat /\ new.lines \in Nat
      /\ e.kind \in Kinds /\ e.n \in Nat /\ e.lines \in Nat /\ op[g] \in Kinds
      /\ file[j].ver \in Nat
      /\ m.ver <= new.ver /\ m.lines <= new.lines
  <2>1. j \in Jobs
    BY JobForType
  <2>2. m.ver \in Nat /\ m.lines \in Nat /\ new.ver \in Nat /\ new.lines \in Nat
    BY DEF Snapshot
  <2>3. op[g] \in Kinds /\ file[j].ver \in Nat
    BY <2>1 DEF TypeInv, TypeOK, Snapshot
  <2> QED BY <1>2, <2>1, <2>2, <2>3, Kinded DEF Kinds
<1>5. \A k \in Jobs : mem'[k] = IF k = j THEN new ELSE mem[k]
  BY <1>2, <1>4 DEF TypeInv, TypeOK
<1>6. PICK p \in Nat : /\ \A i \in Nat : i >= p => Pipe[i] = NoTask
                       /\ \A i \in Nat : Pipe'[i] = IF i = p THEN e ELSE Pipe[i]
  <2>1. g # Nobody /\ made[g] = NoTask
    BY <1>3, PersistAssumption DEF Goroutines, TypeInv, TypeOK
  <2>2. InHand = NoTask /\ InHand' = e
    BY <1>2, <1>3, <2>1 DEF InHand, TypeInv, TypeOK
  <2>3. Added(e)
    BY <1>3, <2>2, PipeGrows
  <2> QED BY <2>3 DEF Added
<1>7. \A i \in Nat : Pipe[i] # Sentinel
  <2>1. drain # "waiting"
    <3>1. life[j] \in {"starting", "running", "finishing"}
      BY <1>3 DEF Calls, CallsWhileAlive, JobFor, Goroutines
    <3> QED BY <1>4, <3>1 DEF Calls, DrainedAlone
  <2> QED BY <2>1 DEF Line, SentinelLast
<1> HIDE DEF j
<1>8. /\ file[j].ver <= m.ver
      /\ j \in known => m = mem[j]
      /\ \A i \in Nat : Pipe[i] \in Tasks /\ Pipe[i].job = j =>
            /\ j \in known /\ Pipe[i].lines <= m.lines
            /\ Pipe[i].kind = "job" => Pipe[i].n <= m.ver
            /\ Pipe[i].kind = "log" => Pipe[i].n <= m.lines
  <2>1. file[j].ver <= m.ver
    <3>1. CASE j \in known
      BY <1>1, <3>1 DEF Volume, JobsFollow, Follows
    <3>2. CASE j \notin known
      BY <1>1, <1>4, <3>2
    <3> QED BY <3>1, <3>2
  <2> QED BY <1>1, <2>1 DEF Line, BetweenBoth, Between
<1>9. \A i \in DOMAIN logFile[j] : logFile[j][i] <= m.lines /\ logFile[j][i] \in Nat
  <2>1. \A i \in DOMAIN logFile[j] : logFile[j][i] \in Nat
    BY <1>4 DEF TypeInv, TypeOK
  <2>2. CASE j \in known
    BY <1>1, <2>1, <2>2 DEF Volume, JobsFollow, Follows
  <2>3. CASE j \notin known
    <3>1. DOMAIN logFile[j] = {}
      BY <1>4, <2>3 DEF Volume, Untouched
    <3> QED BY <3>1
  <2> QED BY <2>2, <2>3
<1>10. BetweenBoth'
  <2> SUFFICES ASSUME NEW i \in Nat, Pipe'[i] \in Tasks
               PROVE  /\ Pipe'[i].job \in known' /\ Pipe'[i].lines <= mem'[Pipe'[i].job].lines
                      /\ Pipe'[i].kind = "job" => /\ file[Pipe'[i].job].ver < Pipe'[i].n
                                                  /\ Pipe'[i].n <= mem'[Pipe'[i].job].ver
                      /\ Pipe'[i].kind = "log" => /\ Behind(Pipe'[i].job, Pipe'[i].n)
                                                  /\ Pipe'[i].n <= mem'[Pipe'[i].job].lines
    BY <1>3 DEF BetweenBoth, Between, Behind
  <2>1. CASE i = p
    <3>1. Pipe'[i] = e /\ e.job = j /\ mem'[j] = new
      BY <1>2, <1>4, <1>5, <1>6, <2>1
    <3>2. CASE e.kind = "job"
      BY <1>2, <1>3, <1>4, <1>8, <3>1, <3>2
    <3>3. CASE e.kind = "log"
      <4>1. Behind(j, e.n)
        BY <1>2, <1>4, <1>9, <3>3 DEF Behind
      <4> QED BY <1>2, <1>3, <1>4, <3>1, <3>3, <4>1
    <3> QED BY <1>4, <3>2, <3>3 DEF Kinds
  <2>2. CASE i # p
    <3>1. Pipe'[i] = Pipe[i] /\ Pipe[i] \in Tasks
      BY <1>6, <2>2
    <3>2. /\ Pipe[i].job \in known /\ Pipe[i].lines <= mem[Pipe[i].job].lines
          /\ Pipe[i].kind = "job" => /\ file[Pipe[i].job].ver < Pipe[i].n
                                     /\ Pipe[i].n <= mem[Pipe[i].job].ver
          /\ Pipe[i].kind = "log" => /\ Behind(Pipe[i].job, Pipe[i].n)
                                     /\ Pipe[i].n <= mem[Pipe[i].job].lines
      BY <3>1 DEF Line, BetweenBoth, Between
    <3>3. Pipe[i].job \in Jobs /\ Pipe[i].n \in Nat /\ Pipe[i].lines \in Nat
      BY <3>1, Kinded
    <3>4. CASE Pipe[i].job = j
      BY <1>3, <1>4, <1>5, <1>8, <3>1, <3>2, <3>3, <3>4
    <3>5. CASE Pipe[i].job # j
      BY <1>3, <1>5, <3>1, <3>2, <3>3, <3>5
    <3> QED BY <3>4, <3>5
  <2> QED BY <2>1, <2>2
<1>11. InOrder'
  <2> SUFFICES ASSUME NEW i \in Nat, NEW k \in Nat, Pipe'[i] \in Tasks, Pipe'[k] \in Tasks,
                      Pipe'[i].job = Pipe'[k].job, i < k
               PROVE  /\ Pipe'[i].kind = Pipe'[k].kind => Pipe'[i].n < Pipe'[k].n
                      /\ Pipe'[i].kind = "job" /\ Pipe'[k].kind = "log" => Pipe'[i].lines < Pipe'[k].n
    BY DEF InOrder
  <2>1. i < p /\ Pipe'[i] = Pipe[i]
    <3>1. i # p
      BY <1>6, Kinded
    <3> QED BY <1>6, <3>1, Kinded
  <2>2. CASE k = p
    <3>1. Pipe'[k] = e /\ Pipe[i].job = j /\ Pipe[i] \in Tasks
      BY <1>2, <1>6, <2>1, <2>2
    <3>2. Pipe[i].n \in Nat /\ Pipe[i].lines \in Nat /\ Pipe[i].kind \in Kinds
      BY <3>1, Kinded
    <3>3. CASE e.kind = "job"
      BY <1>2, <1>4, <1>8, <2>1, <3>1, <3>2, <3>3
    <3>4. CASE e.kind = "log"
      BY <1>2, <1>4, <1>8, <2>1, <3>1, <3>2, <3>4
    <3> QED BY <1>4, <3>3, <3>4 DEF Kinds
  <2>3. CASE k # p
    <3>1. Pipe'[k] = Pipe[k]
      BY <1>6, <2>3
    <3> QED BY <2>1, <3>1 DEF Line, InOrder
  <2> QED BY <2>2, <2>3
<1>12. NothingMissing'
  <2>1. ASSUME NEW kind, NEW k, NEW n, Coming(kind, k, n)
        PROVE  Coming(kind, k, n)'
    <3>1. PICK i \in Nat : Is(Pipe[i], kind) /\ Pipe[i].job = k /\ Pipe[i].n = n
      BY <2>1 DEF Coming
    <3>2. Pipe'[i] = Pipe[i]
      BY <1>6, <3>1, Kinded DEF Is
    <3> QED BY <3>1, <3>2 DEF Coming, Is
  <2>2. \A k, n : VersionTold(k, n) => VersionTold(k, n)'
    BY <1>3, <2>1 DEF VersionTold, Dropped
  <2>3. \A k, n : LineTold(k, n) => LineTold(k, n)'
    BY <1>3, <2>1 DEF LineTold, Dropped, Logged
  <2>4. e.kind = "job" => Coming("job", j, e.n)'
    BY <1>2, <1>6 DEF Coming, Is
  <2>5. e.kind = "log" => Coming("log", j, e.n)'
    BY <1>2, <1>6 DEF Coming, Is
  <2> SUFFICES ASSUME NEW k \in known', NEW v, v = mem'[k].ver, NEW l, l = mem'[k].lines
               PROVE  VersionTold(k, v)' /\ \A n \in 1..l : LineTold(k, n)'
    BY DEF NothingMissing, VersionTold, Dropped, Coming, Is
  <2>6. CASE k # j
    <3>1. k \in known /\ mem'[k] = mem[k]
      BY <1>3, <1>5, <2>6 DEF TypeInv, TypeOK
    <3>2. VersionTold(k, mem[k].ver) /\ \A n \in 1..mem[k].lines : LineTold(k, n)
      BY <3>1 DEF Line, NothingMissing
    <3> QED BY <2>2, <2>3, <3>1, <3>2
  <2>7. CASE k = j
    <3>1. mem'[k] = new
      BY <1>4, <1>5, <2>7
    <3>2. VersionTold(j, m.ver)
      BY <1>1 DEF Line, NothingMissing, VersionTold
    <3>3. \A n \in 1..m.lines : LineTold(j, n)
      <4>1. CASE j \in known
        BY <1>1, <4>1 DEF Line, NothingMissing
      <4>2. CASE j \notin known
        BY <1>1, <4>2
      <4> QED BY <4>1, <4>2
    <3>4. CASE e.kind = "job"
      <4>1. VersionTold(j, v)'
        BY <1>2, <2>4, <3>1, <3>4 DEF VersionTold
      <4>2. \A n \in 1..new.lines : LineTold(j, n)'
        BY <1>2, <2>3, <3>3, <3>4
      <4> QED BY <2>7, <3>1, <4>1, <4>2
    <3>5. CASE e.kind = "log"
      <4>1. VersionTold(j, v)'
        BY <1>2, <2>2, <3>1, <3>2, <3>5
      <4>2. LineTold(j, l)'
        BY <1>2, <2>5, <3>1, <3>5 DEF LineTold
      <4>3. \A n \in 1..new.lines : n \in 1..m.lines \/ n = l
        BY <1>2, <1>4, <3>1, <3>5
      <4>4. \A n \in 1..new.lines : LineTold(j, n)'
        BY <2>3, <3>3, <4>2, <4>3
      <4> QED BY <2>7, <3>1, <4>1, <4>4
    <3> QED BY <1>4, <3>4, <3>5 DEF Kinds
  <2> QED BY <2>6, <2>7
<1>13. SentinelLast'
  <2>1. \A i \in Nat : Pipe'[i] # Sentinel
    BY <1>6, <1>7, Kinded
  <2> QED BY <2>1 DEF SentinelLast
<1>14. Volume'
  <2>1. JobsFollow'
    <3> SUFFICES ASSUME NEW k \in known' PROVE Follows(k)'
      BY DEF JobsFollow
    <3>1. CASE k = j
      <4>1. mem'[k] = new /\ file[k].ver <= new.ver
        BY <1>4, <1>5, <1>8, <3>1
      <4>2. \A i \in DOMAIN logFile[j] : logFile[j][i] <= new.lines
        BY <1>4, <1>9
      <4>3. \A i \in DOMAIN logFile[j] : \A h \in 1..(i - 1) : logFile[j][h] < logFile[j][i]
        <5>1. CASE j \in known
          BY <5>1 DEF Volume, JobsFollow, Follows
        <5>2. CASE j \notin known
          <6>1. DOMAIN logFile[j] = {}
            BY <1>4, <5>2 DEF Volume, Untouched
          <6> QED BY <6>1
        <5> QED BY <5>1, <5>2
      <4> QED BY <1>3, <3>1, <4>1, <4>2, <4>3 DEF Follows
    <3>2. CASE k # j
      <4>1. k \in known /\ mem'[k] = mem[k]
        BY <1>3, <1>5, <3>2 DEF TypeInv, TypeOK
      <4>2. Follows(k)
        BY <4>1 DEF Volume, JobsFollow
      <4> QED BY <1>3, <4>1, <4>2 DEF Follows
    <3> QED BY <3>1, <3>2
  <2>2. SeenIsThere'
    <3>1. ASSUME NEW r \in Readers, NEW k \in Jobs
          PROVE  seen[r][k] <= IF k \in known' THEN mem'[k].ver ELSE file[k].ver
      <4>1. seen[r][k] <= IF k \in known THEN mem[k].ver ELSE file[k].ver
        BY DEF Volume, SeenIsThere
      <4>2. seen[r][k] \in Nat
        BY DEF TypeInv, TypeOK
      <4>3. CASE k # j
        BY <1>3, <1>5, <4>1, <4>3
      <4>4. CASE k = j
        BY <1>1, <1>3, <1>4, <1>5, <4>1, <4>2, <4>4
      <4> QED BY <4>3, <4>4
    <3> QED BY <1>3, <3>1 DEF Volume, SeenIsThere
  <2>3. Untouched'
    BY <1>3 DEF Volume, Untouched
  <2>4. LinesBeforeStatus'
    BY <1>3 DEF Volume, LinesBeforeStatus, LinesUpTo, Dropped, Logged
  <2> QED BY <2>1, <2>2, <2>3, <2>4 DEF Volume
<1> QED BY <1>10, <1>11, <1>12, <1>13, <1>14 DEF Line

\* The worker takes a task: the line moves up.
LEMMA LineTake ==
    ASSUME TypeInv, Line, Take
    PROVE  Line'
<1>1. Pipe[0] = NoTask /\ \A i \in Nat : Pipe'[i] = Pipe[i + 1]
  BY PipeMoves
<1>2. UNCHANGED <<known, mem, file, logFile, dropped, drain>>
  BY DEF Take, fileVars
<1>3. BetweenBoth'
  <2> SUFFICES ASSUME NEW i \in Nat, Pipe'[i] \in Tasks
               PROVE  Between(Pipe'[i])
    BY <1>2 DEF BetweenBoth, Between, Behind
  <2>1. i + 1 \in Nat /\ Pipe'[i] = Pipe[i + 1]
    BY <1>1
  <2> QED BY <2>1 DEF Line, BetweenBoth
<1>4. InOrder'
  <2> SUFFICES ASSUME NEW i \in Nat, NEW k \in Nat, Pipe'[i] \in Tasks, Pipe'[k] \in Tasks,
                      Pipe'[i].job = Pipe'[k].job, i < k
               PROVE  /\ Pipe'[i].kind = Pipe'[k].kind => Pipe'[i].n < Pipe'[k].n
                      /\ Pipe'[i].kind = "job" /\ Pipe'[k].kind = "log" => Pipe'[i].lines < Pipe'[k].n
    BY DEF InOrder
  <2>1. i + 1 \in Nat /\ k + 1 \in Nat /\ i + 1 < k + 1
    OBVIOUS
  <2> QED BY <1>1, <2>1 DEF Line, InOrder
<1>5. NothingMissing'
  <2>1. ASSUME NEW kind, NEW j, NEW n, Coming(kind, j, n)
        PROVE  Coming(kind, j, n)'
    <3>1. PICK i \in Nat : Is(Pipe[i], kind) /\ Pipe[i].job = j /\ Pipe[i].n = n
      BY <2>1 DEF Coming
    <3>2. i # 0
      BY <1>1, <3>1, Kinded DEF Is
    <3>3. i - 1 \in Nat /\ (i - 1) + 1 = i
      BY <3>2
    <3>4. Pipe'[i - 1] = Pipe[i]
      BY <1>1, <3>3
    <3> QED BY <3>1, <3>3, <3>4 DEF Coming, Is
  <2>2. \A j, n : VersionTold(j, n) => VersionTold(j, n)'
    BY <1>2, <2>1 DEF VersionTold, Dropped
  <2>3. \A j, n : LineTold(j, n) => LineTold(j, n)'
    BY <1>2, <2>1 DEF LineTold, Dropped, Logged
  <2> QED BY <1>2, <2>2, <2>3 DEF Line, NothingMissing
<1>6. SentinelLast'
  <2> SUFFICES ASSUME NEW i \in Nat, Pipe'[i] = Sentinel
               PROVE  drain = "waiting" /\ \A k \in Nat : k > i => Pipe'[k] = NoTask
    BY <1>2 DEF SentinelLast
  <2>1. i + 1 \in Nat /\ Pipe[i + 1] = Sentinel
    BY <1>1
  <2>2. drain = "waiting" /\ \A k \in Nat : k > i + 1 => Pipe[k] = NoTask
    BY <2>1 DEF Line, SentinelLast
  <2> QED BY <1>1, <2>2
<1> QED BY <1>3, <1>4, <1>5, <1>6 DEF Line

\* No line of a version is still to come when the version is written.
LEMMA LinesAreThere ==
    ASSUME TypeInv, Line, Volume, Is(task, "job")
    PROVE  /\ task.job \in known /\ task.job \in Jobs
           /\ file[task.job].ver < task.n /\ task.n <= mem[task.job].ver
           /\ LinesUpTo(task.job, task.lines)
<1>1. Pipe[0] = task /\ task \in Tasks /\ task.kind = "job"
  BY PipeIs DEF Is
<1>2. task.job \in Jobs /\ task.n \in Nat /\ task.lines \in Nat
  BY <1>1, Kinded
<1>3. /\ task.job \in known /\ task.lines <= mem[task.job].lines
      /\ file[task.job].ver < task.n /\ task.n <= mem[task.job].ver
  BY <1>1 DEF Line, BetweenBoth, Between
<1>4. mem[task.job].lines \in Nat
  BY <1>2 DEF TypeInv, TypeOK, Snapshot
<1>5. ASSUME NEW n \in 1..task.lines
      PROVE  Logged(task.job, n) \/ Dropped("log", task.job, n)
  <2>1. n \in 1..mem[task.job].lines
    BY <1>2, <1>3, <1>4
  <2>2. LineTold(task.job, n)
    BY <1>3, <2>1 DEF Line, NothingMissing
  <2>3. ~ Coming("log", task.job, n)
    <3> SUFFICES ASSUME Coming("log", task.job, n) PROVE FALSE
      OBVIOUS
    <3>1. PICK i \in Nat : Is(Pipe[i], "log") /\ Pipe[i].job = task.job /\ Pipe[i].n = n
      BY DEF Coming
    <3>2. 0 < i /\ 0 \in Nat
      BY <1>1, <3>1 DEF Is
    <3>3. task.lines < Pipe[i].n
      BY <1>1, <3>1, <3>2 DEF Line, InOrder, Is
    <3> QED BY <1>2, <3>1, <3>3
  <2> QED BY <2>2, <2>3 DEF LineTold
<1> QED BY <1>2, <1>3, <1>5 DEF LinesUpTo

\* The line that is written is newer than those that are there.
LEMMA LineIsNewer ==
    ASSUME TypeInv, Line, Is(task, "log")
    PROVE  /\ task.job \in known /\ task.job \in Jobs
           /\ Behind(task.job, task.n) /\ task.n <= mem[task.job].lines
<1>1. Pipe[0] = task /\ task \in Tasks /\ task.kind = "log"
  BY PipeIs DEF Is
<1>2. task.job \in Jobs
  BY <1>1, Kinded
<1> QED BY <1>1, <1>2 DEF Line, BetweenBoth, Between

\* The worker is done with the first task, however that went, or has closed the
\* channel of the sentinel.
LEMMA LineShrinks ==
    ASSUME TypeInv, Line, WriteStep \/ Drained
    PROVE  /\ \A i \in Nat : Pipe'[i] = IF i = 0 THEN NoTask ELSE Pipe[i]
           /\ Pipe[0] = task
           /\ \A i \in Nat : Pipe'[i] \in Tasks => i > 0 /\ Pipe'[i] = Pipe[i]
           /\ UNCHANGED <<known, mem, seen, rpc, asks>>
           /\ InOrder' /\ SentinelLast'
           /\ \A kind, j, n : Coming(kind, j, n) =>
                \/ Coming(kind, j, n)'
                \/ Is(task, kind) /\ task.job = j /\ task.n = n
<1>1. /\ \A i \in Nat : Pipe'[i] = IF i = 0 THEN NoTask ELSE Pipe[i]
      /\ Pipe[0] = task
      /\ UNCHANGED <<known, mem, seen, rpc, asks>>
  BY PipeShrinks, PipeIs, TaskDoneKeeps DEF Drained, readVars
<1>2. \A i \in Nat : Pipe'[i] \in Tasks \union {Sentinel} => i > 0 /\ Pipe'[i] = Pipe[i]
  BY <1>1, Kinded
<1>3. InOrder'
  BY <1>2 DEF Line, InOrder
<1>4. SentinelLast'
  <2>1. CASE Drained
    <3>1. \A k \in Nat : k > 0 => Pipe[k] = NoTask
      BY <1>1, <2>1 DEF Drained, Line, SentinelLast
    <3>2. \A k \in Nat : Pipe'[k] = NoTask
      BY <1>1, <3>1
    <3> QED BY <3>2, Kinded DEF SentinelLast
  <2>2. CASE WriteStep
    <3>1. drain' = drain
      BY <2>2, TaskDoneKeeps
    <3> QED BY <1>1, <1>2, <3>1 DEF Line, SentinelLast
  <2> QED BY <2>1, <2>2
<1>5. ASSUME NEW kind, NEW j, NEW n, Coming(kind, j, n)
      PROVE  Coming(kind, j, n)' \/ (Is(task, kind) /\ task.job = j /\ task.n = n)
  <2>1. PICK i \in Nat : Is(Pipe[i], kind) /\ Pipe[i].job = j /\ Pipe[i].n = n
    BY <1>5 DEF Coming
  <2>2. CASE i = 0
    BY <1>1, <2>1, <2>2
  <2>3. CASE i # 0
    BY <1>1, <2>1, <2>3 DEF Coming, Is
  <2> QED BY <2>2, <2>3
<1> QED BY <1>1, <1>2, <1>3, <1>4, <1>5

\* A task that succeeds or is dropped leaves nothing missing.
LEMMA NothingIsLost ==
    ASSUME TypeInv, Line, WriteStep \/ Drained, NEW e, e = task,
           \A k, n : k \in Jobs /\ Logged(k, n) => Logged(k, n)',
           dropped \subseteq dropped',
           Is(e, "log") => LineTold(e.job, e.n)',
           Is(e, "job") => VersionTold(e.job, e.n)',
           \A k \in known : \/ file'[k].ver = file[k].ver
                            \/ file[k].ver # mem[k].ver
    PROVE  NothingMissing'
<1>1. /\ UNCHANGED <<known, mem>>
      /\ \A kind, j, n : Coming(kind, j, n) =>
           \/ Coming(kind, j, n)'
           \/ Is(e, kind) /\ e.job = j /\ e.n = n
  BY LineShrinks
<1>2. \A kind, k, n : Dropped(kind, k, n) => Dropped(kind, k, n)'
  BY DEF Dropped
<1> SUFFICES ASSUME NEW j \in known, NEW v, v = mem[j].ver, NEW l, l = mem[j].lines
             PROVE  VersionTold(j, v)' /\ \A n \in 1..l : LineTold(j, n)'
  BY <1>1 DEF NothingMissing, VersionTold, Dropped, Coming, Is
<1>3. VersionTold(j, v) /\ \A n \in 1..l : LineTold(j, n)
  BY DEF Line, NothingMissing
<1>4. VersionTold(j, v)'
  <2>1. CASE file[j].ver = v
    BY <1>1, <2>1 DEF VersionTold
  <2>2. CASE Dropped("job", j, v)
    BY <1>2, <2>2 DEF VersionTold
  <2>3. CASE Coming("job", j, v)
    <3>1. CASE Coming("job", j, v)'
      BY <3>1 DEF VersionTold
    <3>2. CASE Is(e, "job") /\ e.job = j /\ e.n = v
      BY <3>2
    <3> QED BY <1>1, <2>3, <3>1, <3>2
  <2> QED BY <1>3, <2>1, <2>2, <2>3 DEF VersionTold
<1>5. ASSUME NEW n \in 1..l
      PROVE  LineTold(j, n)'
  <2>1. LineTold(j, n) /\ j \in Jobs
    BY <1>3 DEF TypeInv, TypeOK
  <2>2. CASE Logged(j, n)
    BY <2>1, <2>2 DEF LineTold
  <2>3. CASE Dropped("log", j, n)
    BY <1>2, <2>3 DEF LineTold
  <2>4. CASE Coming("log", j, n)
    <3>1. CASE Coming("log", j, n)'
      BY <3>1 DEF LineTold
    <3>2. CASE Is(e, "log") /\ e.job = j /\ e.n = n
      BY <3>2
    <3> QED BY <1>1, <2>4, <3>1, <3>2
  <2> QED BY <2>1, <2>2, <2>3, <2>4 DEF LineTold
<1> QED BY <1>4, <1>5

\* The sentinel's channel is closed, or a write has failed or come to nothing: the
\* files stay as they are.
LEMMA LineNotWritten ==
    ASSUME TypeInv, TypeInv', Line, Volume,
           Drained \/ WriteJobFails \/ WriteLineUnread \/ WriteLineFails
    PROVE  Line' /\ Volume'
<1>1. /\ UNCHANGED <<file, logFile>>
      /\ dropped \subseteq dropped'
      /\ task \in Tasks => task \in dropped'
  BY Kinded DEF Drained, WriteJobFails, WriteLineUnread, WriteLineFails, fileVars
<1>2. WriteStep \/ Drained
  BY DEF WriteStep
<1>3. /\ \A i \in Nat : Pipe'[i] \in Tasks => i > 0 /\ Pipe'[i] = Pipe[i]
      /\ UNCHANGED <<known, mem, seen, rpc, asks>>
      /\ InOrder' /\ SentinelLast'
  BY <1>2, LineShrinks
<1>4. BetweenBoth'
  BY <1>1, <1>3 DEF Line, BetweenBoth, Between, Behind
<1>5. /\ \A k, n : Logged(k, n) => Logged(k, n)'
      /\ \A kind, k, n : Dropped(kind, k, n) => Dropped(kind, k, n)'
  BY <1>1 DEF Logged, Dropped
<1>7. NothingMissing'
  <2>1. PICK e : e = task
    OBVIOUS
  <2>2. \A kind : Is(e, kind) => Dropped(kind, e.job, e.n)'
    BY <1>1, <2>1 DEF Dropped, Is
  <2>3. /\ Is(e, "log") => LineTold(e.job, e.n)'
        /\ Is(e, "job") => VersionTold(e.job, e.n)'
    BY <2>2 DEF LineTold, VersionTold
  <2> QED BY <1>1, <1>2, <1>5, <2>1, <2>3, NothingIsLost
<1>8. Volume'
  <2>1. JobsFollow' /\ Untouched' /\ SeenIsThere'
    BY <1>1, <1>3 DEF Volume, JobsFollow, Follows, Untouched, SeenIsThere
  <2>2. LinesBeforeStatus'
    <3> SUFFICES ASSUME NEW k \in Jobs, NEW n \in 1..file[k].lines
                 PROVE  Logged(k, n)' \/ Dropped("log", k, n)'
      BY <1>1 DEF LinesBeforeStatus, LinesUpTo
    <3>1. Logged(k, n) \/ Dropped("log", k, n)
      BY DEF Volume, LinesBeforeStatus, LinesUpTo
    <3> QED BY <1>5, <3>1
  <2> QED BY <2>1, <2>2 DEF Volume
<1> QED BY <1>3, <1>4, <1>7, <1>8 DEF Line

\* job.json has been replaced.
LEMMA JobWritten ==
    ASSUME TypeInv, TypeInv', Line, Volume, WriteJob
    PROVE  Line' /\ Volume'
<1>1. WriteStep
  BY DEF WriteStep
<1>2. /\ \A i \in Nat : Pipe'[i] \in Tasks => i > 0 /\ Pipe'[i] = Pipe[i]
      /\ Pipe[0] = task
      /\ UNCHANGED <<known, mem, seen, rpc, asks>>
      /\ InOrder' /\ SentinelLast'
  BY <1>1, LineShrinks
<1>3. Is(task, "job")
  BY <1>1, TaskInHand DEF WriteJob, Is
<1>4. /\ task.job \in known /\ task.job \in Jobs
      /\ file[task.job].ver < task.n /\ task.n <= mem[task.job].ver
      /\ LinesUpTo(task.job, task.lines)
  BY <1>3, LinesAreThere
<1>5. task \in Tasks /\ task.kind = "job" /\ task.n \in Nat /\ task.lines \in Nat
  BY <1>3, Kinded DEF Is
<1>6. /\ UNCHANGED <<logFile, dropped>>
      /\ \A k \in Jobs : /\ k # task.job => file'[k] = file[k]
                         /\ k = task.job => file'[k].ver = task.n /\ file'[k].lines = task.lines
  BY <1>4 DEF WriteJob, TypeInv, TypeOK
<1>7. BetweenBoth'
  <2> SUFFICES ASSUME NEW i \in Nat, Pipe'[i] \in Tasks
               PROVE  /\ Pipe[i].job \in known /\ Pipe[i].lines <= mem[Pipe[i].job].lines
                      /\ Pipe[i].kind = "job" => /\ file'[Pipe[i].job].ver < Pipe[i].n
                                                 /\ Pipe[i].n <= mem[Pipe[i].job].ver
                      /\ Pipe[i].kind = "log" => /\ Behind(Pipe[i].job, Pipe[i].n)
                                                 /\ Pipe[i].n <= mem[Pipe[i].job].lines
    BY <1>2, <1>6 DEF BetweenBoth, Between, Behind
  <2>1. i > 0 /\ Pipe[i] \in Tasks /\ Pipe[i].job \in Jobs
    BY <1>2, Kinded
  <2>2. /\ Pipe[i].job \in known /\ Pipe[i].lines <= mem[Pipe[i].job].lines
        /\ Pipe[i].kind = "job" => /\ file[Pipe[i].job].ver < Pipe[i].n
                                   /\ Pipe[i].n <= mem[Pipe[i].job].ver
        /\ Pipe[i].kind = "log" => /\ Behind(Pipe[i].job, Pipe[i].n)
                                   /\ Pipe[i].n <= mem[Pipe[i].job].lines
    BY <2>1 DEF Line, BetweenBoth, Between
  <2>3. ASSUME Pipe[i].job = task.job, Pipe[i].kind = "job"
        PROVE  file'[Pipe[i].job].ver < Pipe[i].n
    <3>1. task.n < Pipe[i].n
      BY <1>2, <1>5, <2>1, <2>3 DEF Line, InOrder
    <3> QED BY <1>4, <1>6, <2>3, <3>1
  <2> QED BY <1>6, <2>1, <2>2, <2>3
<1>8. NothingMissing'
  <2>1. PICK e : e = task
    OBVIOUS
  <2>5. VersionTold(e.job, e.n)'
    BY <1>4, <1>6, <2>1 DEF VersionTold
  <2>2. ASSUME NEW k \in known
        PROVE  file'[k].ver = file[k].ver \/ file[k].ver # mem[k].ver
    <3>1. k \in Jobs /\ file[k].ver \in Nat /\ mem[k].ver \in Nat
      BY DEF TypeInv, TypeOK, Snapshot
    <3> QED BY <1>4, <1>5, <1>6, <3>1
  <2>3. \A k, n : Logged(k, n) => Logged(k, n)'
    BY <1>6 DEF Logged
  <2>4. ~ Is(e, "log")
    BY <1>5, <2>1 DEF Is
  <2> QED BY <1>1, <1>6, <2>1, <2>2, <2>3, <2>4, <2>5, NothingIsLost
<1>9. JobsFollow' /\ Untouched'
  <2>1. known \subseteq Jobs
    BY DEF TypeInv, TypeOK
  <2> QED BY <1>2, <1>4, <1>6, <2>1 DEF Volume, JobsFollow, Follows, Untouched
<1>10. LinesBeforeStatus'
  <2> SUFFICES ASSUME NEW k \in Jobs PROVE LinesUpTo(k, file'[k].lines)
    BY <1>6 DEF LinesBeforeStatus, LinesUpTo, Logged, Dropped
  <2> QED BY <1>4, <1>6 DEF Volume, LinesBeforeStatus
<1>11. SeenIsThere'
  <2>1. ASSUME NEW k \in Jobs
        PROVE  file[k].ver <= file'[k].ver /\ file[k].ver \in Nat /\ file'[k].ver \in Nat
    <3>1. file[k].ver \in Nat
      BY DEF TypeInv, TypeOK, Snapshot
    <3> QED BY <1>4, <1>5, <1>6, <3>1
  <2>2. ASSUME NEW r \in Readers, NEW k \in Jobs
        PROVE  seen[r][k] <= IF k \in known THEN mem[k].ver ELSE file'[k].ver
    <3>1. k \notin known => file'[k] = file[k]
      BY <1>4, <1>6
    <3> QED BY <3>1 DEF Volume, SeenIsThere
  <2>3. ASSUME NEW r \in Readers, rpc[r] = "disk"
        PROVE  seen[r][asks[r]] <= file'[asks[r]].ver
    <3>1. asks[r] \in Jobs /\ seen[r][asks[r]] \in Nat
      BY DEF TypeInv, TypeOK
    <3> QED BY <2>1, <2>3, <3>1 DEF Volume, SeenIsThere
  <2> QED BY <1>2, <2>2, <2>3 DEF SeenIsThere
<1> QED BY <1>2, <1>7, <1>8, <1>9, <1>10, <1>11 DEF Line, Volume

\* A line has been appended to combined.log.
LEMMA LogWritten ==
    ASSUME TypeInv, TypeInv', Line, Volume, WriteLine
    PROVE  Line' /\ Volume'
<1>1. WriteStep
  BY DEF WriteStep
<1>2. /\ \A i \in Nat : Pipe'[i] \in Tasks => i > 0 /\ Pipe'[i] = Pipe[i]
      /\ Pipe[0] = task
      /\ UNCHANGED <<known, mem, seen, rpc, asks>>
      /\ InOrder' /\ SentinelLast'
  BY <1>1, LineShrinks
<1>3. Is(task, "log")
  BY <1>1, TaskInHand DEF WriteLine, Is
<1>4. /\ task.job \in known /\ task.job \in Jobs
      /\ Behind(task.job, task.n) /\ task.n <= mem[task.job].lines
  BY <1>3, LineIsNewer
<1>5. task \in Tasks /\ task.kind = "log" /\ task.n \in Nat
  BY <1>3, Kinded DEF Is
<1> DEFINE old == logFile[task.job]
           new == logFile'[task.job]
<1>6. old \in Seq(Nat) /\ Len(old) \in Nat
  BY <1>4 DEF TypeInv, TypeOK
<1>7. /\ UNCHANGED <<file, dropped>>
      /\ \A k \in Jobs : k # task.job => logFile'[k] = logFile[k]
      /\ new = Append(old, task.n)
  BY <1>4 DEF WriteLine, TypeInv, TypeOK
<1>8. /\ DOMAIN new = 1..(Len(old) + 1) /\ DOMAIN old = 1..Len(old)
      /\ new[Len(old) + 1] = task.n
      /\ \A i \in 1..Len(old) : new[i] = old[i] /\ old[i] \in Nat
  BY <1>5, <1>6, <1>7
<1> HIDE DEF old, new
<1>9. \A i \in DOMAIN new : new[i] <= task.n
  <2>1. \A i \in 1..Len(old) : old[i] < task.n
    BY <1>4, <1>8 DEF Behind, old
  <2> QED BY <1>5, <1>6, <1>8, <2>1
<1>10. BetweenBoth'
  <2> SUFFICES ASSUME NEW i \in Nat, Pipe'[i] \in Tasks
               PROVE  /\ Pipe[i].job \in known /\ Pipe[i].lines <= mem[Pipe[i].job].lines
                      /\ Pipe[i].kind = "job" => /\ file[Pipe[i].job].ver < Pipe[i].n
                                                 /\ Pipe[i].n <= mem[Pipe[i].job].ver
                      /\ Pipe[i].kind = "log" =>
                           /\ \A k \in DOMAIN logFile'[Pipe[i].job] :
                                 logFile'[Pipe[i].job][k] < Pipe[i].n
                           /\ Pipe[i].n <= mem[Pipe[i].job].lines
    BY <1>2, <1>7 DEF BetweenBoth, Between, Behind
  <2>1. i > 0 /\ Pipe[i] \in Tasks /\ Pipe[i].job \in Jobs /\ Pipe[i].n \in Nat
    BY <1>2, Kinded
  <2>2. /\ Pipe[i].job \in known /\ Pipe[i].lines <= mem[Pipe[i].job].lines
        /\ Pipe[i].kind = "job" => /\ file[Pipe[i].job].ver < Pipe[i].n
                                   /\ Pipe[i].n <= mem[Pipe[i].job].ver
        /\ Pipe[i].kind = "log" => /\ \A k \in DOMAIN logFile[Pipe[i].job] :
                                         logFile[Pipe[i].job][k] < Pipe[i].n
                                   /\ Pipe[i].n <= mem[Pipe[i].job].lines
    BY <2>1 DEF Line, BetweenBoth, Between, Behind
  <2>3. ASSUME Pipe[i].job = task.job, Pipe[i].kind = "log", NEW k \in DOMAIN new
        PROVE  new[k] < Pipe[i].n
    <3>1. task.n < Pipe[i].n
      BY <1>2, <1>5, <2>1, <2>3 DEF Line, InOrder
    <3>2. new[k] <= task.n /\ new[k] \in Nat
      BY <1>5, <1>6, <1>8, <1>9
    <3> QED BY <1>5, <2>1, <3>1, <3>2
  <2>4. CASE Pipe[i].job = task.job
    BY <2>2, <2>3, <2>4 DEF new
  <2>5. CASE Pipe[i].job # task.job
    BY <1>7, <2>1, <2>2, <2>5
  <2> QED BY <2>4, <2>5
<1>11. ASSUME NEW k, NEW n, Logged(k, n), k \in Jobs
       PROVE  Logged(k, n)'
  <2>1. PICK i \in DOMAIN logFile[k] : logFile[k][i] = n
    BY <1>11 DEF Logged
  <2>2. CASE k # task.job
    BY <1>7, <1>11, <2>1, <2>2 DEF Logged
  <2>3. CASE k = task.job
    <3>1. i \in DOMAIN new /\ new[i] = n
      BY <1>6, <1>8, <2>1, <2>3 DEF old
    <3> QED BY <2>3, <3>1 DEF Logged, new
  <2> QED BY <2>2, <2>3
<1>13. NothingMissing'
  <2>1. PICK e : e = task
    OBVIOUS
  <2>2. Len(old) + 1 \in DOMAIN new
    BY <1>6, <1>8
  <2>3. Logged(e.job, e.n)'
    BY <1>8, <2>1, <2>2 DEF Logged, new
  <2>4. LineTold(e.job, e.n)'
    BY <2>3 DEF LineTold
  <2>5. ~ Is(e, "job")
    BY <1>5, <2>1 DEF Is
  <2>6. \A k, n : k \in Jobs /\ Logged(k, n) => Logged(k, n)'
    BY <1>11
  <2> QED BY <1>1, <1>7, <2>1, <2>4, <2>5, <2>6, NothingIsLost
<1>14. JobsFollow'
  <2> SUFFICES ASSUME NEW k \in known PROVE Follows(k)'
    BY <1>2 DEF JobsFollow
  <2>1. k \in Jobs /\ Follows(k)
    BY DEF TypeInv, TypeOK, Volume, JobsFollow
  <2>2. CASE k # task.job
    BY <1>2, <1>7, <2>1, <2>2 DEF Follows
  <2>3. CASE k = task.job
    <3>1. mem[k].lines \in Nat
      BY <2>1 DEF TypeInv, TypeOK, Snapshot
    <3>2. \A i \in DOMAIN new : new[i] <= mem[k].lines
      BY <1>4, <1>5, <1>6, <1>8, <1>9, <2>3, <3>1
    <3>3. ASSUME NEW i \in DOMAIN new, NEW h \in 1..(i - 1)
          PROVE  new[h] < new[i]
      <4>1. h \in 1..Len(old) /\ new[h] = old[h]
        BY <1>6, <1>8
      <4>2. CASE i = Len(old) + 1
        BY <1>4, <1>8, <4>1, <4>2 DEF Behind, old
      <4>3. CASE i # Len(old) + 1
        <5>1. i \in 1..Len(old) /\ new[i] = old[i]
          BY <1>6, <1>8, <4>3
        <5>2. old[h] < old[i]
          BY <1>8, <2>1, <2>3, <5>1 DEF Follows, old
        <5> QED BY <4>1, <5>1, <5>2
      <4> QED BY <4>2, <4>3
    <3> QED BY <1>2, <1>7, <2>1, <2>3, <3>2, <3>3 DEF Follows, new
  <2> QED BY <2>2, <2>3
<1>15. Untouched' /\ SeenIsThere'
  BY <1>2, <1>4, <1>7 DEF Volume, Untouched, SeenIsThere
<1>16. LinesBeforeStatus'
  <2> SUFFICES ASSUME NEW k \in Jobs, NEW n \in 1..file[k].lines
               PROVE  Logged(k, n)' \/ Dropped("log", k, n)'
    BY <1>7 DEF LinesBeforeStatus, LinesUpTo
  <2>1. Logged(k, n) \/ Dropped("log", k, n)
    BY DEF Volume, LinesBeforeStatus, LinesUpTo
  <2> QED BY <1>7, <1>11, <2>1 DEF Dropped
<1> QED BY <1>2, <1>10, <1>13, <1>14, <1>15, <1>16 DEF Line, Volume

\* The sentinel, when no goroutine has anything in hand.
LEMMA LineEnds ==
    ASSUME TypeInv, Calls, Line, SendSentinel
    PROVE  Line'
<1>1. /\ drain = "sentinel" /\ drain' = "waiting" /\ persistCh' = Append(persistCh, Sentinel)
      /\ UNCHANGED <<known, mem, file, logFile, dropped, task, made, owner>>
  BY DEF SendSentinel, SentinelPlace, fileVars
<1>2. owner = Nobody
  <2>1. \A j \in Jobs : life[j] \in {"waiting", "ended", "skipped"}
    BY <1>1 DEF Calls, DrainedAlone
  <2>2. \A g \in Goroutines : pc[g] = "idle"
    BY <2>1, PersistAssumption DEF Calls, CallsWhileAlive, Goroutines
  <2> QED BY <2>2 DEF Calls, OneWriter, Holding, TypeInv, TypeOK
<1>3. InHand = NoTask /\ InHand' = InHand
  BY <1>1, <1>2 DEF InHand
<1>4. PICK p \in Nat : /\ \A i \in Nat : i >= p => Pipe[i] = NoTask
                       /\ \A i \in Nat : Pipe'[i] = IF i = p THEN Sentinel ELSE Pipe[i]
  <2>1. Added(Sentinel)
    BY <1>1, <1>3, PipeGrows
  <2> QED BY <2>1 DEF Added
<1>5. \A i \in Nat : /\ Pipe'[i] \in Tasks => Pipe'[i] = Pipe[i]
                     /\ Pipe[i] \in Tasks => Pipe'[i] = Pipe[i]
                     /\ Pipe[i] # Sentinel
  BY <1>1, <1>4, Kinded DEF Line, SentinelLast
<1>6. BetweenBoth'
  BY <1>1, <1>5 DEF Line, BetweenBoth, Between, Behind
<1>7. InOrder'
  BY <1>5 DEF Line, InOrder
<1>8. NothingMissing'
  <2>1. \A kind, k, n : Coming(kind, k, n) => Coming(kind, k, n)'
    BY <1>5 DEF Coming, Is
  <2>2. \A k, n : VersionTold(k, n) => VersionTold(k, n)'
    BY <1>1, <2>1 DEF VersionTold, Dropped
  <2>3. \A k, n : LineTold(k, n) => LineTold(k, n)'
    BY <1>1, <2>1 DEF LineTold, Dropped, Logged
  <2> QED BY <1>1, <2>2, <2>3 DEF Line, NothingMissing
<1>9. SentinelLast'
  BY <1>1, <1>4, <1>5 DEF SentinelLast
<1> QED BY <1>6, <1>7, <1>8, <1>9 DEF Line

\* What a reader may be given: at least what it has seen.
LEMMA ReadGives ==
    ASSUME TypeInv, Volume, NEW r \in Readers, ReadMemory(r) \/ ReadDisk(r)
    PROVE  \E v \in Nat :
             /\ seen[r][asks[r]] <= v
             /\ v <= IF asks[r] \in known THEN mem[asks[r]].ver ELSE file[asks[r]].ver
             /\ seen' = [seen EXCEPT ![r][asks[r]] = v]
<1> DEFINE j == asks[r]
<1>1. j \in Jobs /\ mem[j].ver \in Nat /\ file[j].ver \in Nat
  BY DEF TypeInv, TypeOK, Snapshot
<1>2. CASE ReadMemory(r)
  <2>1. j \in known /\ seen' = [seen EXCEPT ![r][j] = mem[j].ver]
    BY <1>2 DEF ReadMemory
  <2>2. seen[r][j] <= mem[j].ver
    BY <1>1, <2>1 DEF Volume, SeenIsThere
  <2> USE <1>1
  <2> WITNESS mem[j].ver \in Nat
  <2> QED BY <2>1, <2>2
<1>3. CASE ReadDisk(r)
  <2>1. seen[r][j] <= file[j].ver /\ seen' = [seen EXCEPT ![r][j] = file[j].ver]
    BY <1>3 DEF ReadDisk, Volume, SeenIsThere
  <2>2. j \in known => file[j].ver <= mem[j].ver
    BY DEF Volume, JobsFollow, Follows
  <2>3. file[j].ver <= IF j \in known THEN mem[j].ver ELSE file[j].ver
    BY <1>1, <2>2
  <2> USE <1>1
  <2> WITNESS file[j].ver \in Nat
  <2> QED BY <2>1, <2>3
<1> QED BY <1>2, <1>3

LEMMA VolumeRead ==
    ASSUME TypeInv, Volume, NEW r \in Readers, ReadStep(r)
    PROVE  Volume'
<1>1. CASE Miss(r)
  <2>1. /\ rpc' = [rpc EXCEPT ![r] = "disk"] /\ asks[r] \in Jobs /\ asks[r] \notin known
        /\ UNCHANGED <<known, mem, file, logFile, dropped, seen, asks>>
    BY <1>1 DEF Miss, fileVars, TypeInv, TypeOK
  <2>2. seen[r][asks[r]] <= file[asks[r]].ver
    BY <2>1 DEF Volume, SeenIsThere
  <2>3. SeenIsThere'
    BY <2>1, <2>2 DEF Volume, SeenIsThere, TypeInv, TypeOK
  <2> QED BY <2>1, <2>3 DEF Volume, JobsFollow, Follows, Untouched, LinesBeforeStatus, LinesUpTo,
              Logged, Dropped
<1>2. CASE ReadMemory(r) \/ ReadDisk(r)
  <2>1. PICK v \in Nat :
          /\ v <= IF asks[r] \in known THEN mem[asks[r]].ver ELSE file[asks[r]].ver
          /\ seen' = [seen EXCEPT ![r][asks[r]] = v]
    BY <1>2, ReadGives
  <2>2. /\ rpc' = [rpc EXCEPT ![r] = "idle"] /\ UNCHANGED <<known, mem, file, logFile, dropped, asks>>
    BY <1>2 DEF ReadMemory, ReadDisk, fileVars
  <2>3. ASSUME NEW q \in Readers, NEW k \in Jobs
        PROVE  seen'[q][k] = IF q = r /\ k = asks[r] THEN v ELSE seen[q][k]
    <3>1. seen[r] \in [Jobs -> Nat] /\ asks[r] \in Jobs
      BY DEF TypeInv, TypeOK
    <3>2. seen'[q] = IF q = r THEN [seen[r] EXCEPT ![asks[r]] = v] ELSE seen[q]
      BY <2>1 DEF TypeInv, TypeOK
    <3> QED BY <3>1, <3>2
  <2>4. \A q \in Readers : rpc'[q] = "disk" => q # r /\ rpc[q] = "disk" /\ asks[q] \in Jobs
    BY <2>2 DEF TypeInv, TypeOK
  <2>5. SeenIsThere'
    BY <2>1, <2>2, <2>3, <2>4 DEF Volume, SeenIsThere
  <2> QED BY <2>2, <2>5 DEF Volume, JobsFollow, Follows, Untouched, LinesBeforeStatus, LinesUpTo,
              Logged, Dropped
<1>3. CASE ReadDiskFails(r)
  <2>1. UNCHANGED <<known, mem, file, logFile, dropped, seen, asks>>
    BY <1>3 DEF ReadDiskFails
  <2>2. \A q \in Readers : rpc'[q] = "disk" => rpc[q] = "disk"
    BY <1>3 DEF ReadDiskFails, TypeInv, TypeOK
  <2> QED BY <2>1, <2>2, VolumeKept
<1> QED BY <1>1, <1>2, <1>3 DEF ReadStep

-----------------------------------------------------------------------------
(* What a failing write costs.                                             *)

\* Each fault drops its own task; the line it may have torn swallows one more.
FaultsPay ==
    /\ IsFiniteSet(dropped) /\ IsFiniteSet(torn)
    /\ Cardinality(dropped) + Cardinality(torn) <= 2 * faults

\* A set grows by one at most when an element is put into it.
LEMMA OneMore ==
    ASSUME NEW S, IsFiniteSet(S), NEW x
    PROVE  /\ IsFiniteSet(S \union {x}) /\ IsFiniteSet(S \ {x})
           /\ Cardinality(S) \in Nat
           /\ Cardinality(S \union {x}) \in Nat /\ Cardinality(S \ {x}) \in Nat
           /\ Cardinality(S \union {x}) <= Cardinality(S) + 1
           /\ x \in S => Cardinality(S \ {x}) = Cardinality(S) - 1
<1>1. Cardinality(S) \in Nat
  BY FS_CardinalityType
<1>2. IsFiniteSet(S \union {x}) /\ Cardinality(S \union {x}) <= Cardinality(S) + 1
  BY <1>1, FS_AddElement
<1>3. IsFiniteSet(S \ {x}) /\ (x \in S => Cardinality(S \ {x}) = Cardinality(S) - 1)
  BY <1>1, FS_RemoveElement
<1>4. Cardinality(S \union {x}) \in Nat /\ Cardinality(S \ {x}) \in Nat
  BY <1>2, <1>3, FS_CardinalityType
<1> QED BY <1>1, <1>2, <1>3, <1>4

LEMMA FaultsPayStep == TypeInv /\ FaultsPay /\ [Next]_vars => FaultsPay'
<1> SUFFICES ASSUME TypeInv, FaultsPay, [Next]_vars PROVE FaultsPay'
  OBVIOUS
<1>1. faults \in Nat /\ Cardinality(dropped) \in Nat /\ Cardinality(torn) \in Nat
  BY PersistAssumption, FS_CardinalityType DEF TypeInv, TypeOK, FaultsPay
<1>2. CASE UNCHANGED <<torn, faults, dropped>>
  BY <1>2 DEF FaultsPay
<1>3. CASE \/ \E j \in Jobs : AdoptFails(j)
           \/ \E r \in Readers : ReadDiskFails(r)
  BY <1>1, <1>3 DEF AdoptFails, ReadDiskFails, Fault, FaultsPay
<1>4. CASE WriteJobFails \/ WriteLineFails
  <2>1. faults' = faults + 1 /\ dropped' = dropped \union {task}
    BY <1>4 DEF WriteJobFails, WriteLineFails, Fault
  <2>2. torn' = torn \/ torn' = torn \union {task.job}
    BY <1>4 DEF WriteJobFails, WriteLineFails
  <2>3. IsFiniteSet(dropped') /\ Cardinality(dropped') <= Cardinality(dropped) + 1
        /\ Cardinality(dropped') \in Nat
    BY <2>1, OneMore DEF FaultsPay
  <2>4. IsFiniteSet(torn') /\ Cardinality(torn') <= Cardinality(torn) + 1
        /\ Cardinality(torn') \in Nat
    BY <1>1, <2>2, OneMore DEF FaultsPay
  <2>5. Cardinality(dropped) + Cardinality(torn) <= 2 * faults
    BY DEF FaultsPay
  <2>6. Cardinality(dropped') + Cardinality(torn') <= 2 * faults'
    BY <1>1, <2>1, <2>3, <2>4, <2>5
  <2> QED BY <2>3, <2>4, <2>6 DEF FaultsPay
<1>5. CASE WriteLineUnread
  <2>1. /\ faults' = faults /\ dropped' = dropped \union {task}
        /\ task.job \in torn /\ torn' = torn \ {task.job}
    BY <1>5 DEF WriteLineUnread
  <2>2. IsFiniteSet(dropped') /\ Cardinality(dropped') <= Cardinality(dropped) + 1
        /\ Cardinality(dropped') \in Nat
    BY <2>1, OneMore DEF FaultsPay
  <2>3. IsFiniteSet(torn') /\ Cardinality(torn') = Cardinality(torn) - 1
        /\ Cardinality(torn') \in Nat
    BY <2>1, OneMore DEF FaultsPay
  <2>4. Cardinality(dropped) + Cardinality(torn) <= 2 * faults
    BY DEF FaultsPay
  <2>5. Cardinality(dropped') + Cardinality(torn') <= 2 * faults'
    BY <1>1, <2>1, <2>2, <2>3, <2>4
  <2> QED BY <2>2, <2>3, <2>5 DEF FaultsPay
<1>6. \/ UNCHANGED <<torn, faults, dropped>>
      \/ \E j \in Jobs : AdoptFails(j)
      \/ \E r \in Readers : ReadDiskFails(r)
      \/ WriteJobFails \/ WriteLineFails \/ WriteLineUnread
  BY DEF vars, fileVars, Next, CallStep, ExecuteStep, ToolStep, ReadStep, WorkerStep, WriteStep,
         DrainStep, Announce, ChangeKnown, TurnToDisk, Send, Unlock, ExecuteBegins, ExecuteEnds,
         Adopt, Begin, Update, Return, ReadMemory, Miss, ReadDisk, Ask, Take, WriteJob, WriteLine,
         Drained, DrainLocked, SendSentinel, WaitIdle
<1> QED BY <1>2, <1>3, <1>4, <1>5, <1>6

PersistInv == TypeInv /\ Calls /\ Line /\ Volume /\ FaultsPay

LEMMA PersistStep == PersistInv /\ [Next]_vars => PersistInv'
<1> SUFFICES ASSUME TypeInv, Calls, Line, Volume, [Next]_vars PROVE Line' /\ Volume'
  BY TypeStep, CallsStep, FaultsPayStep DEF PersistInv
<1>1. TypeInv'
  BY TypeStep
<1>2. CASE UNCHANGED vars
  <2>1. Pipe' = Pipe
    BY <1>2, PipeStays DEF vars, InHand
  <2> QED BY <1>2, <2>1, LineKept, VolumeKept DEF vars, readVars, fileVars
<1>3. CASE \/ \E j \in Jobs : ExecuteBegins(j) \/ ExecuteEnds(j)
           \/ \E t \in Tools : ToolStep(t)
           \/ \E g \in Goroutines : TurnToDisk(g)
           \/ DrainLocked \/ WaitIdle
  <2>1. UNCHANGED <<made, owner, task, persistCh, known, mem, file, logFile, dropped, seen, rpc, asks>>
    BY <1>3 DEF ExecuteBegins, ExecuteEnds, ToolStep, Update, Return, Begin, TurnToDisk, DrainLocked,
                WaitIdle, readVars, fileVars
  <2>2. drain = "waiting" => drain' = "waiting"
    BY <1>3 DEF ExecuteBegins, ExecuteEnds, ToolStep, Update, Return, Begin, TurnToDisk, DrainLocked,
                WaitIdle
  <2>3. Pipe' = Pipe
    BY <2>1, PipeStays DEF InHand
  <2> QED BY <2>1, <2>2, <2>3, LineKept, VolumeKept
<1>4. ASSUME NEW g \in Goroutines,
             Announce(g) \/ Send(g) \/ Unlock(g) \/ (g \in Jobs /\ AdoptFails(g))
      PROVE  Line' /\ Volume'
  <2>1. UNCHANGED <<known, mem, file, logFile, dropped, drain, seen, asks>>
    BY <1>4 DEF Announce, Send, Unlock, AdoptFails, readVars, fileVars
  <2>2. \A r \in Readers : rpc'[r] = "disk" => rpc[r] = "disk"
    BY <1>4 DEF Announce, Send, Unlock, AdoptFails, Release, readVars
  <2>3. Pipe' = Pipe
    BY <1>1, <1>4, PipeHanded
  <2> QED BY <2>1, <2>2, <2>3, LineKept, VolumeKept
<1>5. CASE \/ \E g \in Goroutines : ChangeKnown(g)
           \/ \E j \in Jobs : Adopt(j)
  BY <1>1, <1>5, LineChange DEF Goroutines
<1>6. ASSUME NEW r \in Readers, ReadStep(r) \/ \E j \in Jobs : Ask(r, j)
      PROVE  Line' /\ Volume'
  <2>1. UNCHANGED <<made, owner, task, persistCh, known, mem, file, logFile, dropped, drain>>
    BY <1>6 DEF ReadStep, ReadMemory, Miss, ReadDisk, ReadDiskFails, Ask, fileVars
  <2>2. Pipe' = Pipe
    BY <2>1, PipeStays DEF InHand
  <2>3. Line'
    BY <2>1, <2>2, LineKept
  <2>4. ASSUME NEW j \in Jobs, Ask(r, j)
        PROVE  Volume'
    <3>1. /\ rpc[r] = "idle" /\ UNCHANGED seen
          /\ asks' = [asks EXCEPT ![r] = j]
          /\ \E place \in {"read", "wait"} : rpc' = [rpc EXCEPT ![r] = place]
      BY <2>4 DEF Ask, WhenLocked
    <3>2. \A q \in Readers : rpc'[q] = "disk" => q # r /\ rpc[q] = "disk" /\ asks'[q] = asks[q]
      BY <3>1 DEF TypeInv, TypeOK
    <3>3. SeenIsThere'
      BY <2>1, <3>1, <3>2 DEF Volume, SeenIsThere
    <3> QED BY <2>1, <3>1, <3>3
            DEF Volume, JobsFollow, Follows, Untouched, LinesBeforeStatus, LinesUpTo, Logged, Dropped
  <2> QED BY <1>6, <2>3, <2>4, VolumeRead
<1>7. CASE Take
  <2>1. UNCHANGED <<known, mem, file, logFile, dropped, seen, rpc, asks>>
    BY <1>7 DEF Take, readVars, fileVars
  <2> QED BY <1>7, <2>1, LineTake, VolumeKept
<1>8. CASE SendSentinel
  <2>1. UNCHANGED <<known, mem, file, logFile, dropped, seen, rpc, asks>>
    BY <1>8 DEF SendSentinel, readVars, fileVars
  <2> QED BY <1>8, <2>1, LineEnds, VolumeKept
<1>9. CASE WriteStep \/ Drained
  BY <1>1, <1>9, LineNotWritten, JobWritten, LogWritten DEF WriteStep
<1>10. CASE \E j \in Jobs : AdoptFails(j)
  BY <1>4, <1>10 DEF Goroutines
<1> QED
  BY <1>2, <1>3, <1>4, <1>5, <1>6, <1>7, <1>8, <1>9, <1>10
  DEF Next, CallStep, ExecuteStep, WorkerStep, DrainStep

LEMMA PersistInvariant == Spec => []PersistInv
<1>1. Init => PersistInv
  <2>1. Init => FaultsPay
    BY FS_EmptySet DEF Init, FaultsPay
  <2> QED BY <2>1, PersistTypeInit, CallsInit, LineInit DEF PersistInv
<1> QED BY <1>1, PersistStep, PTL DEF Spec

-----------------------------------------------------------------------------
(* The theorems.                                                           *)

\* job.json never tells more than memory, combined.log has lines AppendLog was given,
\* in that order and none twice, and a failing write costs two lines at most: whatever
\* the order in which goroutines get m.mu, however often persistCh is full, and
\* whichever reads and writes of the volume fail.
THEOREM VolumeFollows == Spec => []VolumeFollowsMemory
<1>1. PersistInv => VolumeFollowsMemory
  BY DEF PersistInv, Volume, JobsFollow, Follows, FaultsPay, VolumeFollowsMemory
<1> QED BY <1>1, PersistInvariant, PTL

\* Whoever reads a version of job.json finds every line in combined.log that the job
\* had when that version was made, but for those that failed writes dropped: no line
\* is still to come.
THEOREM LinesComeFirst == Spec => []LinesBeforeStatus
BY PersistInvariant, PTL DEF PersistInv, Volume

\* A version of job.json is never replaced by an older one: the tasks arrive in the
\* order of the changes, since each is enqueued before m.mu is released.
THEOREM VersionsAdvance == Spec => VersionsOnlyAdvance
<1>1. PersistInv /\ [Next]_vars => [\A j \in Jobs : file'[j].ver >= file[j].ver]_vars
  <2> SUFFICES ASSUME PersistInv, [Next]_vars, NEW j \in Jobs
               PROVE  file'[j].ver >= file[j].ver
    OBVIOUS
  <2>1. file[j].ver \in Nat
    BY DEF PersistInv, TypeInv, TypeOK, Snapshot
  <2>2. CASE file' = file
    BY <2>1, <2>2
  <2>3. CASE WriteJob
    <3>1. task \in Tasks /\ task.kind = "job" /\ task.n \in Nat
      BY <2>3, TaskInHand, Kinded DEF WriteStep, WriteJob, PersistInv
    <3>2. file[task.job].ver < task.n
      BY <3>1, LinesAreThere DEF PersistInv, Is
    <3>3. file'[j] = IF j = task.job THEN [ver |-> task.n, lines |-> task.lines] ELSE file[j]
      BY <2>3 DEF WriteJob, PersistInv, TypeInv, TypeOK
    <3> QED BY <2>1, <3>1, <3>2, <3>3
  <2>4. file' = file \/ WriteJob
    BY DEF vars, fileVars, Next, CallStep, ExecuteStep, ToolStep, ReadStep, WorkerStep, WriteStep,
           DrainStep, Announce, ChangeKnown, TurnToDisk, Send, Unlock, ExecuteBegins, ExecuteEnds,
           Adopt, AdoptFails, Begin, Update, Return, ReadMemory, Miss, ReadDisk, ReadDiskFails, Ask,
           Take, WriteJobFails, WriteLine, WriteLineUnread, WriteLineFails, Drained, DrainLocked,
           SendSentinel, WaitIdle
  <2> QED BY <2>2, <2>3, <2>4
<1> QED BY <1>1, PersistInvariant, PTL DEF Spec, VersionsOnlyAdvance

\* A client that asks one pod again and again never sees a job go back, not even when
\* the job was not in memory at first and another goroutine adopts it meanwhile.
THEOREM ReadsAdvance == Spec => ReadsNeverGoBack
<1>1. PersistInv /\ [Next]_vars => [\A r \in Readers, j \in Jobs : seen'[r][j] >= seen[r][j]]_vars
  <2> SUFFICES ASSUME PersistInv, [Next]_vars, NEW r \in Readers, NEW j \in Jobs
               PROVE  seen'[r][j] >= seen[r][j]
    OBVIOUS
  <2>1. \A q \in Readers : seen[q] \in [Jobs -> Nat] /\ asks[q] \in Jobs
    BY DEF PersistInv, TypeInv, TypeOK
  <2>2. CASE seen' = seen
    BY <2>1, <2>2
  <2>3. ASSUME NEW q \in Readers, ReadMemory(q) \/ ReadDisk(q)
        PROVE  seen'[r][j] >= seen[r][j]
    <3>1. PICK v \in Nat : /\ seen[q][asks[q]] <= v
                           /\ seen' = [seen EXCEPT ![q][asks[q]] = v]
      BY <2>3, ReadGives DEF PersistInv
    <3>2. seen'[r] = IF r = q THEN [seen[q] EXCEPT ![asks[q]] = v] ELSE seen[r]
      BY <3>1 DEF PersistInv, TypeInv, TypeOK
    <3>3. seen'[r][j] = IF r = q /\ j = asks[q] THEN v ELSE seen[r][j]
      BY <2>1, <3>2
    <3>4. seen[r][j] \in Nat
      BY <2>1
    <3> QED BY <3>1, <3>3, <3>4
  <2>4. seen' = seen \/ \E q \in Readers : ReadMemory(q) \/ ReadDisk(q)
    BY TaskDoneKeeps
       DEF vars, readVars, Next, CallStep, ExecuteStep, ToolStep, ReadStep, WorkerStep, DrainStep,
           Announce, ChangeKnown, TurnToDisk, Send, Unlock, ExecuteBegins, ExecuteEnds, Adopt,
           AdoptFails, Begin, Update, Return, Miss, ReadDiskFails, Ask, Take, Drained, DrainLocked,
           SendSentinel, WaitIdle
  <2> QED BY <2>2, <2>3, <2>4
<1> QED BY <1>1, PersistInvariant, PTL DEF Spec, ReadsNeverGoBack

\* When WaitIdle returns, every scan has ended and nothing its memory says is on its
\* way: what the volume lacks is what failed writes dropped.  The sentinel passed the
\* line alone.
THEOREM DrainCompletes == Spec => DrainIsComplete
<1> DEFINE Complete == drain' = "done" /\ drain # "done" =>
                         \A j \in known : life[j] = "ended" /\ OnVolume(j)
<1>1. PersistInv /\ [Next]_vars => [Complete]_vars
  <2> SUFFICES ASSUME PersistInv, [Next]_vars, drain' = "done", drain # "done", NEW j \in known
               PROVE  life[j] = "ended" /\ OnVolume(j)
    OBVIOUS
  <2>1. Drained
    BY TaskDoneKeeps
       DEF vars, Next, CallStep, ExecuteStep, ToolStep, ReadStep, WorkerStep, DrainStep,
           Announce, ChangeKnown, TurnToDisk, Send, Unlock, ExecuteBegins, ExecuteEnds, Adopt,
           AdoptFails, Begin, Update, Return, ReadMemory, Miss, ReadDisk, ReadDiskFails, Ask, Take,
           DrainLocked, SendSentinel, WaitIdle
  <2>2. Pipe[0] = Sentinel
    BY <2>1, PipeIs DEF Drained, PersistInv
  <2>3. drain = "waiting" /\ \A i \in Nat : i > 0 => Pipe[i] = NoTask
    BY <2>2 DEF PersistInv, Line, SentinelLast
  <2>4. \A i \in Nat : Pipe[i] \notin Tasks
    BY <2>2, <2>3, Kinded
  <2>5. \A kind, k, n : ~ Coming(kind, k, n)
    BY <2>4 DEF Coming, Is
  <2>6. life[j] = "ended"
    <3>1. j \in Jobs /\ life[j] # "waiting" /\ life[j] \in {"waiting", "ended", "skipped"}
      BY <2>3 DEF PersistInv, TypeInv, TypeOK, Calls, DrainedAlone, KnownWhenBegun
    <3>2. life[j] # "skipped"
      BY DEF PersistInv, Calls, KnownWhenBegun
    <3> QED BY <3>1, <3>2
  <2>7. VersionTold(j, mem[j].ver) /\ \A n \in 1..mem[j].lines : LineTold(j, n)
    BY DEF PersistInv, Line, NothingMissing
  <2>8. OnVolume(j)
    BY <2>5, <2>7 DEF OnVolume, LinesUpTo, VersionTold, LineTold
  <2> QED BY <2>6, <2>8
<1> QED BY <1>1, PersistInvariant, PTL DEF Spec, DrainIsComplete
=============================================================================
