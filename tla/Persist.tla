------------------------------- MODULE Persist -------------------------------
(***************************************************************************)
(* One pod's jobs.Manager under m.mu (src/pkg/jobs/jobs.go): goroutines of *)
(* running scans change jobs, handlers read them, and every change becomes *)
(* a task on persistCh that persistWorker applies to the volume.           *)
(*                                                                         *)
(* A job is a version number (each change of job.json's content makes the  *)
(* next version) and a number of log lines.  The goroutine that runs       *)
(* executeJob for job j is j itself.  Tools are the goroutines its runner  *)
(* starts and waits for; they call SetToolStatus, SetSummary and SetError  *)
(* (kind "job") and AppendLog (kind "log").  sync.RWMutex is modelled as   *)
(* Go implements it: a writer that waits keeps new readers out, and its    *)
(* Unlock admits every reader that waited.                                 *)
(*                                                                         *)
(* The volume may fail: a read gives nothing, a write of job.json is given *)
(* up, a log line is lost or cut off.  Nobody retries any of them.         *)
(***************************************************************************)
EXTENDS Integers, Sequences, FiniteSets

CONSTANTS
    Jobs,       \* the scans this pod runs, and their goroutines
    Tools,      \* the goroutines of their runners
    JobOf,      \* the job of a tool
    Readers,    \* handlers that call GetJob
    ChanCap,    \* persistQueueSize (1024 in the code)
    MaxUpdates, \* bound: calls per tool
    MaxFaults,  \* bound: reads and writes of the volume that fail
    Nobody

ASSUME PersistAssumption ==
    /\ JobOf \in [Tools -> Jobs] /\ Jobs # {}
    /\ ChanCap \in Nat \ {0} /\ MaxUpdates \in Nat /\ MaxFaults \in Nat
    /\ Jobs \intersect Tools = {} /\ Nobody \notin Jobs \union Tools

VARIABLES
    life,    \* of each job: where executeJob is
    left,    \* of each tool: calls it may still make
    pc,      \* of each scan goroutine: its progress through a critical section
    op,      \* of each scan goroutine: what its call changes ("job" between calls)
    made,    \* of each scan goroutine: the task its last change made
    owner,   \* the writer that waits for m.mu's readers, or holds m.mu
    rpc,     \* of each reader: its progress through GetJob
    asks,    \* of each reader: the job it asks for
    seen,    \* history: the version each reader got last of each job
    known,   \* the jobs in m.jobs
    mem,     \* of each job: version and log lines in memory
    persistCh,
    task,    \* the task persistWorker is at
    file,    \* of each job: the version in job.json, and the lines the job had
             \* when that version was made (history)
    logFile, \* of each job: the lines of combined.log that can be read
    torn,    \* the jobs whose combined.log ends with a part of a line
    faults,  \* how many reads and writes of the volume have failed
    dropped, \* history: the tasks whose result the volume does not have
    drain    \* where WaitIdle's goroutine is

readVars == <<rpc, asks, seen>>
fileVars == <<file, logFile, torn, faults, dropped>>
vars == <<life, left, pc, op, made, owner, readVars, known, mem, persistCh,
          task, fileVars, drain>>

Goroutines == Jobs \union Tools
JobFor(g)  == IF g \in Jobs THEN g ELSE JobOf[g]
ToolsOf(j) == {t \in Tools : JobOf[t] = j}

Kinds    == {"job", "log"}
Tasks    == [kind : Kinds, job : Jobs, n : Nat, lines : Nat]
NoTask   == [kind |-> "none"]
Sentinel == [kind |-> "sentinel"]
Snapshot == [ver : Nat, lines : Nat]

TypeOK ==
    /\ life \in [Jobs -> {"waiting", "starting", "running", "finishing", "ended",
                       "skipped"}]
    /\ left \in [Tools -> 0..MaxUpdates]
    /\ pc \in [Goroutines -> {"idle", "lock", "announced", "adopt", "send", "unlock"}]
    /\ op \in [Goroutines -> Kinds]
    /\ made \in [Goroutines -> Tasks \union {NoTask}]
    /\ owner \in Goroutines \union {Nobody}
    /\ rpc \in [Readers -> {"idle", "wait", "read", "disk"}]
    /\ asks \in [Readers -> Jobs]
    /\ seen \in [Readers -> [Jobs -> Nat]]
    /\ known \in SUBSET Jobs
    /\ mem \in [Jobs -> Snapshot]
    /\ persistCh \in Seq(Tasks \union {Sentinel}) /\ Len(persistCh) <= ChanCap
    /\ task \in Tasks \union {NoTask, Sentinel}
    /\ file \in [Jobs -> Snapshot]
    /\ logFile \in [Jobs -> Seq(Nat)]
    /\ torn \in SUBSET Jobs
    /\ faults \in 0..MaxFaults
    /\ dropped \in SUBSET Tasks
    /\ drain \in {"off", "locking", "sentinel", "waiting", "done"}

\* The jobs' job.json was written when they were created, maybe by another pod.
Init ==
    /\ life = [j \in Jobs |-> "waiting"]
    /\ left = [t \in Tools |-> MaxUpdates]
    /\ pc = [g \in Goroutines |-> "idle"]
    /\ op = [g \in Goroutines |-> "job"]
    /\ made = [g \in Goroutines |-> NoTask]
    /\ owner = Nobody
    /\ rpc = [r \in Readers |-> "idle"]
    /\ asks = [r \in Readers |-> CHOOSE j \in Jobs : TRUE]
    /\ seen = [r \in Readers |-> [j \in Jobs |-> 0]]
    /\ known = {}
    /\ mem = [j \in Jobs |-> [ver |-> 0, lines |-> 0]]
    /\ persistCh = <<>>
    /\ task = NoTask
    /\ file = [j \in Jobs |-> [ver |-> 1, lines |-> 0]]
    /\ logFile = [j \in Jobs |-> <<>>]
    /\ torn = {} /\ faults = 0 /\ dropped = {}
    /\ drain = "off"

\* A system call on the volume returns an error.
Fault == faults < MaxFaults /\ faults' = faults + 1

-----------------------------------------------------------------------------
(* The goroutines of a scan, and the critical section of their calls.      *)

\* drainMu's write lock is held or waited for.
GateShut == drain \in {"locking", "sentinel", "waiting"}

Begin(g, kind) ==
    /\ pc[g] = "idle"
    /\ pc' = [pc EXCEPT ![g] = "lock"]
    /\ op' = [op EXCEPT ![g] = kind]
    /\ UNCHANGED <<made, owner, readVars, known, mem, persistCh, task, fileVars, drain>>

\* executeJob sets the job running, behind runQueued's RLock.
ExecuteBegins(j) ==
    /\ life[j] = "waiting" /\ ~ GateShut
    /\ Begin(j, "job")
    /\ life' = [life EXCEPT ![j] = "starting"]
    /\ UNCHANGED left

\* The runner has returned, and its tools with it: executeJob records the end.
ExecuteEnds(j) ==
    /\ life[j] = "running"
    /\ \A t \in ToolsOf(j) : pc[t] = "idle" /\ left[t] = 0
    /\ Begin(j, "job")
    /\ life' = [life EXCEPT ![j] = "finishing"]
    /\ UNCHANGED left

\* A tool reports its status, its summary, an error or a log line.
Update(t, kind) ==
    /\ life[JobOf[t]] = "running" /\ left[t] > 0
    /\ Begin(t, kind)
    /\ left' = [left EXCEPT ![t] = @ - 1]
    /\ UNCHANGED life

\* A tool has nothing more to report.
Return(t) ==
    /\ life[JobOf[t]] = "running" /\ left[t] > 0 /\ pc[t] = "idle"
    /\ left' = [left EXCEPT ![t] = 0]
    /\ UNCHANGED <<life, pc, op, made, owner, readVars, known, mem, persistCh, task,
                   fileVars, drain>>

\* Lock: first one writer among all, which then keeps new readers out.
Announce(g) ==
    /\ pc[g] = "lock" /\ owner = Nobody
    /\ owner' = g
    /\ pc' = [pc EXCEPT ![g] = "announced"]
    /\ UNCHANGED <<life, left, op, made, readVars, known, mem, persistCh, task, fileVars,
                   drain>>

\* Lock succeeds once the readers that were in have left.
Locked(g) == pc[g] = "announced" /\ \A r \in Readers : rpc[r] # "read"

\* Mutant of AfterStep: m.mu is released before the task is enqueued.
AfterStepUnlockFirst == [change |-> "unlock", unlock |-> "send", send |-> "idle"]

\* Mutant of AfterStep: the change is not persisted.
AfterStepUnsaved == [change |-> "unlock", send |-> "unlock", unlock |-> "idle"]

\* The order within a call: change, enqueue the write, unlock.
AfterStep == [change |-> "send", send |-> "unlock", unlock |-> "idle"]

\* The change itself, from the job m, and persistJob's marshalled snapshot of it
\* or AppendLog's line.
Change(g, m) ==
    LET j   == JobFor(g)
        new == IF op[g] = "job" THEN [m EXCEPT !.ver = @ + 1]
                                ELSE [m EXCEPT !.lines = @ + 1]
    IN /\ mem' = [mem EXCEPT ![j] = new]
       /\ made' = [made EXCEPT ![g] =
                     [kind |-> op[g], job |-> j, lines |-> new.lines,
                      n |-> IF op[g] = "job" THEN new.ver ELSE new.lines]]
       /\ pc' = [pc EXCEPT ![g] = AfterStep.change]

\* The job is in m.jobs.  It always is when a tool calls: executeJob adopted it
\* before it started the runner, so the setters' early return is never taken.
ChangeKnown(g) ==
    /\ Locked(g)
    /\ JobFor(g) \in known
    /\ Change(g, mem[JobFor(g)])
    /\ UNCHANGED <<life, left, op, owner, readVars, known, persistCh, task, fileVars, drain>>

\* executeJob holds m.mu, does not find the job and turns to the volume.
TurnToDisk(j) ==
    /\ Locked(j) /\ j \in Jobs \ known
    /\ pc' = [pc EXCEPT ![j] = "adopt"]
    /\ UNCHANGED <<life, left, op, made, owner, readVars, known, mem, persistCh, task,
                   fileVars, drain>>

\* readFullJob returns what the volume has, and executeJob goes on from it.
Adopt(j) ==
    /\ pc[j] = "adopt"
    /\ known' = known \union {j}
    /\ Change(j, [ver |-> file[j].ver, lines |-> Len(logFile[j])])
    /\ UNCHANGED <<life, left, op, owner, readVars, persistCh, task, fileVars, drain>>

\* Unlock's effect on m.mu: it admits the readers that waited.
Release ==
    /\ owner' = Nobody
    /\ rpc' = [r \in Readers |-> IF rpc[r] = "wait" THEN "read" ELSE rpc[r]]

\* readFullJob returns nil: job.json is missing, cannot be read or is no JSON.
\* executeJob unlocks and skips the job.
AdoptFails(j) ==
    /\ pc[j] = "adopt" /\ Fault
    /\ Release
    /\ pc' = [pc EXCEPT ![j] = "idle"]
    /\ life' = [life EXCEPT ![j] = "skipped"]
    /\ UNCHANGED <<left, op, made, asks, seen, known, mem, persistCh, task, file, logFile,
                   torn, dropped, drain>>

\* Mutant of HasRoom: the send does not wait for room.
RoomForAll == TRUE

HasRoom == Len(persistCh) < ChanCap

\* enqueuePersist: blocks while persistCh is full, m.mu held.
Send(g) ==
    /\ pc[g] = "send" /\ HasRoom
    /\ persistCh' = Append(persistCh, made[g])
    /\ made' = [made EXCEPT ![g] = NoTask]
    /\ pc' = [pc EXCEPT ![g] = AfterStep.send]
    /\ UNCHANGED <<life, left, op, owner, readVars, known, mem, task, fileVars, drain>>

\* The end of a call.  After executeJob's last one runQueued releases drainMu.
Unlock(g) ==
    /\ pc[g] = "unlock"
    /\ Release
    /\ pc' = [pc EXCEPT ![g] = AfterStep.unlock]
    /\ op' = [op EXCEPT ![g] = "job"]
    /\ life' = [j \in Jobs |->
                  CASE j = g /\ life[j] = "starting"  -> "running"
                    [] j = g /\ life[j] = "finishing" -> "ended"
                    [] OTHER -> life[j]]
    /\ UNCHANGED <<left, made, asks, seen, known, mem, persistCh, task, fileVars, drain>>

-----------------------------------------------------------------------------
(* GetJob, in the handlers.                                                *)

\* Mutant of WhenLocked: a reader that would have to wait reads the volume.
WhenLockedRead == "disk"

\* RLock waits for the writer.
WhenLocked == "wait"

Ask(r, j) ==
    /\ rpc[r] = "idle"
    /\ asks' = [asks EXCEPT ![r] = j]
    /\ rpc' = [rpc EXCEPT ![r] = IF owner = Nobody THEN "read" ELSE WhenLocked]
    /\ UNCHANGED <<life, left, pc, op, made, owner, seen, known, mem, persistCh, task,
                   fileVars, drain>>

\* The job is in m.jobs: the answer is a clone of it.
ReadMemory(r) ==
    /\ rpc[r] = "read" /\ asks[r] \in known
    /\ seen' = [seen EXCEPT ![r][asks[r]] = mem[asks[r]].ver]
    /\ rpc' = [rpc EXCEPT ![r] = "idle"]
    /\ UNCHANGED <<life, left, pc, op, made, owner, asks, known, mem, persistCh, task,
                   fileVars, drain>>

\* It is not: m.mu is released and the volume will be read.
Miss(r) ==
    /\ rpc[r] = "read" /\ asks[r] \notin known
    /\ rpc' = [rpc EXCEPT ![r] = "disk"]
    /\ UNCHANGED <<life, left, pc, op, made, owner, asks, seen, known, mem, persistCh, task,
                   fileVars, drain>>

ReadDisk(r) ==
    /\ rpc[r] = "disk"
    /\ seen' = [seen EXCEPT ![r][asks[r]] = file[asks[r]].ver]
    /\ rpc' = [rpc EXCEPT ![r] = "idle"]
    /\ UNCHANGED <<life, left, pc, op, made, owner, asks, known, mem, persistCh, task,
                   fileVars, drain>>

\* readFullJob returns nil, and the handler answers that there is no such job.
ReadDiskFails(r) ==
    /\ rpc[r] = "disk" /\ Fault
    /\ rpc' = [rpc EXCEPT ![r] = "idle"]
    /\ UNCHANGED <<life, left, pc, op, made, owner, asks, seen, known, mem, persistCh, task,
                   file, logFile, torn, dropped, drain>>

-----------------------------------------------------------------------------
(* persistWorker, and WaitIdle with drainPersist.                          *)

\* Mutant of WorkerMayRun: the tasks look at the job under m.mu.
WorkerNeedsLock == owner = Nobody

\* The tasks touch nothing that m.mu protects.
WorkerMayRun == TRUE

\* Mutant of Due: the writes of job.json first, they are what the UI waits for.
DueJobFirst ==
    IF \E i \in DOMAIN persistCh : persistCh[i].kind = "job"
    THEN CHOOSE i \in DOMAIN persistCh : persistCh[i].kind = "job"
    ELSE 1

Due == 1

Take ==
    /\ task = NoTask /\ persistCh # <<>>
    /\ task' = persistCh[Due]
    /\ persistCh' = SubSeq(persistCh, 1, Due - 1) \o SubSeq(persistCh, Due + 1, Len(persistCh))
    /\ UNCHANGED <<life, left, pc, op, made, owner, readVars, known, mem, fileVars, drain>>

\* The closure that persistWorker runs returns.
TaskDone ==
    /\ task' = NoTask
    /\ UNCHANGED <<life, left, pc, op, made, owner, readVars, known, mem, persistCh, drain>>

\* writeJobJSONFile renames a complete file over job.json.
WriteJob ==
    /\ task.kind = "job" /\ WorkerMayRun
    /\ file' = [file EXCEPT ![task.job] = [ver |-> task.n, lines |-> task.lines]]
    /\ TaskDone
    /\ UNCHANGED <<logFile, torn, faults, dropped>>

\* The write of the temporary file or its rename fails, which is only logged.
WriteJobFails ==
    /\ task.kind = "job" /\ WorkerMayRun /\ Fault
    /\ dropped' = dropped \union {task}
    /\ TaskDone
    /\ UNCHANGED <<file, logFile, torn>>

WriteLine ==
    /\ task.kind = "log" /\ WorkerMayRun
    /\ task.job \notin torn
    /\ logFile' = [logFile EXCEPT ![task.job] = Append(@, task.n)]
    /\ TaskDone
    /\ UNCHANGED <<file, torn, faults, dropped>>

\* The line is written behind a part of another one: readFullJob skips the two.
WriteLineUnread ==
    /\ task.kind = "log" /\ WorkerMayRun
    /\ task.job \in torn
    /\ torn' = torn \ {task.job}
    /\ dropped' = dropped \union {task}
    /\ TaskDone
    /\ UNCHANGED <<file, logFile, faults>>

\* The open fails, or the write does after none or a part of the line: no error is
\* looked at.  (A line that only lacks its end of line counts as cut off: it is
\* read until the next one follows it.)
WriteLineFails ==
    /\ task.kind = "log" /\ WorkerMayRun /\ Fault
    /\ torn' \in {torn, torn \union {task.job}}
    /\ dropped' = dropped \union {task}
    /\ TaskDone
    /\ UNCHANGED <<file, logFile>>

\* The sentinel closes drained, and WaitIdle returns.
Drained ==
    /\ task = Sentinel
    /\ drain' = "done"
    /\ task' = NoTask
    /\ UNCHANGED <<life, left, pc, op, made, owner, readVars, known, mem, persistCh, fileVars>>

\* Shutdown: WaitIdle asks for drainMu's write lock ...
WaitIdle ==
    /\ drain = "off"
    /\ drain' = "locking"
    /\ UNCHANGED <<life, left, pc, op, made, owner, readVars, known, mem, persistCh, task,
                   fileVars>>

\* ... gets it when no scan runs ...
DrainLocked ==
    /\ drain = "locking"
    /\ \A j \in Jobs : life[j] \in {"waiting", "ended", "skipped"}
    /\ drain' = "sentinel"
    /\ UNCHANGED <<life, left, pc, op, made, owner, readVars, known, mem, persistCh, task,
                   fileVars>>

\* Mutant of SentinelPlace: the sentinel is not queued behind the writes.
SentinelFirst == <<Sentinel>> \o persistCh

SentinelPlace == Append(persistCh, Sentinel)

\* ... and enqueues the sentinel.
SendSentinel ==
    /\ drain = "sentinel" /\ HasRoom
    /\ persistCh' = SentinelPlace
    /\ drain' = "waiting"
    /\ UNCHANGED <<life, left, pc, op, made, owner, readVars, known, mem, task, fileVars>>

-----------------------------------------------------------------------------
CallStep(g) ==
    Announce(g) \/ ChangeKnown(g) \/ TurnToDisk(g) \/ Send(g) \/ Unlock(g)

ExecuteStep(j) == ExecuteBegins(j) \/ ExecuteEnds(j) \/ Adopt(j) \/ AdoptFails(j)

ToolStep(t) == Return(t) \/ \E kind \in Kinds : Update(t, kind)

ReadStep(r) == ReadMemory(r) \/ Miss(r) \/ ReadDisk(r) \/ ReadDiskFails(r)

WriteStep == WriteJob \/ WriteJobFails \/ WriteLine \/ WriteLineUnread \/ WriteLineFails

WorkerStep == Take \/ WriteStep \/ Drained

DrainStep == DrainLocked \/ SendSentinel

Next ==
    \/ \E g \in Goroutines : CallStep(g)
    \/ \E j \in Jobs : ExecuteStep(j)
    \/ \E t \in Tools : ToolStep(t)
    \/ \E r \in Readers : ReadStep(r) \/ \E j \in Jobs : Ask(r, j)
    \/ WorkerStep \/ DrainStep \/ WaitIdle

Spec == Init /\ [][Next]_vars

\* The Go scheduler runs every goroutine, and the volume answers, be it with an
\* error.  A scan makes finitely many calls, so nothing is assumed of the order in
\* which m.mu serves its writers.  No handler has to ask, and no pod has to shut
\* down.
Fairness ==
    /\ \A g \in Goroutines : WF_vars(CallStep(g))
    /\ \A j \in Jobs : WF_vars(ExecuteStep(j))
    /\ \A t \in Tools : WF_vars(ToolStep(t))
    /\ \A r \in Readers : WF_vars(ReadStep(r))
    /\ WF_vars(WorkerStep) /\ WF_vars(DrainStep)

FairSpec == Spec /\ Fairness

-----------------------------------------------------------------------------
(* Safety.  What the volume lacks is named: it is what a write that failed  *)
(* has dropped.                                                            *)

Dropped(kind, j, n) == \E e \in dropped : e.kind = kind /\ e.job = j /\ e.n = n

Logged(j, n) == \E i \in DOMAIN logFile[j] : logFile[j][i] = n

\* Lines up to n that are in combined.log, but for those a failed write dropped.
LinesUpTo(j, n) == \A k \in 1..n : Logged(j, k) \/ Dropped("log", j, k)

\* All that the job's memory says has been written, but for what a failed write
\* dropped.
OnVolume(j) ==
    /\ file[j].ver = mem[j].ver \/ Dropped("job", j, mem[j].ver)
    /\ LinesUpTo(j, mem[j].lines)

\* job.json never tells more than memory; combined.log has only lines AppendLog was
\* given, in that order and none twice; and a failed write costs two lines at most,
\* its own and the one that follows it.
VolumeFollowsMemory ==
    /\ \A j \in known :
         /\ file[j].ver <= mem[j].ver
         /\ \A i \in DOMAIN logFile[j] :
               /\ logFile[j][i] <= mem[j].lines
               /\ \A k \in 1..(i - 1) : logFile[j][k] < logFile[j][i]
    /\ Cardinality(dropped) + Cardinality(torn) <= 2 * faults

\* A version of job.json is never replaced by an older one.
VersionsOnlyAdvance == [][\A j \in Jobs : file'[j].ver >= file[j].ver]_vars

\* Whoever reads a version of job.json finds in combined.log every line the job
\* had when that version was made, unless the line's write failed: a "completed"
\* never precedes last lines that are still to come.
LinesBeforeStatus == \A j \in Jobs : LinesUpTo(j, file[j].lines)

\* When WaitIdle returns, everything the pod's ended scans said has been written:
\* what is missing is what failed writes dropped, and nothing is on its way.
DrainIsComplete ==
    [][drain' = "done" /\ drain # "done" =>
         \A j \in known : life[j] = "ended" /\ OnVolume(j)]_vars

\* A client that asks one pod again and again never sees a job go back, across
\* the job's adoption from the volume too.  (An answer that there is no such job,
\* when the volume cannot be read, tells no version.)
ReadsNeverGoBack ==
    [][\A r \in Readers, j \in Jobs : seen'[r][j] >= seen[r][j]]_vars

\* Said by README.md:273-274: readers take a lock that is never held across a
\* syscall.  Refuted: executeJob adopts a job from the volume under it.
NoReaderWaitsForDisk ==
    ~ /\ owner # Nobody /\ pc[owner] = "adopt"
      /\ \E r \in Readers : rpc[r] = "wait"

-----------------------------------------------------------------------------
(* Liveness.                                                               *)

\* Every scan that starts ends, or is skipped because the volume did not give its
\* job.json; and then all it said is written, however often persistCh was full, but
\* for what failed writes dropped.
ScansReachVolume ==
    \A j \in Jobs :
        life[j] = "starting" ~> \/ life[j] = "skipped"
                                \/ life[j] = "ended" /\ OnVolume(j)

\* A reader that waits for m.mu gets its answer: the lock's holder may wait for
\* room in persistCh, but persistWorker never waits for the lock.
ReadersAreServed == \A r \in Readers : rpc[r] = "wait" ~> rpc[r] = "idle"
=============================================================================
