# Hullcheck in TLA+

Specifications of Hullcheck, the container-image scanning service of this
repository: TLA+ modules translated from its Go source, TLC configurations that
check them on small instances, and proofs that TLAPS checks for every instance.
Paths such as `jobs.go:365` are relative to the repository, with
`jobs.go` = `pkg/jobs/jobs.go`, `server.go` = `pkg/server/server.go`, `scanner.go`
and `vex.go` in `pkg/scanner`, `harbor.go` = `pkg/harbor/harbor.go`,
`config.go` = `pkg/config/config.go`.
`PROJECT.json` holds, in machine-readable form, the source lines of every
definition, the runs, one mutant for each checked property, and the hazards.

## 1. The system

Hullcheck is one Go binary. A deployment runs several replicas ("pods") that
share nothing but a volume (`DATA_DIR`). Each pod serves a web UI, a JSON API and
Harbor's scanner-adapter API, and runs scans with syft and grype as libraries.

### Inventory

| Part | State | Operations | Talks to |
|---|---|---|---|
| dispatch, `pkg/jobs` | `queue/` and `queue/claimed/` on the volume; per pod `localQueue` (500), `wake` (one token per worker), `m.jobs`, `drainMu` | `CreateJob`, `enqueueShared`, the loop of `workerPool`, `claimNext`, `runQueued`, `executeJob(Safely)`, `WaitIdle` | handlers call it; other pods through renames on the volume; calls the runner |
| persistence, `pkg/jobs` | `m.mu`, `m.jobs`, `persistCh` (1024); `scans/<id>/job.json`, `combined.log` | `SetToolStatus`, `SetSummary`, `SetError`, `AppendLog`, `persistJob`, `persistWorker`, `drainPersist`, `GetJob`, `readFullJob`, `ListJobs` | called by the runner's goroutines and by handlers; read by every pod |
| subscriptions, `pkg/jobs` | `m.subscribers`, one channel (100) per stream | `Subscribe`, `Broadcast` | the SSE handler of the same pod |
| HTTP server, `pkg/server` | `draining`, `drainCh` | `handleCreateScan`, `handleStreamScan`, `tailFromDisk`, `Drain`, reads | `jobs.Manager`, `config.Manager` |
| process, `main.go` | none of its own | start, sweep of stale temp directories, SIGTERM sequence | all of the above |
| scan pipeline, `pkg/scanner` | `dbReady`, `dbErr`; per scan `vexCh`, a wait group, two temporary directories, five artifacts; a process-wide syft logger | `loadVulnerabilityDB`, `RunScan` with `runSyft`, then `runGrype` and `runLicenseSummary` side by side, `runVEXLookup`, summaries, `precomputeHarborVulnReport` | setters of `jobs.Manager`, registry, database server |
| Harbor adapter, `pkg/harbor` | none | `AcceptScan`, `GetReport`, report building | `CreateJob`, `GetJob`, artifacts |
| configuration, `pkg/config` | `config` under a RWMutex, `config.json`, mounted secret, process environment | `Save`, `GetPublic`, `BuildRegistryOptions`, `applyProxyEnv` | server, scanner |
| validation, `pkg/validate` | none | `IsValidImageRef` | server, harbor |
| web UI, `public` | the browser's `EventSource` | subscribe, render | JSON API |
| Helm chart, `deploy/k8s` | replicas, grace period, volume | scaling, rolling updates | the pods |

### What is hard about it

- **Dispatch.** Workers of all pods race for files by `rename`; a pod may die
  between any two system calls; requests that carry credentials must stay on their
  pod; a wake-up is a non-blocking send next to a poll; a shutdown has to wait for
  scans and for their last writes while workers go on claiming. It is correct when
  no scan runs twice, a failure costs no more than what the failed process held,
  every other accepted scan ends, and `job.json` tells only what the scan reported.
- **Persistence.** Every change is made under `m.mu`, snapshotted, and written by
  another goroutine through a bounded channel, while that channel's blocking send
  happens with the lock held. A write that fails is dropped: nobody tries again. It is
  correct when the volume follows the memory in order and lacks nothing but what
  failed writes dropped, log lines precede the status that sums them up, the drain
  leaves nothing on its way, readers never see a job go back, and nobody waits for
  ever.
- **Streams.** A client can be on any pod. The handler takes a snapshot, then asks
  whether the job is local, then subscribes or polls; the scan moves on between
  any two of these, and on another pod every answer takes two reads of a volume that
  lags behind. It is correct when a stream ends after everything the scan had to say
  that was not lost, when slow clients harm nobody, and when a drain ends all streams.
- **Pipeline.** A scan is up to four goroutines that hand over through a channel, a
  wait group, files and the job; each has early returns on which somebody else must
  still be served and something cleaned up. It is correct when every scan ends
  whatever fails, its status says what its tools achieved, its directories live as
  long as they are needed, and findings are suppressed only by what is about this
  image.
- **Adapter.** Answers are derived from files that may be missing, cut off or
  unreadable at the moment, by a pod that ran the scan or by one that has only a
  `job.json` that lags behind. It is correct when no answer tells an outcome before
  there is one, when pods that tell it never contradict each other or themselves, and
  when it is the one the UI shows.
- **Configuration.** A client edits what it has been shown, masked; a Save replaces
  memory, then file, then environment, each in a step of its own; other pods share
  the file and not the memory. It is correct when a mask changes nothing where it can
  tell what it stands for, when file and environment follow the memory, and when each
  scan has its own credentials.
- **Temp directories**: a sweep at start that judges by age (section 9).

## 2. The modules

| Module | What it is |
|---|---|
| `AtMostOnceQueue` | abstract: a scan waits, runs at most once, ends with its outcome or is lost; a ledger that only advances |
| `Dispatch` | dispatch of jobs over pods, with crashes, restarts, shutdowns, failing disk operations; implements `AtMostOnceQueue` |
| `DispatchProofs` | TLAPS proofs about `Dispatch`: types, one owner, at most one start |
| `DispatchLedgerProofs` | more of them: pinned jobs, `job.json`, the drain |
| `DispatchQueueProofs` | the refinement of `AtMostOnceQueue`, and what failures cost |
| `Persist` | one pod's `m.mu`, `persistCh`, `persistWorker`, readers, and the drain |
| `PersistProofs` | the TLAPS proofs about `Persist` |
| `LiveStream` | clients that watch a scan, on the pod that runs it or on others |
| `LiveStreamProofs` | the TLAPS proofs about `LiveStream` |
| `ScanContract` | abstract: what the modules above take a scan to be |
| `ScanPipeline` | `RunScan` and the load of the database, several scans in a process; implements `ScanContract` |
| `ScanPipelineProofs` | the TLAPS proofs about `ScanPipeline` |
| `Reports` | pure operators: severities of reports and summaries, license names |
| `HarborReport` | `GetReport` on two kinds of pods and the summaries, on top of `ScanPipeline` and `Reports` |
| `HarborReportProofs` | the TLAPS proofs about both |
| `ConfigStore` | the configuration of several pods with one file, and the credentials scans get |
| `ConfigStoreProofs` | the TLAPS proofs about `ConfigStore` |
| `MCDispatch`, `MCPersist`, `MCLiveStream`, `MCPipeline`, `MCConfig` | small sets of pods, jobs, scans, clients for TLC |

`Dispatch`, `Persist` and `LiveStream` look at one system with different grains: `Dispatch`
takes a critical section of `m.mu` as one step and a scan as one start and one
end; `Persist` opens the critical sections and shows that the steps `Dispatch` and
`LiveStream` take for granted (a change and the order of its write) are justified;
`LiveStream` builds on the order of writes that `Persist` establishes
(`VolumeFollowsMemory`, `LinesBeforeStatus`) and looks at the readers on other
pods. `Dispatch` is composed with its abstraction by `INSTANCE ... WITH`.

All three take the scan itself for granted: it starts, its tools report, it ends.
`ScanContract` says so, and `ScanPipeline`, which opens the scan and takes a status
change as one step, implements it. `HarborReport` extends `ScanPipeline` by the
readers of its files and by a `job.json` that follows the status as `Persist` allows. `ConfigStore` is separate: it meets the others only in the
credentials, which `RunScan` fetches in one call.

Definitions named "Mutant of X" are not part of a specification. Each is what X
would be under a plausible bug, kept next to X, and documents which property
would notice: put in place of X it makes that property fail.

### Dispatch

One atomic step is one system call, one channel operation or one critical section.

- `phase[p]` is where `main`'s shutdown is: `up`; `draining` (SIGTERM seen,
  requests still served); `closed` (listener shut, `WaitIdle` wants `drainMu`);
  `flushing` (holds it, waits for `persistCh`); `released` (unlocked, `WaitIdle`
  not yet back); `down`.
- `stage[j]` is the progress of `CreateJob` in its handler: `PersistJobSync`,
  then either `RegisterPinned` and `SendLocal` (credentials) or `PublishShared`
  and `Nudge`. Writes that fail are logged and the call goes on, as in the code.
- A worker's `pc` follows `workerPool`: `idle` (first select, `claimNext`'s
  `ReadDir`), `scan` (renaming the listed names, oldest first), `claimed` (file
  renamed, to be read and removed), `gate` (`drainMu.RLock`), `run`, `select`
  (the blocking select). A worker that finds the gate shut waits there.
- `queueDir` and `claimedDir` are sets of jobs; a file name is its order `NameOf`.
  `jobs[p]` is `m.jobs` reduced to statuses, `persistCh[p]` the writes waiting.
- `Crash` ends a pod anywhere, `Exit` after `WaitIdle`; both lose all memory.
  `Boot` starts a process on the same volume. `started` and `result` are history.
- The two ways `executeJobSafely` ends a scan (the runner returns, or panics and is
  recovered) write the same statuses and are one action.
- `Skip` is `readFullJob`'s nil: a `job.json` that is not there, or, as a fault, one
  that cannot be read or parsed.

### Persist

A job is a version number and a number of log lines. Each call of a tool goes
through Go's RWMutex: `lock`, `announced` (it keeps new readers out and waits for
those inside), the change, the blocking send on `persistCh`, the unlock that admits
waiting readers. `executeJob`'s two critical sections are calls of the job's own
goroutine; on the first it may adopt the job from the volume with the lock held.
A reader is `GetJob`: under `RLock` if memory has the job, else from the volume
after releasing it. `persistWorker` takes a task and applies it in two steps.

Reads and writes of the volume may fail (`Fault`): `AdoptFails` (`readFullJob` gives
nothing under `m.mu`, the job is skipped), `ReadDiskFails`, `WriteJobFails`,
`WriteLineFails`. The code drops a write that fails; `dropped` is the history of these
tasks, and the properties name it wherever something may be missing. A write that is
cut off leaves a part of a line (`torn`), and the line that is appended behind it
cannot be parsed either (`WriteLineUnread`).

### LiveStream

A log line is its number. `toSay` is what a goroutine has changed but not yet
broadcast (broadcasts follow the unlock). A connection goes through `get` and
`getlog` (the two files of `readFullJob`), `check` (`IsLocal`), then `subscribe`
and `live`, or `tail`. `Window` is the log as a `Job` holds it, cut to
`maxLogLines`. `StrayLine` is a line of another scan on the same pod, which syft's
process-wide logger writes into this one (`scanner.go:307`). A connection that
breaks or is drained may come back on any pod, as `EventSource` does.

`ExecutePanics` is the recovered panic of the runner: `executeJobSafely` says "done"
while the goroutines in `Outliving` (the VEX lookup, for which nobody waits any more)
may still report. `Persist` drops writes as in the module of that name, and `dropped`
is their history; `ReadJobFails` and `ReadLogFails` are the two errors of
`readFullJob`, `ExecuteSkips` is the one in `executeJob`. Once a line was dropped,
memory and volume number the later lines differently. That matters to a connection
whose read of the volume began before its pod adopted the job and ended after it
(`straddled`): its index then counts lines of the one in the other.

### ScanPipeline

A step is a call of a library, a file, a channel operation or a report to
`jobs.Manager`. `main`, `vex`, `grype` and `grant` are where the goroutines of a scan
are; `off` is before its `go` statement. `main` goes through `runSyft` (`syft`,
`source`, `catalog`, `sbom`, `spdx`, and `close` for the deferred `src.Close`), to
`failed` on every `return fail(...)`, which after `GetSource` passes through `close`,
and through `unwinding` where syft panics; then `summary`, `join` (`wg.Wait`), and
`returned`, from which the second half of `executeJob` ends the job.

- `vexCh` is the channel of capacity one. Where the lookup is disabled the channel
  is filled at once, as in the code.
- `artifacts` are the five files, each `absent`, `cut` (an `os.WriteFile` that failed
  after it had truncated) or `whole`; `srcDir` and `vexDir` are the scans that have a
  temporary directory, with `Cleanup` the closure `fetchVEXDocuments` returns, which
  is a no-op where it returns no documents. `unremoved` is history.
- `db` is shared by the scans: `LoadDB` makes it `ready` or `failed`, once, at any
  time or never; `NoMatches` is `waitForDB`'s error and every error of the matching,
  the timeout included.
- What grype would find (`MatchesOf`) and what is attached to the image (`LayersOf`)
  are constants of a scan; `found` is what it reports after the VEX documents. Layers
  that cannot be fetched are a choice; a VEX processor that cannot be made is a fault.
- A panic of syft is recovered by `executeJobSafely` (`Recover`). A panic of the other
  goroutines ends the process. That is the end of a behaviour, here, and `Crash` of
  `Dispatch`.

### HarborReport and Reports

`GetReport` changes nothing, so it is an operator of the state, of the pod that is
asked (`owner` has the status in memory, `other` has `onDisk`, the one in `job.json`),
and of the set of files whose read fails at that moment (`unread`): the properties
quantify over all pods and all such sets. Its answer has an HTTP code, a body that is
whole or cut off, and a severity. `Publish` is the only step that `HarborReport` adds to
`ScanPipeline`: `job.json` gets a later status, at any time or never, and it may be
missing from the beginning. `capitalize`,
`sevOrder` and the loop over the matches are `HighestSeverity`; `BySeverity` is
`summarizeGrype`; `extractLicenseNames` is a fold over the names that a package's
licenses give, as `add` is called in the code.

### ConfigStore

`config[p]` is a pod's memory, `env[p]` its proxy variables, `file` is `config.json`
(`absent`, `empty` between truncation and write, `damaged`, or `whole`). A client's
request is `Get` (what it is shown is `GetPublic` of `base`), then `Save` with the
change it has decided on, at whichever pod. The PUT takes any list; a client makes one
change of any kind (`Edited`): of the proxy, of the password or authority of one entry
whatever other entries its authority has, one entry more or less, or none at all. `Save` holds the lock over `open` and
`write`; `snapshot`, `http`, `https` are `applyProxyEnv` after the unlock, which the
code runs whether or not the write succeeded. Two pods have two locks, and so their
writes of the one file interleave (`Written`). `Die` is a kill at any step, `Start` is
`NewManager`. `RunScan` stands for the call of `BuildRegistryOptions` in a scan whose
request came from the UI or from Harbor (`Accepted`, `parseRegistryAuth`).
`lastSaver`, `torn` and `overlapped` are history.

## 3. The runs

| Run | Instance | Shows |
|---|---|---|
| `Dispatch_race` | 2 pods of 1 worker, 2 shared jobs, 1 kill, 1 failed disk operation | `TypeOK`, `AtMostOnce`, `LossBound`, `LedgerOnlyAdvances`, and the refinement `ImplementsQueue` |
| `Dispatch_mixed` | 2 pods, a shared and a pinned job, 1 kill, 1 shutdown | `OneOwner`, `PinnedStaysHome`, `HonestLedger`, `DrainKeepsResults` |
| `Dispatch_live` | 2 pods, a shared and a pinned job, 1 kill, pods may stay down | `EveryScanEnds`, `EntriesAreClaimed` |
| `Dispatch_orphan` | 2 pods, 1 shutdown, no failure | refutes `OnlyPinnedOrphaned` |
| `Persist` | 1 job, 2 tools of 2 calls, `persistCh` of 2, 1 reader, shutdown, 1 failing read or write | `TypeOK`, `VolumeFollowsMemory`, `LinesBeforeStatus`, `VersionsOnlyAdvance`, `ReadsNeverGoBack`, `DrainIsComplete`, `ScansReachVolume`, `ReadersAreServed` |
| `Persist_adopt` | as above with 1 call per tool, `persistCh` of 1, no failure | refutes `NoReaderWaitsForDisk` |
| `LiveStream_poll` | 2 pods, 2 tools of 1 call, one of them outliving a panic, 1 stray line, window of 2, channel of 2, 1 failing read or write | `TypeOK`, `PollInOrder`, `DoneComesLast`, `DoneAfterLines` |
| `LiveStream_live` | 2 pods, 1 drain, 1 tool of 1 call that may outlive a panic, 2 connections, channel of 1, 1 failing read or write | `WatcherToldEnd`, `DrainFreesStreams`, `ScanNotHeldUp` |
| `LiveStream_stranded` | 1 subscriber | refutes `NoSubscriberStranded` |
| `LiveStream_window` | window of 2, 3 calls | refutes `PollSendsNewest` |
| `Pipeline` | 1 scan of an image with three findings and four attestations, and four packages; 2 failing file operations, 1 panic of syft; the database may load, fail, or neither; `job.json` may be missing, late, or never come; every set of unreadable files | `TypeOK`, `ReportTypeOK`, `DirsLiveWithScan`, `SuppressedByOwnVex`, `AnswersTellOutcome`, `AnswersStay`, `SummariesAgree`, the refinement `ImplementsContract`, `GoroutinesEnd` |
| `Config` | 2 pods, 2 clients of one change each, 2 registries, one of them mounted; 3 scans (from the UI, from Harbor, from Harbor with a header that does not decode); 1 failing write, 1 kill | `TypeOK`, `RestartFindsLastSave`, `EnvFollowsConfig`, `OwnCredentials`, `MasksAreTransparent` |

### Why the bounds are enough

The code's capacities (500, 1024, 100, 4000, two workers) matter only through
"there is room" and "there is none", so a capacity of one or two reaches both
with few messages. A race for an entry needs two claimants and two entries (one to
lose, one to go on with); which pods they are on does not matter to `rename`, so two
pods with a worker each cover it; two workers of one pod differ only in that they
share `wake` and `localQueue`, whose every operation is one step. One kill shows every single
point of failure; a job that one failure cannot duplicate has lost its queue entry
already, so that a second adds losses (that these invariants hold for any
number of failures is proved, section 6). Names of the bounds: `MaxDrains`, `MaxKills`,
`MaxFaults` (`Dispatch`), `MaxUpdates`, `MaxFaults` (`Persist`), `MaxReports`,
`MaxStrays`, `MaxConnects`, `MaxDrains`, `MaxFaults` (`LiveStream`), `MaxFaults`,
`MaxPanics` (`ScanPipeline`), `MaxFaults`, `MaxCrashes`, and the set `Edits`
(`ConfigStore`).

One failing write shows what is missing when one is dropped, and with two lines to come
after it a torn line and its victim. `Pipeline` has two faults, so that the precomputed
report and the SPDX file can both be missing or cut off, and any number of failing
reads, which are part of the question and not of the state. Library failures (image,
SBOM, lookup, database, matching) are not bounded at all.

Scans share nothing but the database, whose load may end at any step of a scan whether
other scans wait for it or not: `Pipeline` has one scan and all the interleavings of its
goroutines. That the safety properties hold of any number of scans in a process is
proved. Its image
has one of every kind that the code tells apart: attestations for it, one for another
image, one that is no OpenVEX document; a finding without a severity; findings that
may be suppressed each by itself; a package that names a license in several forms, one
with none and one with a hash only.

In `Config` clients start from two entries for one authority, which a client may store,
and change the first one's password, rename or remove the second, add an entry, change
the proxy, or put back what they read. For two Saves to meet, two clients are needed; for
a stale memory, two pods; for a file with two writers, both. What the bounds cannot show,
that the safety properties hold beyond them, is proved: of the properties of passing
runs only the liveness ones rest on the bounds. `Dispatch_live` has one pinned job, so
that no `CreateJob` waits for room in `localQueue` there (jobs.go:609): liveness with
three jobs on two pods is out of the model checker's reach.

Deadlock is checked in every `Dispatch` run. `Persist` and `LiveStream` follow one
scan each and really stop: the scan has ended, the pod is drained or the
connections are used up, and nobody asks any more. `Pipeline` stops when
its scan has ended, `Config` when its clients have saved and its scans have their
credentials. That nobody waits for ever is what the liveness properties are for.
Symmetry is used only for pods and clients, and only in runs without liveness.

## 4. Fairness

- `Dispatch`, `Scheduling`: weak fairness of each `CreateJob`, each worker, each
  `persistWorker`, each shutdown. The Go scheduler runs every runnable goroutine.
  A scan is assumed to return: every tool call has `TOOL_TIMEOUT_MS`, apart from
  syft's remote license fetch, which `scanner.go` itself documents as unbounded.
  `Polling`, that the ticker fires again and again, is a hypothesis of
  `EntriesAreClaimed` alone: `EveryScanEnds` holds by the nudge without it (and has
  the hypothesis that nothing fails). No fairness of `Boot`: `EntriesAreClaimed`
  holds when a killed pod stays down, thanks to the other pod (with one kill one of
  two pods is always up). A select takes any ready case; a worker that returns to
  the first select prefers a pinned job, so no strong fairness is needed.
- `Persist`: weak fairness of each goroutine; a read or a write of the volume returns,
  with or without an error. Not assumed: any order among writers waiting for `m.mu`,
  that anybody asks, that the pod shuts down.
- `LiveStream`: `ScanFairness` (the scan's goroutines and `persistWorker`) and
  `HandlerFairness` (handlers, ticker, and clients that read while connected) are
  hypotheses of the liveness properties, each of what it needs, so that
  `ScanNotHeldUp` needs no client to read and `DrainFreesStreams` no scan to end. The
  exit on `drainCh` gets strong fairness: a polling handler comes back to its select,
  and Go chooses among ready cases at random. That a volume does not fail for ever is
  no hypothesis but the bound `MaxFaults`; what a failed write takes from a client that
  polls is said in the property (`EndDropped`).
- `ScanPipeline`, `Fairness`: weak fairness of each goroutine of each scan. A library
  call returns at the latest when the tool's timeout cancels it (`runSyft`,
  `runGrype`; the lookup has one of its own), apart from the license fetch mentioned
  above, which `http.DefaultClient.Timeout` bounds for each module. No fairness of
  `LoadDB`: `GoroutinesEnd` does not need the database. None of `RunScan`: the property
  is about scans that have begun. None of `Publish`: `job.json` need never follow.
- `ConfigStore` has safety properties only, and no fairness.

## 5. What the checks found

Four statements of the repository's docs and comments do not hold of the code.

1. `Dispatch_orphan`. README.md:234-238 and 257-262 say a queued job is not lost when
   a pod is replaced, unless it is pinned. `drainMu` gates `runQueued` but not
   `claimNext`: a draining pod's worker can claim and remove a shared entry, wait at
   the gate, and disappear with the process. `LossBound` is what does hold: one job
   per worker and ended process, plus one per failed disk operation.
2. `Persist_adopt`. README.md:273-274 says no system call happens under the lock of
   `GetJob`. The adoption of a claimed job reads two files under it (jobs.go:504).
   `ReadersAreServed` is what holds.
3. `LiveStream_stranded`. A stream that subscribes just after the scan has ended
   (the snapshot, taken before, says "running") waits until it is drained or given up.
4. `LiveStream_window`. Once a log has more than `maxLogLines` lines, a polling stream
   sends no further line, because its index counts entries of a sliding window. The
   end of the scan is still told (`WatcherToldEnd`).

Two more comments are looser than the code, by reading and by the models: `WaitIdle`
unlocks `drainMu` before it returns (jobs.go:440), so a worker that waits there may
still start a scan that the exit then ends (the phase `released` of `Dispatch`);
and a full `persistCh` slows down every reader and not only the goroutine that fills
it (jobs.go:236-239), because that goroutine holds `m.mu` (`Send` of `Persist`).

Modelling the pipeline, the adapter and the configuration showed where their
guarantees end. The properties are stated with these limits in them:

- scanner.go:473-474 says that a failure of the precomputation only makes `GetReport`
  build the report itself. A write that is cut off leaves a file, and `GetReport`
  sends it as it is, with a 200 (`AnswersTellOutcome` allows it only after a failed
  write; the SBOM path, which decodes its file, answers 500).
- A write of `job.json` or of a log line that fails is dropped (jobs.go:794-799,
  852-858). Other pods then have an older status, for good if it was the last one: a
  stream that polls there never ends by itself, and Harbor is put off for ever. The
  properties of `Persist` and `LiveStream` say what is missing then, and that nothing
  else is; `Persist`'s `DrainIsComplete` is about writes that were attempted.
- A line that was dropped leaves memory and volume with different numbers for the lines
  after it. A connection that read some lines from the volume, while its pod adopted the
  job, may skip or repeat lines when it goes on in memory: `PollInOrder` excepts it
  (`OneNumbering`).
- An unreadable `job.json` makes `GetReport` answer 404, although server.go:375-377 calls
  this a transient. And the pod that ran a scan tells the outcome before the others can:
  a client may be put off after it has been sent a report. `AnswersStay` is about the
  answers that tell an outcome, with reads that succeed.
- A mask is replaced by what the pod that saves has in memory: `MasksAreTransparent` has
  the hypothesis that this is the configuration the client has read, and a mask that
  reaches a pod with an older memory (README.md:288-293 describes the per-pod memory)
  may store an older password, or none. An entry that is renamed gets the password
  that is stored for its new authority, or none, and loses its own. Of several entries
  for one authority, which the API accepts, all that come back masked get the last
  one's password (config.go:162-174), although config.go:15-17 says that a mask means
  "unchanged, keep existing": who puts back what it has read may change the others.
- Two Saves on one pod whose exports overlap can leave the environment at the older
  setting, for good: `EnvFollowsConfig` excepts the pods in `overlapped`.
- A pod killed in the middle of a Save leaves a `config.json` that does not parse, and
  the next start silently has the seeded values. A Save whose write fails answers 500
  and has changed the memory all the same. `RestartFindsLastSave` excepts `torn` files.
- A panic of syft is recovered (jobs.go:466-468); one of the other goroutines is not,
  and ends the process. The recovered one leaves the lookup's directory to a later
  sweep, and the lookup may still log when the job is done: `DirsLiveWithScan` and
  `DoneComesLast` say where this exception is.
- main.go:37-40 bounds a scan by twice the tool timeout; scanner.go:343-345 says the
  license fetch is not subject to it.

## 6. What is proved

Every invariant and every action property that a passing run checks, and both
refinements, are theorems: they hold for all values of the constants that the named
`ASSUME`s allow. A proof has one step for each action of `Next` and one below it for
each conjunct that action can disturb; the temporal steps are PTL. No proof assumes
anything but these `ASSUME`s, which TLC evaluates on the instances of section 3.

### Dispatch

For any sets of pods and jobs, any number of workers, any capacity, and any number of
crashes, restarts, shutdowns and disk failures:

| Theorem | States | Module |
|---|---|---|
| `TypeCorrectness` | `[]TypeOK` | `DispatchProofs` |
| `RunsAtMostOnce` | `[]AtMostOnce` | `DispatchProofs` |
| `JobsHaveOneOwner` | `[]OneOwner` | `DispatchProofs` |
| `CredentialsStayHome` | `[]PinnedStaysHome` | `DispatchLedgerProofs` |
| `LedgerIsHonest` | `[]HonestLedger` | `DispatchLedgerProofs` |
| `LedgerNeverGoesBack` | `LedgerOnlyAdvances` | `DispatchLedgerProofs` |
| `DrainKeepsEverything` | `DrainKeepsResults`, if no disk operation fails | `DispatchLedgerProofs` |
| `DispatchIsAQueue` | the refinement `ImplementsQueue` | `DispatchQueueProofs` |
| `FailuresCostLittle` | `[]LossBound` | `DispatchQueueProofs` |

Assumptions: bounds are natural numbers (one worker and one place at least),
`NoPod` and `NoJob` are none of the pods and jobs, no two entries have one file name.
That `rename` has one winner is not assumed of the proof but built into the model's
`Claim`, which removes the entry in the step that takes it; the source relies on POSIX
and NFS for it.

`AtMostOnce` is not inductive: a state in which a second worker already holds a
started job satisfies it, and the next step does not. The invariant that is
inductive, `IInv`, adds where a job can be: `TypeInv` (`TypeOK`; what a worker
holds agrees with its `pc`; a call that has begun has a handler; workers of a pod
that is down are off) and `Ownership` (`OneOwner`: no two workers hold a job, what
is in a queue is there once, in one queue, unstarted and unheld; `NotStartedAtGate`:
a job that has not passed the gate was started by nobody; `NotHandedOver`: a job
whose `CreateJob` has not handed it over is nowhere to be taken from). The proof
follows a job's way: a hand-over into `localQueue` or `queueDir` needs
`NotHandedOver`, a take or a claim moves it from one queue to one worker, `Start` is
the one step that counts. All other steps only give jobs up or touch none, and one
lemma (`OwnershipRelease`) serves them all.

The other theorems rest on `IInv` and on an invariant each:

- `PinnedStaysHome` needs that a job with credentials is never in a listing, so that no
  claim can be of one (`NeverListed`), and that no pod's memory knows a job that
  carries none before it is started (`Pinned`).
- `HonestLedger` speaks of `job.json`, and the writes that will change it still wait in
  `persistCh`. `Ledgers` says of each that its job was started, and that its worker is
  still at it unless it has ended (`WritesTellScans`), and that the write of a start is
  ahead of the one of the end, in the same channel, with no outcome on the volume yet
  (`StartBeforeEnd`). `LedgerOnlyAdvances` follows from the same: a write that
  `persistWorker` applies ranks higher than what it replaces.
- `DrainKeepsResults` needs `Memories`: one pod knows a job, and the last write of it
  that waits there, or `job.json` if none does, is what the pod's memory says
  (`MemoryMatches`). A failed write breaks that for good, so the theorem is
  `Spec /\ [](faults = 0) => DrainKeepsResults`; the run has `MaxFaults = 0`.
- The refinement maps each action to a step of `AtMostOnceQueue` or a stutter. The cases
  of `QueueState` have to exclude each other for this (`StatesFit`), or a job would
  have two abstract states, depending on the order of a `CASE`.
- `LossBound` counts. It is not inductive in two ways, and `Counted` repairs both: a job
  whose first `job.json` could not be written is lost only when a claim finds nothing
  of it, much later than the fault that was counted (`Doomed`); and the jobs a
  shutdown costs are lost when the process exits, while it was counted when it began,
  so that each pod in a shutdown keeps `MaxConcurrency` in reserve (`Away`). A worker
  loses at most the job it holds, and one step of one worker at most one
  (`Cardinality` lemmas of FiniteSetTheorems).

### Persist

`PersistProofs`, for any scans, tools and readers, any capacity of `persistCh`, any
number of calls and of failing reads and writes:

- `PersistTypes`: `[]TypeOK`.
- `VolumeFollows`: `[]VolumeFollowsMemory`, and `LinesComeFirst`: `[]LinesBeforeStatus`.
- `VersionsAdvance`: `VersionsOnlyAdvance`, and `ReadsAdvance`: `ReadsNeverGoBack`.
- `DrainCompletes`: `DrainIsComplete`.

None of them assumes that writes succeed. Where a write may be missing the property says
so: a line or a version is on the volume, or it is one that a failed write `dropped`.
And `VolumeFollowsMemory` bounds that set by the faults: a failure costs its own task,
and the line it tore at most one more.

Assumption: `PersistAssumption` (there is a job, goroutines have different names, the
channel has a place). `LinesBeforeStatus` says nothing of the writes that are still on
their way, and these decide whether the next state satisfies it. A write passes from
the goroutine that made it (`InHand`, while it holds the lock and blocks on the send)
through `persistCh` to the task `persistWorker` has in hand, and `Pipe` puts the three
in one line. `PersistInv` = `TypeInv /\ Calls /\ Line /\ Volume /\ FaultsPay`:

- `Calls`: `m.mu` has one owner; goroutines of a scan call only while it runs; a drain
  that waits on its sentinel finds no scan under way.
- `Line`: what is in the line is newer than the volume and not newer than the memory
  (`BetweenBoth`); it arrives in the order it was made, a version behind the lines that
  were there before it (`InOrder`); whatever memory has is on the volume, or in the line, or
  dropped (`NothingMissing`); nothing follows the sentinel (`SentinelLast`).
- `Volume`: the two properties; a job that no pod has adopted has no log; and no reader
  has seen more than its next read can find (`SeenIsThere`), which is what
  `ReadsNeverGoBack` needs where a reader changes over between volume and memory.
- `FaultsPay`: the count of what was dropped, and of what is torn and will cost a line.

`VersionsOnlyAdvance` is then `BetweenBoth` at the task in hand, and `DrainIsComplete`
is `NothingMissing` at the moment when the line holds the sentinel alone.

### LiveStream

`LiveStreamProofs`, for any pods, clients and tools, any window, any capacity of a
subscription, any number of reports, stray lines, drains, reconnections and failing
reads and writes, and any tools that outlive a panic:

- `StreamTypes`: `[]TypeOK`.
- `PollsAreOrdered`: `[]PollInOrder`.
- `NothingAfterDone`: `[]DoneComesLast`.
- `EndBringsLines`: `DoneAfterLines`.

Assumption: `StreamAssumption`. `StreamInv` = `Said /\ VolumeTells /\ AllSent /\
DoneComesLast`. `Said` is about what goroutines have changed and not yet broadcast: the
end is said by `executeJob` only, once, after the tools have returned unless the runner
panicked, which is why nothing of theirs can follow it. `VolumeTells` is about the
volume and the writes on their way to it: a line is there, or on its way, or dropped
(`Accounted`); the log grows in the order of the job, and line `k` is its `k`-th as long
as none was dropped (`LogGrows`, `WritesGrow`); and who reads a status that tells the end
can find all lines there were then, or they were dropped (`EndIsTold`), since the status
is read first. `AllSent` ties a stream's index to what was sent: on a pod that reads the
volume the index counts its lines (`FollowsVolume`), on the pod that runs the scan those
of memory (`FollowsMemory`), and for a connection that has read both while a line was
dropped only that nothing is missing up to the index remains (`Covers`).

### ScanPipeline

`ScanPipelineProofs` proves, for any finite set of scans, any images and
attestations, and any number of failing file operations and panics:

- `PipelineTypes`: `Spec => []TypeOK`.
- `PipelineImplementsContract`: `Spec => ImplementsContract`, the refinement.
- `NoDirLeftBehind`: `Spec => []DirsLiveWithScan`.
- `OnlyOwnVexSuppresses`: `Spec => []SuppressedByOwnVex`.

Assumptions: `ImageAssumption` and `BoundAssumption`. The refinement rests on
`Controlled`, which says for each scan where its goroutines can be together and which
status each tool has at each place: it is needed because `Join` looks at two tool
statuses that other goroutines have set, so that the step to "completed" is a step of
the contract only if both are final by then. Steps then map to `Report`, to `Move`, to
`End`, or to a stutter. `DirsLiveWithScan` rests on `Accounted`: who owns each
directory at each moment (the lookup until it has sent, then the channel, then grype
or the failing worker), and why a lookup that is under way has its receiver still
waiting. `SuppressedByOwnVex` rests on `OwnDocs`: documents that were fetched are
`Usable` layers of that scan's image.

### HarborReport

`HarborReportProofs`, under the assumptions of `ScanPipeline` and `ReportAssumption`, for
`ReportSpec`:

- `ReportTypes`: `[]ReportTypeOK`.
- `AnswersAreTrue`: `[]AnswersTellOutcome`.
- `AnswersRemain`: `AnswersStay`.
- `SummariesTellTheSame`: `[]SummariesAgree`.

The answers look at files and statuses. `AllTold` adds to `Controlled` how they go
together: a tool that succeeded has written its file, or a write failed; a report was
precomputed only by a grype that succeeded; a scan is "completed" only when its `main`
has ended, so that nothing is written afterwards (`Settled`). `NeverAhead` adds that a
`job.json` that tells an outcome tells the scan's. An answer that tells the outcome is
then made of files that nobody will change and of one status, whichever pod gives it,
which is what `AnswersStay` says. `AnswersTellOutcome` is proved for every set of
unreadable files: only `grype.json` and the SPDX file are needed.

`SummariesAgree` is about data, for any matches and any licenses: `SeveritiesAgree` (the
chosen severity is the worst, and the summary's keys are the report's severities in
small letters, one to one) and `CountsAgree`, which follows `extractLicenseNames`
through its fold (`NamesOnce`: every name but "" once, none missing) and counts the
flattened result (`FlattenCount`: as many entries have a name as packages do).
`ReportAssumption` says that grype writes the name of a severity or none, and that
licenses come in sequences.

### ConfigStore

`ConfigStoreProofs` proves, for any pods, clients and configurations, and any number
of failing writes and crashes:

- `StoredArePasswords`: `[]TypeOK`; what is stored are passwords, never masks.
- `EnvironmentFollows`: `[]EnvFollowsConfig`.
- `LastSaveSurvives`: `[]RestartFindsLastSave`.
- `OwnCredentialsOnly`: `[]OwnCredentials`.
- `MasksNeverShow`: `MasksAreTransparent`.

Assumption: `ConfigAssumption`. It has that the mounted secret is finite, that `None` is
no edit, and that the credentials Harbor sends with a scan are not `None`, by which the
model tells a scan without credentials.

The invariant `Inv` has the lock (`OneSaves`: one Save at a time holds it, and none on a
pod that is down), the progress of an export where Saves do not overlap (`Exporting`:
there is one, its copy is what is in memory, and the variables it has set have that
value), and the file (`FileFollows`: what it holds while other requests are anywhere
between truncation and unlock). `TypeOK` is inductive with what a request goes by
(`Requests`). `OwnCredentials` needs `AllKnown`: every password, in any pod's memory and
in the file, is one that somebody has stored for its authority; a Save may take a
masked password from the memory only, where it is so by then. `MasksAreTransparent` is
a statement about one step and about sequences: what is shown, edited, masked, sent and
cleaned is matched, entry by entry, with the same edit of the real configuration
(`Matches`, `StandsFor`), through the counting of what `Kept` keeps (`Counts`), for each
kind of edit (`EditStands`). What a mask is restored to is then the entry's own password
where its authority has no other entry (`OnlyOne`), and the one of the last entry where
it has (`SaveIsTransparent`).

### Induction over sequences

The library's induction theorems take an operator as a parameter, which no prover here
can instantiate. `Least` and `AllOf` take a set instead: a set of numbers that has 0
and with each number the next is `Nat`, proved from `NatLessThanWellFounded` and `WFMin`.
With them a function that is defined recursively by `CHOOSE` is shown to exist, one
argument after the other (`FlattenSteps`, `NamesSteps`, and the same for `Kept`), and
then reasoned about by its steps. `Kept` of `ConfigStore` is written as such a function
for this reason, where `SelectSeq` would do for TLC.

## 7. What is only model-checked

Liveness, which is beyond the proof system used here as is everything under fairness:
`EveryScanEnds` and `EntriesAreClaimed` (`Dispatch`), `ScansReachVolume` and
`ReadersAreServed` (`Persist`), `WatcherToldEnd`, `DrainFreesStreams` and `ScanNotHeldUp`
(`LiveStream`), `GoroutinesEnd` (`ScanPipeline`). The four refutations of section 5 are
counterexamples and need no proof. `Dispatch`, `Persist` and `LiveStream` are proved
each for itself: that the writes of `LiveStream` behave as `Persist` shows is an argument
of section 2 and no theorem.

## 8. Plan

- `Persist` and `LiveStream` as one: a refinement of the writes of `LiveStream` by the
  versions and lines of `Persist`.
- The safety halves of the liveness properties, each as an invariant: that a reader which
  waits has a writer before it that can move; that a stream in `live` has a sender or is
  the stranded one of section 5.
- The hazards of `PROJECT.json` that no property covers.

## 9. What is not modelled, and why

- `ListJobs`, static files, artifact downloads, metadata: reads that keep no state.
- How libraries find what is in an image, match it, fetch and decode attestations:
  `ScanPipeline` has their outcomes. An image is one constant of its scan: that its tag
  may move between the resolutions of syft and of the lookup (vex.go:117), or between
  Harbor's request and the scan (harbor.go:211), is not modelled.
- The sweep of temporary directories at start (main.go:82-107): it compares ages with a
  constant, and whether that is enough depends on durations nothing in the code bounds.
- The other fields of a Harbor report and `summarizeSyft`'s counts: copied or counted
  one by one. The time in a report built by the fallback is that of the request.
- The readiness probe and the TLS flags.
- `pkg/validate`: one regular expression.
- Formatting, logging, the browser's rendering.
- The chart and the manifests: their effect is the environment of the models
  (replicas, one volume, a grace period followed by a kill).
- A job left at "running" by a crash stays there: the code never resumes one, and
  neither does the model. A stream of such a job polls until its client leaves;
  `LiveStream` has no crash of the running pod.
- `LiveStream` takes the `job.json` that `CreateJob` wrote to be there (`Dispatch` has
  the case that it is not). A log line whose write lost only its end of line counts as
  cut off: it can be read until the next line is appended to it.
- The user name and the token of a stored entry: Save and `GetPublic` pass them on as
  they are, and only the password is masked.
- `os.ReadDir` is one step: entries published while a listing is under way may or
  may not be in it, and both cases are those of a listing made earlier or later.
