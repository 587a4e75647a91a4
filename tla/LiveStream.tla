----------------------------- MODULE LiveStream -----------------------------
(***************************************************************************)
(* Clients that watch one scan over Server-Sent Events                     *)
(* (src/pkg/server/server.go, Subscribe and Broadcast of                   *)
(* src/pkg/jobs/jobs.go).                                                  *)
(*                                                                         *)
(* The pod Runner executes the scan: its tools append log lines and        *)
(* broadcast them to that pod's subscribers, and persistWorker brings them *)
(* to the volume.  A connection arrives at any pod: it gets a snapshot,    *)
(* and then either subscribes or polls GetJob, which reads the volume on   *)
(* a pod that does not know the job.  A log line is its number.            *)
(*                                                                         *)
(* The volume may fail: persistWorker drops what it cannot write, a read   *)
(* gives no job or a job without its log.  The job.json that CreateJob     *)
(* wrote is taken to be there.                                             *)
(***************************************************************************)
EXTENDS Integers, Sequences, FiniteSets

CONSTANTS
    Pods, Runner,   \* the replicas, and the one whose worker gets the scan
    Pinned,         \* BOOLEAN: the job carries credentials, Runner created it
    Streams,        \* clients
    Tools,          \* the goroutines of the scan's runner
    Outliving,      \* those a panic of the runner does not end: the VEX lookup
    MaxLog,         \* maxLogLines (4000 in the code)
    SubCap,         \* capacity of a subscriber's channel (100 in the code)
    MaxReports,     \* bound: calls per tool
    MaxStrays,      \* bound: lines of other scans logged into this one
    MaxConnects,    \* bound: connections per client
    MaxDrains,      \* bound: pods that drain
    MaxFaults,      \* bound: reads and writes of the volume that fail
    Exec, Stray     \* executeJob's goroutine, another scan's goroutine

ASSUME StreamAssumption ==
    /\ Runner \in Pods /\ Pinned \in BOOLEAN
    /\ MaxLog \in Nat \ {0} /\ SubCap \in Nat \ {0}
    /\ MaxReports \in Nat /\ MaxStrays \in Nat
    /\ MaxConnects \in Nat /\ MaxDrains \in Nat /\ MaxFaults \in Nat
    /\ Outliving \subseteq Tools
    /\ {Exec, Stray} \intersect Tools = {} /\ Exec # Stray

VARIABLES
    status,     \* of the job in Runner's memory, or on the volume before;
                \* "skipped" if executeJob gave up on it
    known,      \* the job is in Runner's m.jobs
    lines,      \* lines ever appended
    final,      \* history: the lines when the scan ended
    panicked,   \* history: the runner did not return, it panicked
    left,       \* of each tool: calls it may still make
    strays,     \* lines of other scans that may still come
    toSay,      \* of each goroutine: what it has yet to broadcast
    writes,     \* Runner's persistCh
    volume,     \* the status in job.json, and the lines of combined.log that
                \* can be read
    torn,       \* combined.log ends with a part of a line
    faults,     \* how many reads and writes of the volume have failed
    dropped,    \* history: the writes whose result the volume does not have
    draining,   \* the pods whose drainCh is closed
    pc,         \* of each client's connection: where its handler is
    at,         \* ... the pod it is on
    mode,       \* ... what its GetJob is for: the snapshot or the poll
    got,        \* ... what the volume said when it was first read
    sentLogs,   \* ... tailFromDisk's index
    ch,         \* ... its subscription
    sent,       \* ... history: the lines it was sent
    straddled,  \* history: the clients whose connection to Runner began a read
                \* of the volume before Runner adopted the job and ended it after
    connects    \* ... connections so far

jobVars    == <<status, known, lines, final, panicked, left, strays>>
diskVars   == <<volume, torn, faults, dropped>>
streamVars == <<pc, at, mode, got, sentLogs, ch, sent, straddled, connects>>
vars == <<jobVars, toSay, writes, diskVars, draining, streamVars>>

Speakers == Tools \union {Exec, Stray}
Statuses == {"queued", "running", "ended", "skipped"}
LogEvent(n) == [kind |-> "log", n |-> n]
StatusEvent == [kind |-> "status", n |-> 0]
Done        == [kind |-> "done", n |-> 0]
Events      == [kind : {"log", "status", "done"}, n : Nat]
JobFiles    == [status : Statuses, log : Seq(Nat)]

\* A write of job.json with the status st, when the job had n lines (history), or
\* of the n-th line, when its status was st (history).
Writes      == [kind : {"job", "line"}, status : Statuses, n : Nat]

TypeOK ==
    /\ status \in Statuses /\ known \in BOOLEAN /\ lines \in Nat /\ final \in Nat
    /\ panicked \in BOOLEAN
    /\ left \in [Tools -> 0..MaxReports] /\ strays \in 0..MaxStrays
    /\ toSay \in [Speakers -> Seq(Events)]
    /\ writes \in Seq(Writes) /\ volume \in JobFiles
    /\ torn \in BOOLEAN /\ faults \in 0..MaxFaults /\ dropped \in SUBSET Writes
    /\ draining \in SUBSET Pods
    /\ pc \in [Streams -> {"off", "get", "getlog", "check", "subscribe",
                           "live", "tail", "done"}]
    /\ at \in [Streams -> Pods]
    /\ mode \in [Streams -> {"open", "tail"}]
    /\ got \in [Streams -> JobFiles]
    /\ sentLogs \in [Streams -> 0..MaxLog]
    /\ ch \in [Streams -> Seq(Events)] /\ \A s \in Streams : Len(ch[s]) <= SubCap
    /\ sent \in [Streams -> Seq(Nat)]
    /\ straddled \in SUBSET Streams
    /\ connects \in [Streams -> 0..MaxConnects]

Init ==
    /\ status = "queued" /\ known = Pinned /\ lines = 0 /\ final = 0
    /\ panicked = FALSE
    /\ left = [t \in Tools |-> MaxReports] /\ strays = MaxStrays
    /\ toSay = [g \in Speakers |-> <<>>]
    /\ writes = <<>> /\ volume = [status |-> "queued", log |-> <<>>]
    /\ torn = FALSE /\ faults = 0 /\ dropped = {}
    /\ draining = {}
    /\ pc = [s \in Streams |-> "off"] /\ at = [s \in Streams |-> Runner]
    /\ mode = [s \in Streams |-> "open"] /\ got = [s \in Streams |-> volume]
    /\ sentLogs = [s \in Streams |-> 0] /\ ch = [s \in Streams |-> <<>>]
    /\ sent = [s \in Streams |-> <<>>] /\ straddled = {} /\ connects = [s \in Streams |-> 0]

\* A system call on the volume returns an error.
Fault == faults < MaxFaults /\ faults' = faults + 1

-----------------------------------------------------------------------------
(* The scan.                                                               *)

\* A change of the job under m.mu, with the write of the volume that follows.
Becomes(kind, st, n) ==
    /\ status' = st /\ lines' = n
    /\ writes' = Append(writes, [kind |-> kind, status |-> st, n |-> n])
    /\ UNCHANGED <<diskVars, draining, streamVars>>

\* executeJob adopts the job and sets it running.
ExecuteBegins ==
    /\ status = "queued"
    /\ Becomes("job", "running", lines)
    /\ known' = TRUE
    /\ toSay' = [toSay EXCEPT ![Exec] = <<StatusEvent>>]
    /\ UNCHANGED <<final, panicked, left, strays>>

\* It cannot read the job it claimed, and skips it.
ExecuteSkips ==
    /\ status = "queued" /\ ~ known /\ Fault
    /\ status' = "skipped"
    /\ UNCHANGED <<known, lines, final, panicked, left, strays, toSay, writes, volume, torn,
                   dropped, draining, streamVars>>

\* A tool reports a status, or appends a log line; it broadcasts after Unlock.
Report(t) ==
    /\ status \in {"running", "ended"} /\ (status = "running" => toSay[Exec] = <<>>)
    /\ left[t] > 0 /\ toSay[t] = <<>>
    /\ \/ /\ Becomes("job", status, lines)
          /\ toSay' = [toSay EXCEPT ![t] = <<StatusEvent>>]
       \/ /\ Becomes("line", status, lines + 1)
          /\ toSay' = [toSay EXCEPT ![t] = <<LogEvent(lines + 1)>>]
    /\ left' = [left EXCEPT ![t] = @ - 1]
    /\ UNCHANGED <<known, final, panicked, strays>>

\* A tool has nothing more to report.
Return(t) ==
    /\ status \in {"running", "ended"} /\ left[t] > 0
    /\ left' = [left EXCEPT ![t] = 0]
    /\ UNCHANGED <<status, known, lines, final, panicked, strays, toSay, writes, diskVars,
                   draining, streamVars>>

\* syft.SetLogger is one for the process: the syft of another scan logs into the
\* scan that set it last, also after that scan has ended.
StrayLine ==
    /\ status \in {"running", "ended"} /\ strays > 0 /\ toSay[Stray] = <<>>
    /\ Becomes("line", status, lines + 1)
    /\ toSay' = [toSay EXCEPT ![Stray] = <<LogEvent(lines + 1)>>]
    /\ strays' = strays - 1
    /\ UNCHANGED <<known, final, panicked, left>>

\* The end is recorded and will be said; completed and failed are the same to a
\* stream.
Ends ==
    /\ status = "running" /\ toSay[Exec] = <<>>
    /\ Becomes("job", "ended", lines)
    /\ toSay' = [toSay EXCEPT ![Exec] = <<StatusEvent, Done>>]
    /\ final' = lines
    /\ UNCHANGED <<known, strays>>

\* Mutant of ToolsReturned: RunScan does not wait for its goroutines.
ToolsDetached == TRUE

ToolsReturned == \A t \in Tools : left[t] = 0 /\ toSay[t] = <<>>

\* The runner returns to executeJob.
ExecuteEnds ==
    /\ Ends /\ ToolsReturned
    /\ UNCHANGED <<panicked, left>>

\* The runner panics and executeJobSafely recovers: nobody waits for the goroutine
\* that is still looking for VEX documents, and what it reports comes later.
ExecutePanics ==
    /\ Ends /\ \A t \in Tools \ Outliving : toSay[t] = <<>>
    /\ panicked' = TRUE
    /\ left' = [t \in Tools |-> IF t \in Outliving THEN left[t] ELSE 0]

\* Mutant of MayBroadcast: the send waits for a slow subscriber.
BlockingSend == \A s \in Streams : pc[s] = "live" => Len(ch[s]) < SubCap

MayBroadcast == TRUE

\* Mutant of Offered: the channel grows with its subscriber's delay.
OfferedAlways(s, event) == Append(ch[s], event)

\* Broadcast's select has a default: a full channel is passed over.
Offered(s, event) == IF Len(ch[s]) < SubCap THEN Append(ch[s], event) ELSE ch[s]

Broadcast(g) ==
    /\ toSay[g] # <<>> /\ MayBroadcast
    /\ ch' = [s \in Streams |->
                IF pc[s] = "live" /\ at[s] = Runner
                THEN Offered(s, Head(toSay[g])) ELSE ch[s]]
    /\ toSay' = [toSay EXCEPT ![g] = Tail(@)]
    /\ UNCHANGED <<jobVars, writes, diskVars, draining, pc, at, mode, got, sentLogs,
                   sent, straddled, connects>>

\* writeJobJSONFile succeeds.
JobWritten(w) ==
    /\ w.kind = "job"
    /\ volume' = [volume EXCEPT !.status = w.status]
    /\ UNCHANGED <<torn, faults, dropped>>

LineWritten(w) ==
    /\ w.kind = "line" /\ ~ torn
    /\ volume' = [volume EXCEPT !.log = Append(@, w.n)]
    /\ UNCHANGED <<torn, faults, dropped>>

\* The line is written behind a part of another one: readFullJob skips the two.
LineUnread(w) ==
    /\ w.kind = "line" /\ torn
    /\ torn' = FALSE
    /\ dropped' = dropped \union {w}
    /\ UNCHANGED <<volume, faults>>

\* job.json keeps its older content, or the line is lost or cut off.  (A line that
\* only lacks its end of line counts as cut off: it is read until the next one
\* follows it.)
WriteFails(w) ==
    /\ Fault
    /\ torn' \in {torn, torn \/ w.kind = "line"}
    /\ dropped' = dropped \union {w}
    /\ UNCHANGED volume

\* persistWorker applies the oldest write.
Persist ==
    /\ writes # <<>>
    /\ LET w == Head(writes)
       IN JobWritten(w) \/ LineWritten(w) \/ LineUnread(w) \/ WriteFails(w)
    /\ writes' = Tail(writes)
    /\ UNCHANGED <<jobVars, toSay, draining, streamVars>>

-----------------------------------------------------------------------------
(* handleStreamScan.                                                       *)

Goes(s, from, to) == pc[s] = from /\ pc' = [pc EXCEPT ![s] = to]

\* A client connects, or its EventSource reconnects, and any pod gets it.
Connect(s, p) ==
    /\ Goes(s, "off", "get")
    /\ connects[s] < MaxConnects
    /\ connects' = [connects EXCEPT ![s] = @ + 1]
    /\ at' = [at EXCEPT ![s] = p]
    /\ mode' = [mode EXCEPT ![s] = "open"]
    /\ sentLogs' = [sentLogs EXCEPT ![s] = 0]
    /\ sent' = [sent EXCEPT ![s] = <<>>]
    /\ straddled' = straddled \ {s}
    /\ UNCHANGED <<jobVars, toSay, writes, diskVars, draining, got, ch>>

IsLocal(p) == p = Runner /\ known

\* What a Job holds of its log: the last maxLogLines lines.
Window(log) ==
    IF Len(log) <= MaxLog THEN log ELSE SubSeq(log, Len(log) - MaxLog + 1, Len(log))

\* The job in Runner's memory, which has lost no line.
InMemory == [status |-> status, log |-> [i \in 1..lines |-> i]]

\* Mutant of NextIndex: the poll forgets what it has sent.
IndexKept(s, shown) == sentLogs[s]

NextIndex(s, shown) == IF Len(shown) > sentLogs[s] THEN Len(shown) ELSE sentLogs[s]

\* What the handler does with the job that GetJob returned, for the snapshot (when
\* sentLogs is 0) and for every poll alike.
Deliver(s, job) ==
    LET shown == Window(job.log)
    IN /\ sent' = [sent EXCEPT ![s] = @ \o SubSeq(shown, sentLogs[s] + 1, Len(shown))]
       /\ sentLogs' = [sentLogs EXCEPT ![s] = NextIndex(s, shown)]
       /\ pc' = [pc EXCEPT ![s] = IF job.status = "ended" THEN "done"
                                  ELSE IF mode[s] = "open" THEN "check" ELSE "tail"]

\* GetJob finds the job in memory.
GetFromMemory(s) ==
    /\ pc[s] = "get" /\ IsLocal(at[s])
    /\ Deliver(s, InMemory)
    /\ UNCHANGED <<jobVars, toSay, writes, diskVars, draining, at, mode, got, ch,
                   straddled, connects>>

\* It does not: readFullJob reads job.json first ...
ReadJobJSON(s) ==
    /\ ~ IsLocal(at[s])
    /\ Goes(s, "get", "getlog")
    /\ got' = [got EXCEPT ![s] = volume]
    /\ UNCHANGED <<jobVars, toSay, writes, diskVars, draining, at, mode, sentLogs, ch,
                   sent, straddled, connects>>

\* Mutant of FullJob: combined.log was read first, job.json is read now.
LogReadFirst(s) == [status |-> volume.status, log |-> got[s].log]

FullJob(s) == [status |-> got[s].status, log |-> volume.log]

\* ... and then combined.log.
ReadLog(s) ==
    /\ pc[s] = "getlog"
    /\ Deliver(s, FullJob(s))
    /\ straddled' = IF IsLocal(at[s]) THEN straddled \union {s} ELSE straddled
    /\ UNCHANGED <<jobVars, toSay, writes, diskVars, draining, at, mode, got, ch, connects>>

\* readFullJob returns nil: the handler answers 404, or the poll skips this tick.
ReadJobFails(s) ==
    /\ ~ IsLocal(at[s]) /\ Fault
    /\ Goes(s, "get", IF mode[s] = "open" THEN "off" ELSE "tail")
    /\ UNCHANGED <<jobVars, toSay, writes, volume, torn, dropped, draining, at, mode, got,
                   sentLogs, ch, sent, straddled, connects>>

\* combined.log cannot be read: readFullJob returns the job without a log.
ReadLogFails(s) ==
    /\ pc[s] = "getlog" /\ Fault
    /\ Deliver(s, [FullJob(s) EXCEPT !.log = <<>>])
    /\ UNCHANGED <<jobVars, toSay, writes, volume, torn, dropped, draining, at, mode, got, ch,
                   straddled, connects>>

\* Mutant of WhereTo: every pod subscribes.
SubscribeAnywhere(p) == "subscribe"

WhereTo(p) == IF IsLocal(p) THEN "subscribe" ELSE "tail"

\* The job had not ended: subscribe on the pod that knows it, else poll.
CheckLocal(s) ==
    /\ Goes(s, "check", WhereTo(at[s]))
    /\ mode' = [mode EXCEPT ![s] = "tail"]
    /\ UNCHANGED <<jobVars, toSay, writes, diskVars, draining, at, got, sentLogs, ch, sent,
                   straddled, connects>>

Subscribe(s) ==
    /\ Goes(s, "subscribe", "live")
    /\ UNCHANGED <<jobVars, toSay, writes, diskVars, draining, at, mode, got, sentLogs, ch,
                   sent, straddled, connects>>

\* An event of the subscription is sent; after "done" the handler unsubscribes.
Receive(s) ==
    /\ pc[s] = "live" /\ ch[s] # <<>>
    /\ LET event == Head(ch[s])
       IN /\ sent' = [sent EXCEPT ![s] = IF event.kind = "log" THEN Append(@, event.n) ELSE @]
          /\ pc' = [pc EXCEPT ![s] = IF event = Done THEN "done" ELSE "live"]
          /\ ch' = [ch EXCEPT ![s] = IF event = Done THEN <<>> ELSE Tail(@)]
    /\ UNCHANGED <<jobVars, toSay, writes, diskVars, draining, at, mode, got, sentLogs,
                   straddled, connects>>

\* The poll's ticker.
Tick(s) ==
    /\ Goes(s, "tail", "get")
    /\ UNCHANGED <<jobVars, toSay, writes, diskVars, draining, at, mode, got, sentLogs, ch,
                   sent, straddled, connects>>

Leave(s) ==
    /\ pc[s] \in {"live", "tail"}
    /\ pc' = [pc EXCEPT ![s] = "off"]
    /\ ch' = [ch EXCEPT ![s] = <<>>]
    /\ UNCHANGED <<jobVars, toSay, writes, diskVars, draining, at, mode, got, sentLogs,
                   sent, straddled, connects>>

\* Mutant of Freed: only subscriptions look at drainCh.
FreedIfLive(s) == at[s] \in draining /\ pc[s] = "live"

\* drainCh is closed: both waits end.
Freed(s) == at[s] \in draining

DrainEnds(s) == Freed(s) /\ Leave(s)

\* The client gives up, or its connection breaks.
Disconnect(s) == Leave(s)

Drain(p) ==
    /\ p \notin draining /\ Cardinality(draining) < MaxDrains
    /\ draining' = draining \union {p}
    /\ UNCHANGED <<jobVars, toSay, writes, diskVars, streamVars>>

-----------------------------------------------------------------------------
ScanStep ==
    ExecuteBegins \/ ExecuteSkips \/ ExecuteEnds \/ ExecutePanics \/ Broadcast(Exec)

ToolStep(t) == Report(t) \/ Return(t) \/ Broadcast(t)

HandlerStep(s) ==
    \/ GetFromMemory(s) \/ ReadJobJSON(s) \/ ReadLog(s) \/ ReadJobFails(s) \/ ReadLogFails(s)
    \/ CheckLocal(s) \/ Subscribe(s) \/ Tick(s)

Next ==
    \/ ScanStep \/ Persist
    \/ \E t \in Tools : ToolStep(t)
    \/ StrayLine \/ Broadcast(Stray)
    \/ \E s \in Streams : \/ HandlerStep(s) \/ Receive(s) \/ DrainEnds(s) \/ Disconnect(s)
                          \/ \E p \in Pods : Connect(s, p)
    \/ \E p \in Pods : Drain(p)

Spec == Init /\ [][Next]_vars

\* Fairness is a hypothesis of each liveness property.  The scheduler runs the
\* goroutines of the scan and persistWorker.
ScanFairness ==
    /\ WF_vars(ScanStep) /\ WF_vars(Persist)
    /\ \A t \in Tools : WF_vars(ToolStep(t))

\* It runs the handlers, the ticker ticks, and a client that is still there takes
\* what it is sent.  A handler that polls looks at drainCh between ticks, and Go's
\* select does not pass over it forever: strong fairness.
HandlerFairness ==
    \A s \in Streams :
        WF_vars(HandlerStep(s)) /\ WF_vars(Receive(s)) /\ SF_vars(DrainEnds(s))

-----------------------------------------------------------------------------
(* Properties.                                                             *)

IsOrdered(seq) == \A i, k \in DOMAIN seq : i < k => seq[i] < seq[k]

\* What the volume lacks because a write of it failed.
Dropped(kind, n) == \E w \in dropped : w.kind = kind /\ w.n = n

\* No job.json with the end of the scan was written, and nobody tries again.
EndDropped == \E w \in dropped : w.kind = "job" /\ w.status = "ended"

\* Memory and volume number the same lines differently, where a line is dropped:
\* the index of a client that was sent lines of both is good for neither.
OneNumbering(s) == s \notin straddled \/ \A w \in dropped : w.kind # "line"

\* A client that polls, whatever pod it is on, never gets a line twice nor out of
\* order, also when Runner adopts the job between two polls, or within one of them
\* while no line is dropped.
PollInOrder ==
    \A s \in Streams :
        pc[s] \in {"tail", "get", "getlog"} /\ OneNumbering(s) => IsOrdered(sent[s])

\* A snapshot or a poll tells the client that the scan has ended only together
\* with every line it had then, but for lines a failed write dropped: as long as
\* the log fits the window and this read of it does not fail.
DoneAfterLines ==
    [][\A s \in Streams :
         /\ pc[s] \in {"get", "getlog"} /\ pc'[s] = "done"
         /\ lines <= MaxLog /\ faults' = faults
         =>
           /\ status = "ended" /\ (OneNumbering(s)' => IsOrdered(sent'[s]))
           /\ \A n \in 1..final :
                 Dropped("line", n) \/ \E i \in DOMAIN sent'[s] : sent'[s][i] = n]_vars

\* A subscriber that is told the end has missed nothing by leaving: no tool of the
\* scan has anything left to report, and at most stray lines come after "done".
\* After a recovered panic of the runner the lookup may come later still.
DoneComesLast ==
    \A s \in Streams : \A i \in DOMAIN ch[s] :
        ch[s][i] = Done /\ ~ panicked =>
            /\ \A t \in Tools : left[t] = 0 /\ toSay[t] = <<>>
            /\ \A k \in DOMAIN ch[s] : k > i => ch[s][k].kind = "log"

\* Assumed of a local subscription by jobs.go:618-626 and server.go:326-329: it
\* gets the job's live events, while polling is for the other pods, where a
\* subscriber "would just hang".  Refuted: the end can be broadcast between the
\* snapshot and Subscribe, and then nothing ever comes.
NoSubscriberStranded ==
    \A s \in Streams :
        pc[s] = "live" /\ status = "ended" /\ (\A g \in Speakers : toSay[g] = <<>>)
            => Done \in {ch[s][i] : i \in DOMAIN ch[s]}

\* Said by README.md:252-257: a pod that does not run the scan polls the volume so
\* that the UI keeps working there.  Refuted: the poll's index counts lines of a
\* sliding window, and beyond maxLogLines no line is sent any more.
PollSendsNewest ==
    [][\A s \in Streams :
         pc[s] \in {"get", "getlog"} /\ pc'[s] = "tail" /\ ~ IsLocal(at[s])
           => volume.log = <<>>
              \/ volume.log[Len(volume.log)] = sent'[s][Len(sent'[s])]]_vars

\* No subscriber holds up the scan, however slowly it reads: it ends, and the
\* volume tells it unless that write failed.
ScanNotHeldUp ==
    ScanFairness =>
        (status = "running" ~>
            /\ status = "ended" /\ toSay[Exec] = <<>>
            /\ volume.status = "ended" \/ EndDropped)

\* A client on a pod that does not run the scan, and one that began to poll before
\* its pod claimed it, is told the end or leaves, however often a read fails;
\* unless the scan was skipped, or the write that tells its end failed.
WatcherToldEnd ==
    ScanFairness /\ HandlerFairness =>
        \A s \in Streams :
            pc[s] = "tail" \/ (pc[s] = "get" /\ at[s] # Runner)
                ~> pc[s] \in {"done", "off"} \/ status = "skipped" \/ EndDropped

\* Once a pod drains, every stream it serves ends, even if the scan does not, and
\* http.Server.Shutdown does not wait for it.
DrainFreesStreams ==
    HandlerFairness =>
        \A s \in Streams :
            at[s] \in draining /\ pc[s] # "off" ~> pc[s] \in {"done", "off"}
=============================================================================
