---------------------------- MODULE ScanPipeline ----------------------------
(***************************************************************************)
(* Scans that run side by side in one process: RunScan and what it calls,  *)
(* src/pkg/scanner, between the two halves of executeJob.  A scan is up to *)
(* four goroutines: the worker's own (main: syft, then the wait for the    *)
(* others), the VEX lookup, grype, and the license summary, which the code *)
(* calls grant.  The scans share the vulnerability database, which is      *)
(* loaded once.                                                            *)
(*                                                                         *)
(* A step is a call of a library, a file, a channel operation, or a report *)
(* to jobs.Manager; what a goroutine does between two of these is part of  *)
(* the step before.  What the image holds is a constant of its scan.  A    *)
(* death of the process is the end of a behaviour at any step: what it     *)
(* means for the jobs is the subject of Dispatch.                          *)
(***************************************************************************)
EXTENDS Integers, FiniteSets

CONSTANTS
    Scans,            \* the scans
    MatchesOf,        \* of each scan: what grype finds in the image
    LayersOf,         \* of each scan: the attestations attached to the image
    VexLookupEnabled, \* VEX_LOOKUP_ENABLED
    MaxFaults,        \* bound: failing file operations
    MaxPanics         \* bound: panics of syft

VARIABLES
    db,        \* the vulnerability database
    status, error, \* of each scan: the status of its job, and whether SetError was called
    tools,     \* of each scan: the status of each of its tools
    summary,   \* of each scan: the tools whose summary is set
    artifacts, \* of each scan: the state of each of its files
    main, vex, grype, grant, \* of each scan: where its goroutines are
    vexCh,     \* of each scan: vexCh holds the lookup's result
    docs,      \* of each scan: the VEX documents its lookup fetched
    found,     \* of each scan: the matches grype reported
    srcDir, vexDir, \* the scans that have a temporary directory
    unremoved, \* history: the scans that failed to remove one
    faults, panics  \* the budgets used

jobVars  == <<status, error, tools, summary>>
pcVars   == <<main, vex, grype, grant>>
diskVars == <<artifacts, srcDir, vexDir, unremoved>>
budget   == <<faults, panics>>
vars == <<db, jobVars, pcVars, vexCh, docs, found, diskVars, budget>>

Contract == INSTANCE ScanContract

Tools == Contract!Tools
Files == {"sbom", "spdx", "grype", "harbor", "grant"}

ASSUME ImageAssumption ==
    /\ IsFiniteSet(Scans)
    /\ DOMAIN MatchesOf = Scans /\ DOMAIN LayersOf = Scans
ASSUME BoundAssumption ==
    MaxFaults \in Nat /\ MaxPanics \in Nat /\ VexLookupEnabled \in BOOLEAN

\* Every variable has its type; the bounds are respected.
TypeOK ==
    /\ db \in {"loading", "ready", "failed"}
    /\ status \in [Scans -> {"queued", "running", "completed", "failed"}]
    /\ error \in [Scans -> BOOLEAN]
    /\ tools \in [Scans -> [Tools -> Contract!ToolState]]
    /\ summary \in [Scans -> SUBSET Tools]
    /\ artifacts \in [Scans -> [Files -> {"absent", "cut", "whole"}]]
    /\ main \in [Scans -> {"off", "syft", "source", "catalog", "sbom", "spdx", "close",
                           "failed", "summary", "join", "returned", "unwinding", "ended"}]
    /\ vex \in [Scans -> {"off", "lookup", "fetch", "send", "done"}]
    /\ grype \in [Scans -> {"off", "vex", "db", "match", "write", "summary", "harbor",
                            "cleanup", "done"}]
    /\ grant \in [Scans -> {"off", "run", "write", "summary", "done"}]
    /\ vexCh \in [Scans -> BOOLEAN]
    /\ DOMAIN docs = Scans /\ \A s \in Scans : docs[s] \subseteq LayersOf[s]
    /\ DOMAIN found = Scans /\ \A s \in Scans : found[s] \subseteq MatchesOf[s]
    /\ srcDir \subseteq Scans /\ vexDir \subseteq Scans /\ unremoved \subseteq Scans
    /\ faults \in 0..MaxFaults /\ panics \in 0..MaxPanics

Init ==
    /\ db = "loading"
    /\ status = [s \in Scans |-> "queued"]
    /\ error = [s \in Scans |-> FALSE]
    /\ tools = [s \in Scans |-> [t \in Tools |-> "pending"]]
    /\ summary = [s \in Scans |-> {}]
    /\ artifacts = [s \in Scans |-> [f \in Files |-> "absent"]]
    /\ main = [s \in Scans |-> "off"] /\ vex = [s \in Scans |-> "off"]
    /\ grype = [s \in Scans |-> "off"] /\ grant = [s \in Scans |-> "off"]
    /\ vexCh = [s \in Scans |-> FALSE]
    /\ docs = [s \in Scans |-> {}]
    /\ found = [s \in Scans |-> {}]
    /\ srcDir = {} /\ vexDir = {} /\ unremoved = {}
    /\ faults = 0 /\ panics = 0

-----------------------------------------------------------------------------
(* What the goroutines have in common.                                     *)

MainStep(s, from, to) ==
    /\ main[s] = from
    /\ main' = [main EXCEPT ![s] = to]
    /\ UNCHANGED <<db, docs, found>>

VexStep(s, from, to) ==
    /\ vex[s] = from
    /\ vex' = [vex EXCEPT ![s] = to]
    /\ UNCHANGED <<db, jobVars, main, grype, grant, found, artifacts, srcDir>>

GrypeStep(s, from, to) ==
    /\ grype[s] = from
    /\ grype' = [grype EXCEPT ![s] = to]
    /\ UNCHANGED <<db, main, vex, grant, docs>>

GrantStep(s, from, to) ==
    /\ grant[s] = from
    /\ grant' = [grant EXCEPT ![s] = to]
    /\ UNCHANGED <<db, main, vex, grype, vexCh, docs, found>>

\* A file operation fails.
Fault == faults < MaxFaults /\ faults' = faults + 1 /\ UNCHANGED panics

\* SetToolStatus: job.Tools changes under m.mu.
SetTool(s, t, new) ==
    /\ tools' = [tools EXCEPT ![s][t] = new]
    /\ UNCHANGED <<status, error, summary>>

\* os.WriteFile truncates the file and writes it; where it fails the file may be
\* missing, or be there with less than was to be written.
WriteFile(s, f, new) ==
    /\ artifacts' = [artifacts EXCEPT ![s][f] = new]
    /\ IF new = "whole" THEN UNCHANGED budget ELSE Fault
    /\ UNCHANGED <<srcDir, vexDir, unremoved>>

\* A summarizer reads the file back, and SetSummary stores what it counts; where
\* the read fails it returns nil and there is no summary.
Summarize(s, t) ==
    /\ \/ summary' = [summary EXCEPT ![s] = @ \union {t}] /\ UNCHANGED budget
       \/ UNCHANGED summary /\ Fault
    /\ UNCHANGED <<status, error, tools, diskVars>>

\* The lookup's os.RemoveAll, whose error is ignored ...
RemoveVexDir(s) ==
    \/ vexDir' = vexDir \ {s} /\ UNCHANGED <<unremoved, budget>>
    \/ /\ s \in vexDir /\ Fault
       /\ unremoved' = unremoved \union {s}
       /\ UNCHANGED vexDir

\* ... and the cleanup that it returns: a no-op unless it returns documents.
Cleanup(s) ==
    IF docs[s] = {} THEN UNCHANGED <<vexDir, unremoved, budget>> ELSE RemoveVexDir(s)

\* loadVulnerabilityDB: one attempt, with or without success.
LoadDB(result) ==
    /\ db = "loading"
    /\ db' = result
    /\ UNCHANGED <<jobVars, pcVars, vexCh, docs, found, diskVars, budget>>

-----------------------------------------------------------------------------
(* The worker: syft.                                                       *)

\* executeJob calls RunScan, which starts the lookup or, where it is disabled,
\* puts an empty result into vexCh.
RunScan(s) ==
    /\ status[s] = "queued"
    /\ MainStep(s, "off", "syft")
    /\ status' = [status EXCEPT ![s] = "running"]
    /\ IF VexLookupEnabled
       THEN vex' = [vex EXCEPT ![s] = "lookup"] /\ UNCHANGED vexCh
       ELSE vexCh' = [vexCh EXCEPT ![s] = TRUE] /\ UNCHANGED vex
    /\ UNCHANGED <<error, tools, summary, grype, grant, diskVars, budget>>

SyftStarts(s) ==
    /\ MainStep(s, "syft", "source")
    /\ SetTool(s, "syft", "running")
    /\ UNCHANGED <<vex, grype, grant, vexCh, diskVars, budget>>

\* Mutant of SyftFails: the job's word for a failure, where the tools have another one.
SyftFailsAsJob(s, from, to) ==
    MainStep(s, from, to) /\ SetTool(s, "syft", "failed")

\* Leaves syft's fail, with the status it sets.
SyftFails(s, from, to) ==
    MainStep(s, from, to) /\ SetTool(s, "syft", "error")

\* syft panics; deferred calls run, then executeJobSafely recovers.
SyftPanics(s, from, to) ==
    /\ MainStep(s, from, to)
    /\ panics < MaxPanics
    /\ panics' = panics + 1
    /\ UNCHANGED <<jobVars, faults, diskVars>>

\* syft.GetSource pulls the image into a temporary directory.
GetSource(s) ==
    /\ \/ /\ MainStep(s, "source", "catalog")
          /\ srcDir' = srcDir \union {s}
          /\ UNCHANGED <<jobVars, artifacts, vexDir, unremoved, budget>>
       \/ SyftFails(s, "source", "failed") /\ UNCHANGED <<diskVars, budget>>
       \/ SyftPanics(s, "source", "unwinding")
    /\ UNCHANGED <<vex, grype, grant, vexCh>>

\* syft.CreateSBOM and the encoding of its result.
CreateSBOM(s) ==
    /\ \/ MainStep(s, "catalog", "sbom") /\ UNCHANGED <<jobVars, diskVars, budget>>
       \/ SyftFails(s, "catalog", "close") /\ UNCHANGED <<diskVars, budget>>
       \/ SyftPanics(s, "catalog", "close")
    /\ UNCHANGED <<vex, grype, grant, vexCh>>

WriteSBOM(s) ==
    /\ \/ MainStep(s, "sbom", "spdx") /\ WriteFile(s, "sbom", "whole") /\ UNCHANGED jobVars
       \/ /\ SyftFails(s, "sbom", "close")
          /\ \E left \in {"absent", "cut"} : WriteFile(s, "sbom", left)
    /\ UNCHANGED <<vex, grype, grant, vexCh>>

\* The SPDX copy may fail without failing the scan.
WriteSPDX(s) ==
    /\ MainStep(s, "spdx", "close")
    /\ \E left \in {"absent", "cut", "whole"} : WriteFile(s, "spdx", left)
    /\ SetTool(s, "syft", "success")
    /\ UNCHANGED <<vex, grype, grant, vexCh>>

\* The deferred src.Close deletes the image's content; then runSyft returns, or the
\* panic goes on up.
CloseSource(s) ==
    /\ MainStep(s, "close", CASE tools[s]["syft"] = "success" -> "summary"
                              [] tools[s]["syft"] = "error"   -> "failed"
                              [] OTHER                        -> "unwinding")
    /\ \/ srcDir' = srcDir \ {s} /\ UNCHANGED <<unremoved, budget>>
       \/ UNCHANGED srcDir /\ unremoved' = unremoved \union {s} /\ Fault
    /\ UNCHANGED <<jobVars, vex, grype, grant, vexCh, artifacts, vexDir>>

\* Mutant of SyftFailed: the lookup's cleanup is forgotten.
SyftFailedLeaks(s) ==
    /\ vexCh[s]
    /\ MainStep(s, "failed", "returned")
    /\ vexCh' = [vexCh EXCEPT ![s] = FALSE]
    /\ error' = [error EXCEPT ![s] = TRUE]
    /\ UNCHANGED <<status, tools, summary, vex, grype, grant, diskVars, budget>>

\* Without an SBOM: wait for the lookup, clean up after it, SetError.
SyftFailed(s) ==
    /\ vexCh[s]
    /\ MainStep(s, "failed", "returned")
    /\ vexCh' = [vexCh EXCEPT ![s] = FALSE]
    /\ Cleanup(s)
    /\ error' = [error EXCEPT ![s] = TRUE]
    /\ UNCHANGED <<status, tools, summary, vex, grype, grant, artifacts, srcDir>>

SummarizeSyft(s) ==
    /\ MainStep(s, "summary", "join")
    /\ Summarize(s, "syft")
    /\ grype' = [grype EXCEPT ![s] = "vex"]
    /\ grant' = [grant EXCEPT ![s] = "run"]
    /\ UNCHANGED <<vex, vexCh>>

\* Mutant of Join: a scan fails when one of the two has failed.
JoinStrict(s) ==
    /\ grype[s] = "done" /\ grant[s] = "done"
    /\ MainStep(s, "join", "returned")
    /\ error' = [error EXCEPT ![s] =
          IF tools[s]["grype"] = "error" \/ tools[s]["grant"] = "error" THEN TRUE ELSE @]
    /\ UNCHANGED <<status, tools, summary, vex, grype, grant, vexCh, diskVars, budget>>

\* Mutant of Join: the wait group counts the license summary only.
JoinEarly(s) ==
    /\ grant[s] = "done"
    /\ MainStep(s, "join", "returned")
    /\ error' = [error EXCEPT ![s] =
          IF tools[s]["grype"] = "error" /\ tools[s]["grant"] = "error" THEN TRUE ELSE @]
    /\ UNCHANGED <<status, tools, summary, vex, grype, grant, vexCh, diskVars, budget>>

\* wg.Wait returns; the scan has failed if both goroutines have.
Join(s) ==
    /\ grype[s] = "done" /\ grant[s] = "done"
    /\ MainStep(s, "join", "returned")
    /\ error' = [error EXCEPT ![s] =
          IF tools[s]["grype"] = "error" /\ tools[s]["grant"] = "error" THEN TRUE ELSE @]
    /\ UNCHANGED <<status, tools, summary, vex, grype, grant, vexCh, diskVars, budget>>

\* The second half of executeJob.
EndScan(s) ==
    /\ MainStep(s, "returned", "ended")
    /\ status' = [status EXCEPT ![s] = IF error[s] THEN "failed" ELSE "completed"]
    /\ UNCHANGED <<error, tools, summary, vex, grype, grant, vexCh, diskVars, budget>>

\* executeJobSafely recovers.
Recover(s) ==
    /\ MainStep(s, "unwinding", "ended")
    /\ error' = [error EXCEPT ![s] = TRUE]
    /\ status' = [status EXCEPT ![s] = "failed"]
    /\ UNCHANGED <<tools, summary, vex, grype, grant, vexCh, diskVars, budget>>

-----------------------------------------------------------------------------
(* The VEX lookup.                                                         *)

\* The image does not resolve, it has no attestations, they cannot be read, or no
\* temporary directory can be made.
LookupFindsNothing(s) ==
    /\ VexStep(s, "lookup", "send")
    /\ UNCHANGED <<vexCh, docs, vexDir, unremoved, budget>>

MakeVexDir(s) ==
    /\ VexStep(s, "lookup", "fetch")
    /\ vexDir' = vexDir \union {s}
    /\ UNCHANGED <<vexCh, docs, unremoved, budget>>

\* Mutant of Usable: the subject is not compared.
UsableForAny(layer) == layer.type = "openvex"

\* An OpenVEX statement whose subject is the digest the lookup resolved.
Usable(layer) == layer.type = "openvex" /\ layer.subject = "image"

\* Layers that cannot be fetched, decoded or written are skipped; without any
\* document the lookup cleans up at once.
FetchLayers(s) ==
    /\ VexStep(s, "fetch", "send")
    /\ \E got \in SUBSET {l \in LayersOf[s] : Usable(l)} :
          /\ docs' = [docs EXCEPT ![s] = got]
          /\ IF got = {} THEN RemoveVexDir(s) ELSE UNCHANGED <<vexDir, unremoved, budget>>
    /\ UNCHANGED vexCh

\* vexCh has room for one result.
SendResult(s) ==
    /\ ~vexCh[s]
    /\ VexStep(s, "send", "done")
    /\ vexCh' = [vexCh EXCEPT ![s] = TRUE]
    /\ UNCHANGED <<docs, vexDir, unremoved, budget>>

-----------------------------------------------------------------------------
(* The grype goroutine.                                                    *)

GrypeTakesVex(s) ==
    /\ vexCh[s]
    /\ GrypeStep(s, "vex", "db")
    /\ vexCh' = [vexCh EXCEPT ![s] = FALSE]
    /\ SetTool(s, "grype", "running")
    /\ UNCHANGED <<found, diskVars, budget>>

\* waitForDB returns with the database.
WaitForDB(s) ==
    /\ db = "ready"
    /\ GrypeStep(s, "db", "match")
    /\ UNCHANGED <<jobVars, vexCh, found, diskVars, budget>>

GrypeFails(s, from) ==
    /\ GrypeStep(s, from, "cleanup")
    /\ SetTool(s, "grype", "error")
    /\ UNCHANGED <<vexCh, found>>

\* Mutant of NoMatches: the wait for the database ends with the database only.
NoMatchesOnly(s) == GrypeFails(s, "match") /\ UNCHANGED <<diskVars, budget>>

\* The load failed, the tool's timeout is over, or the SBOM does not parse; or
\* the matching fails or is cut off by the timeout.
NoMatches(s) ==
    \E from \in {"db", "match"} : GrypeFails(s, from) /\ UNCHANGED <<diskVars, budget>>

Suppressed(m, layers) == \E l \in layers : m.id \in l.suppresses

\* FindMatchesContext applies the documents, unless its processor cannot be made.
FindMatches(s) ==
    /\ GrypeStep(s, "match", "write")
    /\ \/ /\ found' = [found EXCEPT ![s] = {m \in MatchesOf[s] : ~Suppressed(m, docs[s])}]
          /\ UNCHANGED budget
       \/ /\ docs[s] # {} /\ Fault
          /\ found' = [found EXCEPT ![s] = MatchesOf[s]]
    /\ UNCHANGED <<jobVars, vexCh, diskVars>>

\* Mutant of WriteGrype: a failed write is reported, and no return follows.
WriteGrypeGoesOn(s) ==
    /\ GrypeStep(s, "write", "summary")
    /\ \E left \in {"absent", "cut", "whole"} :
          /\ WriteFile(s, "grype", left)
          /\ SetTool(s, "grype", IF left = "whole" THEN "success" ELSE "error")
    /\ UNCHANGED <<vexCh, found>>

WriteGrype(s) ==
    \/ /\ GrypeStep(s, "write", "summary")
       /\ WriteFile(s, "grype", "whole")
       /\ SetTool(s, "grype", "success")
       /\ UNCHANGED <<vexCh, found>>
    \/ /\ GrypeFails(s, "write")
       /\ \E left \in {"absent", "cut"} : WriteFile(s, "grype", left)

SummarizeGrype(s) ==
    /\ GrypeStep(s, "summary", "harbor")
    /\ Summarize(s, "grype")
    /\ UNCHANGED <<vexCh, found>>

\* precomputeHarborVulnReport: what fails here is only logged.
Precompute(s) ==
    /\ GrypeStep(s, "harbor", "cleanup")
    /\ \E left \in {"absent", "cut", "whole"} : WriteFile(s, "harbor", left)
    /\ UNCHANGED <<jobVars, vexCh, found>>

\* Deferred: the lookup's cleanup, then wg.Done.
GrypeCleanup(s) ==
    /\ GrypeStep(s, "cleanup", "done")
    /\ Cleanup(s)
    /\ UNCHANGED <<jobVars, vexCh, found, artifacts, srcDir>>

-----------------------------------------------------------------------------
(* The license summary's goroutine.                                        *)

GrantRuns(s) ==
    /\ GrantStep(s, "run", "write")
    /\ SetTool(s, "grant", "running")
    /\ UNCHANGED <<diskVars, budget>>

WriteGrant(s) ==
    \E left \in {"absent", "cut", "whole"} :
        /\ GrantStep(s, "write", IF left = "whole" THEN "summary" ELSE "done")
        /\ WriteFile(s, "grant", left)
        /\ SetTool(s, "grant", IF left = "whole" THEN "success" ELSE "error")

SummarizeGrant(s) ==
    /\ GrantStep(s, "summary", "done")
    /\ Summarize(s, "grant")

-----------------------------------------------------------------------------

Syft(s) ==
    \/ SyftStarts(s) \/ GetSource(s) \/ CreateSBOM(s) \/ WriteSBOM(s) \/ WriteSPDX(s)
    \/ CloseSource(s)

Main(s) ==
    \/ Syft(s) \/ SyftFailed(s) \/ SummarizeSyft(s) \/ Join(s) \/ EndScan(s)
    \/ Recover(s)

Lookup(s) ==
    LookupFindsNothing(s) \/ MakeVexDir(s) \/ FetchLayers(s) \/ SendResult(s)

Grype(s) ==
    \/ GrypeTakesVex(s) \/ WaitForDB(s) \/ NoMatches(s) \/ FindMatches(s)
    \/ WriteGrype(s) \/ SummarizeGrype(s) \/ Precompute(s) \/ GrypeCleanup(s)

Grant(s) == GrantRuns(s) \/ WriteGrant(s) \/ SummarizeGrant(s)

Next ==
    \/ \E result \in {"ready", "failed"} : LoadDB(result)
    \/ \E s \in Scans : RunScan(s) \/ Main(s) \/ Lookup(s) \/ Grype(s) \/ Grant(s)

Spec == Init /\ [][Next]_vars

\* Goroutines that can go on do; library calls return, at the latest when the
\* tool's timeout cancels them.  The database need never be loaded.
Fairness ==
    \A s \in Scans :
        WF_vars(Main(s)) /\ WF_vars(Lookup(s)) /\ WF_vars(Grype(s)) /\ WF_vars(Grant(s))

-----------------------------------------------------------------------------
(* Properties.                                                             *)

Ended(s) == main[s] = "ended"

\* RunScan and executeJob, whatever fails or panics, are the scan that the rest of
\* the system takes for granted: tools report between the start and the end, grype
\* and grant only after syft, a completed scan has an SBOM and a report, and a
\* failed one lacks the SBOM or both reports (harbor.go and app.js read it so).
ImplementsContract == Contract!CSpec

\* Temporary directories are not left behind, on any path through RunScan: once a
\* scan has ended, its image content is deleted, and so are its VEX documents unless
\* the worker has recovered from a panic in syft; only a failed deletion leaves
\* either.  And they are not deleted too early: grype's documents are there as long
\* as it reads them.
DirsLiveWithScan ==
    \A s \in Scans :
        /\ Ended(s) /\ s \notin unremoved =>
              /\ s \notin srcDir
              /\ s \in vexDir => tools[s]["syft"] = "running"
        /\ grype[s] = "match" /\ docs[s] # {} => s \in vexDir

\* grype leaves a match out of the report only if an attestation attached to this
\* image, about this image, is an OpenVEX document that suppresses it.
SuppressedByOwnVex ==
    \A s \in Scans :
        grype[s] \in {"write", "summary", "harbor", "cleanup", "done"}
            /\ tools[s]["grype"] # "error"
        => \A m \in MatchesOf[s] \ found[s] :
              \E l \in LayersOf[s] :
                  l.type = "openvex" /\ l.subject = "image" /\ m.id \in l.suppresses

\* Every scan that was begun ends and its lookup's goroutine too, whatever fails and
\* though the database may never be loaded: nobody waits for ever on vexCh, on
\* dbReady or on the wait group.
GoroutinesEnd ==
    \A s \in Scans : main[s] # "off" ~> Ended(s) /\ vex[s] \in {"off", "done"}
=============================================================================
