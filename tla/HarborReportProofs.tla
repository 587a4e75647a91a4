-------------------------- MODULE HarborReportProofs --------------------------
(***************************************************************************)
(* Proofs about what Harbor and the UI are told, for any scans, images and *)
(* bounds: the answers tell the outcome of the scan and stay, and the two  *)
(* summaries of one scan agree.                                            *)
(***************************************************************************)
EXTENDS HarborReport, ScanPipelineProofs, SequenceTheorems, FiniteSetTheorems,
        WellFoundedInduction

USE DEF Tools, Files, Contract!Tools, Contract!ToolState, Contract!Final

-----------------------------------------------------------------------------
(* What a step of one scan leaves alone.                                   *)

Step(s) == RunScan(s) \/ Main(s) \/ Lookup(s) \/ Grype(s) \/ Grant(s)

\* What an answer is made of.
Same(t) ==
    /\ status'[t] = status[t] /\ tools'[t] = tools[t]
    /\ artifacts'[t] = artifacts[t] /\ found'[t] = found[t]

\* A step of s reports, writes and ends only what is of s.
LEMMA OthersSame ==
    ASSUME TypeOK, NEW s \in Scans, Step(s), NEW t \in Scans, t # s
    PROVE  Same(t)
<1> USE DEF Same, TypeOK
<1>1. CASE RunScan(s)
    BY <1>1 DEF RunScan, MainStep, diskVars
<1>2. CASE Syft(s)
    BY <1>2
    DEF Syft, SyftStarts, GetSource, CreateSBOM, WriteSBOM, WriteSPDX, CloseSource, SyftFails,
        SyftPanics, MainStep, SetTool, WriteFile, jobVars, diskVars
<1>3. CASE SyftFailed(s) \/ Join(s) \/ EndScan(s) \/ Recover(s)
    BY <1>3 DEF SyftFailed, Join, EndScan, Recover, MainStep, diskVars
<1>4. CASE SummarizeSyft(s)
    BY <1>4 DEF SummarizeSyft, Summarize, MainStep, diskVars
<1>5. CASE Lookup(s)
    BY <1>5
    DEF Lookup, LookupFindsNothing, MakeVexDir, FetchLayers, SendResult, VexStep, jobVars
<1>6. CASE GrypeTakesVex(s) \/ WaitForDB(s) \/ NoMatches(s) \/ FindMatches(s)
    BY <1>6
    DEF GrypeTakesVex, WaitForDB, NoMatches, FindMatches, GrypeFails, GrypeStep, SetTool,
        jobVars, diskVars
<1>7. CASE WriteGrype(s) \/ SummarizeGrype(s) \/ Precompute(s) \/ GrypeCleanup(s)
    BY <1>7
    DEF WriteGrype, SummarizeGrype, Precompute, GrypeCleanup, GrypeFails, GrypeStep, SetTool,
        WriteFile, Summarize, jobVars, diskVars
<1>8. CASE Grant(s)
    BY <1>8
    DEF Grant, GrantRuns, WriteGrant, SummarizeGrant, GrantStep, SetTool, WriteFile, Summarize,
        diskVars
<1> QED
    BY <1>1, <1>2, <1>3, <1>4, <1>5, <1>6, <1>7, <1>8 DEF Step, Main, Grype

\* Nothing makes a file operation that failed undone.
LEMMA FaultsStay ==
    ASSUME TypeOK, NEW s \in Scans, Step(s), faults > 0
    PROVE  faults' > 0
<1>1. faults \in Nat
    BY BoundAssumption DEF TypeOK
<1>2. faults' = faults \/ faults' = faults + 1
    BY DEF Step, RunScan, Main, Syft, SyftStarts, GetSource, CreateSBOM, WriteSBOM, WriteSPDX,
           CloseSource, SyftFails, SyftPanics, SyftFailed, SummarizeSyft, Join, EndScan, Recover,
           Lookup, LookupFindsNothing, MakeVexDir, FetchLayers, SendResult,
           Grype, GrypeTakesVex, WaitForDB, NoMatches, FindMatches, WriteGrype, SummarizeGrype,
           Precompute, GrypeCleanup, Grant, GrantRuns, WriteGrant, SummarizeGrant,
           WriteFile, Summarize, RemoveVexDir, Cleanup, Fault, budget
<1> QED
    BY <1>1, <1>2

-----------------------------------------------------------------------------
(* Files and outcomes.                                                     *)

\* grype.json is whole exactly when grype succeeded, the precomputed report comes
\* after it, and what is not whole tells of a failed file operation.  A completed
\* scan is one the contract lets complete.
Told(s) ==
    /\ tools[s]["grype"] = "success" <=> artifacts[s]["grype"] = "whole"
    /\ artifacts[s]["harbor"] # "absent" => tools[s]["grype"] = "success"
    /\ artifacts[s]["harbor"] = "cut" => faults > 0
    /\ tools[s]["syft"] = "success" => artifacts[s]["spdx"] = "whole" \/ faults > 0
    /\ status[s] = "completed" => main[s] = "ended" /\ Contract!Succeeded(s)

AllTold == \A s \in Scans : Told(s)

LEMMA WrittenFile ==
    ASSUME TypeOK, NEW s \in Scans, NEW f \in Files, NEW new \in {"absent", "cut", "whole"},
           WriteFile(s, f, new)
    PROVE  /\ artifacts'[s][f] = new
           /\ \A g \in Files \ {f} : artifacts'[s][g] = artifacts[s][g]
           /\ new # "whole" => faults' > 0
           /\ new = "whole" => faults' = faults
<1>1. artifacts[s] \in [Files -> {"absent", "cut", "whole"}]
    BY DEF TypeOK
<1>2. artifacts'[s] = [artifacts[s] EXCEPT ![f] = new]
    BY DEF TypeOK, WriteFile
<1>3. new # "whole" => faults' > 0
    BY BoundAssumption DEF TypeOK, WriteFile, Fault
<1> QED
    BY <1>1, <1>2, <1>3 DEF WriteFile, budget

LEMMA ToldTool ==
    ASSUME TypeOK, NEW s \in Scans, NEW t \in Tools, NEW new \in Contract!ToolState,
           SetTool(s, t, new)
    PROVE  /\ tools'[s][t] = new /\ \A u \in Tools \ {t} : tools'[s][u] = tools[s][u]
           /\ status' = status
<1>1. tools[s] \in [Tools -> Contract!ToolState]
    BY DEF TypeOK
<1>2. tools'[s] = [tools[s] EXCEPT ![t] = new]
    BY DEF TypeOK, SetTool
<1> QED
    BY <1>1, <1>2 DEF SetTool

\* Steps that neither report, write nor end.
LEMMA ToldKept ==
    ASSUME TypeOK, NEW s \in Scans, Step(s), Told(s),
           tools'[s] = tools[s], artifacts'[s] = artifacts[s],
           \/ status'[s] = status[s] /\ main'[s] = main[s]
           \/ status'[s] # "completed"
    PROVE  Told(s)'
BY FaultsStay DEF Told, Contract!Succeeded

LEMMA MainTells ==
    ASSUME TypeOK, NEW s \in Scans, Control(s), Told(s), Main(s) \/ RunScan(s)
    PROVE  Told(s)'
<1>1. Step(s)
    BY DEF Step
<1>2. main[s] # "ended" => status[s] # "completed"
    BY DEF Control, TypeOK
<1>3. CASE RunScan(s) \/ Recover(s)
    <2>1. UNCHANGED <<tools, artifacts>> /\ status'[s] # "completed"
        BY <1>3 DEF RunScan, Recover, diskVars, TypeOK
    <2> QED
        BY <1>1, <2>1, ToldKept
<1>4. CASE CloseSource(s) \/ SyftFailed(s) \/ SummarizeSyft(s) \/ Join(s)
    <2>1. UNCHANGED <<tools, artifacts, status>> /\ main[s] # "ended"
        BY <1>4
        DEF CloseSource, SyftFailed, SummarizeSyft, Join, MainStep, Summarize, jobVars, diskVars
    <2> QED
        BY <1>1, <1>2, <2>1, ToldKept
<1>5. CASE EndScan(s)
    <2>1. /\ main[s] = "returned" /\ main'[s] = "ended" /\ UNCHANGED <<tools, artifacts, faults>>
          /\ status'[s] = "completed" => ~error[s]
        BY <1>5 DEF EndScan, MainStep, diskVars, budget, TypeOK
    <2>2. ~error[s] => Contract!Succeeded(s)
        BY <2>1 DEF Control, Forked, SyftAt, GrypeAt, GrantAt, Contract!Succeeded
    <2> QED
        BY <2>1, <2>2 DEF Told, Contract!Succeeded
<1>6. ASSUME NEW from \in {"source", "catalog", "sbom"}, NEW to, SyftFails(s, from, to),
             \A f \in {"grype", "harbor", "spdx"} : artifacts'[s][f] = artifacts[s][f]
      PROVE  Told(s)'
    <2>1. /\ tools'[s]["syft"] = "error" /\ tools'[s]["grype"] = tools[s]["grype"]
          /\ status' = status /\ main[s] # "ended"
        BY <1>6, ToldTool DEF SyftFails, MainStep
    <2> QED
        BY <1>1, <1>2, <1>6, <2>1, FaultsStay DEF Told
<1>7. CASE SyftStarts(s)
    <2>1. /\ tools'[s]["syft"] = "running" /\ tools'[s]["grype"] = tools[s]["grype"]
          /\ status' = status /\ main[s] # "ended" /\ artifacts' = artifacts
        BY <1>7, ToldTool DEF SyftStarts, MainStep, diskVars
    <2> QED
        BY <1>1, <1>2, <2>1, FaultsStay DEF Told
<1>8. CASE GetSource(s) \/ CreateSBOM(s)
    <2>1. artifacts' = artifacts /\ main[s] # "ended"
        BY <1>8 DEF GetSource, CreateSBOM, SyftFails, SyftPanics, MainStep, diskVars
    <2>2. \/ UNCHANGED <<tools, status>>
          \/ \E from \in {"source", "catalog", "sbom"}, to \in {"failed", "close"} :
                SyftFails(s, from, to)
        BY <1>8 DEF GetSource, CreateSBOM, SyftPanics, jobVars
    <2> QED
        BY <1>1, <1>2, <1>6, <2>1, <2>2, ToldKept
<1>9. CASE WriteSBOM(s)
    <2>1. CASE /\ MainStep(s, "sbom", "spdx") /\ WriteFile(s, "sbom", "whole")
               /\ UNCHANGED jobVars
        <3>1. /\ \A f \in {"grype", "harbor", "spdx"} : artifacts'[s][f] = artifacts[s][f]
              /\ UNCHANGED <<tools, status>> /\ main[s] # "ended"
            BY <2>1, WrittenFile DEF MainStep, jobVars
        <3> QED
            BY <1>1, <1>2, <3>1, FaultsStay DEF Told
    <2>2. CASE /\ SyftFails(s, "sbom", "close")
               /\ \E left \in {"absent", "cut"} : WriteFile(s, "sbom", left)
        <3>1. \A f \in {"grype", "harbor", "spdx"} : artifacts'[s][f] = artifacts[s][f]
            BY <2>2, WrittenFile
        <3> QED
            BY <1>6, <2>2, <3>1
    <2> QED
        BY <1>9, <2>1, <2>2 DEF WriteSBOM
<1>10. CASE WriteSPDX(s)
    <2>1. PICK left \in {"absent", "cut", "whole"} : WriteFile(s, "spdx", left)
        BY <1>10 DEF WriteSPDX
    <2>2. /\ \A f \in {"grype", "harbor"} : artifacts'[s][f] = artifacts[s][f]
          /\ artifacts'[s]["spdx"] = "whole" \/ faults' > 0
        BY <2>1, WrittenFile
    <2>3. /\ tools'[s]["grype"] = tools[s]["grype"] /\ status' = status /\ main[s] # "ended"
        BY <1>10, ToldTool DEF WriteSPDX, MainStep
    <2> QED
        BY <1>1, <1>2, <2>2, <2>3, FaultsStay DEF Told
<1> QED
    BY <1>3, <1>4, <1>5, <1>7, <1>8, <1>9, <1>10 DEF Main, Syft

LEMMA GrypeTells ==
    ASSUME TypeOK, NEW s \in Scans, Control(s), Told(s), Grype(s)
    PROVE  Told(s)'
<1>1. Step(s)
    BY DEF Step
<1>2. /\ main' = main /\ grype[s] \notin {"off", "done"}
      /\ status' = status /\ status[s] # "completed"
    <2>1. main' = main /\ grype[s] \notin {"off", "done"} /\ status' = status
        BY DEF Grype, GrypeTakesVex, WaitForDB, NoMatches, FindMatches, WriteGrype,
               SummarizeGrype, Precompute, GrypeCleanup, GrypeFails, GrypeStep, SetTool,
               Summarize, jobVars
    <2>2. main[s] # "ended"
        BY <2>1 DEF Control, Forked
    <2> QED
        BY <2>1, <2>2 DEF Told
<1>3. CASE WaitForDB(s) \/ FindMatches(s) \/ SummarizeGrype(s) \/ GrypeCleanup(s)
    <2>1. UNCHANGED <<tools, artifacts>>
        BY <1>3 DEF WaitForDB, FindMatches, SummarizeGrype, GrypeCleanup, Summarize, jobVars, diskVars
    <2> QED
        BY <1>1, <1>2, <2>1, ToldKept
<1>4. ASSUME NEW new \in {"running", "error"}, SetTool(s, "grype", new),
             grype[s] \in {"vex", "db", "match", "write"},
             \A f \in {"harbor", "spdx"} : artifacts'[s][f] = artifacts[s][f],
             artifacts'[s]["grype"] = artifacts[s]["grype"] \/ artifacts'[s]["grype"] # "whole"
      PROVE  Told(s)'
    <2>1. tools'[s]["grype"] = new /\ tools'[s]["syft"] = tools[s]["syft"]
        BY <1>4, ToldTool
    <2>2. tools[s]["grype"] \in {"pending", "running"}
        BY <1>4 DEF Control, GrypeAt
    <2> QED
        BY <1>1, <1>2, <1>4, <2>1, <2>2, FaultsStay DEF Told
<1>5. CASE GrypeTakesVex(s)
    BY <1>4, <1>5 DEF GrypeTakesVex, GrypeStep, diskVars
<1>6. CASE NoMatches(s)
    <2>1. artifacts' = artifacts /\ grype[s] \in {"db", "match"} /\ SetTool(s, "grype", "error")
        BY <1>6 DEF NoMatches, GrypeFails, GrypeStep, diskVars
    <2> QED
        BY <1>4, <2>1
<1>7. CASE WriteGrype(s)
    <2>1. CASE /\ GrypeFails(s, "write")
               /\ \E left \in {"absent", "cut"} : WriteFile(s, "grype", left)
        <3>1. /\ \A f \in {"harbor", "spdx"} : artifacts'[s][f] = artifacts[s][f]
              /\ artifacts'[s]["grype"] # "whole"
            BY <2>1, WrittenFile
        <3> QED
            BY <1>4, <2>1, <3>1 DEF GrypeFails, GrypeStep
    <2>2. CASE /\ GrypeStep(s, "write", "summary") /\ WriteFile(s, "grype", "whole")
               /\ SetTool(s, "grype", "success")
        <3>1. /\ \A f \in {"harbor", "spdx"} : artifacts'[s][f] = artifacts[s][f]
              /\ artifacts'[s]["grype"] = "whole"
            BY <2>2, WrittenFile
        <3>2. tools'[s]["grype"] = "success" /\ tools'[s]["syft"] = tools[s]["syft"]
            BY <2>2, ToldTool
        <3> QED
            BY <1>1, <1>2, <3>1, <3>2, FaultsStay DEF Told
    <2> QED
        BY <1>7, <2>1, <2>2 DEF WriteGrype
<1>8. CASE Precompute(s)
    <2>1. PICK left \in {"absent", "cut", "whole"} : WriteFile(s, "harbor", left)
        BY <1>8 DEF Precompute
    <2>2. /\ \A f \in {"grype", "spdx"} : artifacts'[s][f] = artifacts[s][f]
          /\ artifacts'[s]["harbor"] = "cut" => faults' > 0
        BY <2>1, WrittenFile
    <2>3. tools' = tools /\ tools[s]["grype"] = "success"
        BY <1>8 DEF Precompute, GrypeStep, jobVars, Control, GrypeAt
    <2> QED
        BY <1>1, <1>2, <2>2, <2>3, FaultsStay DEF Told
<1> QED
    BY <1>3, <1>5, <1>6, <1>7, <1>8 DEF Grype

LEMMA OthersTell ==
    ASSUME TypeOK, NEW s \in Scans, Control(s), Told(s), Lookup(s) \/ Grant(s)
    PROVE  Told(s)'
<1>1. Step(s)
    BY DEF Step
<1>2. CASE Lookup(s)
    <2>1. UNCHANGED <<tools, artifacts, status, main>>
        BY <1>2
        DEF Lookup, LookupFindsNothing, MakeVexDir, FetchLayers, SendResult, VexStep, jobVars
    <2> QED
        BY <1>1, <2>1, ToldKept
<1>3. CASE Grant(s)
    <2>1. main' = main /\ grant[s] \notin {"off", "done"} /\ status' = status
        BY <1>3 DEF Grant, GrantRuns, WriteGrant, SummarizeGrant, GrantStep, SetTool, Summarize
    <2>2. status[s] # "completed"
        BY <2>1 DEF Control, Forked, Told
    <2>3. CASE SummarizeGrant(s)
        <3>1. UNCHANGED <<tools, artifacts>>
            BY <2>3 DEF SummarizeGrant, Summarize, diskVars
        <3> QED
            BY <1>1, <2>1, <2>2, <3>1, ToldKept
    <2>4. CASE GrantRuns(s) \/ WriteGrant(s)
        <3>1. \A f \in {"grype", "harbor", "spdx"} : artifacts'[s][f] = artifacts[s][f]
            BY <2>4, WrittenFile DEF GrantRuns, WriteGrant, diskVars
        <3>2. \A t \in {"syft", "grype"} : tools'[s][t] = tools[s][t]
            <4>1. \E new \in Contract!ToolState : SetTool(s, "grant", new)
                BY <2>4 DEF GrantRuns, WriteGrant
            <4> QED
                BY <4>1, ToldTool
        <3> QED
            BY <1>1, <2>1, <2>2, <3>1, <3>2, FaultsStay DEF Told
    <2> QED
        BY <1>3, <2>3, <2>4 DEF Grant
<1> QED
    BY <1>2, <1>3

LEMMA AlwaysTold == Spec => [](TypeOK /\ Controlled /\ AllTold)
<1>1. Init => AllTold
    BY DEF Init, AllTold, Told
<1>2. TypeOK /\ Controlled /\ AllTold /\ [Next]_vars => AllTold'
    <2> SUFFICES ASSUME TypeOK, Controlled, AllTold, [Next]_vars PROVE AllTold'
        OBVIOUS
    <2>1. ASSUME NEW s \in Scans, Step(s)
          PROVE  AllTold'
        <3>1. Told(s)'
            BY <2>1, MainTells, GrypeTells, OthersTell DEF Step, Controlled, AllTold
        <3>2. ASSUME NEW t \in Scans, t # s
              PROVE  Told(t)'
            <4>1. Same(t) /\ Told(t)
                BY <2>1, <3>2, OthersSame DEF AllTold
            <4>2. faults > 0 => faults' > 0
                BY <2>1, FaultsStay
            <4>3. status[t] = "completed" => main'[t] = "ended"
                BY <2>1, <3>2, <4>1
                DEF Told, Step, RunScan, Main, Syft, SyftStarts, GetSource, CreateSBOM, WriteSBOM,
                    WriteSPDX, CloseSource, SyftFails, SyftPanics, SyftFailed, SummarizeSyft, Join,
                    EndScan, Recover, MainStep, Lookup, LookupFindsNothing, MakeVexDir,
                    FetchLayers, SendResult, VexStep, Grype, GrypeTakesVex, WaitForDB, NoMatches,
                    FindMatches, WriteGrype, SummarizeGrype, Precompute, GrypeCleanup, GrypeFails,
                    GrypeStep, Grant, GrantRuns, WriteGrant, SummarizeGrant, GrantStep, TypeOK
            <4> QED
                BY <4>1, <4>2, <4>3 DEF Same, Told, Contract!Succeeded
        <3> QED
            BY <3>1, <3>2 DEF AllTold
    <2>2. CASE (\E result \in {"ready", "failed"} : LoadDB(result)) \/ UNCHANGED vars
        <3>1. UNCHANGED <<tools, artifacts, faults, status, main>>
            BY <2>2 DEF LoadDB, vars, jobVars, pcVars, diskVars, budget
        <3> QED
            BY <3>1 DEF AllTold, Told, Contract!Succeeded
    <2> QED
        BY <2>1, <2>2 DEF Next, Step
<1> QED
    BY <1>1, <1>2, AlwaysControlled, PTL DEF Spec

-----------------------------------------------------------------------------
(* The job on the volume.                                                  *)

\* What makes an answer is settled when the status is final.
LEMMA Settled ==
    ASSUME TypeOK, Controlled, [Next]_vars, NEW s \in Scans,
           status[s] \in {"completed", "failed"}
    PROVE  UNCHANGED <<status[s], artifacts[s], found[s]>>
<1>1. Ended(s)
    BY DEF Controlled, Control, Ended
<1>2. grype[s] \in {"off", "done"} /\ grant[s] \in {"off", "done"}
    BY <1>1 DEF Controlled, Control, Forked, Ended
<1>3. CASE (\E result \in {"ready", "failed"} : LoadDB(result)) \/ UNCHANGED vars
    BY <1>3 DEF LoadDB, vars, jobVars, diskVars
<1>4. ASSUME NEW t \in Scans, t # s, Step(t)
      PROVE  UNCHANGED <<status[s], artifacts[s], found[s]>>
    BY <1>4, OthersSame DEF Same
<1>5. CASE Step(s)
    <2>1. Lookup(s)
        BY <1>1, <1>2, <1>5
        DEF Ended, Step, RunScan, Main, Syft, SyftStarts, GetSource, CreateSBOM, WriteSBOM,
            WriteSPDX, CloseSource, SyftFails, SyftPanics, SyftFailed, SummarizeSyft, Join,
            EndScan, Recover, MainStep, Grype, GrypeTakesVex, WaitForDB, NoMatches,
            FindMatches, WriteGrype, SummarizeGrype, Precompute, GrypeCleanup, GrypeFails,
            GrypeStep, Grant, GrantRuns, WriteGrant, SummarizeGrant, GrantStep
    <2> QED
        BY <2>1
        DEF Lookup, LookupFindsNothing, MakeVexDir, FetchLayers, SendResult, VexStep, jobVars
<1> QED
    BY <1>3, <1>4, <1>5 DEF Next, Step

\* job.json may be behind, but where it tells the outcome it is the scan's.
NeverAhead ==
    /\ onDisk \in [Scans -> JobStates \union {"none"}]
    /\ \A s \in Scans : onDisk[s] \in {"completed", "failed"} => onDisk[s] = status[s]

LEMMA PublishKeeps ==
    ASSUME TypeOK, NeverAhead, NEW t \in Scans, Publish(t)
    PROVE  /\ NeverAhead' /\ UNCHANGED vars
           /\ \A s \in Scans : onDisk[s] \in {"completed", "failed"} => onDisk'[s] = onDisk[s]
<1>1. PICK new \in {"running", status[t]} :
          /\ status[t] # "queued" /\ onDisk[t] \notin {new, "completed", "failed"}
          /\ onDisk' = [onDisk EXCEPT ![t] = new]
          /\ UNCHANGED vars
    BY DEF Publish
<1>2. status' = status /\ new \in JobStates
    BY <1>1 DEF vars, jobVars, TypeOK, JobStates
<1> QED
    BY <1>1, <1>2 DEF NeverAhead

LEMMA ReportIsScan == ReportSpec => Spec
<1>1. ReportInit => Init
    BY DEF ReportInit
<1>2. [ReportNext]_reportVars => [Next]_vars
    <2>1. ASSUME NEW s \in Scans, Publish(s) PROVE UNCHANGED vars
        BY <2>1 DEF Publish
    <2> QED
        BY <2>1 DEF ReportNext, reportVars
<1> QED
    BY <1>1, <1>2, PTL DEF ReportSpec, Spec

LEMMA AlwaysBehind == ReportSpec => [](TypeOK /\ Controlled /\ AllTold /\ NeverAhead)
<1>1. ReportInit => NeverAhead
    BY DEF ReportInit, NeverAhead, JobStates
<1>2. TypeOK /\ Controlled /\ NeverAhead /\ [ReportNext]_reportVars => NeverAhead'
    <2> SUFFICES ASSUME TypeOK, Controlled, NeverAhead, [ReportNext]_reportVars
                 PROVE  NeverAhead'
        OBVIOUS
    <2>1. CASE \E s \in Scans : Publish(s)
        BY <2>1, PublishKeeps
    <2>2. CASE [Next]_vars /\ UNCHANGED onDisk
        <3>1. \A s \in Scans : status[s] \in {"completed", "failed"} => status'[s] = status[s]
            BY <2>2, Settled
        <3> QED
            BY <2>2, <3>1 DEF NeverAhead
    <2> QED
        BY <2>1, <2>2 DEF ReportNext, reportVars
<1> QED
    BY <1>1, <1>2, ReportIsScan, AlwaysTold, PTL DEF ReportSpec

-----------------------------------------------------------------------------
(* The theorems.                                                           *)

\* Every variable of the scans and of their reports has its type.
THEOREM ReportTypes == ReportSpec => []ReportTypeOK
<1>1. TypeOK /\ NeverAhead => ReportTypeOK
    BY DEF ReportTypeOK, NeverAhead
<1> QED
    BY <1>1, AlwaysBehind, PTL

\* A pod that knows of an end knows the scan's.
LEMMA PodsKnow ==
    ASSUME TypeOK, Controlled, NeverAhead, NEW s \in Scans, NEW pod \in Pods, NEW unread
    PROVE  /\ GetJob(s, pod, unread) \in JobStates \union {"none"}
           /\ GetJob(s, pod, unread) \in {"completed", "failed"} =>
                 GetJob(s, pod, unread) = status[s]
           /\ GetJob(s, pod, unread) = "none" =>
                 pod = "other" /\ ("job" \in unread \/ onDisk[s] = "none")
           /\ status[s] \in {"completed", "failed"} <=> Ended(s)
<1>1. status[s] \in JobStates /\ (status[s] \in {"completed", "failed"} <=> Ended(s))
    BY DEF TypeOK, JobStates, Controlled, Control, Ended
<1>2. /\ onDisk[s] \in JobStates \union {"none"}
      /\ onDisk[s] \in {"completed", "failed"} => onDisk[s] = status[s]
    <2>1. /\ onDisk \in [Scans -> JobStates \union {"none"}]
          /\ \A t \in Scans : onDisk[t] \in {"completed", "failed"} => onDisk[t] = status[t]
        BY DEF NeverAhead
    <2> QED
        BY <2>1
<1>3. CASE pod = "owner"
    <2>1. GetJob(s, pod, unread) = status[s]
        BY <1>3 DEF GetJob
    <2> QED
        BY <1>1, <2>1 DEF JobStates
<1>4. CASE pod = "other" /\ "job" \in unread
    <2>1. GetJob(s, pod, unread) = "none"
        BY <1>4 DEF GetJob
    <2> QED
        BY <1>1, <1>4, <2>1
<1>5. CASE pod = "other" /\ "job" \notin unread
    <2>1. GetJob(s, pod, unread) = onDisk[s]
        BY <1>5 DEF GetJob
    <2> QED
        BY <1>1, <1>2, <1>5, <2>1
<1> QED
    BY <1>3, <1>4, <1>5 DEF Pods

\* The answers about a completed scan, from the files that can be read.
LEMMA ReportsAre ==
    ASSUME TypeOK, NEW s \in Scans, NEW unread, Told(s), status[s] = "completed"
    PROVE  LET vulns == VulnerabilityReport(s, unread)
               sbom  == SBOMReport(s, unread)
           IN  /\ vulns.code \in {200, 404, 500} /\ sbom.code \in {200, 404, 500}
               /\ vulns.code = 200 => /\ tools[s]["grype"] = "success"
                                      /\ vulns.body = "whole" \/ faults > 0
               /\ tools[s]["syft"] = "success"
               /\ vulns.code # 200 => tools[s]["grype"] = "error" \/ "grype" \in unread
               /\ sbom.code # 200 => faults > 0 \/ "spdx" \in unread
<1> DEFINE vulns == VulnerabilityReport(s, unread)
           sbom  == SBOMReport(s, unread)
           severity == HighestSeverity(found[s])
<1> HIDE DEF severity
<1>1. \A f \in Files : /\ ReadFile(s, f, unread) \in {"absent", "cut", "whole"}
                       /\ ReadFile(s, f, unread) # "absent" => ReadFile(s, f, unread) = artifacts[s][f]
                       /\ ReadFile(s, f, unread) # artifacts[s][f] => f \in unread
    BY DEF TypeOK, ReadFile
<1>2. tools[s]["syft"] = "success" /\ tools[s]["grype"] \in {"success", "error"}
    BY DEF Told, Contract!Succeeded
<1>3. /\ sbom.code \in {200, 404, 500}
      /\ sbom.code # 200 => ReadFile(s, "spdx", unread) # "whole"
    BY <1>1 DEF SBOMReport, Refuse
<1>4. /\ vulns.code \in {200, 404, 500}
      /\ vulns.code # 200 => ReadFile(s, "grype", unread) # "whole"
      /\ vulns.code = 200 =>
            /\ \/ ReadFile(s, "harbor", unread) # "absent"
               \/ ReadFile(s, "grype", unread) = "whole"
            /\ vulns.body = "whole" \/ ReadFile(s, "harbor", unread) = "cut"
    <2>1. CASE ReadFile(s, "harbor", unread) = "whole"
        BY <2>1 DEF VulnerabilityReport
    <2>2. CASE ReadFile(s, "harbor", unread) = "cut"
        BY <2>2 DEF VulnerabilityReport
    <2>3. CASE ReadFile(s, "harbor", unread) = "absent"
        BY <1>1, <2>3 DEF VulnerabilityReport, Refuse
    <2> QED
        BY <1>1, <2>1, <2>2, <2>3
<1> QED
    BY <1>1, <1>2, <1>3, <1>4 DEF Told

\* Harbor's answers tell the outcome of the scan, whichever pod gives them, whatever
\* failed on the way and whatever cannot be read.
THEOREM AnswersAreTrue == ReportSpec => []AnswersTellOutcome
<1>1. TypeOK /\ Controlled /\ AllTold /\ NeverAhead => AnswersTellOutcome
    <2> SUFFICES ASSUME TypeOK, Controlled, AllTold, NeverAhead,
                        NEW s \in Scans, NEW pod \in Pods, NEW unread \in SUBSET Paths
                 PROVE  LET vulns == GetReport(s, "vulnerability", pod, unread)
                            sbom  == GetReport(s, "sbom", pod, unread)
                        IN  /\ ~Ended(s) => \A a \in {vulns, sbom} :
                                  \/ a = NotReady
                                  \/ /\ a = Refuse(404) /\ pod = "other"
                                     /\ "job" \in unread \/ onDisk[s] = "none"
                            /\ vulns.code = 200 => /\ tools[s]["grype"] = "success"
                                                   /\ vulns.body = "whole" \/ faults > 0
                            /\ sbom.code = 200 => tools[s]["syft"] = "success"
                            /\ Ended(s) /\ GetJob(s, pod, unread) = status[s] =>
                                  /\ vulns # NotReady /\ sbom # NotReady
                                  /\ vulns.code # 200 => \/ status[s] = "failed"
                                                         \/ tools[s]["grype"] = "error"
                                                         \/ "grype" \in unread
                                  /\ sbom.code # 200 => \/ status[s] = "failed"
                                                        \/ faults > 0 \/ "spdx" \in unread
        BY DEF AnswersTellOutcome
    <2> DEFINE job   == GetJob(s, pod, unread)
               vulns == GetReport(s, "vulnerability", pod, unread)
               sbom  == GetReport(s, "sbom", pod, unread)
    <2>1. /\ job \in JobStates \union {"none"}
          /\ job \in {"completed", "failed"} => job = status[s]
          /\ job = "none" => pod = "other" /\ ("job" \in unread \/ onDisk[s] = "none")
          /\ status[s] \in {"completed", "failed"} <=> Ended(s)
        BY PodsKnow
    <2>2. CASE job = "none"
        <3>1. vulns = Refuse(404) /\ sbom = Refuse(404)
            BY <2>2 DEF GetReport
        <3>2. Refuse(404).code = 404
            BY DEF Refuse
        <3>3. job # status[s]
            BY <2>2 DEF TypeOK
        <3> HIDE DEF job, vulns, sbom
        <3> QED
            BY <2>1, <2>2, <3>1, <3>2, <3>3 DEF job, vulns, sbom
    <2>3. CASE job \in {"queued", "running"}
        <3>1. vulns = NotReady /\ sbom = NotReady
            BY <2>3 DEF GetReport
        <3>2. NotReady.code = 302
            BY DEF NotReady
        <3>3. Ended(s) => job # status[s]
            BY <2>1, <2>3
        <3> HIDE DEF job, vulns, sbom
        <3> QED
            BY <3>1, <3>2, <3>3 DEF job, vulns, sbom
    <2>4. CASE job = "failed"
        <3>1. vulns = Refuse(500) /\ sbom = Refuse(500)
            BY <2>4 DEF GetReport
        <3>2. Refuse(500).code = 500 /\ Refuse(500) # NotReady
            BY DEF Refuse, NotReady
        <3>3. Ended(s) /\ status[s] = "failed"
            BY <2>1, <2>4
        <3> HIDE DEF job, vulns, sbom
        <3> QED
            BY <3>1, <3>2, <3>3 DEF job, vulns, sbom
    <2>5. CASE job = "completed"
        <3>1. vulns = VulnerabilityReport(s, unread) /\ sbom = SBOMReport(s, unread)
            BY <2>5 DEF GetReport
        <3>2. Ended(s) /\ status[s] = "completed" /\ Told(s)
            BY <2>1, <2>5 DEF AllTold
        <3>3. NotReady.code = 302
            BY DEF NotReady
        <3> HIDE DEF job, vulns, sbom
        <3>4. /\ vulns.code \in {200, 404, 500} /\ sbom.code \in {200, 404, 500}
              /\ vulns.code = 200 => /\ tools[s]["grype"] = "success"
                                     /\ vulns.body = "whole" \/ faults > 0
              /\ tools[s]["syft"] = "success"
              /\ vulns.code # 200 => tools[s]["grype"] = "error" \/ "grype" \in unread
              /\ sbom.code # 200 => faults > 0 \/ "spdx" \in unread
            BY <3>1, <3>2, ReportsAre
        <3>5. vulns # NotReady /\ sbom # NotReady
            BY <3>3, <3>4
        <3> QED
            BY <3>2, <3>4, <3>5 DEF job, vulns, sbom
    <2> QED
        BY <2>1, <2>2, <2>3, <2>4, <2>5 DEF JobStates
<1> QED
    BY <1>1, AlwaysBehind, PTL

\* A pod that tells the outcome keeps to it, and no other pod ever tells another one.
THEOREM AnswersRemain == ReportSpec => AnswersStay
<1>1. TypeOK /\ Controlled /\ NeverAhead /\ NeverAhead' /\ TypeOK' /\ Controlled'
        /\ [ReportNext]_reportVars =>
        [\A s \in Scans, k \in Kinds, p \in Pods, q \in Pods :
            GetJob(s, p, {}) \in {"completed", "failed"} =>
                /\ GetJob(s, p, {})' = GetJob(s, p, {})
                /\ GetJob(s, q, {})' \in {"completed", "failed"} =>
                      GetReport(s, k, q, {})' = GetReport(s, k, p, {})]_reportVars
    <2> SUFFICES ASSUME TypeOK, Controlled, NeverAhead, NeverAhead', [ReportNext]_reportVars,
                        NEW s \in Scans, NEW k \in Kinds, NEW p \in Pods, NEW q \in Pods,
                        GetJob(s, p, {}) \in {"completed", "failed"}
                 PROVE  /\ GetJob(s, p, {})' = GetJob(s, p, {})
                        /\ GetJob(s, q, {})' \in {"completed", "failed"} =>
                              GetReport(s, k, q, {})' = GetReport(s, k, p, {})
        OBVIOUS
    <2>1. GetJob(s, p, {}) = status[s] /\ status[s] \in {"completed", "failed"}
        BY PodsKnow
    <2>2. UNCHANGED <<status[s], artifacts[s], found[s]>>
        <3>1. [Next]_vars
            <4>1. ASSUME NEW t \in Scans, Publish(t) PROVE UNCHANGED vars
                BY <4>1 DEF Publish
            <4> QED
                BY <4>1 DEF ReportNext, reportVars
        <3> QED
            BY <2>1, <3>1, Settled
    <2>3. onDisk[s] \in {"completed", "failed"} => onDisk'[s] = onDisk[s]
        <3>1. CASE \E t \in Scans : Publish(t)
            BY <3>1, PublishKeeps
        <3>2. CASE UNCHANGED onDisk
            BY <3>2
        <3> QED
            BY <3>1, <3>2 DEF ReportNext, reportVars
    <2>4. /\ GetJob(s, "owner", {}) = status[s] /\ GetJob(s, "other", {}) = onDisk[s]
          /\ GetJob(s, "owner", {})' = status'[s] /\ GetJob(s, "other", {})' = onDisk'[s]
        BY DEF GetJob
    <2>5. p \in {"owner", "other"} /\ q \in {"owner", "other"}
        BY DEF Pods
    <2>6. GetJob(s, p, {})' = GetJob(s, p, {})
        BY <2>1, <2>2, <2>3, <2>4, <2>5
    <2>7. ASSUME GetJob(s, q, {})' \in {"completed", "failed"}
          PROVE  GetReport(s, k, q, {})' = GetReport(s, k, p, {})
        <3>1. GetJob(s, q, {})' = status[s]
            BY <2>2, <2>4, <2>5, <2>7 DEF NeverAhead
        <3>2. \A f \in Files : ReadFile(s, f, {})' = ReadFile(s, f, {})
            BY <2>2 DEF ReadFile
        <3>3. /\ SBOMReport(s, {})' = SBOMReport(s, {})
              /\ VulnerabilityReport(s, {})' = VulnerabilityReport(s, {})
            BY <2>2, <3>2 DEF SBOMReport, VulnerabilityReport
        <3> QED
            BY <2>1, <3>1, <3>3 DEF GetReport
    <2> QED
        BY <2>6, <2>7
<1> QED
    BY <1>1, AlwaysBehind, PTL DEF ReportSpec, AnswersStay

-----------------------------------------------------------------------------
(* Induction, for a set of numbers.                                        *)

LEMMA Least ==
    ASSUME NEW T \in SUBSET Nat, T # {}
    PROVE  \E x \in T : \A y \in T : x <= y
<1> DEFINE R == {ss \in Nat \X Nat : ss[1] < ss[2]}
<1>1. IsWellFoundedOn(R, Nat)
    BY NatLessThanWellFounded, Zenon DEF OpToRel
<1>2. \A x, y \in Nat : x < y => <<x, y>> \in R
    OBVIOUS
<1> HIDE DEF R
<1>3. PICK x \in T : \A y \in T : ~ (<<y, x>> \in R)
    BY <1>1, WFMin, Zenon
<1>4. ASSUME NEW y \in T PROVE x <= y
    <2>1. x \in Nat /\ y \in Nat /\ <<y, x>> \notin R
        BY <1>3
    <2>2. ~ (y < x)
        BY <1>2, <2>1
    <2> QED
        BY <2>1, <2>2
<1> QED
    BY <1>4

LEMMA AllOf ==
    ASSUME NEW T \in SUBSET Nat, 0 \in T, \A n \in T : n + 1 \in T
    PROVE  T = Nat
<1>1. SUFFICES ASSUME Nat \ T # {} PROVE FALSE
    OBVIOUS
<1>2. PICK x \in Nat \ T : \A y \in Nat \ T : x <= y
    BY <1>1, Least
<1>3. x # 0 /\ x - 1 \in Nat
    BY <1>2
<1>4. x - 1 \in T
    BY <1>2, <1>3
<1> QED
    BY <1>2, <1>4

-----------------------------------------------------------------------------
(* Sequences of sequences.                                                 *)

\* The recursion of FlattenSeq has a solution.
LEMMA FlattenSteps ==
    ASSUME NEW V, NEW seqs \in Seq(Seq(V))
    PROVE  \E f : /\ FlattenSeq(seqs) = f[Len(seqs)] /\ f[0] = <<>>
                  /\ \A n \in 0..(Len(seqs) - 1) : f[n + 1] = f[n] \o seqs[n + 1]
<1> DEFINE Nth(f, n) == IF n = 1 THEN seqs[n] ELSE f[n - 1] \o seqs[n]
           Is(f, m)  == f = [n \in 1..m |-> Nth(f, n)]
           T         == {m \in Nat : \E f : Is(f, m)}
           len       == Len(seqs)
<1>1. len \in Nat /\ \A n \in 1..len : seqs[n] \in Seq(V)
    OBVIOUS
<1>2. CASE len = 0
    <2> DEFINE f == [n \in 0..0 |-> <<>>]
    <2>1. FlattenSeq(seqs) = seqs /\ seqs = <<>>
        BY <1>2 DEF FlattenSeq
    <2>2. f[0] = <<>> /\ FlattenSeq(seqs) = f[len]
        BY <1>2, <2>1
    <2>3. \A n \in 0..(len - 1) : f[n + 1] = f[n] \o seqs[n + 1]
        BY <1>2
    <2> HIDE DEF f
    <2> QED
        BY <2>2, <2>3
<1>3. CASE len # 0
    <2>1. 0 \in T
        <3> DEFINE g == [n \in 1..0 |-> <<>>]
        <3>1. Is(g, 0)
            OBVIOUS
        <3> QED
            BY <3>1
    <2>2. ASSUME NEW m \in T PROVE m + 1 \in T
        <3>1. PICK f : Is(f, m)
            BY <2>2
        <3> DEFINE g == [n \in 1..(m + 1) |-> Nth(f, n)]
        <3>2. ASSUME NEW n \in 1..m PROVE f[n] = g[n]
            <4>1. g[n] = Nth(f, n)
                BY <2>2
            <4>2. f[n] = Nth(f, n)
                BY <3>1
            <4> QED
                BY <4>1, <4>2
        <3>3. \A n \in 1..(m + 1) : g[n] = Nth(g, n)
            <4> TAKE n \in 1..(m + 1)
            <4>1. n # 1 => n - 1 \in 1..m
                BY <2>2
            <4>2. n # 1 => f[n - 1] = g[n - 1]
                BY <3>2, <4>1
            <4>3. g[n] = Nth(f, n)
                OBVIOUS
            <4> HIDE DEF g
            <4> QED
                BY <4>2, <4>3
        <3>4. Is(g, m + 1)
            <4>1. g = [n \in 1..(m + 1) |-> g[n]]
                OBVIOUS
            <4> HIDE DEF g
            <4> QED
                BY <3>3, <4>1
        <3>5. m + 1 \in Nat
            BY <2>2
        <3> HIDE DEF Is, g
        <3> QED
            BY <3>4, <3>5
    <2>3. len \in T
        <3>1. T \subseteq Nat
            OBVIOUS
        <3> HIDE DEF T
        <3> QED
            BY <1>1, <2>1, <2>2, <3>1, AllOf
    <2> DEFINE g == CHOOSE g : Is(g, len)
    <2>4. Is(g, len)
        <3>1. \E f : Is(f, len)
            BY <2>3
        <3> HIDE DEF Is
        <3> QED
            BY <3>1
    <2>5. FlattenSeq(seqs) = g[len]
        BY <1>3, Zenon DEF FlattenSeq
    <2> HIDE DEF g
    <2>6. \A n \in 1..len : g[n] = Nth(g, n)
        BY <2>4
    <2> DEFINE f == [n \in 0..len |-> IF n = 0 THEN <<>> ELSE g[n]]
    <2>7. FlattenSeq(seqs) = f[len] /\ f[0] = <<>>
        BY <1>1, <1>3, <2>5
    <2>8. ASSUME NEW n \in 0..(len - 1) PROVE f[n + 1] = f[n] \o seqs[n + 1]
        <3>1. n + 1 \in 1..len /\ (n + 1) - 1 = n /\ n + 1 \in 0..len /\ n \in 0..len /\ n + 1 # 0
            BY <1>1, <2>8
        <3>2. f[n + 1] = Nth(g, n + 1)
            BY <2>6, <3>1
        <3>3. CASE n = 0
            <4>1. f[n] = <<>> /\ f[n + 1] = seqs[n + 1]
                BY <1>1, <3>1, <3>2, <3>3
            <4>2. seqs[n + 1] \in Seq(V)
                BY <1>1, <3>1
            <4> HIDE DEF f
            <4> QED
                BY <4>1, <4>2
        <3>4. CASE n # 0
            <4>1. f[n] = g[n] /\ n + 1 # 1
                BY <3>1, <3>4
            <4> HIDE DEF f
            <4> QED
                BY <3>1, <3>2, <4>1
        <3> QED
            BY <3>3, <3>4
    <2> HIDE DEF f
    <2> QED
        BY <2>7, <2>8
<1> QED
    BY <1>2, <1>3

\* The recursion of a fold with AddName has a solution.
LEMMA NamesSteps ==
    ASSUME NEW q, NEW len \in Nat, DOMAIN q = 1..len
    PROVE  \E f : /\ FoldLeft(AddName, <<>>, q) = f[len] /\ f[0] = <<>>
                  /\ \A n \in 0..(len - 1) : f[n + 1] = AddName(f[n], q[n + 1])
<1> DEFINE Of(g, s) == IF s = {} THEN <<>> ELSE AddName(g[s \ {Max(s)}], q[Max(s)])
           Is(g, m) == g = [s \in SUBSET (1..m) |-> Of(g, s)]
           T        == {m \in Nat : \E g : Is(g, m)}
<1>1. 0 \in T
    <2> DEFINE g == [s \in SUBSET (1..0) |-> <<>>]
    <2>1. Is(g, 0)
        <3>1. 1..0 = {}
            OBVIOUS
        <3> QED
            BY <3>1
    <2> QED
        BY <2>1
<1>2. ASSUME NEW m \in T PROVE m + 1 \in T
    <2>1. PICK g : Is(g, m)
        BY <1>2
    <2> DEFINE h == [s \in SUBSET (1..(m + 1)) |->
                        IF m + 1 \in s THEN AddName(g[s \ {m + 1}], q[m + 1]) ELSE g[s]]
    <2>2. m \in Nat /\ m + 1 \in Nat /\ 1..m \subseteq 1..(m + 1) /\ m + 1 \notin 1..m
        BY <1>2
    <2>3. ASSUME NEW s \in SUBSET (1..m) PROVE h[s] = g[s]
        BY <2>2, <2>3
    <2>4. ASSUME NEW s \in SUBSET (1..(m + 1)) PROVE h[s] = Of(h, s)
        <3>1. CASE m + 1 \in s
            <4>1. Max(s) = m + 1
                <5>1. m + 1 \in s /\ \A y \in s : m + 1 >= y
                    BY <2>2, <2>4, <3>1
                <5>2. \A x \in s : x \in Int
                    BY <2>4
                <5>3. \A x \in s : (\A y \in s : x >= y) => x = m + 1
                    BY <2>2, <5>1, <5>2
                <5> QED
                    BY <5>1, <5>3 DEF Max
            <4>2. s \ {m + 1} \in SUBSET (1..m)
                BY <2>2, <2>4
            <4>3. h[s \ {m + 1}] = g[s \ {m + 1}]
                BY <2>3, <4>2
            <4>4. h[s] = AddName(g[s \ {m + 1}], q[m + 1])
                BY <2>4, <3>1
            <4> HIDE DEF h
            <4> QED
                BY <3>1, <4>1, <4>3, <4>4
        <3>2. CASE m + 1 \notin s
            <4>1. s \in SUBSET (1..m) /\ s \ {Max(s)} \in SUBSET (1..m)
                <5>1. \A i \in 1..(m + 1) : i # m + 1 => i \in 1..m
                    BY <2>2
                <5>2. \A i \in s : i \in 1..m
                    BY <2>4, <3>2, <5>1
                <5> QED
                    BY <5>2
            <4>2. h[s] = g[s] /\ h[s \ {Max(s)}] = g[s \ {Max(s)}]
                BY <2>3, <4>1
            <4>3. g[s] = Of(g, s)
                BY <2>1, <4>1
            <4> HIDE DEF h
            <4> QED
                BY <4>2, <4>3
        <3> QED
            BY <3>1, <3>2
    <2>5. Is(h, m + 1)
        <3>1. h = [s \in SUBSET (1..(m + 1)) |-> h[s]]
            OBVIOUS
        <3> HIDE DEF h
        <3>2. \A s \in SUBSET (1..(m + 1)) : h[s] = Of(h, s)
            BY <2>4
        <3> HIDE DEF Of
        <3> QED
            BY <3>1, <3>2
    <2> HIDE DEF Is, h
    <2> QED
        BY <2>2, <2>5
<1>3. len \in T
    <2>1. T \subseteq Nat
        OBVIOUS
    <2> HIDE DEF T
    <2> QED
        BY <1>1, <1>2, <2>1, AllOf
<1> DEFINE g == CHOOSE g : g = [s \in SUBSET (DOMAIN q) |-> Of(g, s)]
<1>4. Is(g, len)
    <2>1. \E h : h = [s \in SUBSET (DOMAIN q) |-> Of(h, s)]
        BY <1>3
    <2> HIDE DEF Of
    <2>2. g = [s \in SUBSET (DOMAIN q) |-> Of(g, s)]
        BY <2>1
    <2> HIDE DEF g
    <2> QED
        BY <2>2
<1>5. FoldLeft(AddName, <<>>, q) = g[DOMAIN q]
    BY Zenon DEF FoldLeft, MapThenFoldSet
<1> HIDE DEF g
<1>6. \A s \in SUBSET (1..len) : g[s] = Of(g, s)
    BY <1>4
<1> DEFINE f == [n \in 0..len |-> g[1..n]]
<1>7. FoldLeft(AddName, <<>>, q) = f[len]
    BY <1>5
<1>8. f[0] = <<>>
    <2>1. 1..0 = {} /\ 1..0 \in SUBSET (1..len)
        OBVIOUS
    <2>2. g[1..0] = <<>>
        BY <1>6, <2>1
    <2> QED
        BY <2>2
<1>9. ASSUME NEW n \in 0..(len - 1) PROVE f[n + 1] = AddName(f[n], q[n + 1])
    <2>1. /\ 1..(n + 1) \in SUBSET (1..len) /\ 1..(n + 1) # {}
          /\ (1..(n + 1)) \ {n + 1} = 1..n /\ n + 1 \in 0..len /\ n \in 0..len
        <3>1. /\ n \in Int /\ n >= 0 /\ n + 1 <= len /\ n + 1 \in 0..len /\ n \in 0..len
              /\ n + 1 \in 1..(n + 1)
            BY <1>9
        <3>2. \A i : i \in 1..(n + 1) => i \in 1..len
            BY <3>1
        <3>3. \A i : i \in (1..(n + 1)) \ {n + 1} <=> i \in 1..n
            BY <3>1
        <3>4. (1..(n + 1)) \ {n + 1} = 1..n
            BY <3>3, Zenon
        <3> QED
            BY <3>1, <3>2, <3>4
    <2>2. Max(1..(n + 1)) = n + 1
        <3>1. n + 1 \in 1..(n + 1) /\ \A y \in 1..(n + 1) : n + 1 >= y
            BY <1>9
        <3>2. \A x \in 1..(n + 1) : (\A y \in 1..(n + 1) : x >= y) => x = n + 1
            BY <1>9, <3>1
        <3> QED
            BY <3>1, <3>2 DEF Max
    <2>3. g[1..(n + 1)] = AddName(g[1..n], q[n + 1])
        BY <1>6, <2>1, <2>2
    <2> QED
        BY <2>1, <2>3
<1> HIDE DEF f
<1> QED
    BY <1>7, <1>8, <1>9

\* A name is in the sequence once.
Once(names) == \A i, j \in DOMAIN names : names[i] = names[j] => i = j

\* "", apart because the SMT backend cannot name it.
Empty == ""

LEMMA AddNameIs ==
    \A names, name : AddName(names, name) =
        IF name = Empty \/ name \in ToSet(names) THEN names ELSE Append(names, name)
BY Zenon DEF AddName, Empty

LEMMA AddOne ==
    ASSUME NEW V, Empty \notin V, NEW names \in Seq(V), Once(names), NEW name, name # Empty => name \in V
    PROVE  /\ AddName(names, name) \in Seq(V) /\ Once(AddName(names, name))
           /\ ToSet(AddName(names, name)) = ToSet(names) \union ({name} \ {Empty})
<1>1. CASE name = Empty \/ name \in ToSet(names)
    <2>1. AddName(names, name) = names
        BY <1>1, AddNameIs
    <2>2. ToSet(names) \subseteq V
        BY DEF ToSet
    <2>3. ToSet(names) = ToSet(names) \union ({name} \ {Empty})
        BY <1>1, <2>2
    <2> QED
        BY <2>1, <2>3
<1>2. CASE name # Empty /\ name \notin ToSet(names)
    <2> DEFINE longer == Append(names, name)
               len    == Len(names)
    <2>1. AddName(names, name) = longer
        BY <1>2, AddNameIs
    <2>2. longer \in Seq(V) /\ DOMAIN longer = 1..(len + 1) /\ DOMAIN names = 1..len
        BY <1>2
    <2>3. longer[len + 1] = name /\ \A i \in 1..len : longer[i] = names[i]
        OBVIOUS
    <2>4. \A i \in 1..(len + 1) : i # len + 1 => i \in 1..len
        OBVIOUS
    <2>5. \A i \in 1..len : i \in 1..(len + 1) /\ len + 1 \in 1..(len + 1)
        OBVIOUS
    <2>6. len + 1 \in 1..(len + 1)
        OBVIOUS
    <2>7. \A i \in 1..len : names[i] # name
        BY <1>2, <2>2 DEF ToSet
    <2> HIDE DEF longer, len
    <2>8. Once(longer)
        <3>1. SUFFICES ASSUME NEW i \in 1..(len + 1), NEW j \in 1..(len + 1), longer[i] = longer[j]
                       PROVE  i = j
            BY <2>2 DEF Once
        <3>2. CASE i = len + 1 \/ j = len + 1
            BY <2>3, <2>4, <2>7, <3>1, <3>2
        <3>3. CASE i # len + 1 /\ j # len + 1
            <4>1. i \in 1..len /\ j \in 1..len
                BY <2>4, <3>3
            <4> QED
                BY <2>2, <2>3, <3>1, <4>1 DEF Once
        <3> QED
            BY <3>2, <3>3
    <2>9. ToSet(longer) = ToSet(names) \union {name}
        BY <2>2, <2>3, <2>4, <2>5, <2>6 DEF ToSet
    <2> QED
        BY <1>2, <2>1, <2>2, <2>8, <2>9
<1> QED
    BY <1>1, <1>2

\* Folding AddName keeps each name but Empty once.
LEMMA NamesOnce ==
    ASSUME NEW V, Empty \notin V, NEW q \in Seq(V \union {Empty})
    PROVE  LET names == FoldLeft(AddName, <<>>, q)
           IN  names \in Seq(V) /\ Once(names) /\ ToSet(names) = ToSet(q) \ {Empty}
<1> DEFINE len == Len(q)
<1>1. len \in Nat /\ DOMAIN q = 1..len /\ \A i \in 1..len : q[i] # Empty => q[i] \in V
    OBVIOUS
<1>2. PICK f : /\ FoldLeft(AddName, <<>>, q) = f[len] /\ f[0] = <<>>
               /\ \A n \in 0..(len - 1) : f[n + 1] = AddName(f[n], q[n + 1])
    BY <1>1, NamesSteps
<1> DEFINE First(n) == {q[i] : i \in 1..n}
           Good(n)  == f[n] \in Seq(V) /\ Once(f[n]) /\ ToSet(f[n]) = First(n) \ {Empty}
           T        == {n \in Nat : n <= len => Good(n)}
<1>3. 0 \in T
    <2>1. First(0) = {}
        OBVIOUS
    <2>2. Once(<<>>) /\ ToSet(<<>>) = {}
        BY DEF Once, ToSet
    <2>3. 0 \in Nat /\ <<>> \in Seq(V)
        OBVIOUS
    <2> HIDE DEF First
    <2>4. Good(0)
        BY <1>2, <2>1, <2>2, <2>3
    <2> HIDE DEF Good
    <2> QED
        BY <2>3, <2>4
<1>4. ASSUME NEW n \in T PROVE n + 1 \in T
    <2>1. n \in Nat /\ n + 1 \in Nat
        BY <1>4
    <2>2. CASE n + 1 <= len
        <3>1. n <= len /\ n \in 0..(len - 1) /\ n + 1 \in 1..len
            BY <1>1, <2>1, <2>2
        <3>2. Good(n)
            BY <1>4, <3>1
        <3>3. First(n + 1) = First(n) \union {q[n + 1]}
            <4>1. \A i : i \in 1..(n + 1) <=> i \in 1..n \/ i = n + 1
                BY <2>1
            <4> QED
                BY <4>1
        <3>4. (q[n + 1] # Empty => q[n + 1] \in V) /\ f[n + 1] = AddName(f[n], q[n + 1])
            BY <1>1, <1>2, <3>1
        <3> HIDE DEF First
        <3>5. /\ f[n + 1] \in Seq(V) /\ Once(f[n + 1])
              /\ ToSet(f[n + 1]) = ToSet(f[n]) \union ({q[n + 1]} \ {Empty})
            BY <3>2, <3>4, AddOne
        <3>6. ToSet(f[n + 1]) = First(n + 1) \ {Empty}
            BY <3>2, <3>3, <3>5
        <3> HIDE DEF len
        <3> QED
            BY <2>1, <3>5, <3>6
    <2>3. CASE ~ (n + 1 <= len)
        BY <2>1, <2>3
    <2> QED
        BY <2>2, <2>3
<1>5. T = Nat
    <2>1. T \in SUBSET Nat
        OBVIOUS
    <2> HIDE DEF T
    <2> QED
        BY <1>3, <1>4, <2>1, AllOf
<1>6. Good(len)
    <2>1. len \in Nat /\ len <= len
        BY <1>1
    <2> HIDE DEF len, Good
    <2> QED
        BY <1>5, <2>1
<1>7. First(len) = ToSet(q)
    BY <1>1 DEF ToSet
<1> HIDE DEF First, len
<1> QED
    BY <1>2, <1>6, <1>7

LEMMA JoinedSet ==
    ASSUME NEW V, NEW a \in Seq(V), NEW b \in Seq(V)
    PROVE  ToSet(a \o b) = ToSet(a) \union ToSet(b)
<1>1. /\ DOMAIN (a \o b) = 1..(Len(a) + Len(b)) /\ DOMAIN a = 1..Len(a) /\ DOMAIN b = 1..Len(b)
      /\ Len(a) \in Nat /\ Len(b) \in Nat
    OBVIOUS
<1>2. \A i \in 1..Len(a) : i \in DOMAIN (a \o b) /\ (a \o b)[i] = a[i]
    BY <1>1
<1>3. \A i \in 1..Len(b) : Len(a) + i \in DOMAIN (a \o b) /\ (a \o b)[Len(a) + i] = b[i]
    BY <1>1
<1>4. ASSUME NEW i \in DOMAIN (a \o b), i \notin 1..Len(a)
      PROVE  i - Len(a) \in 1..Len(b) /\ (a \o b)[i] = b[i - Len(a)]
    <2>1. i \in Int /\ i > Len(a) /\ i <= Len(a) + Len(b)
        BY <1>1, <1>4
    <2> QED
        BY <1>1, <2>1
<1> DEFINE both == a \o b
<1>5. ASSUME NEW i \in DOMAIN both PROVE both[i] \in ToSet(a) \union ToSet(b)
    BY <1>1, <1>2, <1>4 DEF ToSet
<1>6. ASSUME NEW i \in DOMAIN a PROVE a[i] \in ToSet(both)
    BY <1>1, <1>2 DEF ToSet
<1>7. ASSUME NEW i \in DOMAIN b PROVE b[i] \in ToSet(both)
    BY <1>1, <1>3 DEF ToSet
<1> HIDE DEF both
<1>8. ToSet(both) = ToSet(a) \union ToSet(b)
    BY <1>5, <1>6, <1>7 DEF ToSet
<1> QED
    BY <1>8 DEF both

\* What is in a sequence of sequences.
LEMMA FlattenElements ==
    ASSUME NEW V, NEW seqs \in Seq(Seq(V))
    PROVE  /\ FlattenSeq(seqs) \in Seq(V)
           /\ ToSet(FlattenSeq(seqs)) = UNION {ToSet(seqs[i]) : i \in DOMAIN seqs}
<1> DEFINE len == Len(seqs)
<1>1. len \in Nat /\ DOMAIN seqs = 1..len /\ \A i \in 1..len : seqs[i] \in Seq(V)
    OBVIOUS
<1>2. PICK f : /\ FlattenSeq(seqs) = f[len] /\ f[0] = <<>>
               /\ \A n \in 0..(len - 1) : f[n + 1] = f[n] \o seqs[n + 1]
    BY <1>1, FlattenSteps
<1> DEFINE First(n) == UNION {ToSet(seqs[i]) : i \in 1..n}
           Good(n)  == f[n] \in Seq(V) /\ ToSet(f[n]) = First(n)
           T        == {n \in Nat : n <= len => Good(n)}
<1>3. 0 \in T
    <2>1. First(0) = {}
        OBVIOUS
    <2>2. ToSet(<<>>) = {}
        BY DEF ToSet
    <2>3. 0 \in Nat /\ <<>> \in Seq(V)
        OBVIOUS
    <2> HIDE DEF First
    <2>4. Good(0)
        BY <1>2, <2>1, <2>2, <2>3
    <2> HIDE DEF Good
    <2> QED
        BY <2>3, <2>4
<1>4. ASSUME NEW n \in T PROVE n + 1 \in T
    <2>1. n \in Nat /\ n + 1 \in Nat
        BY <1>4
    <2>2. CASE n + 1 <= len
        <3>1. n <= len /\ n \in 0..(len - 1) /\ n + 1 \in 1..len
            BY <1>1, <2>1, <2>2
        <3>2. Good(n)
            BY <1>4, <3>1
        <3>3. First(n + 1) = First(n) \union ToSet(seqs[n + 1])
            <4>1. \A i : i \in 1..(n + 1) <=> i \in 1..n \/ i = n + 1
                BY <2>1
            <4> QED
                BY <4>1
        <3>4. seqs[n + 1] \in Seq(V) /\ f[n + 1] = f[n] \o seqs[n + 1]
            BY <1>1, <1>2, <3>1
        <3> HIDE DEF First
        <3>5. f[n + 1] \in Seq(V)
            BY <3>2, <3>4
        <3>6. ToSet(f[n] \o seqs[n + 1]) = ToSet(f[n]) \union ToSet(seqs[n + 1])
            BY <3>2, <3>4, JoinedSet
        <3>7. ToSet(f[n + 1]) = First(n + 1)
            BY <3>2, <3>3, <3>4, <3>6
        <3> HIDE DEF len
        <3> QED
            BY <2>1, <3>5, <3>7
    <2>3. CASE ~ (n + 1 <= len)
        BY <2>1, <2>3
    <2> QED
        BY <2>2, <2>3
<1>5. T = Nat
    <2>1. T \in SUBSET Nat
        OBVIOUS
    <2> HIDE DEF T
    <2> QED
        BY <1>3, <1>4, <2>1, AllOf
<1>6. Good(len)
    <2>1. len \in Nat /\ len <= len
        BY <1>1
    <2> HIDE DEF len, Good
    <2> QED
        BY <1>5, <2>1
<1>7. First(len) = UNION {ToSet(seqs[i]) : i \in DOMAIN seqs}
    BY <1>1
<1> HIDE DEF First, len
<1>8. FlattenSeq(seqs) = f[len]
    BY <1>2, Zenon
<1>9. f[len] \in Seq(V) /\ ToSet(f[len]) = First(len)
    BY <1>6
<1> HIDE DEF Good
<1> HIDE DEF Good
<1> QED
    BY <1>7, <1>8, <1>9, Zenon

Hits(q, name) == {k \in DOMAIN q : q[k] = name}

\* A sequence that holds each name once adds one to the count of a name it holds.
LEMMA HitsAdd ==
    ASSUME NEW V, NEW a \in Seq(V), NEW b \in Seq(V), Once(b), NEW name,
           IsFiniteSet(Hits(a, name))
    PROVE  /\ IsFiniteSet(Hits(a \o b, name))
           /\ Cardinality(Hits(a \o b, name)) =
                  Cardinality(Hits(a, name)) + (IF name \in ToSet(b) THEN 1 ELSE 0)
<1> DEFINE both == a \o b
<1>1. /\ DOMAIN both = 1..(Len(a) + Len(b)) /\ DOMAIN a = 1..Len(a) /\ DOMAIN b = 1..Len(b)
      /\ Len(a) \in Nat /\ Len(b) \in Nat
    OBVIOUS
<1>2. \A i \in 1..Len(a) : i \in DOMAIN both /\ both[i] = a[i]
    BY <1>1
<1>3. \A i \in 1..Len(b) : Len(a) + i \in DOMAIN both /\ both[Len(a) + i] = b[i]
    BY <1>1
<1>4. ASSUME NEW i \in DOMAIN both, i \notin 1..Len(a)
      PROVE  i - Len(a) \in 1..Len(b) /\ both[i] = b[i - Len(a)]
    <2>1. i \in Int /\ i > Len(a) /\ i <= Len(a) + Len(b)
        BY <1>1, <1>4
    <2> QED
        BY <1>1, <2>1
<1> HIDE DEF both
<1>5. CASE name \notin ToSet(b)
    <2>1. \A i \in DOMAIN b : b[i] # name
        BY <1>5 DEF ToSet
    <2>2. \A i : i \in Hits(both, name) <=> i \in Hits(a, name)
        BY <1>1, <1>2, <1>4, <2>1 DEF Hits
    <2>3. Hits(both, name) = Hits(a, name)
        BY <2>2, Zenon
    <2>4. Cardinality(Hits(a, name)) \in Nat
        BY FS_CardinalityType
    <2> QED
        BY <1>5, <2>3, <2>4 DEF both
<1>6. CASE name \in ToSet(b)
    <2>1. PICK j \in DOMAIN b : b[j] = name
        BY <1>6 DEF ToSet
    <2>2. \A i \in DOMAIN b : b[i] = name => i = j
        BY <2>1 DEF Once
    <2>3. Len(a) + j \notin DOMAIN a /\ j \in Int /\ Len(a) \in Int
        BY <1>1
    <2>4. ASSUME NEW i PROVE i \in Hits(both, name) <=> i \in Hits(a, name) \/ i = Len(a) + j
        <3>1. CASE i \in 1..Len(a)
            BY <1>1, <1>2, <2>3, <3>1 DEF Hits
        <3>2. CASE i \notin 1..Len(a)
            <4>1. i \notin Hits(a, name)
                BY <1>1, <3>2 DEF Hits
            <4>2. i = Len(a) + j => i \in Hits(both, name)
                BY <1>1, <1>3, <2>1 DEF Hits
            <4>3. i \in Hits(both, name) => i \in DOMAIN both /\ both[i] = name
                BY DEF Hits
            <4>4. i \in DOMAIN both => i - Len(a) \in DOMAIN b /\ both[i] = b[i - Len(a)] /\ i \in Int
                BY <1>1, <1>4, <3>2
            <4>5. i \in Hits(both, name) => i - Len(a) = j /\ i \in Int
                BY <2>2, <4>3, <4>4
            <4>6. i \in Hits(both, name) => i = Len(a) + j
                BY <2>3, <4>5
            <4> QED
                BY <4>1, <4>2, <4>6
        <3> QED
            BY <3>1, <3>2
    <2>5. Hits(both, name) = Hits(a, name) \union {Len(a) + j}
        BY <2>4
    <2>6. Len(a) + j \notin Hits(a, name)
        BY <2>3 DEF Hits
    <2>7. /\ IsFiniteSet(Hits(a, name) \union {Len(a) + j})
          /\ Cardinality(Hits(a, name) \union {Len(a) + j}) = Cardinality(Hits(a, name)) + 1
        BY <2>6, FS_AddElement
    <2> QED
        BY <1>6, <2>5, <2>7 DEF both
<1> QED
    BY <1>5, <1>6

\* Of sequences that hold each name once, as many hold a name as all together.
LEMMA FlattenCount ==
    ASSUME NEW V, NEW seqs \in Seq(Seq(V)), \A i \in DOMAIN seqs : Once(seqs[i]), NEW name
    PROVE  Cardinality(Hits(FlattenSeq(seqs), name)) =
               Cardinality({i \in DOMAIN seqs : name \in ToSet(seqs[i])})
<1> DEFINE len == Len(seqs)
<1>1. /\ len \in Nat /\ DOMAIN seqs = 1..len
      /\ \A i \in 1..len : seqs[i] \in Seq(V) /\ Once(seqs[i])
    OBVIOUS
<1>2. PICK f : /\ FlattenSeq(seqs) = f[len] /\ f[0] = <<>>
               /\ \A n \in 0..(len - 1) : f[n + 1] = f[n] \o seqs[n + 1]
    BY <1>1, FlattenSteps
<1> DEFINE Having(n) == {i \in 1..n : name \in ToSet(seqs[i])}
           Good(n)   == /\ f[n] \in Seq(V) /\ IsFiniteSet(Hits(f[n], name))
                        /\ IsFiniteSet(Having(n))
                        /\ Cardinality(Hits(f[n], name)) = Cardinality(Having(n))
           T         == {n \in Nat : n <= len => Good(n)}
<1>3. 0 \in T
    <2>1. Having(0) = {}
        OBVIOUS
    <2>2. Hits(<<>>, name) = {}
        BY DEF Hits
    <2>3. 0 \in Nat /\ <<>> \in Seq(V)
        OBVIOUS
    <2>4. IsFiniteSet({})
        BY FS_EmptySet
    <2> HIDE DEF Having
    <2>5. Good(0)
        BY <1>2, <2>1, <2>2, <2>3, <2>4
    <2> HIDE DEF Good
    <2> QED
        BY <2>3, <2>5
<1>4. ASSUME NEW n \in T PROVE n + 1 \in T
    <2>1. n \in Nat /\ n + 1 \in Nat
        BY <1>4
    <2>2. CASE n + 1 <= len
        <3>1. n <= len /\ n \in 0..(len - 1) /\ n + 1 \in 1..len
            BY <1>1, <2>1, <2>2
        <3>2. Good(n)
            BY <1>4, <3>1
        <3>3. Having(n + 1) = Having(n) \union (IF name \in ToSet(seqs[n + 1]) THEN {n + 1} ELSE {})
            <4>1. \A i : i \in 1..(n + 1) <=> i \in 1..n \/ i = n + 1
                BY <2>1
            <4> QED
                BY <4>1
        <3>4. n + 1 \notin Having(n)
            <4>1. n + 1 \notin 1..n
                BY <2>1
            <4> QED
                BY <4>1
        <3> HIDE DEF Having
        <3>5. /\ seqs[n + 1] \in Seq(V) /\ Once(seqs[n + 1])
              /\ f[n + 1] = f[n] \o seqs[n + 1]
            BY <1>1, <1>2, <3>1
        <3>6. f[n + 1] \in Seq(V)
            BY <3>2, <3>5
        <3>7. /\ IsFiniteSet(Hits(f[n] \o seqs[n + 1], name))
              /\ Cardinality(Hits(f[n] \o seqs[n + 1], name)) =
                     Cardinality(Hits(f[n], name)) + (IF name \in ToSet(seqs[n + 1]) THEN 1 ELSE 0)
            BY <3>2, <3>5, HitsAdd
        <3>8. /\ IsFiniteSet(Having(n + 1))
              /\ Cardinality(Having(n + 1)) =
                     Cardinality(Having(n)) + (IF name \in ToSet(seqs[n + 1]) THEN 1 ELSE 0)
            <4>1. CASE name \in ToSet(seqs[n + 1])
                <5>1. /\ IsFiniteSet(Having(n) \union {n + 1})
                      /\ Cardinality(Having(n) \union {n + 1}) = Cardinality(Having(n)) + 1
                    BY <3>2, <3>4, FS_AddElement
                <5> QED
                    BY <3>3, <4>1, <5>1
            <4>2. CASE name \notin ToSet(seqs[n + 1])
                <5>1. Having(n + 1) = Having(n)
                    BY <3>3, <4>2
                <5>2. Cardinality(Having(n)) \in Nat
                    BY <3>2, FS_CardinalityType
                <5> QED
                    BY <3>2, <4>2, <5>1, <5>2
            <4> QED
                BY <4>1, <4>2
        <3>9. Good(n + 1)
            BY <3>2, <3>5, <3>6, <3>7, <3>8
        <3> HIDE DEF len, Good
        <3> QED
            BY <2>1, <3>9
    <2>3. CASE ~ (n + 1 <= len)
        BY <2>1, <2>3
    <2> QED
        BY <2>2, <2>3
<1>5. T = Nat
    <2>1. T \in SUBSET Nat
        OBVIOUS
    <2> HIDE DEF T
    <2> QED
        BY <1>3, <1>4, <2>1, AllOf
<1>6. Good(len)
    <2>1. len \in Nat /\ len <= len
        BY <1>1
    <2> HIDE DEF len, Good
    <2> QED
        BY <1>5, <2>1
<1>7. Having(len) = {i \in DOMAIN seqs : name \in ToSet(seqs[i])}
    BY <1>1
<1> HIDE DEF Having, len
<1>8. FlattenSeq(seqs) = f[len]
    BY <1>2, Zenon
<1>9. Cardinality(Hits(f[len], name)) = Cardinality(Having(len))
    BY <1>6
<1> QED
    BY <1>7, <1>8, <1>9, Zenon

-----------------------------------------------------------------------------
(* The summaries.                                                          *)

LEMMA EmptyApart ==
    /\ Empty \notin {"critical", "Critical", "high", "High", "medium", "Medium", "low", "Low",
                     "negligible", "Negligible"}
    /\ \A m : SummarySeverity(m) = IF m.severity = Empty THEN "unknown" ELSE lower[m.severity]
<1>1. /\ "" # "critical" /\ "" # "Critical" /\ "" # "high" /\ "" # "High" /\ "" # "medium"
      /\ "" # "Medium" /\ "" # "low" /\ "" # "Low" /\ "" # "negligible" /\ "" # "Negligible"
    BY Zenon
<1>2. Empty \notin {"critical", "Critical", "high", "High", "medium", "Medium", "low", "Low",
                    "negligible", "Negligible"}
    BY <1>1, Zenon DEF Empty
<1>3. \A m : SummarySeverity(m) = IF m.severity = Empty THEN "unknown" ELSE lower[m.severity]
    BY Zenon DEF SummarySeverity, Empty
<1> QED
    BY <1>2, <1>3

\* The UI's severity of a match is Harbor's, with a small letter.
LEMMA SameSeverity ==
    ASSUME NEW m, m.severity \in DOMAIN lower \union {Empty}
    PROVE  /\ capitalize(m.severity) \in DOMAIN lower
           /\ SummarySeverity(m) = lower[capitalize(m.severity)]
<1>1. CASE m.severity = Empty
    BY <1>1, EmptyApart DEF capitalize, lower
<1>2. CASE m.severity \in DOMAIN lower /\ m.severity # Empty
    <2>1. capitalize(m.severity) = m.severity
        BY <1>2 DEF capitalize, lower
    <2> QED
        BY <1>2, <2>1, EmptyApart
<1> QED
    BY <1>1, <1>2

\* The report has one of its matches' severities, and the worst one.
LEMMA HighestIs ==
    ASSUME NEW matches, \A m \in matches : capitalize(m.severity) \in DOMAIN lower
    PROVE  /\ HighestSeverity(matches) \in ReportSeverities(matches)
           /\ \A other \in ReportSeverities(matches) :
                  sevOrder[other] <= sevOrder[HighestSeverity(matches)]
<1> DEFINE S        == ReportSeverities(matches)
           Worst(h) == \A other \in S : sevOrder[other] <= sevOrder[h]
<1>1. "Unknown" \in S
    BY DEF ReportSeverities
<1>2. \A sev \in S : sev \in DOMAIN lower
    BY DEF ReportSeverities, lower
<1>3. \A sev \in S : sev \in {"Critical", "High", "Medium", "Low", "Negligible", "Unknown"}
    BY <1>2 DEF lower
<1>4. /\ sevOrder["Critical"] = 5 /\ sevOrder["High"] = 4 /\ sevOrder["Medium"] = 3
      /\ sevOrder["Low"] = 2 /\ sevOrder["Negligible"] = 1 /\ sevOrder["Unknown"] = 0
    BY DEF sevOrder
<1> HIDE DEF S
<1>5. \E h \in S : Worst(h)
    <2>1. CASE "Critical" \in S
        BY <1>3, <1>4, <2>1
    <2>2. CASE "Critical" \notin S /\ "High" \in S
        BY <1>3, <1>4, <2>2
    <2>3. CASE "Critical" \notin S /\ "High" \notin S /\ "Medium" \in S
        BY <1>3, <1>4, <2>3
    <2>4. CASE "Critical" \notin S /\ "High" \notin S /\ "Medium" \notin S /\ "Low" \in S
        BY <1>3, <1>4, <2>4
    <2>5. CASE /\ "Critical" \notin S /\ "High" \notin S /\ "Medium" \notin S /\ "Low" \notin S
               /\ "Negligible" \in S
        BY <1>3, <1>4, <2>5
    <2>6. CASE /\ "Critical" \notin S /\ "High" \notin S /\ "Medium" \notin S /\ "Low" \notin S
               /\ "Negligible" \notin S
        BY <1>1, <1>3, <1>4, <2>6
    <2> QED
        BY <2>1, <2>2, <2>3, <2>4, <2>5, <2>6
<1>6. HighestSeverity(matches) = CHOOSE h \in S : Worst(h)
    BY Zenon DEF HighestSeverity, S
<1> HIDE DEF Worst
<1>7. HighestSeverity(matches) \in S /\ Worst(HighestSeverity(matches))
    BY <1>5, <1>6
<1> QED
    BY <1>7, Zenon DEF Worst, S

\* What SummariesAgree says of the vulnerabilities.
LEMMA SeveritiesAgree ==
    ASSUME NEW matches, \A m \in matches : m.severity \in DOMAIN lower \union {Empty}
    PROVE  LET sev    == HighestSeverity(matches)
               counts == BySeverity(matches)
           IN  \/ sev = "Unknown" /\ DOMAIN counts \subseteq {"unknown"}
               \/ /\ lower[sev] \in DOMAIN counts
                  /\ \A worse \in DOMAIN sevOrder :
                        sevOrder[worse] > sevOrder[sev] => lower[worse] \notin DOMAIN counts
<1> DEFINE sev     == HighestSeverity(matches)
           counted == DOMAIN BySeverity(matches)
<1>1. \A m \in matches : /\ capitalize(m.severity) \in DOMAIN lower
                         /\ SummarySeverity(m) = lower[capitalize(m.severity)]
    BY SameSeverity
<1>2. counted = {SummarySeverity(m) : m \in matches}
    BY DEF BySeverity
<1>3. sev \in ReportSeverities(matches)
    BY <1>1, HighestIs
<1>4. \A other \in ReportSeverities(matches) : sevOrder[other] <= sevOrder[sev]
    BY <1>1, HighestIs
<1> HIDE DEF sev, counted
<1>5. \A x \in counted : \E m \in matches : x = lower[capitalize(m.severity)]
    BY <1>1, <1>2
<1>6. \A m \in matches : capitalize(m.severity) \in ReportSeverities(matches)
    BY DEF ReportSeverities
<1>7. \A a, b \in DOMAIN lower : lower[a] = lower[b] => a = b
    BY DEF lower
<1>8. /\ \A a \in DOMAIN lower : sevOrder[a] \in Int /\ (sevOrder[a] <= 0 => a = "Unknown")
      /\ sevOrder["Unknown"] = 0 /\ lower["Unknown"] = "unknown"
      /\ DOMAIN sevOrder = DOMAIN lower
    BY DEF sevOrder, lower
<1>9. CASE sev = "Unknown"
    <2>1. \A m \in matches : capitalize(m.severity) = "Unknown"
        BY <1>1, <1>4, <1>6, <1>8, <1>9
    <2>2. \A x \in counted : x = "unknown"
        BY <1>5, <1>8, <2>1
    <2> QED
        BY <1>9, <2>2 DEF sev, counted
<1>10. CASE sev # "Unknown"
    <2>1. PICK m \in matches : capitalize(m.severity) = sev
        BY <1>3, <1>10 DEF ReportSeverities
    <2>2. lower[sev] \in counted /\ sev \in DOMAIN lower
        BY <1>1, <1>2, <2>1
    <2>3. ASSUME NEW worse \in DOMAIN sevOrder, sevOrder[worse] > sevOrder[sev],
                 lower[worse] \in counted
          PROVE  FALSE
        <3>1. PICK n \in matches : lower[worse] = lower[capitalize(n.severity)]
            BY <1>5, <2>3
        <3>2. worse = capitalize(n.severity)
            BY <1>1, <1>7, <1>8, <3>1
        <3>3. sevOrder[worse] <= sevOrder[sev]
            BY <1>4, <1>6, <3>2
        <3>4. sevOrder[worse] \in Int /\ sevOrder[sev] \in Int
            BY <1>8, <2>2
        <3> QED
            BY <2>3, <3>3, <3>4
    <2> QED
        BY <2>2, <2>3 DEF sev, counted
<1> QED
    BY <1>9, <1>10

\* extractLicenseNames gives each name of the licenses once, and no "".
LEMMA ExtractedOnce ==
    ASSUME NEW V, Empty \notin V, NEW licenses, NEW n \in Nat, DOMAIN licenses = 1..n,
           \A i \in 1..n : NamesIn(licenses[i]) \in Seq(V \union {Empty})
    PROVE  /\ extractLicenseNames(licenses) \in Seq(V) /\ Once(extractLicenseNames(licenses))
           /\ \A name \in V : name \in ToSet(extractLicenseNames(licenses)) <=>
                  \E i \in DOMAIN licenses : name \in ToSet(NamesIn(licenses[i]))
<1> DEFINE each  == [i \in DOMAIN licenses |-> NamesIn(licenses[i])]
           names == FlattenSeq(each)
<1>1. each \in Seq(Seq(V \union {Empty})) /\ DOMAIN each = 1..n
    OBVIOUS
<1>2. \A i \in 1..n : each[i] = NamesIn(licenses[i])
    OBVIOUS
<1>3. extractLicenseNames(licenses) = FoldLeft(AddName, <<>>, names)
    BY Zenon DEF extractLicenseNames
<1> HIDE DEF each
<1>4. /\ names \in Seq(V \union {Empty})
      /\ ToSet(names) = UNION {ToSet(each[i]) : i \in DOMAIN each}
    BY <1>1, FlattenElements
<1> HIDE DEF names
<1>5. /\ FoldLeft(AddName, <<>>, names) \in Seq(V) /\ Once(FoldLeft(AddName, <<>>, names))
      /\ ToSet(FoldLeft(AddName, <<>>, names)) = ToSet(names) \ {Empty}
    BY <1>4, NamesOnce
<1>6. \A name \in V : name \in ToSet(names) <=> \E i \in 1..n : name \in ToSet(NamesIn(licenses[i]))
    BY <1>1, <1>2, <1>4
<1> QED
    BY <1>3, <1>5, <1>6, Zenon

\* What SummariesAgree says of the licenses.
LEMMA CountsAgree ==
    ASSUME NEW L, NEW packages \in Seq(Seq(L)),
           \A l \in L : l.kind = "expression" => l.ids \in Seq(ToSet(l.ids))
    PROVE  LET counts == LicenseCounts(LicensedPackages(packages))
           IN  \A name \in DOMAIN counts :
                  counts[name] =
                      Cardinality({i \in DOMAIN packages :
                          \E j \in DOMAIN packages[i] : name \in ToSet(NamesIn(packages[i][j]))})
<1> DEFINE V == (UNION {ToSet(NamesIn(l)) : l \in L}) \ {Empty}
           Has(i, name) == \E j \in DOMAIN packages[i] : name \in ToSet(NamesIn(packages[i][j]))
           licensed == LicensedPackages(packages)
           len == Len(packages)
<1>1. /\ len \in Nat /\ DOMAIN packages = 1..len
      /\ \A i \in 1..len : packages[i] \in Seq(L)
    OBVIOUS
<1>2. ASSUME NEW l \in L PROVE NamesIn(l) \in Seq(V \union {Empty})
    <2> DEFINE q == NamesIn(l)
    <2>1. \A i \in DOMAIN q : q[i] \in V \union {Empty}
        BY <1>2 DEF ToSet
    <2> HIDE DEF V
    <2>2. CASE l.kind = "expression"
        <3>1. l.ids \in Seq(ToSet(l.ids))
            BY <1>2, <2>2
        <3>2. DOMAIN l.ids = 1..Len(l.ids) /\ Len(l.ids) \in Nat
            BY <3>1
        <3>3. q = [i \in 1..Len(l.ids) |-> l.ids[i].id]
            BY <2>2, <3>2 DEF NamesIn
        <3> DEFINE n == Len(l.ids)
        <3>4. DOMAIN q = 1..n /\ q = [i \in 1..n |-> q[i]] /\ n \in Nat
            BY <3>2, <3>3
        <3> HIDE DEF q, n
        <3> QED
            BY <2>1, <3>4 DEF q
    <2>3. CASE l.kind = "hash"
        <3>1. NamesIn(l) = <<>>
            BY <2>3 DEF NamesIn
        <3> QED
            BY <3>1
    <2>4. CASE l.kind # "expression" /\ l.kind # "hash"
        <3>1. q = <<l.text>>
            BY <2>4 DEF NamesIn
        <3>2. 1 \in DOMAIN q /\ q[1] = l.text
            BY <3>1
        <3> HIDE DEF q
        <3>3. l.text \in V \union {Empty}
            BY <2>1, <3>2
        <3> QED
            BY <3>1, <3>3 DEF q
    <2> QED
        BY <2>2, <2>3, <2>4
<1>3. Empty \notin V
    OBVIOUS
<1> HIDE DEF V
<1>4. ASSUME NEW i \in 1..len
      PROVE  /\ extractLicenseNames(packages[i]) \in Seq(V)
             /\ Once(extractLicenseNames(packages[i]))
             /\ \A name \in V : name \in ToSet(extractLicenseNames(packages[i])) <=> Has(i, name)
    <2>1. /\ Len(packages[i]) \in Nat /\ DOMAIN packages[i] = 1..Len(packages[i])
          /\ \A j \in 1..Len(packages[i]) : packages[i][j] \in L
        BY <1>1, <1>4
    <2>2. \A j \in 1..Len(packages[i]) : NamesIn(packages[i][j]) \in Seq(V \union {Empty})
        BY <1>2, <2>1
    <2> QED
        BY <1>3, <2>1, <2>2, ExtractedOnce
<1>5. /\ DOMAIN licensed = 1..len
      /\ \A i \in 1..len : licensed[i] = extractLicenseNames(packages[i])
    BY <1>1 DEF LicensedPackages
<1>6. licensed = [i \in 1..len |-> extractLicenseNames(packages[i])]
    BY <1>1 DEF LicensedPackages
<1>7. licensed \in Seq(Seq(V))
    BY <1>1, <1>4, <1>6
<1> HIDE DEF licensed, Has
<1>8. \A i \in DOMAIN licensed : Once(licensed[i])
    BY <1>4, <1>5
<1> DEFINE all == FlattenSeq(licensed)
<1>9. LicenseCounts(licensed) = [name \in ToSet(all) |-> Cardinality(Hits(all, name))]
    BY Zenon DEF LicenseCounts, Hits
<1>10. all \in Seq(V)
    BY <1>7, FlattenElements
<1>11. \A name : Cardinality(Hits(all, name)) =
                     Cardinality({i \in DOMAIN licensed : name \in ToSet(licensed[i])})
    BY <1>7, <1>8, FlattenCount
<1> HIDE DEF all
<1>12. ASSUME NEW name \in ToSet(all)
       PROVE  LicenseCounts(licensed)[name] = Cardinality({i \in DOMAIN packages : Has(i, name)})
    <2>1. name \in V
        BY <1>10, <1>12 DEF ToSet
    <2>2. \A i : i \in {k \in DOMAIN licensed : name \in ToSet(licensed[k])} <=>
                 i \in {k \in DOMAIN packages : Has(k, name)}
        BY <1>1, <1>4, <1>5, <2>1
    <2>3. {k \in DOMAIN licensed : name \in ToSet(licensed[k])} =
          {k \in DOMAIN packages : Has(k, name)}
        BY <2>2, Zenon
    <2>4. LicenseCounts(licensed)[name] = Cardinality(Hits(all, name))
        BY <1>9, <1>12, Zenon
    <2> QED
        BY <1>11, <2>3, <2>4, Zenon
<1>13. DOMAIN LicenseCounts(licensed) = ToSet(all)
    BY <1>9, Zenon
<1> QED
    BY <1>12, <1>13, Zenon DEF licensed, Has

\* What SummariesAgree says holds of any matches grype can have found and of any
\* packages, so it needs of the state no more than that found holds such matches.
THEOREM SummariesTellTheSame == ReportSpec => []SummariesAgree
<1>1. ASSUME TypeOK, NEW s \in Scans
      PROVE  LET sev == HighestSeverity(found[s])
                 counts == GrypeSummary(s)
             IN  \/ sev = "Unknown" /\ DOMAIN counts \subseteq {"unknown"}
                 \/ /\ lower[sev] \in DOMAIN counts
                    /\ \A worse \in DOMAIN sevOrder :
                          sevOrder[worse] > sevOrder[sev] => lower[worse] \notin DOMAIN counts
    <2>1. found[s] \subseteq MatchesOf[s]
        BY <1>1 DEF TypeOK
    <2>2. \A m \in found[s] : m.severity \in DOMAIN lower \union {Empty}
        BY <1>1, <2>1, ReportAssumption, Zenon DEF Empty
    <2> QED
        BY <2>2, SeveritiesAgree, Zenon DEF GrypeSummary
<1>2. ASSUME NEW s \in Scans
      PROVE  \A name \in DOMAIN GrantSummary(s) :
                 GrantSummary(s)[name] =
                     Cardinality({i \in DOMAIN PackagesOf[s] :
                         \E j \in DOMAIN PackagesOf[s][i] :
                             name \in ToSet(NamesIn(PackagesOf[s][i][j]))})
    <2>1. /\ PackagesOf[s] \in Seq(Seq(LicensesIn(s)))
          /\ \A license \in LicensesIn(s) :
                license.kind = "expression" => license.ids \in Seq(ToSet(license.ids))
        BY <1>2, ReportAssumption, Zenon
    <2> QED
        BY <2>1, CountsAgree, Zenon DEF GrantSummary
<1>3. TypeOK => SummariesAgree
    BY <1>1, <1>2, Zenon DEF SummariesAgree
<1> QED
    BY <1>3, PipelineTypes, ReportIsScan, PTL
=============================================================================
