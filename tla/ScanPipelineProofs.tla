-------------------------- MODULE ScanPipelineProofs --------------------------
(***************************************************************************)
(* Proofs about ScanPipeline, for any scans, images and bounds: types,     *)
(* that the pipeline implements ScanContract, that its temporary           *)
(* directories live as long as they are needed, and that only the image's  *)
(* own VEX documents suppress a match.                                     *)
(***************************************************************************)
EXTENDS ScanPipeline, TLAPS

\* What the steps of ScanPipeline are made of.
USE DEF Tools, Files, Contract!Tools, Contract!ToolState, Contract!Final

-----------------------------------------------------------------------------
(* Types.                                                                  *)

LEMMA SetToolTypes ==
    ASSUME TypeOK, NEW s \in Scans, NEW t \in Tools, NEW new \in Contract!ToolState,
           SetTool(s, t, new)
    PROVE  /\ tools' \in [Scans -> [Tools -> Contract!ToolState]]
           /\ status' = status /\ error' = error /\ summary' = summary
BY DEF TypeOK, SetTool

LEMMA WriteFileTypes ==
    ASSUME TypeOK, NEW s \in Scans, NEW f \in Files, NEW new \in {"absent", "cut", "whole"},
           WriteFile(s, f, new)
    PROVE  /\ artifacts' \in [Scans -> [Files -> {"absent", "cut", "whole"}]]
           /\ faults' \in 0..MaxFaults /\ panics' = panics
           /\ srcDir' = srcDir /\ vexDir' = vexDir /\ unremoved' = unremoved
BY BoundAssumption DEF TypeOK, WriteFile, Fault, budget

LEMMA SummarizeTypes ==
    ASSUME TypeOK, NEW s \in Scans, NEW t \in Tools, Summarize(s, t)
    PROVE  /\ summary' \in [Scans -> SUBSET Tools]
           /\ status' = status /\ error' = error /\ tools' = tools
           /\ faults' \in 0..MaxFaults /\ panics' = panics
           /\ UNCHANGED diskVars
<1>1. summary' \in [Scans -> SUBSET Tools]
    BY DEF TypeOK, Summarize
<1> QED
    BY <1>1, BoundAssumption DEF TypeOK, Summarize, Fault, budget

LEMMA RemoveVexDirTypes ==
    ASSUME TypeOK, NEW s \in Scans, RemoveVexDir(s) \/ Cleanup(s)
    PROVE  /\ vexDir' \subseteq Scans /\ unremoved' \subseteq Scans
           /\ faults' \in 0..MaxFaults /\ panics' = panics
BY BoundAssumption DEF TypeOK, Cleanup, RemoveVexDir, Fault, budget

LEMMA MainTypes ==
    ASSUME TypeOK, NEW s \in Scans, Main(s) \/ RunScan(s)
    PROVE  TypeOK'
<1>1. CASE RunScan(s)
    BY <1>1 DEF TypeOK, RunScan, MainStep, diskVars, budget
<1>2. CASE SyftStarts(s)
    BY <1>2, SetToolTypes DEF TypeOK, SyftStarts, MainStep, diskVars, budget
<1>3. CASE GetSource(s)
    BY <1>3, SetToolTypes, BoundAssumption
    DEF TypeOK, GetSource, SyftFails, SyftPanics, MainStep, jobVars, diskVars, budget
<1>4. CASE CreateSBOM(s)
    <2>1. CASE MainStep(s, "catalog", "sbom") /\ UNCHANGED <<jobVars, diskVars, budget>>
        BY <1>4, <2>1 DEF TypeOK, CreateSBOM, MainStep, jobVars, diskVars, budget
    <2>2. CASE SyftFails(s, "catalog", "close") /\ UNCHANGED <<diskVars, budget>>
        BY <1>4, <2>2, SetToolTypes
        DEF TypeOK, CreateSBOM, SyftFails, MainStep, diskVars, budget
    <2>3. CASE SyftPanics(s, "catalog", "close")
        BY <1>4, <2>3, BoundAssumption
        DEF TypeOK, CreateSBOM, SyftPanics, MainStep, jobVars, diskVars
    <2> QED
        BY <1>4, <2>1, <2>2, <2>3 DEF CreateSBOM
<1>5. CASE WriteSBOM(s)
    <2>1. CASE SyftFails(s, "sbom", "close")
        <3>1. PICK left \in {"absent", "cut"} : WriteFile(s, "sbom", left)
            BY <1>5, <2>1 DEF WriteSBOM, SyftFails, MainStep, TypeOK
        <3> QED
            BY <1>5, <2>1, <3>1, SetToolTypes, WriteFileTypes
            DEF TypeOK, WriteSBOM, SyftFails, MainStep
    <2>2. CASE MainStep(s, "sbom", "spdx") /\ WriteFile(s, "sbom", "whole") /\ UNCHANGED jobVars
        BY <1>5, <2>2, WriteFileTypes DEF TypeOK, WriteSBOM, MainStep, jobVars
    <2> QED
        BY <1>5, <2>1, <2>2 DEF WriteSBOM
<1>6. CASE WriteSPDX(s)
    BY <1>6, SetToolTypes, WriteFileTypes DEF TypeOK, WriteSPDX, MainStep
<1>7. CASE CloseSource(s)
    BY <1>7, BoundAssumption
    DEF TypeOK, CloseSource, MainStep, Fault, jobVars, budget
<1>8. CASE SyftFailed(s)
    BY <1>8, RemoveVexDirTypes DEF TypeOK, SyftFailed, MainStep
<1>9. CASE SummarizeSyft(s)
    BY <1>9, SummarizeTypes DEF TypeOK, SummarizeSyft, MainStep, diskVars
<1>10. CASE Join(s)
    BY <1>10 DEF TypeOK, Join, MainStep, diskVars, budget
<1>11. CASE EndScan(s)
    BY <1>11 DEF TypeOK, EndScan, MainStep, diskVars, budget
<1>12. CASE Recover(s)
    BY <1>12 DEF TypeOK, Recover, MainStep, diskVars, budget
<1> QED
    BY <1>1, <1>2, <1>3, <1>4, <1>5, <1>6, <1>7, <1>8, <1>9, <1>10, <1>11, <1>12
    DEF Main, Syft

LEMMA LookupTypes ==
    ASSUME TypeOK, NEW s \in Scans, Lookup(s)
    PROVE  TypeOK'
<1>1. CASE LookupFindsNothing(s)
    BY <1>1 DEF TypeOK, LookupFindsNothing, VexStep, jobVars, budget
<1>2. CASE MakeVexDir(s)
    BY <1>2 DEF TypeOK, MakeVexDir, VexStep, jobVars, budget
<1>3. CASE FetchLayers(s)
    <2>1. PICK got \in SUBSET {l \in LayersOf[s] : Usable(l)} :
              /\ docs' = [docs EXCEPT ![s] = got]
              /\ IF got = {} THEN RemoveVexDir(s) ELSE UNCHANGED <<vexDir, unremoved, budget>>
        BY <1>3 DEF FetchLayers
    <2>2. /\ vexDir' \subseteq Scans /\ unremoved' \subseteq Scans
          /\ faults' \in 0..MaxFaults /\ panics' = panics
        BY <2>1, RemoveVexDirTypes DEF TypeOK, budget
    <2>3. DOMAIN docs' = Scans /\ \A t \in Scans : docs'[t] \subseteq LayersOf[t]
        BY <2>1 DEF TypeOK
    <2> QED
        BY <1>3, <2>2, <2>3 DEF TypeOK, FetchLayers, VexStep, jobVars
<1>4. CASE SendResult(s)
    BY <1>4 DEF TypeOK, SendResult, VexStep, jobVars, budget
<1> QED
    BY <1>1, <1>2, <1>3, <1>4 DEF Lookup

LEMMA GrypeTypes ==
    ASSUME TypeOK, NEW s \in Scans, Grype(s)
    PROVE  TypeOK'
<1>1. CASE GrypeTakesVex(s)
    BY <1>1, SetToolTypes DEF TypeOK, GrypeTakesVex, GrypeStep, diskVars, budget
<1>2. CASE WaitForDB(s)
    BY <1>2 DEF TypeOK, WaitForDB, GrypeStep, jobVars, diskVars, budget
<1>3. CASE NoMatches(s)
    BY <1>3, SetToolTypes DEF TypeOK, NoMatches, GrypeFails, GrypeStep, diskVars, budget
<1>4. CASE FindMatches(s)
    <2>1. DOMAIN found' = Scans /\ \A t \in Scans : found'[t] \subseteq MatchesOf[t]
        BY <1>4 DEF TypeOK, FindMatches
    <2>2. faults' \in 0..MaxFaults /\ panics' = panics
        BY <1>4, BoundAssumption DEF TypeOK, FindMatches, Fault, budget
    <2> QED
        BY <1>4, <2>1, <2>2 DEF TypeOK, FindMatches, GrypeStep, jobVars, diskVars
<1>5. CASE WriteGrype(s)
    <2>1. CASE GrypeFails(s, "write")
        <3>1. PICK left \in {"absent", "cut"} : WriteFile(s, "grype", left)
            BY <1>5, <2>1 DEF WriteGrype, GrypeFails, GrypeStep, TypeOK
        <3> QED
            BY <2>1, <3>1, SetToolTypes, WriteFileTypes DEF TypeOK, GrypeFails, GrypeStep
    <2>2. CASE /\ GrypeStep(s, "write", "summary")
               /\ WriteFile(s, "grype", "whole")
               /\ SetTool(s, "grype", "success")
               /\ UNCHANGED <<vexCh, found>>
        BY <2>2, SetToolTypes, WriteFileTypes DEF TypeOK, GrypeStep
    <2> QED
        BY <1>5, <2>1, <2>2 DEF WriteGrype
<1>6. CASE SummarizeGrype(s)
    BY <1>6, SummarizeTypes DEF TypeOK, SummarizeGrype, GrypeStep, diskVars
<1>7. CASE Precompute(s)
    BY <1>7, WriteFileTypes DEF TypeOK, Precompute, GrypeStep, jobVars
<1>8. CASE GrypeCleanup(s)
    BY <1>8, RemoveVexDirTypes DEF TypeOK, GrypeCleanup, GrypeStep, jobVars
<1> QED
    BY <1>1, <1>2, <1>3, <1>4, <1>5, <1>6, <1>7, <1>8 DEF Grype

LEMMA GrantTypes ==
    ASSUME TypeOK, NEW s \in Scans, Grant(s)
    PROVE  TypeOK'
<1>1. CASE GrantRuns(s)
    BY <1>1, SetToolTypes DEF TypeOK, GrantRuns, GrantStep, diskVars, budget
<1>2. CASE WriteGrant(s)
    BY <1>2, SetToolTypes, WriteFileTypes DEF TypeOK, WriteGrant, GrantStep
<1>3. CASE SummarizeGrant(s)
    BY <1>3, SummarizeTypes DEF TypeOK, SummarizeGrant, GrantStep, diskVars
<1> QED
    BY <1>1, <1>2, <1>3 DEF Grant

\* Every reachable state of the pipeline has the types TypeOK states.
THEOREM PipelineTypes == Spec => []TypeOK
<1>1. Init => TypeOK
    BY BoundAssumption DEF Init, TypeOK
<1>2. TypeOK /\ [Next]_vars => TypeOK'
    <2> SUFFICES ASSUME TypeOK, [Next]_vars PROVE TypeOK'
        OBVIOUS
    <2>1. ASSUME NEW result \in {"ready", "failed"}, LoadDB(result) PROVE TypeOK'
        BY <2>1 DEF TypeOK, LoadDB, jobVars, pcVars, diskVars, budget
    <2>2. CASE UNCHANGED vars
        BY <2>2 DEF TypeOK, vars, jobVars, pcVars, diskVars, budget
    <2> QED
        BY <2>1, <2>2, MainTypes, LookupTypes, GrypeTypes, GrantTypes DEF Next
<1> QED
    BY <1>1, <1>2, PTL DEF Spec

-----------------------------------------------------------------------------
(* Control: where a scan's goroutines are decides what has been reported.  *)

SyftAt(pc) ==
    CASE pc \in {"off", "syft"} -> {"pending"}
      [] pc \in {"source", "catalog", "sbom", "spdx", "unwinding"} -> {"running"}
      [] pc = "failed" -> {"error"}
      [] pc \in {"summary", "join"} -> {"success"}
      [] pc = "returned" -> {"success", "error"}
      [] pc \in {"close", "ended"} -> {"running", "success", "error"}

GrypeAt(pc) ==
    CASE pc \in {"off", "vex"} -> {"pending"}
      [] pc \in {"db", "match", "write"} -> {"running"}
      [] pc \in {"summary", "harbor"} -> {"success"}
      [] pc \in {"cleanup", "done"} -> {"success", "error"}

GrantAt(pc) ==
    CASE pc \in {"off", "run"} -> {"pending"}
      [] pc = "write" -> {"running"}
      [] pc = "summary" -> {"success"}
      [] pc = "done" -> {"success", "error"}

\* RunScan has made an SBOM and started the two goroutines that use it.
Forked(s) == main[s] \in {"join", "returned", "ended"} /\ tools[s]["syft"] = "success"

Control(s) ==
    /\ status[s] = "queued" <=> main[s] = "off"
    /\ status[s] = "running" <=> main[s] \notin {"off", "ended"}
    /\ tools[s]["syft"] \in SyftAt(main[s])
    /\ tools[s]["grype"] \in GrypeAt(grype[s])
    /\ tools[s]["grant"] \in GrantAt(grant[s])
    /\ grype[s] # "off" <=> Forked(s)
    /\ grant[s] # "off" <=> Forked(s)
    /\ Forked(s) /\ main[s] # "join" => grype[s] = "done" /\ grant[s] = "done"
    /\ main[s] = "returned" =>
          (error[s] <=> \/ tools[s]["syft"] = "error"
                        \/ tools[s]["grype"] = "error" /\ tools[s]["grant"] = "error")
    /\ main[s] \notin {"returned", "ended"} => ~error[s]

Controlled == \A s \in Scans : Control(s)

LEMMA MainControl ==
    ASSUME TypeOK, Controlled, NEW s \in Scans, Main(s) \/ RunScan(s)
    PROVE  Controlled'
<1> USE DEF Controlled, Control, Forked, SyftAt, GrypeAt, GrantAt, TypeOK
<1>1. CASE RunScan(s)
    BY <1>1 DEF RunScan, MainStep
<1>2. CASE SyftStarts(s)
    BY <1>2 DEF SyftStarts, MainStep, SetTool
<1>3. CASE GetSource(s)
    BY <1>3 DEF GetSource, SyftFails, SyftPanics, MainStep, SetTool, jobVars
<1>4. CASE CreateSBOM(s)
    BY <1>4 DEF CreateSBOM, SyftFails, SyftPanics, MainStep, SetTool, jobVars
<1>5. CASE WriteSBOM(s)
    BY <1>5 DEF WriteSBOM, SyftFails, MainStep, SetTool, jobVars
<1>6. CASE WriteSPDX(s)
    BY <1>6 DEF WriteSPDX, MainStep, SetTool
<1>7. CASE CloseSource(s)
    BY <1>7 DEF CloseSource, MainStep, jobVars
<1>8. CASE SyftFailed(s)
    BY <1>8 DEF SyftFailed, MainStep
<1>9. CASE SummarizeSyft(s)
    BY <1>9 DEF SummarizeSyft, MainStep, Summarize
<1>10. CASE Join(s)
    BY <1>10 DEF Join, MainStep
<1>11. CASE EndScan(s)
    BY <1>11 DEF EndScan, MainStep
<1>12. CASE Recover(s)
    BY <1>12 DEF Recover, MainStep
<1> QED
    BY <1>1, <1>2, <1>3, <1>4, <1>5, <1>6, <1>7, <1>8, <1>9, <1>10, <1>11, <1>12
    DEF Main, Syft

LEMMA OthersControl ==
    ASSUME TypeOK, Controlled, NEW s \in Scans, Lookup(s) \/ Grype(s) \/ Grant(s)
    PROVE  Controlled'
<1> USE DEF Controlled, Control, Forked, SyftAt, GrypeAt, GrantAt, TypeOK
<1>1. CASE Lookup(s)
    BY <1>1
    DEF Lookup, LookupFindsNothing, MakeVexDir, FetchLayers, SendResult, VexStep, jobVars
<1>2. CASE GrypeTakesVex(s)
    BY <1>2 DEF GrypeTakesVex, GrypeStep, SetTool
<1>3. CASE WaitForDB(s) \/ FindMatches(s) \/ Precompute(s) \/ GrypeCleanup(s)
    BY <1>3 DEF WaitForDB, FindMatches, Precompute, GrypeCleanup, GrypeStep, jobVars
<1>4. CASE NoMatches(s)
    BY <1>4 DEF NoMatches, GrypeFails, GrypeStep, SetTool
<1>5. CASE WriteGrype(s)
    <2>1. CASE GrypeFails(s, "write")
        BY <2>1 DEF GrypeFails, GrypeStep, SetTool
    <2>2. CASE GrypeStep(s, "write", "summary") /\ SetTool(s, "grype", "success")
        BY <2>2 DEF GrypeStep, SetTool
    <2> QED
        BY <1>5, <2>1, <2>2 DEF WriteGrype
<1>6. CASE SummarizeGrype(s)
    BY <1>6 DEF SummarizeGrype, GrypeStep, Summarize
<1>7. CASE GrantRuns(s)
    BY <1>7 DEF GrantRuns, GrantStep, SetTool
<1>8. CASE WriteGrant(s)
    <2>1. PICK left \in {"absent", "cut", "whole"} :
              /\ GrantStep(s, "write", IF left = "whole" THEN "summary" ELSE "done")
              /\ SetTool(s, "grant", IF left = "whole" THEN "success" ELSE "error")
        BY <1>8 DEF WriteGrant
    <2> QED
        BY <2>1 DEF GrantStep, SetTool
<1>9. CASE SummarizeGrant(s)
    BY <1>9 DEF SummarizeGrant, GrantStep, Summarize
<1> QED
    BY <1>1, <1>2, <1>3, <1>4, <1>5, <1>6, <1>7, <1>8, <1>9 DEF Grype, Grant

LEMMA AlwaysControlled == Spec => [](TypeOK /\ Controlled)
<1>1. Init => Controlled
    BY DEF Init, Controlled, Control, Forked, SyftAt, GrypeAt, GrantAt
<1>2. TypeOK /\ Controlled /\ [Next]_vars => Controlled'
    <2> SUFFICES ASSUME TypeOK, Controlled, [Next]_vars PROVE Controlled'
        OBVIOUS
    <2>1. CASE \E result \in {"ready", "failed"} : LoadDB(result)
        BY <2>1 DEF LoadDB, Controlled, Control, Forked, jobVars, pcVars
    <2>2. CASE UNCHANGED vars
        BY <2>2 DEF vars, Controlled, Control, Forked, jobVars, pcVars
    <2> QED
        BY <2>1, <2>2, MainControl, OthersControl DEF Next
<1> QED
    BY <1>1, <1>2, PipelineTypes, PTL DEF Spec

-----------------------------------------------------------------------------
(* The pipeline implements ScanContract.                                   *)

LEMMA ReportStep ==
    ASSUME NEW s \in Scans, NEW t \in Tools, NEW new \in Contract!ToolState,
           status[s] = "running", t = "syft" \/ tools[s]["syft"] = "success",
           \/ tools[s][t] = "pending" /\ new = "running"
           \/ tools[s][t] = "running" /\ new \in Contract!Final,
           SetTool(s, t, new)
    PROVE  Contract!CNext
<1>1. Contract!Report(s, t, new)
    BY DEF Contract!Report, Contract!MayRun, SetTool
<1> QED
    BY <1>1 DEF Contract!CNext

LEMMA MainImplements ==
    ASSUME TypeOK, Controlled, NEW s \in Scans, Main(s) \/ RunScan(s)
    PROVE  Contract!CNext \/ UNCHANGED Contract!cvars
<1> USE DEF Contract!cvars
<1>0. Control(s)
    BY DEF Controlled
<1>1. CASE RunScan(s)
    <2>1. Contract!Move(s, "queued", "running")
        BY <1>1 DEF RunScan, Contract!Move
    <2> QED
        BY <2>1 DEF Contract!CNext
<1>2. CASE SyftStarts(s)
    BY <1>2, <1>0, ReportStep DEF SyftStarts, MainStep, Control, SyftAt
<1>3. ASSUME NEW from \in {"source", "catalog", "sbom"}, NEW to, SyftFails(s, from, to)
      PROVE Contract!CNext
    BY <1>3, <1>0, ReportStep DEF SyftFails, MainStep, Control, SyftAt
<1>4. CASE GetSource(s) \/ CreateSBOM(s) \/ WriteSBOM(s)
    BY <1>3, <1>4 DEF GetSource, CreateSBOM, WriteSBOM, SyftPanics, jobVars
<1>5. CASE WriteSPDX(s)
    BY <1>5, <1>0, ReportStep DEF WriteSPDX, MainStep, Control, SyftAt
<1>6. CASE CloseSource(s) \/ SyftFailed(s) \/ SummarizeSyft(s) \/ Join(s)
    BY <1>6 DEF CloseSource, SyftFailed, SummarizeSyft, Join, Summarize, jobVars
<1>7. CASE EndScan(s)
    <2>1. main[s] = "returned" /\ status[s] = "running" /\ UNCHANGED tools
        BY <1>7, <1>0 DEF EndScan, MainStep, Control
    <2>2. CASE error[s]
        <3>1. Contract!Hopeless(s)
            BY <2>1, <2>2, <1>0 DEF Control, Contract!Hopeless
        <3>2. Contract!Move(s, "running", "failed")
            BY <2>1, <2>2, <1>7 DEF EndScan, Contract!Move
        <3> QED
            BY <3>1, <3>2 DEF Contract!CNext, Contract!End
    <2>3. CASE ~error[s]
        <3>1. Contract!Succeeded(s)
            BY <2>1, <2>3, <1>0
            DEF Control, Forked, SyftAt, GrypeAt, GrantAt, Contract!Succeeded
        <3>2. Contract!Move(s, "running", "completed")
            BY <2>1, <2>3, <1>7 DEF EndScan, Contract!Move
        <3> QED
            BY <3>1, <3>2 DEF Contract!CNext, Contract!End
    <2> QED
        BY <2>2, <2>3
<1>8. CASE Recover(s)
    <2>1. status[s] = "running" /\ tools[s]["syft"] = "running" /\ UNCHANGED tools
        BY <1>8, <1>0 DEF Recover, MainStep, Control, SyftAt
    <2>2. Contract!Hopeless(s) /\ Contract!Move(s, "running", "failed")
        BY <1>8, <2>1 DEF Recover, Contract!Hopeless, Contract!Move
    <2> QED
        BY <2>2 DEF Contract!CNext, Contract!End
<1> QED
    BY <1>1, <1>2, <1>4, <1>5, <1>6, <1>7, <1>8 DEF Main, Syft

LEMMA OthersImplement ==
    ASSUME TypeOK, Controlled, NEW s \in Scans, Lookup(s) \/ Grype(s) \/ Grant(s)
    PROVE  Contract!CNext \/ UNCHANGED Contract!cvars
<1> USE DEF Contract!cvars
<1>0. Control(s)
    BY DEF Controlled
<1>1. CASE Lookup(s)
    BY <1>1
    DEF Lookup, LookupFindsNothing, MakeVexDir, FetchLayers, SendResult, VexStep, jobVars
<1>2. /\ grype[s] \notin {"off", "done"} =>
            status[s] = "running" /\ tools[s]["syft"] = "success"
      /\ grant[s] \notin {"off", "done"} =>
            status[s] = "running" /\ tools[s]["syft"] = "success"
    BY <1>0 DEF Control, Forked
<1>3. /\ grype[s] = "vex" => tools[s]["grype"] = "pending"
      /\ grype[s] \in {"db", "match", "write"} => tools[s]["grype"] = "running"
    BY <1>0 DEF Control, GrypeAt
<1>4. CASE GrypeTakesVex(s)
    BY <1>4, <1>2, <1>3, ReportStep DEF GrypeTakesVex, GrypeStep
<1>5. CASE WaitForDB(s) \/ FindMatches(s) \/ SummarizeGrype(s) \/ Precompute(s) \/ GrypeCleanup(s)
    BY <1>5 DEF WaitForDB, FindMatches, SummarizeGrype, Precompute, GrypeCleanup,
                Summarize, jobVars
<1>6. ASSUME NEW from \in {"db", "match", "write"}, GrypeFails(s, from)
      PROVE  Contract!CNext
    BY <1>6, <1>2, <1>3, ReportStep DEF GrypeFails, GrypeStep
<1>10. CASE NoMatches(s)
    BY <1>10, <1>6 DEF NoMatches
<1>11. CASE WriteGrype(s)
    BY <1>11, <1>6, <1>2, <1>3, ReportStep DEF WriteGrype, GrypeStep
<1>7. CASE GrantRuns(s)
    BY <1>7, <1>0, <1>2, ReportStep DEF GrantRuns, GrantStep, Control, GrantAt
<1>8. CASE WriteGrant(s)
    BY <1>8, <1>0, <1>2, ReportStep DEF WriteGrant, GrantStep, Control, GrantAt
<1>9. CASE SummarizeGrant(s)
    BY <1>9 DEF SummarizeGrant, Summarize
<1> QED
    BY <1>1, <1>4, <1>5, <1>7, <1>8, <1>9, <1>10, <1>11 DEF Grype, Grant

\* Whatever fails or panics, the pipeline is the scan that Dispatch, Persist and
\* LiveStream take for granted.
THEOREM PipelineImplementsContract == Spec => ImplementsContract
<1>1. Init => Contract!CInit
    BY DEF Init, Contract!CInit
<1>2. TypeOK /\ Controlled /\ [Next]_vars => [Contract!CNext]_(Contract!cvars)
    <2> SUFFICES ASSUME TypeOK, Controlled, [Next]_vars
                 PROVE  Contract!CNext \/ UNCHANGED Contract!cvars
        OBVIOUS
    <2>1. CASE \E result \in {"ready", "failed"} : LoadDB(result)
        BY <2>1 DEF LoadDB, jobVars, Contract!cvars
    <2>2. CASE UNCHANGED vars
        BY <2>2 DEF vars, jobVars, Contract!cvars
    <2> QED
        BY <2>1, <2>2, MainImplements, OthersImplement DEF Next
<1> QED
    BY <1>1, <1>2, AlwaysControlled, PTL DEF Spec, ImplementsContract, Contract!CSpec

-----------------------------------------------------------------------------
(* Temporary directories: who still has to remove them.                    *)

\* main has taken the result of the lookup out of vexCh, and cleaned up after it.
MainCleanedUp(s) == main[s] \in {"returned", "ended"} /\ tools[s]["syft"] = "error"

\* The image's content is there from GetSource to Close.  The lookup's directory is
\* there from its making until main or grype, having received the result, removes
\* it; neither can do so before the lookup is over.
Dirs(s) ==
    /\ s \in srcDir => main[s] \in {"catalog", "sbom", "spdx", "close"} \/ s \in unremoved
    /\ main[s] = "off" => vex[s] = "off" /\ ~vexCh[s]
    /\ vexCh[s] => vex[s] \in {"off", "done"}
    /\ vex[s] \in {"lookup", "fetch", "send"} =>
          grype[s] \in {"off", "vex"} /\ ~MainCleanedUp(s)
    /\ vex[s] \in {"off", "lookup"} => s \notin vexDir /\ docs[s] = {}
    /\ vex[s] = "fetch" => s \in vexDir /\ docs[s] = {}
    /\ s \in vexDir /\ docs[s] = {} => vex[s] = "fetch" \/ s \in unremoved
    /\ s \in vexDir => s \in unremoved \/ (grype[s] # "done" /\ ~MainCleanedUp(s))
    /\ docs[s] # {} => s \in vexDir \/ grype[s] = "done" \/ MainCleanedUp(s)

Accounted == \A s \in Scans : Dirs(s)

LEMMA MainAccounts ==
    ASSUME TypeOK, Controlled, Accounted, NEW s \in Scans, Main(s) \/ RunScan(s)
    PROVE  Accounted'
<1> USE DEF Accounted, Dirs, MainCleanedUp, TypeOK
<1>0. Control(s)
    BY DEF Controlled
<1>1. CASE RunScan(s)
    BY <1>0, <1>1 DEF RunScan, MainStep, diskVars, Control, Forked
<1>2. CASE SyftStarts(s)
    BY <1>2 DEF SyftStarts, MainStep, SetTool, diskVars
<1>3. CASE GetSource(s)
    BY <1>3 DEF GetSource, SyftFails, SyftPanics, MainStep, SetTool, jobVars, diskVars
<1>4. CASE CreateSBOM(s)
    <2>1. CASE SyftFails(s, "catalog", "close") /\ UNCHANGED diskVars
        BY <1>4, <2>1 DEF CreateSBOM, SyftFails, MainStep, SetTool, diskVars
    <2>2. CASE \E to : MainStep(s, "catalog", to) /\ to \in {"sbom", "close"}
                     /\ UNCHANGED <<jobVars, diskVars>>
        BY <1>4, <2>2 DEF CreateSBOM, MainStep, jobVars, diskVars
    <2> QED
        BY <1>4, <2>1, <2>2 DEF CreateSBOM, SyftPanics
<1>5. CASE WriteSBOM(s)
    BY <1>5 DEF WriteSBOM, WriteFile, SyftFails, MainStep, SetTool, jobVars
<1>6. CASE WriteSPDX(s)
    BY <1>6 DEF WriteSPDX, WriteFile, MainStep, SetTool
<1>7. CASE CloseSource(s)
    BY <1>7 DEF CloseSource, MainStep, jobVars
<1>8. CASE SyftFailed(s)
    <2>1. /\ vexCh[s] /\ vex[s] \in {"off", "done"} /\ main[s] = "failed"
          /\ main' = [main EXCEPT ![s] = "returned"] /\ vexCh' = [vexCh EXCEPT ![s] = FALSE]
          /\ UNCHANGED <<tools, vex, grype, docs, srcDir>>
          /\ tools[s]["syft"] = "error" /\ tools[s]["syft"] # "success"
        BY <1>8, <1>0 DEF SyftFailed, MainStep, Control, SyftAt
    <2>2. CASE vexDir' = vexDir \ {s} /\ UNCHANGED unremoved
        BY <2>1, <2>2
    <2>3. CASE unremoved' = unremoved \union {s} /\ UNCHANGED vexDir
        BY <2>1, <2>3
    <2> QED
        BY <1>8, <2>2, <2>3 DEF SyftFailed, Cleanup, RemoveVexDir
<1>9. CASE SummarizeSyft(s)
    BY <1>9, <1>0 DEF SummarizeSyft, MainStep, Summarize, diskVars, Control, Forked
<1>10. CASE Join(s)
    BY <1>10, <1>0 DEF Join, MainStep, diskVars, Control, SyftAt
<1>11. CASE EndScan(s)
    BY <1>11 DEF EndScan, MainStep, diskVars
<1>12. CASE Recover(s)
    BY <1>12, <1>0 DEF Recover, MainStep, diskVars, Control, SyftAt
<1> QED
    BY <1>1, <1>2, <1>3, <1>4, <1>5, <1>6, <1>7, <1>8, <1>9, <1>10, <1>11, <1>12
    DEF Main, Syft

LEMMA OthersAccount ==
    ASSUME TypeOK, Controlled, Accounted, NEW s \in Scans, Lookup(s) \/ Grype(s) \/ Grant(s)
    PROVE  Accounted'
<1> USE DEF Accounted, Dirs, MainCleanedUp, TypeOK
<1>0. Control(s)
    BY DEF Controlled
<1>1. CASE LookupFindsNothing(s) \/ MakeVexDir(s) \/ SendResult(s)
    BY <1>1, <1>0 DEF LookupFindsNothing, MakeVexDir, SendResult, VexStep, jobVars, Control, Forked
<1>2. CASE FetchLayers(s)
    BY <1>2 DEF FetchLayers, RemoveVexDir, VexStep, jobVars
<1>3. CASE GrypeTakesVex(s)
    BY <1>3 DEF GrypeTakesVex, GrypeStep, SetTool, diskVars
<1>4. CASE WaitForDB(s) \/ FindMatches(s)
    BY <1>4 DEF WaitForDB, FindMatches, GrypeStep, jobVars, diskVars
<1>5. CASE NoMatches(s)
    BY <1>5 DEF NoMatches, GrypeFails, GrypeStep, SetTool, diskVars
<1>6. CASE WriteGrype(s)
    BY <1>6 DEF WriteGrype, WriteFile, GrypeFails, GrypeStep, SetTool
<1>7. CASE SummarizeGrype(s) \/ Precompute(s)
    BY <1>7 DEF SummarizeGrype, Summarize, Precompute, WriteFile, GrypeStep, jobVars, diskVars
<1>8. CASE GrypeCleanup(s)
    BY <1>8 DEF GrypeCleanup, Cleanup, RemoveVexDir, GrypeStep, jobVars
<1>9. CASE GrantRuns(s) \/ SummarizeGrant(s)
    <2>1. CASE GrantRuns(s)
        BY <2>1 DEF GrantRuns, GrantStep, SetTool, diskVars
    <2>2. CASE SummarizeGrant(s)
        BY <2>2 DEF SummarizeGrant, Summarize, GrantStep, diskVars
    <2> QED
        BY <1>9, <2>1, <2>2
<1>10. CASE WriteGrant(s)
    BY <1>10 DEF WriteGrant, WriteFile, GrantStep, SetTool
<1> QED
    BY <1>1, <1>2, <1>3, <1>4, <1>5, <1>6, <1>7, <1>8, <1>9, <1>10 DEF Lookup, Grype, Grant

LEMMA AlwaysAccounted == Spec => [](TypeOK /\ Controlled /\ Accounted)
<1>1. Init => Accounted
    BY DEF Init, Accounted, Dirs, MainCleanedUp
<1>2. TypeOK /\ Controlled /\ Accounted /\ [Next]_vars => Accounted'
    <2> SUFFICES ASSUME TypeOK, Controlled, Accounted, [Next]_vars PROVE Accounted'
        OBVIOUS
    <2>1. CASE \E result \in {"ready", "failed"} : LoadDB(result)
        BY <2>1 DEF LoadDB, Accounted, Dirs, MainCleanedUp, jobVars, pcVars, diskVars
    <2>2. CASE UNCHANGED vars
        BY <2>2 DEF vars, Accounted, Dirs, MainCleanedUp, jobVars, pcVars, diskVars
    <2> QED
        BY <2>1, <2>2, MainAccounts, OthersAccount DEF Next
<1> QED
    BY <1>1, <1>2, AlwaysControlled, PTL DEF Spec

\* No path through RunScan leaves a temporary directory behind that it could have
\* removed, but for the lookup's after a recovered panic, and none removes grype's
\* documents while it reads them.
THEOREM NoDirLeftBehind == Spec => []DirsLiveWithScan
<1>1. TypeOK /\ Controlled /\ Accounted => DirsLiveWithScan
    <2> SUFFICES ASSUME TypeOK, Controlled, Accounted, NEW s \in Scans
                 PROVE  /\ Ended(s) /\ s \notin unremoved =>
                              /\ s \notin srcDir
                              /\ s \in vexDir => tools[s]["syft"] = "running"
                        /\ grype[s] = "match" /\ docs[s] # {} => s \in vexDir
        BY DEF DirsLiveWithScan
    <2>1. Control(s) /\ Dirs(s)
        BY DEF Controlled, Accounted
    <2> QED
        BY <2>1 DEF Control, Forked, SyftAt, Dirs, MainCleanedUp, Ended
<1> QED
    BY <1>1, AlwaysAccounted, PTL

-----------------------------------------------------------------------------
(* Suppressed matches.                                                     *)

OwnDocs == \A s \in Scans : \A l \in docs[s] : Usable(l)

\* grype has made its report, and it counts.
Reported(s) ==
    /\ grype[s] \in {"write", "summary", "harbor", "cleanup", "done"}
    /\ tools[s]["grype"] # "error"

LEMMA DocsStayOwn ==
    ASSUME TypeOK, OwnDocs, [Next]_vars
    PROVE  OwnDocs'
<1>1. ASSUME NEW s \in Scans, FetchLayers(s) PROVE OwnDocs'
    <2>1. PICK got \in SUBSET {l \in LayersOf[s] : Usable(l)} :
              docs' = [docs EXCEPT ![s] = got]
        BY <1>1 DEF FetchLayers
    <2> QED
        BY <2>1 DEF OwnDocs, TypeOK
<1>2. CASE UNCHANGED docs
    BY <1>2 DEF OwnDocs
<1>3. ASSUME NEW s \in Scans, RunScan(s) \/ Main(s) \/ Grype(s) \/ Grant(s) PROVE UNCHANGED docs
    <2>1. CASE RunScan(s) \/ Main(s)
        BY <2>1 DEF RunScan, Main, Syft, SyftStarts, GetSource, SyftFails, SyftPanics, CreateSBOM,
                    WriteSBOM, WriteSPDX, CloseSource, SyftFailed, SummarizeSyft, Join, EndScan,
                    Recover, MainStep
    <2>2. CASE Grype(s)
        BY <2>2 DEF Grype, GrypeTakesVex, WaitForDB, NoMatches, GrypeFails, FindMatches,
                    WriteGrype, SummarizeGrype, Precompute, GrypeCleanup, GrypeStep
    <2>3. CASE Grant(s)
        BY <2>3 DEF Grant, GrantRuns, WriteGrant, SummarizeGrant, GrantStep
    <2> QED
        BY <1>3, <2>1, <2>2, <2>3
<1> QED
    BY <1>1, <1>2, <1>3
    DEF Next, LoadDB, Lookup, LookupFindsNothing, MakeVexDir, SendResult, vars

LEMMA ReportStaysExplained ==
    ASSUME SuppressedByOwnVex, UNCHANGED found,
           \A s \in Scans : Reported(s)' => Reported(s)
    PROVE  SuppressedByOwnVex'
BY DEF SuppressedByOwnVex, Reported

LEMMA MainReports ==
    ASSUME TypeOK, Controlled, NEW s \in Scans, Main(s) \/ RunScan(s)
    PROVE  UNCHANGED found /\ \A t \in Scans : Reported(t)' => Reported(t)
<1> USE DEF Reported, TypeOK, MainStep
<1>1. CASE RunScan(s) \/ CloseSource(s) \/ SyftFailed(s) \/ Join(s) \/ EndScan(s) \/ Recover(s)
    BY <1>1 DEF RunScan, CloseSource, SyftFailed, Join, EndScan, Recover, jobVars
<1>2. CASE SyftStarts(s) \/ WriteSPDX(s)
    <2>1. CASE SyftStarts(s)
        BY <2>1 DEF SyftStarts, SetTool
    <2>2. CASE WriteSPDX(s)
        BY <2>2 DEF WriteSPDX, SetTool
    <2> QED
        BY <1>2, <2>1, <2>2
<1>3. ASSUME NEW from, NEW to, SyftFails(s, from, to), UNCHANGED grype
      PROVE  UNCHANGED found /\ \A t \in Scans : Reported(t)' => Reported(t)
    BY <1>3 DEF SyftFails, SetTool
<1>4. CASE GetSource(s) \/ CreateSBOM(s) \/ WriteSBOM(s)
    BY <1>3, <1>4 DEF GetSource, CreateSBOM, WriteSBOM, SyftPanics, jobVars
<1>5. CASE SummarizeSyft(s)
    BY <1>5 DEF SummarizeSyft, Summarize
<1> QED
    BY <1>1, <1>2, <1>4, <1>5 DEF Main, Syft

LEMMA OthersReport ==
    ASSUME TypeOK, Controlled, NEW s \in Scans, Lookup(s) \/ Grype(s) \/ Grant(s), ~FindMatches(s)
    PROVE  UNCHANGED found /\ \A t \in Scans : Reported(t)' => Reported(t)
<1> USE DEF Reported, TypeOK, GrypeStep, GrantStep
<1>0. grype[s] \in {"db", "match", "write"} => tools[s]["grype"] = "running"
    BY DEF Controlled, Control, GrypeAt
<1>1. CASE Lookup(s)
    BY <1>1
    DEF Lookup, LookupFindsNothing, MakeVexDir, FetchLayers, SendResult, VexStep, jobVars
<1>2. CASE GrypeTakesVex(s)
    BY <1>2 DEF GrypeTakesVex, SetTool
<1>3. CASE WaitForDB(s) \/ Precompute(s) \/ GrypeCleanup(s)
    BY <1>3 DEF WaitForDB, Precompute, GrypeCleanup, jobVars
<1>4. ASSUME NEW from, GrypeFails(s, from)
      PROVE  UNCHANGED found /\ \A t \in Scans : Reported(t)' => Reported(t)
    BY <1>4 DEF GrypeFails, SetTool
<1>5. CASE NoMatches(s)
    BY <1>4, <1>5 DEF NoMatches
<1>6. CASE WriteGrype(s)
    <2>1. CASE /\ GrypeStep(s, "write", "summary") /\ SetTool(s, "grype", "success")
               /\ UNCHANGED found
        BY <1>0, <2>1 DEF SetTool
    <2> QED
        BY <1>4, <1>6, <2>1 DEF WriteGrype
<1>7. CASE SummarizeGrype(s)
    BY <1>7 DEF SummarizeGrype, Summarize
<1>8. CASE GrantRuns(s)
    BY <1>8 DEF GrantRuns, SetTool
<1>9. CASE WriteGrant(s)
    BY <1>9 DEF WriteGrant, SetTool
<1>10. CASE SummarizeGrant(s)
    BY <1>10 DEF SummarizeGrant, Summarize
<1> QED
    BY <1>1, <1>2, <1>3, <1>5, <1>6, <1>7, <1>8, <1>9, <1>10 DEF Grype, Grant

\* The only matches missing from a report are those that an OpenVEX document attached
\* to the image and about it suppresses.
THEOREM OnlyOwnVexSuppresses == Spec => []SuppressedByOwnVex
<1>1. Init => OwnDocs /\ SuppressedByOwnVex
    BY DEF Init, OwnDocs, SuppressedByOwnVex
<1>2. TypeOK /\ OwnDocs /\ [Next]_vars => OwnDocs'
    BY DocsStayOwn
<1>3. TypeOK /\ Controlled /\ OwnDocs /\ SuppressedByOwnVex /\ [Next]_vars => SuppressedByOwnVex'
    <2> SUFFICES ASSUME TypeOK, Controlled, OwnDocs, SuppressedByOwnVex, [Next]_vars
                 PROVE  SuppressedByOwnVex'
        OBVIOUS
    <2>1. ASSUME NEW s \in Scans, FindMatches(s) PROVE SuppressedByOwnVex'
        <3>1. \A t \in Scans \ {s} :
                  found'[t] = found[t] /\ grype'[t] = grype[t] /\ tools'[t] = tools[t]
            BY <2>1 DEF FindMatches, GrypeStep, jobVars, TypeOK
        <3>2. \/ found'[s] = {m \in MatchesOf[s] : ~Suppressed(m, docs[s])}
              \/ found'[s] = MatchesOf[s]
            BY <2>1 DEF FindMatches, TypeOK
        <3>3. \A m \in MatchesOf[s] \ found'[s] : Suppressed(m, docs[s])
            BY <3>2
        <3>4. \A m \in MatchesOf[s] \ found'[s] :
                  \E l \in LayersOf[s] :
                      l.type = "openvex" /\ l.subject = "image" /\ m.id \in l.suppresses
            BY <3>3 DEF Suppressed, OwnDocs, Usable, TypeOK
        <3> QED
            BY <3>1, <3>4 DEF SuppressedByOwnVex
    <2>2. CASE \E result \in {"ready", "failed"} : LoadDB(result)
        BY <2>2 DEF LoadDB, SuppressedByOwnVex, jobVars, pcVars
    <2>3. CASE UNCHANGED vars
        BY <2>3 DEF vars, SuppressedByOwnVex, jobVars, pcVars
    <2> QED
        BY <2>1, <2>2, <2>3, MainReports, OthersReport, ReportStaysExplained DEF Next
<1> QED
    BY <1>1, <1>2, <1>3, AlwaysControlled, PTL DEF Spec
=============================================================================
