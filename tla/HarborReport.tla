---------------------------- MODULE HarborReport ----------------------------
(***************************************************************************)
(* What Harbor and the UI are told about the scans of ScanPipeline         *)
(* (pkg/harbor, GetReport; the summaries of scanner.go).  The handler      *)
(* changes nothing, so an answer is an operator of the state.  It depends  *)
(* on the pod that is asked: the one that runs the scan knows its job from *)
(* memory, every other one from the job.json on the volume, which follows  *)
(* behind and may never catch up (Persist).  And it depends on which of    *)
(* the files of the scan can be read at that moment.  An answer carries    *)
(* its HTTP code, whether its body is whole or cut off, and for a whole    *)
(* vulnerability report its severity.                                      *)
(***************************************************************************)
EXTENDS ScanPipeline, Reports

CONSTANT PackagesOf \* of each scan: the licenses of each package in the image

VARIABLE onDisk \* of each scan: the status in its job.json, "none" where there is no file

reportVars == <<vars, onDisk>>

LicensesIn(s) == UNION {ToSet(package) : package \in ToSet(PackagesOf[s])}

\* grype writes the name of a severity or nothing; licenses come in sequences.
ASSUME ReportAssumption ==
    /\ DOMAIN PackagesOf = Scans
    /\ \A s \in Scans :
          /\ \A m \in MatchesOf[s] : m.severity \in DOMAIN lower \union {""}
          /\ PackagesOf[s] \in Seq(Seq(LicensesIn(s)))
          /\ \A license \in LicensesIn(s) :
                license.kind = "expression" => license.ids \in Seq(ToSet(license.ids))

JobStates == {"queued", "running", "completed", "failed"}

\* Every variable has its type.
ReportTypeOK == TypeOK /\ onDisk \in [Scans -> JobStates \union {"none"}]

-----------------------------------------------------------------------------
(* The job's status on the volume.                                         *)

\* CreateJob has written job.json, or has failed to.
ReportInit == Init /\ onDisk \in [Scans -> {"none", "queued"}]

\* persistWorker puts a later version in place; it may come late, and a version
\* whose write fails never comes.
Publish(s) ==
    \E new \in {"running", status[s]} :
        /\ status[s] # "queued" /\ onDisk[s] \notin {new, "completed", "failed"}
        /\ onDisk' = [onDisk EXCEPT ![s] = new]
        /\ UNCHANGED vars

ReportNext ==
    \/ Next /\ UNCHANGED onDisk
    \/ \E s \in Scans : Publish(s)

ReportSpec == ReportInit /\ [][ReportNext]_reportVars

\* With the fairness of the scans; job.json need never follow.
ReportFairSpec == ReportSpec /\ Fairness

-----------------------------------------------------------------------------
(* The handler.  The pod that is asked runs the scan, or does not; unread  *)
(* are the files that cannot be read, though they may be there.            *)

Kinds == {"vulnerability", "sbom"}
Pods  == {"owner", "other"}
Paths == Files \union {"job"}

NotReady    == [code |-> 302]
Refuse(why) == [code |-> why]

\* What the pod knows of the job; a job.json it cannot read is no job to it.
GetJob(s, pod, unread) ==
    CASE pod = "owner" -> status[s]
      [] pod = "other" -> IF "job" \in unread THEN "none" ELSE onDisk[s]

\* os.ReadFile: a file that cannot be read is as good as absent.
ReadFile(s, f, unread) == IF f \in unread THEN "absent" ELSE artifacts[s][f]

\* getSBOMReport decodes the SPDX file, so that it never sends half of one.
SBOMReport(s, unread) ==
    CASE ReadFile(s, "spdx", unread) = "absent" -> Refuse(404)
      [] ReadFile(s, "spdx", unread) = "cut"    -> Refuse(500)
      [] OTHER -> [code |-> 200, body |-> "whole"]

\* The precomputed report is sent as it is; without one the report is built from
\* grype.json.
VulnerabilityReport(s, unread) ==
    LET report == [code |-> 200, body |-> "whole", severity |-> HighestSeverity(found[s])]
        built  == CASE ReadFile(s, "grype", unread) = "absent" -> Refuse(404)
                    [] ReadFile(s, "grype", unread) = "cut"    -> Refuse(500)
                    [] OTHER -> report
    IN  CASE ReadFile(s, "harbor", unread) = "whole" -> report
          [] ReadFile(s, "harbor", unread) = "cut"   -> [code |-> 200, body |-> "cut"]
          [] OTHER -> built

GetReport(s, kind, pod, unread) ==
    LET job == GetJob(s, pod, unread)
    IN  CASE job = "none"                -> Refuse(404)
          [] job \in {"queued", "running"} -> NotReady
          [] job = "failed"              -> Refuse(500)
          [] OTHER -> IF kind = "sbom" THEN SBOMReport(s, unread)
                      ELSE VulnerabilityReport(s, unread)

\* The summaries that SetSummary stored, from the files the tools wrote.
GrypeSummary(s) == BySeverity(found[s])
GrantSummary(s) == LicenseCounts(LicensedPackages(PackagesOf[s]))

-----------------------------------------------------------------------------
(* Properties.                                                             *)

\* Harbor's answers tell the outcome, whichever pod gives them and whichever reads
\* fail.  No answer about a scan under way tells an outcome: it is "not ready", or
\* "not found" from a pod that has no job.json to read.  A pod that knows of the end
\* never says "not ready"; a report is one of a tool that succeeded; a completed scan
\* is refused its report only if grype failed or grype.json cannot be read, even when
\* the precomputed report is missing or cannot be read, and its SBOM only if syft's
\* copy could not be written or cannot be read.  A damaged body is sent only where
\* writing the precomputed report failed.
AnswersTellOutcome ==
    \A s \in Scans, pod \in Pods, unread \in SUBSET Paths :
        LET vulns == GetReport(s, "vulnerability", pod, unread)
            sbom  == GetReport(s, "sbom", pod, unread)
        IN  /\ ~Ended(s) => \A a \in {vulns, sbom} :
                  \/ a = NotReady
                  \/ /\ a = Refuse(404) /\ pod = "other"
                     /\ "job" \in unread \/ onDisk[s] = "none"
            /\ vulns.code = 200 => /\ tools[s]["grype"] = "success"
                                   /\ vulns.body = "whole" \/ faults > 0
            /\ sbom.code = 200 => tools[s]["syft"] = "success"
            /\ Ended(s) /\ GetJob(s, pod, unread) = status[s] =>
                  /\ vulns # NotReady /\ sbom # NotReady
                  /\ vulns.code # 200 => \/ status[s] = "failed"
                                         \/ tools[s]["grype"] = "error"
                                         \/ "grype" \in unread
                  /\ sbom.code # 200 => \/ status[s] = "failed"
                                        \/ faults > 0 \/ "spdx" \in unread

\* Once a pod has an answer that tells the outcome it keeps it, and every other pod
\* gives the same one from the time it tells the outcome too, as long as reads
\* succeed: job.json says completed only when all files are written, and nothing
\* writes them afterwards.  (Between the two, a pod whose job.json is behind still
\* says "not ready" after another one has sent the report.)
AnswersStay ==
    [][\A s \in Scans, k \in Kinds, p \in Pods, q \in Pods :
          GetJob(s, p, {}) \in {"completed", "failed"} =>
              /\ GetJob(s, p, {})' = GetJob(s, p, {})
              /\ GetJob(s, q, {})' \in {"completed", "failed"} =>
                    GetReport(s, k, q, {})' = GetReport(s, k, p, {})]_reportVars

\* The UI's summary and Harbor's report of one scan agree, though one lowers the
\* severities grype writes and the other capitalizes them: the report's severity is
\* the worst one the summary counts.  And a license is counted once for each package
\* that has it, however often and in whatever form the package names it.
SummariesAgree ==
    \A s \in Scans :
        /\ "grype" \in summary[s] /\ artifacts[s]["harbor"] = "whole" =>
              LET sev == HighestSeverity(found[s])
                  counts == GrypeSummary(s)
              IN  \/ sev = "Unknown" /\ DOMAIN counts \subseteq {"unknown"}
                  \/ /\ lower[sev] \in DOMAIN counts
                     /\ \A worse \in DOMAIN sevOrder :
                           sevOrder[worse] > sevOrder[sev] => lower[worse] \notin DOMAIN counts
        /\ "grant" \in summary[s] =>
              \A name \in DOMAIN GrantSummary(s) :
                  GrantSummary(s)[name] =
                      Cardinality({i \in DOMAIN PackagesOf[s] :
                          \E j \in DOMAIN PackagesOf[s][i] :
                              name \in ToSet(NamesIn(PackagesOf[s][i][j]))})
=============================================================================
