------------------------------- MODULE Reports -------------------------------
(***************************************************************************)
(* What is computed from the results of the tools: the severities of the   *)
(* Harbor report and of the summary in the UI, and the licenses of the     *)
(* license summary.  Pure operators; strings are kept as far as the code   *)
(* tells them apart.                                                       *)
(***************************************************************************)
EXTENDS Integers, Sequences, FiniteSets, SequencesExt

-----------------------------------------------------------------------------
(* Severities.  A match is a record with an id and a severity.             *)

sevOrder == [Critical |-> 5, High |-> 4, Medium |-> 3, Low |-> 2, Negligible |-> 1,
             Unknown |-> 0]

capitalize(severity) ==
    CASE severity \in {"critical", "Critical"}     -> "Critical"
      [] severity \in {"high", "High"}             -> "High"
      [] severity \in {"medium", "Medium"}         -> "Medium"
      [] severity \in {"low", "Low"}               -> "Low"
      [] severity \in {"negligible", "Negligible"} -> "Negligible"
      [] OTHER                                     -> "Unknown"

ReportSeverities(matches) == {"Unknown"} \union {capitalize(m.severity) : m \in matches}

\* BuildVulnerabilityReport's highestSev.
HighestSeverity(matches) ==
    CHOOSE sev \in ReportSeverities(matches) :
        \A other \in ReportSeverities(matches) : sevOrder[other] <= sevOrder[sev]

lower == [Critical |-> "critical", High |-> "high", Medium |-> "medium", Low |-> "low",
          Negligible |-> "negligible", Unknown |-> "unknown"]

SummarySeverity(m) == IF m.severity = "" THEN "unknown" ELSE lower[m.severity]

\* summarizeGrype's bySeverity: a count for each severity that occurs.
BySeverity(matches) ==
    [sev \in {SummarySeverity(m) : m \in matches} |->
        Cardinality({m \in matches : SummarySeverity(m) = sev})]

-----------------------------------------------------------------------------
(* Licenses.  syft gives a package a sequence of them, each one of         *)
(*   [kind |-> "expression", ids |-> sequence of [id, plus]], an SPDX      *)
(*       expression by the license ids it holds, each with or without "+"; *)
(*   [kind |-> "unparsable", text], [kind |-> "value", text]; or           *)
(*   [kind |-> "hash"], the digest of a text syft does not know.           *)

NamesIn(license) ==
    CASE license.kind = "expression" ->
            [i \in DOMAIN license.ids |-> license.ids[i].id]
      [] license.kind = "hash"       -> <<>>
      [] OTHER                       -> <<license.text>>

\* Mutant of AddName: names are not compared with those that are there.
AddAnyName(names, name) == IF name = "" THEN names ELSE Append(names, name)

\* extractLicenseNames' add.
AddName(names, name) ==
    IF name = "" \/ name \in ToSet(names) THEN names ELSE Append(names, name)

extractLicenseNames(licenses) ==
    FoldLeft(AddName, <<>>,
             FlattenSeq([i \in DOMAIN licenses |-> NamesIn(licenses[i])]))

\* What runLicenseSummary writes: the names of each package, in a sequence.
LicensedPackages(packages) ==
    [i \in DOMAIN packages |-> extractLicenseNames(packages[i])]

\* summarizeGrant.
LicenseCounts(licensed) ==
    LET all == FlattenSeq(licensed)
    IN  [name \in ToSet(all) |-> Cardinality({i \in DOMAIN all : all[i] = name})]
=============================================================================
