---------------------------- MODULE ScanContract ----------------------------
(***************************************************************************)
(* What the rest of the system takes for granted about a scan: Dispatch    *)
(* treats it as one start and one end, LiveStream and Persist let its      *)
(* tools report between the two and never after.  ScanPipeline implements  *)
(* this specification.                                                     *)
(***************************************************************************)
CONSTANT Scans

VARIABLES
    status, \* of each scan: the status of its job
    tools   \* of each scan: the status of each of its tools

cvars == <<status, tools>>

Tools     == {"syft", "grype", "grant"}
Final     == {"success", "error"}
ToolState == {"pending", "running"} \union Final

CInit ==
    /\ status = [s \in Scans |-> "queued"]
    /\ tools = [s \in Scans |-> [t \in Tools |-> "pending"]]

Move(s, from, to) ==
    /\ status[s] = from
    /\ status' = [status EXCEPT ![s] = to]
    /\ UNCHANGED tools

\* grype and grant work on the SBOM that syft has made.
MayRun(s, t) == t = "syft" \/ tools[s]["syft"] = "success"

Report(s, t, new) ==
    /\ status[s] = "running" /\ MayRun(s, t)
    /\ \/ tools[s][t] = "pending" /\ new = "running"
       \/ tools[s][t] = "running" /\ new \in Final
    /\ tools' = [tools EXCEPT ![s][t] = new]
    /\ UNCHANGED status

\* A completed scan has an SBOM and at least one of the two reports about it,
\* and no tool of it is at work any more.
Succeeded(s) ==
    /\ \A t \in Tools : tools[s][t] \in Final
    /\ tools[s]["syft"] = "success"
    /\ \E t \in {"grype", "grant"} : tools[s][t] = "success"

\* A failed scan has no SBOM, or neither of the reports.
Hopeless(s) ==
    \/ tools[s]["syft"] # "success"
    \/ \A t \in {"grype", "grant"} : tools[s][t] = "error"

End(s) ==
    \/ Succeeded(s) /\ Move(s, "running", "completed")
    \/ Hopeless(s)  /\ Move(s, "running", "failed")

CNext ==
    \E s \in Scans :
        \/ Move(s, "queued", "running")
        \/ End(s)
        \/ \E t \in Tools, new \in ToolState : Report(s, t, new)

CSpec == CInit /\ [][CNext]_cvars
=============================================================================
