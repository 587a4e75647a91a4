--------------------------- MODULE AtMostOnceQueue ---------------------------
(***************************************************************************)
(* What Hullcheck's dispatch promises to whoever submitted a scan, without *)
(* pods, files or channels: a scan waits, runs at most once, and ends with *)
(* the outcome its runner reported, or is lost; its ledger (job.json) only *)
(* moves forward, and never ahead of the scan itself.                      *)
(***************************************************************************)
EXTENDS FiniteSets

CONSTANT Jobs

VARIABLES
    state,  \* of each job: what has become of it
    ledger  \* of each job: what the volume says of it

qvars == <<state, ledger>>

Ends   == {"completed", "failed"}
States == {"new", "waiting", "running", "lost"} \union Ends
Ledger == {"none", "queued", "running"} \union Ends

QTypeOK == state \in [Jobs -> States] /\ ledger \in [Jobs -> Ledger]

QInit == state = [j \in Jobs |-> "new"] /\ ledger = [j \in Jobs |-> "none"]

\* A request is accepted; writing its first ledger entry may fail.
Submit(j) ==
    /\ state[j] = "new"
    /\ state' = [state EXCEPT ![j] = "waiting"]
    /\ \/ ledger' = [ledger EXCEPT ![j] = "queued"]
       \/ UNCHANGED ledger

Begin(j) ==
    /\ state[j] = "waiting"
    /\ state' = [state EXCEPT ![j] = "running"]
    /\ UNCHANGED ledger

End(j, outcome) ==
    /\ state[j] = "running"
    /\ state' = [state EXCEPT ![j] = outcome]
    /\ UNCHANGED ledger

\* A failure costs the jobs of S, all those it hits at once.
Lose(S) ==
    /\ \A j \in S : state[j] \in {"waiting", "running"}
    /\ state' = [j \in Jobs |-> IF j \in S THEN "lost" ELSE state[j]]
    /\ UNCHANGED ledger

\* The ledger catches up with the scan, by one or two entries.
Record(j, entry) ==
    /\ \/ entry = "running" /\ ledger[j] \in {"none", "queued"}
                            /\ state[j] \in {"running"} \union Ends
       \/ entry \in Ends /\ entry = state[j] /\ ledger[j] \notin Ends
    /\ ledger' = [ledger EXCEPT ![j] = entry]
    /\ UNCHANGED state

QNext ==
    \/ \E j \in Jobs :
         \/ Submit(j) \/ Begin(j)
         \/ \E outcome \in Ends : End(j, outcome)
         \/ \E entry \in Ledger : Record(j, entry)
    \/ \E S \in (SUBSET Jobs) \ {{}} : Lose(S)

QSpec == QInit /\ [][QNext]_qvars
=============================================================================
