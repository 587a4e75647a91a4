------------------------------ MODULE MCPersist ------------------------------
(* A small pod for the model checker.                                      *)
EXTENDS Persist, TLC

CONSTANTS j1, t1, t2, r1

OneJob   == {j1}
TwoTools == {t1, t2}
BothOfJ1 == t1 :> j1 @@ t2 :> j1

OneReader == {r1}
=============================================================================
