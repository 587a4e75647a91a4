----------------------------- MODULE MCDispatch -----------------------------
(* Small deployments for the model checker.                                *)
EXTENDS Dispatch, TLC

CONSTANTS p1, p2, j1, j2

TwoPods == {p1, p2}
TwoJobs == {j1, j2}

\* j1 has the oldest name.
TwoNames == j1 :> 1 @@ j2 :> 2

NoneAdHoc   == {}
SecondAdHoc == {j2}

PodSymmetry == Permutations(Pods)
=============================================================================
