---------------------------- MODULE MCLiveStream ----------------------------
(* One scan and its watchers, for the model checker.                       *)
EXTENDS LiveStream, TLC

CONSTANTS p1, p2, s1, t1, t2

TwoPods    == {p1, p2}
OneStream  == {s1}
OneTool    == {t1}
TwoTools   == {t1, t2}
FirstTool  == {t1}
NoTool     == {}
=============================================================================
