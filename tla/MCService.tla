----------------------------- MODULE MCService -----------------------------
(***************************************************************************)
(* Constant values for TLC.                                                *)
(***************************************************************************)
EXTENDS Service

\* Every window of a week whose days have three minutes, and two windows at a
\* time of a few.
OneWindow == {{w} : w \in [days : {{}, {0}, {1, 4}, {6}, Day}, start : 0..DayLength,
                            end : 0..DayLength, end_policy : EndPolicy]}
SomeWindows == [days : {{0}, {6}}, start : {1, 2}, end : {1, DayLength}, end_policy : EndPolicy]
MCSchedule == {{}} \cup OneWindow \cup {{v, w} : v, w \in SomeWindows}
=============================================================================
