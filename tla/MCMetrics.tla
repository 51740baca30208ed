------------------------------- MODULE MCMetrics -------------------------------
(* Two processes about the leap day of 2024 and the last of February of 2100. *)
EXTENDS MetricsFile

CONSTANTS one, other

\* 2024-02-29 and 2100-02-28, with leaps to their thirtieth and thirty-first
\* day; day 0 stands for no process at all.
MCFirstDays == {0, 19782, 47540}
MCLeaps == {30, 31}

MetricsIdle == today = 0 /\ MetricsInit
==============================================================================
