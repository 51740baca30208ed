------------------------------- MODULE MCExec -------------------------------
(* Instances of ExecCommand: a stdout budget of two lines and a stderr       *)
(* budget of one, with streams of up to three lines.                         *)
EXTENDS ExecCommand

MCBudget == [st \in Stream |-> IF st = "stdout" THEN 2 ELSE 1]
==============================================================================
