------------------------------- MODULE MCOutput -------------------------------
(* Commands of one client of one server, whose output is short or long, and  *)
(* two commands that may be asked of either server.                          *)
EXTENDS ExecOutput

CONSTANTS p1, p2

Line(err, len, noise) == [err |-> err, len |-> len, noise |-> noise]

MCLine == {Line(e, n, FALSE) : e \in BOOLEAN, n \in {1, 3}} \cup {Line(e, 1, TRUE) : e \in BOOLEAN}

ShortOutput(max) == UNION {[1..n -> MCLine] : n \in 0..max}

LongOutput == [i \in 1..6 |-> Line(i > 3, 3, i = 1)]

MixedOutput == <<Line(FALSE, 3, FALSE), Line(FALSE, 3, TRUE), Line(TRUE, 3, FALSE)>>

Ask(command, lines, ends, aborted) ==
  [by |-> {p1}, command |-> command, lines |-> lines, ends |-> ends, aborted |-> aborted]

OneCommand ==
  {<<Ask("ls", LongOutput, "ok", FALSE)>>}
  \cup {<<Ask("git", l, "ok", FALSE)>> : l \in ShortOutput(3)}
  \cup {<<Ask("git", l, e, a)>> : l \in ShortOutput(1) \cup {MixedOutput}, a \in BOOLEAN,
                                  e \in {"ok", "failed", "killed", "timed_out", "no_shell"}}

TwoCommands ==
  LET lines == <<Line(FALSE, 3, FALSE), Line(FALSE, 3, TRUE), Line(TRUE, 1, FALSE)>>
  IN  {<<Ask("git", lines, "ok", FALSE), [Ask("ls", lines, "ok", FALSE) EXCEPT !.by = Servers]>>}

MCPrograms == {<<>>} \cup OneCommand \cup TwoCommands

Rule(strip, max, onEmpty, valid) ==
  [match |-> {"git"}, strip |-> strip, max |-> max, onEmpty |-> onEmpty, valid |-> valid]

MCBuiltin == <<Rule(TRUE, <<1>>, TRUE, TRUE)>>

MCProjects ==
  {[kind |-> "absent"],
   [kind |-> "rules", version |-> 1,
    rules |-> <<Rule(FALSE, <<2>>, FALSE, TRUE), Rule(FALSE, <<>>, FALSE, FALSE)>>],
   [kind |-> "rules", version |-> 2, rules |-> <<Rule(FALSE, <<2>>, FALSE, TRUE)>>]}

OutputIdle == asked = <<>> /\ table = MCBuiltin /\ OutputInit
==============================================================================
