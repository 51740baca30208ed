------------------------------- MODULE TextTools -------------------------------
(***************************************************************************)
(* One request to a tool that is a function of its arguments and of the    *)
(* files it reads, whichever tool it is for.                               *)
(***************************************************************************)
EXTENDS EditMatch, CommandChecks, Anchors, PythonImports

TextNext == EditNext \/ ResolveEditPath \/ CheckCommand \/ CheckAnchors \/ ImportsNext

TextSpec == RequestInit /\ [][TextNext]_requestVars
==============================================================================
