------------------------------ MODULE MCDirectory ------------------------------
(* Requests for one directory, or two, whose files are written meanwhile.     *)
EXTENDS DirectoryAnalysis

CONSTANTS here, there

Visit(root, depth, git, summary, offset, ends) ==
  [root |-> root, depth |-> depth, git |-> git, summary |-> summary, offset |-> offset, ends |-> ends]

MCVisits ==
  {<<>>,
   <<Visit(here, 0, "none", "auto", 0, "answered"), Visit(here, 0, "none", "yes", 0, "answered")>>,
   <<Visit(here, 1, "none", "auto", 0, "cancelled"), Visit(here, 1, "none", "no", 0, "answered")>>,
   <<Visit(here, 0, "ref", "no", 1, "answered"), Visit(here, 0, "ref", "yes", 1, "answered")>>,
   <<Visit(here, 1, "none", "no", 0, "answered"), Visit(here, 0, "1", "no", 0, "answered")>>,
   <<Visit(here, 0, "none", "no", 0, "answered"), Visit(there, 0, "none", "auto", 0, "answered")>>,
   <<Visit(here, 0, "bad", "no", 0, "answered")>>}

DirectoryIdle == visits = <<>> /\ DirectoryInit
==============================================================================
