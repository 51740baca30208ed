-------------------------------- MODULE MCTools --------------------------------
(* One kind of work at a time, the rest of the server at rest: a request of   *)
(* the tools that are functions of texts, paths and files; the output of      *)
(* commands; the analysis of directories; the files of the metrics; or, where *)
(* none of these is asked for, the calls that share the caches of one file.   *)
EXTENDS MCFileCache, MCText, MCFiles, MCOutput, MCDirectory, MCMetrics

MCSuiteRequests == MCRequests \cup FileRequests

SuiteIdle == TextIdle /\ OutputIdle /\ DirectoryIdle /\ MetricsIdle

CacheIdle == Init /\ versions = [f \in Files |-> <<[content |-> Empty, mtime |-> 1]>>]

SuiteInit ==
  \/ SuiteIdle /\ Init
  \/ /\ CacheIdle
     /\ \/ RequestInit /\ OutputIdle /\ DirectoryIdle /\ MetricsIdle
        \/ TextIdle /\ OutputInit /\ asked # <<>> /\ DirectoryIdle /\ MetricsIdle
        \/ TextIdle /\ OutputIdle /\ DirectoryInit /\ visits # <<>> /\ MetricsIdle
        \/ TextIdle /\ OutputIdle /\ DirectoryIdle /\ MetricsInit /\ today # 0

SuiteNext ==
  \/ request.tool = "none" /\ asked = <<>> /\ visits = <<>> /\ today = 0 /\ Next
     /\ UNCHANGED <<requestVars, outputVars, directoryVars, metricsVars>>
  \/ (TextNext \/ FileNext) /\ UNCHANGED <<vars, outputVars, directoryVars, metricsVars>>
  \/ OutputNext /\ UNCHANGED <<vars, requestVars, directoryVars, metricsVars>>
  \/ visits # <<>> /\ DirectoryNext /\ UNCHANGED <<vars, requestVars, outputVars, metricsVars>>
  \/ today # 0 /\ MetricsNext /\ UNCHANGED <<vars, requestVars, outputVars, directoryVars>>

SuiteSpec == SuiteInit /\ [][SuiteNext]_<<vars, requestVars, outputVars, directoryVars, metricsVars>>
==============================================================================
