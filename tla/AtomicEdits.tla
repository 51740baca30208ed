----------------------------- MODULE AtomicEdits -----------------------------
(***************************************************************************)
(* What the edit tools promise a client: every edit_replace and            *)
(* edit_overwrite call takes effect on its file at one instant, as if the  *)
(* calls on a path had been made one after the other.  An edit that is     *)
(* rejected is rejected because of the contents the file has at that       *)
(* instant; an edit that fails with an I/O error leaves the file alone.    *)
(* EditTools is shown to implement this when no edit_overwrite is made.    *)
(***************************************************************************)
CONSTANTS
  Call,      \* the tool calls, each made at most once
  Path,      \* the canonical paths
  Content,   \* the contents a file may have
  Request,   \* the requests clients may send
  Absent,    \* the "contents" of a path where no file exists
  NoRequest, \* the request of a call that was not made
  Accepts(_, _), \* Accepts(r, f): request r is applicable to contents f
  Edited(_, _)   \* Edited(r, f): what r makes of contents f, when accepted

VARIABLES
  file,      \* [Path -> Content \cup {Absent}]
  req,       \* [Call -> Request \cup {NoRequest}]
  result     \* [Call -> {"none", "ok", "rejected", "failed"}]

vars == <<file, req, result>>

Init ==
  /\ file \in [Path -> Content \cup {Absent}]
  /\ req = [c \in Call |-> NoRequest]
  /\ result = [c \in Call |-> "none"]

Send(c, r) ==
  /\ req[c] = NoRequest
  /\ req' = [req EXCEPT ![c] = r]
  /\ UNCHANGED <<file, result>>

Pending(c) == req[c] # NoRequest /\ result[c] = "none"

Commit(c) ==
  LET p == req[c].path IN
  /\ Pending(c)
  /\ Accepts(req[c], file[p])
  /\ file' = [file EXCEPT ![p] = Edited(req[c], file[p])]
  /\ result' = [result EXCEPT ![c] = "ok"]
  /\ UNCHANGED req

Reject(c) ==
  /\ Pending(c)
  /\ ~Accepts(req[c], file[req[c].path])
  /\ result' = [result EXCEPT ![c] = "rejected"]
  /\ UNCHANGED <<file, req>>

Fail(c) ==
  /\ Pending(c)
  /\ result' = [result EXCEPT ![c] = "failed"]
  /\ UNCHANGED <<file, req>>

Next ==
  \E c \in Call :
    \/ \E r \in Request : Send(c, r)
    \/ Commit(c)
    \/ Reject(c)
    \/ Fail(c)

Spec == Init /\ [][Next]_vars
==============================================================================
