----------------------------- MODULE RunStatus -----------------------------
(***************************************************************************)
(* What a reader of the runs table may rely on, whatever dispatches the    *)
(* runs: the status machine of src/funduq/funduq/repo.py, and the one      *)
(* promise its transitions do not make by themselves, that nothing is      *)
(* recorded as cancelled which nobody asked to cancel.  Module Dispatch    *)
(* implements it.                                                          *)
(***************************************************************************)
EXTENDS Naturals

CONSTANT Runs

VARIABLES
  status,  \* runs.status, "none" while there is no row
  asked    \* the runs whose present round a caller asked to cancel

vars == <<status, asked>>

Final == {"completed", "cancelled", "failed"}
Active == {"queued", "running", "cancelling"}
Statuses == {"none", "input-required"} \cup Active \cup Final

(* LEGAL_STATUS_TRANSITIONS: what each write of mark_run_status may follow. *)
LegalFrom(to) ==
  CASE to = "running"        -> {"queued"}
    [] to = "input-required" -> {"running", "cancelling"}
    [] to = "cancelling"     -> {"running"}
    [] to = "completed"      -> {"running", "cancelling"}
    [] to = "cancelled"      -> {"queued", "running", "cancelling"}
    [] to = "failed"         -> {"queued", "running", "cancelling", "input-required"}
    [] OTHER                 -> {}

Init ==
  /\ status = [r \in Runs |-> "none"]
  /\ asked = {}

(* create_run *)
Create(r) ==
  /\ status[r] = "none"
  /\ status' = [status EXCEPT ![r] = "queued"]
  /\ UNCHANGED asked

(* reopen_run with expected_status = "input-required": the paused run's answer. *)
Reopen(r) ==
  /\ status[r] = "input-required"
  /\ status' = [status EXCEPT ![r] = "queued"]
  /\ UNCHANGED asked

Ask(r) ==
  /\ asked' = asked \cup {r}
  /\ UNCHANGED status

(* mark_run_status *)
Move(r, to) ==
  /\ status[r] \in LegalFrom(to)
  /\ to \in {"cancelling", "cancelled"} => r \in asked
  /\ status' = [status EXCEPT ![r] = to]
  /\ UNCHANGED asked

(* fail_stalled_runs, fail_stale_paused_runs, fail_orphaned_runs: many rows in
   one commit. *)
FailRows(R) ==
  /\ \A r \in R : status[r] \in LegalFrom("failed")
  /\ status' = [r \in Runs |-> IF r \in R THEN "failed" ELSE status[r]]
  /\ UNCHANGED asked

(* A round begins with nobody having asked for its end. *)
NewRound(r) ==
  /\ status[r] \notin {"running", "cancelling"}
  /\ asked' = asked \ {r}
  /\ UNCHANGED status

(* The process stops; what callers asked of it is gone with it. *)
Stop ==
  /\ asked' = {}
  /\ UNCHANGED status

Next ==
  \/ \E r \in Runs : Create(r)
  \/ \E r \in Runs : Reopen(r)
  \/ \E r \in Runs : Ask(r)
  \/ \E r \in Runs, to \in Statuses : Move(r, to)
  \/ \E R \in SUBSET Runs : FailRows(R)
  \/ \E r \in Runs : NewRound(r)
  \/ Stop

Spec == Init /\ [][Next]_vars
=============================================================================
