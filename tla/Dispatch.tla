------------------------------ MODULE Dispatch ------------------------------
(***************************************************************************)
(* The broker with what it drives: the command handlers (handlers.py), the *)
(* runs table and the event log they write (repo.py), the doors that make  *)
(* a row before they enqueue it (protocols/agui.py, protocols/a2a.py), the *)
(* health sweep (health.py) and the restart of the process (core.py).      *)
(*                                                                         *)
(* A handler decides everything before its first await and then commits    *)
(* one statement at a time; todo holds the commits it has still to make.   *)
(* Of a run's event log only the RUN_ERRORs are kept, as a count that      *)
(* stops at two; other events change no state but the flags of the round.  *)
(* Bounds: those of Broker, and MaxCrashes stops of the process.           *)
(***************************************************************************)
EXTENDS Broker

CONSTANTS
  Failures,   \* which failures a model includes
  MaxCrashes  \* bound: how often the process stops

FailureClasses ==
  {"crash",       \* the process stops and starts again
   "lost_write",  \* a handler's database session raises
   "stall",       \* the sweep finds a claimed run silent
   "stale_pause", \* ... or a paused one unanswered
   "offline",     \* a door finds the agent unserved
   "rejected"}    \* a door raises between the row and the enqueue

ASSUME DispatchAssumption ==
  /\ Failures \subseteq FailureClasses
  /\ MaxCrashes \in Nat
  /\ Reports \subseteq {"RUN_FINISHED", "INTERRUPT", "RUN_ERROR", "MALFORMED"}

VARIABLES
  status,   \* runs.status
  errors,   \* RUN_ERROR events in run_events, counted to two
  saw,      \* saw_run_finished, pause_payload and saw_run_error of each object
  todo,     \* the commits each handler has still to make
  door,     \* how far the door that opened the row has come
  closing,  \* failed rows that still have to be given their terminal event
  phase,    \* the process: "up", "down" or "starting"
  crashes

recordVars == <<status, errors>>
dispatchVars == <<recordVars, saw, todo, door, closing, phase, crashes>>
allVars == <<vars, dispatchVars>>

Statuses == {"none", "queued", "running", "input-required", "cancelling",
             "completed", "cancelled", "failed"}
Settled == {"completed", "cancelled", "failed", "input-required"}
Unsettled == {"queued", "running", "cancelling"}

(* A handler runs in a pipeline or in a one-shot task. *)
Tasks == Objects \X {"offer", "late", "RequestCancel", "Fail"}
TaskOf(s) == <<s.obj, s.cmd>>
Writes == Statuses \cup {"RUN_ERROR"}

(* Mutant: a queued run cannot be cancelled. *)
LegalFrom_keeps_queued(to) ==
  CASE to = "running"        -> {"queued"}
    [] to = "input-required" -> {"running", "cancelling"}
    [] to = "cancelling"     -> {"running"}
    [] to = "completed"      -> {"running", "cancelling"}
    [] to = "cancelled"      -> {"running", "cancelling"}
    [] to = "failed"         -> {"queued", "running", "cancelling", "input-required"}
    [] OTHER                 -> {}

(* LEGAL_STATUS_TRANSITIONS *)
LegalFrom(to) ==
  CASE to = "running"        -> {"queued"}
    [] to = "input-required" -> {"running", "cancelling"}
    [] to = "cancelling"     -> {"running"}
    [] to = "completed"      -> {"running", "cancelling"}
    [] to = "cancelled"      -> {"queued", "running", "cancelling"}
    [] to = "failed"         -> {"queued", "running", "cancelling", "input-required"}
    [] OTHER                 -> {}

-----------------------------------------------------------------------------
(* What each handler will commit, given what its round has seen so far *)

(* _handle_finish: the first condition that holds gives the outcome. *)
Outcome(o) ==
  IF "INTERRUPT" \in saw[o] THEN "input-required"
  ELSE IF "RUN_FINISHED" \in saw[o] THEN "completed"
  ELSE IF o \in cancelled THEN "cancelled"
  ELSE "failed"

(* Mutant: a failure is recorded and no event made for it. *)
handle_finish_says_nothing(o) == <<Outcome(o)>>

handle_finish(o) ==
  IF Outcome(o) = "failed" /\ "RUN_ERROR" \notin saw[o]
  THEN <<"failed", "RUN_ERROR">>
  ELSE <<Outcome(o)>>

(* Mutants: the cancel of a claimed run is recorded as its outcome; a queued
   run is given a status by A2A's spelling. *)
handle_cancel_at_once(o) == <<"cancelled">>
handle_cancel_misspelt(o) == IF o \in claimed THEN <<"cancelling">> ELSE <<"canceled">>

handle_cancel(o) == IF o \in claimed THEN <<"cancelling">> ELSE <<"cancelled">>

handler(o, cmd) ==
  CASE cmd = "Claim"         -> <<"running">>
    [] cmd = "FinishStream"  -> handle_finish(o)
    [] cmd = "RequestCancel" -> handle_cancel(o)
    [] cmd = "Fail"          -> <<"RUN_ERROR", "failed">>
    [] cmd = "RUN_ERROR"     -> <<"RUN_ERROR">>
    [] OTHER                 -> <<>>

mark_run_status(r, to) ==
  status' = IF status[r] \in LegalFrom(to) THEN [status EXCEPT ![r] = to] ELSE status

append_error(r) ==
  errors' = [errors EXCEPT ![r] = IF @ < 2 THEN @ + 1 ELSE @]

(* One commit of a handler. *)
Commits(k) ==
  LET r == k[1][1]
      write == Head(todo[k])
  IN /\ phase = "up"
     /\ todo[k] # <<>>
     /\ todo' = [todo EXCEPT ![k] = Tail(@)]
     /\ IF write = "RUN_ERROR"
        THEN append_error(r) /\ UNCHANGED status
        ELSE mark_run_status(r, write) /\ UNCHANGED errors
     /\ UNCHANGED <<vars, saw, door, closing, phase, crashes>>

(* The session raises; the task logs it and carries on behind the handler. *)
LosesWrites(k) ==
  /\ "lost_write" \in Failures
  /\ phase = "up"
  /\ todo[k] # <<>>
  /\ todo' = [todo EXCEPT ![k] = <<>>]
  /\ UNCHANGED <<vars, recordVars, saw, door, closing, phase, crashes>>

-----------------------------------------------------------------------------
(* The steps of the broker's tasks around their handlers *)

(* The next command: _handle_relay keeps the flags of the round. *)
Takes(l) ==
  LET cmd == Head(inq[l[1]])
      flag == {cmd} \cap {"RUN_FINISHED", "INTERRUPT", "RUN_ERROR"}
  IN /\ phase = "up"
     /\ PipelineTakes(l)
     /\ cmd # "MALFORMED"
     /\ saw' = [saw EXCEPT ![l[1]] = @ \cup flag]
     /\ todo' = [todo EXCEPT ![l] = handler(l[1], cmd)]
     /\ UNCHANGED <<recordVars, door, closing, phase, crashes>>

(* A malformed event empties the queue it came from and pushes a Fail. *)
TakesMalformed(l) ==
  LET o == l[1]
      r == o[1]
  IN /\ phase = "up"
     /\ lanes[l] = "get" /\ inq[o] # <<>> /\ Head(inq[o]) = "MALFORMED"
     /\ lanes' = [lanes EXCEPT ![l] = "MALFORMED"]
     /\ inq' = IF IsTracked(r)
               THEN Put([inq EXCEPT ![o] = <<>>], Current(r), "Fail")
               ELSE [inq EXCEPT ![o] = <<>>]
     /\ IF IsTracked(r) /\ Current(r) \in claimed
        THEN note_abnormal(Provider(r), "abandoned")
        ELSE UNCHANGED <<counts, live, overdue>>
     /\ UNCHANGED <<tracked, pending, inFlight, claimed, cancelled, solo, ended, round,
                    working, loopVars, workToDo, dispatchVars>>

GoesOn(l) ==
  /\ phase = "up" /\ todo[l] = <<>>
  /\ PipelineGoesOn(l)
  /\ UNCHANGED dispatchVars

Ends(l) ==
  /\ phase = "up" /\ todo[l] = <<>>
  /\ PipelineEnds(l)
  /\ UNCHANGED dispatchVars

StartsOneShot(s) ==
  /\ phase = "up"
  /\ OneShotStarts(s)
  /\ todo' = [todo EXCEPT ![TaskOf(s)] = handler(s.obj, s.cmd)]
  /\ UNCHANGED <<recordVars, saw, door, closing, phase, crashes>>

EndsOneShot(s) ==
  /\ phase = "up" /\ todo[TaskOf(s)] = <<>>
  /\ OneShotEnds(s)
  /\ UNCHANGED dispatchVars

-----------------------------------------------------------------------------
(* The doors: protocols/agui.py run, protocols/a2a.py _start_run.  The row is
   committed first; the run is enqueued several awaits later. *)

OpenDoor(r) == door' = [door EXCEPT ![r] = "opened"]

(* create_run *)
Create(r) ==
  /\ phase = "up" /\ status[r] = "none"
  /\ status' = [status EXCEPT ![r] = "queued"]
  /\ OpenDoor(r)
  /\ UNCHANGED <<vars, errors, saw, todo, closing, phase, crashes>>

(* No task of an earlier round of r is left. *)
RoundIsOver(r) ==
  /\ \A l \in Lanes : l[1][1] = r => lanes[l] \in {"off", "finished", "closed"}
  /\ \A s \in solo : s.obj[1] # r

(* Mutant: the row is reopened whatever its status. *)
Reopen_unguarded(r) ==
  /\ phase = "up" /\ door[r] = "shut" /\ round[r] < MaxRounds
  /\ RoundIsOver(r)
  /\ status[r] \in Settled
  /\ status' = [status EXCEPT ![r] = "queued"]
  /\ OpenDoor(r)
  /\ UNCHANGED <<vars, errors, saw, todo, closing, phase, crashes>>

(* reopen_run(expected_status = "input-required"): the row is all it looks at. *)
Reopen(r) ==
  /\ phase = "up" /\ door[r] = "shut" /\ round[r] < MaxRounds
  /\ IF RoundIsOver(r) THEN "resume" \in Behaviours ELSE "resume_early" \in Behaviours
  /\ status[r] = "input-required"
  /\ status' = [status EXCEPT ![r] = "queued"]
  /\ OpenDoor(r)
  /\ UNCHANGED <<vars, errors, saw, todo, closing, phase, crashes>>

(* The agent is served: go on to build the input and enqueue. *)
FindsServed(r) ==
  /\ phase = "up" /\ door[r] = "opened"
  /\ AgentOf[r] \in live
  /\ door' = [door EXCEPT ![r] = "served"]
  /\ UNCHANGED <<vars, recordVars, saw, todo, closing, phase, crashes>>

(* ... or it is not: agent_offline, recorded without an event. *)
FindsOffline(r) ==
  /\ "offline" \in Failures
  /\ phase = "up" /\ door[r] = "opened"
  /\ AgentOf[r] \notin live
  /\ mark_run_status(r, "failed")
  /\ door' = [door EXCEPT ![r] = "shut"]
  /\ UNCHANGED <<vars, errors, saw, todo, closing, phase, crashes>>

(* InvalidRunInput: the row is committed and nobody will enqueue it. *)
Rejects(r) ==
  /\ "rejected" \in Failures
  /\ phase = "up" /\ door[r] = "served"
  /\ door' = [door EXCEPT ![r] = "shut"]
  /\ UNCHANGED <<vars, recordVars, saw, todo, closing, phase, crashes>>

Enqueues(r) ==
  /\ phase = "up" /\ door[r] = "served"
  /\ enqueue_run(r)
  /\ door' = [door EXCEPT ![r] = "shut"]
  /\ UNCHANGED <<recordVars, saw, todo, closing, phase, crashes>>

-----------------------------------------------------------------------------
(* The health sweep *)

(* _fail_runs: every row that is past its time fails in one commit. *)
fail_runs(R) ==
  /\ R # {}
  /\ status' = [r \in Runs |-> IF r \in R THEN "failed" ELSE status[r]]
  /\ closing' = closing \cup R

(* Mutant: a run that is being cancelled never counts as silent. *)
fail_stalled_runs_running(R) ==
  /\ "stall" \in Failures
  /\ phase = "up" /\ closing = {}
  /\ \A r \in R : status[r] = "running"
  /\ fail_runs(R)
  /\ UNCHANGED <<vars, errors, saw, todo, door, phase, crashes>>

fail_stalled_runs(R) ==
  /\ "stall" \in Failures
  /\ phase = "up" /\ closing = {}
  /\ \A r \in R : status[r] \in {"running", "cancelling"}
  /\ fail_runs(R)
  /\ UNCHANGED <<vars, errors, saw, todo, door, phase, crashes>>

(* The sweep's second commit: what the first one failed need not be closed yet. *)
fail_stale_paused_runs(R) ==
  /\ "stale_pause" \in Failures
  /\ phase = "up"
  /\ \A r \in R : status[r] = "input-required"
  /\ fail_runs(R)
  /\ UNCHANGED <<vars, errors, saw, todo, door, phase, crashes>>

(* close_with_terminal_event: push a Fail to a run the broker tracks, append
   the event for one it does not, unless the record has one. *)
close_with_terminal_event(r) ==
  /\ phase # "down" /\ r \in closing
  /\ closing' = closing \ {r}
  /\ IF IsTracked(r)
     THEN push_fail(r) /\ UNCHANGED errors
     ELSE /\ UNCHANGED vars
          /\ IF errors[r] = 0 THEN append_error(r) ELSE UNCHANGED errors
  /\ UNCHANGED <<status, saw, todo, door, phase, crashes>>

-----------------------------------------------------------------------------
(* The process stops: what the broker, the doors and the sweep held is gone. *)
Crash ==
  /\ "crash" \in Failures
  /\ phase # "down" /\ crashes < MaxCrashes
  /\ crashes' = crashes + 1
  /\ phase' = "down"
  /\ tracked' = [r \in Runs |-> 0]
  /\ pending' = [a \in Agents |-> <<>>]
  /\ live' = {} /\ overdue' = {}
  /\ inFlight' = [p \in Providers |-> 0]
  /\ counts' = [p \in Providers |-> [k \in Kinds |-> 0]]
  /\ claimed' = {} /\ cancelled' = {}
  /\ inq' = [o \in Objects |-> <<>>]
  /\ lanes' = [l \in Lanes |-> "off"]
  /\ solo' = {} /\ ended' = {}
  /\ offer' = None /\ loop' = "top" /\ toVisit' = {} /\ at' = None
  /\ placed' = FALSE /\ workToDo' = FALSE
  /\ saw' = [o \in Objects |-> {}]
  /\ todo' = [k \in Tasks |-> <<>>]
  /\ door' = [r \in Runs |-> "shut"]
  /\ closing' = {}
  /\ UNCHANGED <<round, working, recordVars>>

(* Mutant: only rows a provider had taken are failed at the restart. *)
Start_keeps_queued ==
  LET orphaned == {r \in Runs : status[r] \in {"running", "cancelling"}}
  IN /\ phase = "down"
     /\ phase' = "starting"
     /\ status' = [r \in Runs |-> IF r \in orphaned THEN "failed" ELSE status[r]]
     /\ closing' = orphaned
     /\ UNCHANGED <<vars, errors, saw, todo, door, crashes>>

(* Funduq.start: fail_orphaned_runs, then a terminal event for each ... *)
Start ==
  LET orphaned == {r \in Runs : status[r] \in Unsettled}
  IN /\ phase = "down"
     /\ phase' = "starting"
     /\ status' = [r \in Runs |-> IF r \in orphaned THEN "failed" ELSE status[r]]
     /\ closing' = orphaned
     /\ UNCHANGED <<vars, errors, saw, todo, door, crashes>>

(* ... before the broker runs. *)
Started ==
  /\ phase = "starting" /\ closing = {}
  /\ phase' = "up"
  /\ UNCHANGED <<vars, recordVars, saw, todo, door, closing, crashes>>

-----------------------------------------------------------------------------
DispatchInit ==
  /\ Init
  /\ status = [r \in Runs |-> "none"]
  /\ errors = [r \in Runs |-> 0]
  /\ saw = [o \in Objects |-> {}]
  /\ todo = [k \in Tasks |-> <<>>]
  /\ door = [r \in Runs |-> "shut"]
  /\ closing = {}
  /\ phase = "up"
  /\ crashes = 0

DoorStep(r) ==
  \/ Create(r)
  \/ Reopen(r)
  \/ FindsServed(r)
  \/ FindsOffline(r)
  \/ Rejects(r)
  \/ Enqueues(r)

(* What the dispatch loop, callers and providers do as in Broker. *)
BrokerStep ==
  /\ phase = "up"
  /\ \/ LoopStep
     \/ ProviderAccepts
     \/ OfferStep
     \/ \E p \in Providers : register_provider(p)
     \/ \E p \in Providers : Detach(p)
     \/ \E r \in Runs : request_cancel(r)
     \/ \E r \in Runs : GracePasses(r)
     \/ \E o \in Objects, e \in Reports : report_event(o, e)
     \/ \E o \in Objects, e \in Reports : accept_late_ack(o, e)
     \/ \E o \in Objects : finish_run(o)
     \/ \E o \in Objects : Abandon(o)
  /\ UNCHANGED dispatchVars

TaskStep(l) == Takes(l) \/ TakesMalformed(l) \/ GoesOn(l) \/ Ends(l)

SweepStep(R) == fail_stalled_runs(R) \/ fail_stale_paused_runs(R)

DispatchNext ==
  \/ \E r \in Runs : DoorStep(r)
  \/ BrokerStep
  \/ \E k \in Tasks : Commits(k)
  \/ \E k \in Tasks : LosesWrites(k)
  \/ \E l \in Lanes : TaskStep(l)
  \/ \E s \in SoloTasks : StartsOneShot(s)
  \/ \E s \in SoloTasks : EndsOneShot(s)
  \/ \E R \in SUBSET Runs : SweepStep(R)
  \/ \E r \in Runs : close_with_terminal_event(r)
  \/ Crash
  \/ Start
  \/ Started

DispatchSpec == DispatchInit /\ [][DispatchNext]_allVars

(* As in Broker; besides, a handler's commits happen, a door that opened a row
   goes on, the sweep comes round and the process is started again. *)
DispatchFairness ==
  /\ WF_allVars(phase = "up" /\ LoopStep /\ UNCHANGED dispatchVars)
  /\ WF_allVars(phase = "up" /\ (ProviderAccepts \/ OfferStep) /\ UNCHANGED dispatchVars)
  /\ \A r \in Runs :
       /\ WF_allVars(phase = "up" /\ GracePasses(r) /\ UNCHANGED dispatchVars)
       /\ WF_allVars(FindsServed(r) \/ FindsOffline(r) \/ Enqueues(r))
       /\ WF_allVars(fail_stalled_runs({r}))
       /\ WF_allVars(close_with_terminal_event(r))
  /\ \A k \in Tasks : WF_allVars(Commits(k))
  /\ \A l \in Lanes : WF_allVars(TaskStep(l))
  /\ \A s \in SoloTasks : WF_allVars(StartsOneShot(s) \/ EndsOneShot(s))
  /\ \A o \in Objects : WF_allVars(phase = "up" /\ finish_run(o) /\ UNCHANGED dispatchVars)
  /\ WF_allVars(Start) /\ WF_allVars(Started)

DispatchFairSpec == DispatchSpec /\ DispatchFairness

-----------------------------------------------------------------------------
(* The variables keep their types. *)
DispatchTypeOK ==
  /\ TypeOK
  /\ status \in [Runs -> Statuses]
  /\ errors \in [Runs -> 0..2]
  /\ saw \in [Objects -> SUBSET {"RUN_FINISHED", "INTERRUPT", "RUN_ERROR"}]
  /\ todo \in [Tasks -> Seq(Writes)]
  /\ door \in [Runs -> {"shut", "opened", "served"}]
  /\ closing \subseteq Runs
  /\ phase \in {"up", "down", "starting"}
  /\ crashes \in 0..MaxCrashes

(* Whatever order handlers, doors, sweep and restart commit in, the runs table
   moves as RunStatus says: a verdict stands, a paused run is reopened once per
   answer, and nothing is recorded as cancelled that nobody asked to cancel. *)
Record == INSTANCE RunStatus WITH
  asked <- {r \in Runs : round[r] > 0 /\ <<r, round[r]>> \in cancelled}
ImplementsRunStatus == Record!Spec

(* A stream ends only when its round is settled in the record: what a door
   reads right after END_OF_STREAM is the outcome (a2a.py, send_task). *)
EndMeansSettled ==
  \A r \in Runs :
    /\ round[r] > 0 /\ <<r, round[r]>> \in ended
    /\ door[r] = "shut"
    => status[r] \in Settled

(* A row that promises a verdict has somebody who will bring it: while it is
   queued, running or cancelling, its door is still at work, the broker tracks
   it, or the restart has yet to fail it (dispatch.md:128: no run is left queued
   that nothing will ever dispatch). *)
ActiveIsTracked ==
  \A r \in Runs :
    phase = "up" /\ status[r] \in Unsettled => door[r] # "shut" \/ IsTracked(r)

(* No task, sweep or restart has anything left to do for r. *)
AtRest(r) ==
  /\ RoundIsOver(r)
  /\ r \notin closing /\ phase = "up"

(* A run recorded failed carries a RUN_ERROR, its own or a synthesized one
   (requests.md:76): once everything about it has come to rest. *)
FailedHasError ==
  \A r \in Runs : status[r] = "failed" /\ AtRest(r) => errors[r] > 0

(* A claimed run is recorded cancelled only when its stream has ended, never
   when the cancel is asked for (requests.md:39). *)
CancelIsObserved ==
  [][\A r \in Runs :
       status[r] # "cancelled" /\ status'[r] = "cancelled" /\ Current(r) \in claimed
         => \E l \in Lanes : l[1] = Current(r) /\ lanes[l] = "FinishStream"]_allVars

(* Every row that promises a verdict gets one, through provider failures and
   restarts: the stall sweep, the grace window and the restart reap see to it. *)
RunsSettle ==
  \A r \in Runs : (status[r] \in Unsettled) ~> (status[r] \in Settled)
=============================================================================
