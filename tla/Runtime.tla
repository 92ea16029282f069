------------------------------ MODULE Runtime ------------------------------
(***************************************************************************)
(* The provider's side of a run: ProviderRuntime (runtime.py) behind an    *)
(* InProcessLink (inprocess.py), running agents that may be wrapped in     *)
(* serialize_per_thread (provider.py).                                     *)
(*                                                                         *)
(* funduq delivers and cancels, and is told of events and of the end of a  *)
(* run. A second round of a paused run is a delivery like any other, hence *)
(* another element of Runs; an event is counted, not described.  The jobs  *)
(* and the output queue are emptied without suspending: get() on a queue   *)
(* that is not empty returns at once, and the in-process link never waits. *)
(* Bound: MaxEvents events of a run.                                       *)
(***************************************************************************)
EXTENDS Integers, Sequences, FiniteSets, SequencesExt

CONSTANTS
  Runs,
  Threads,
  ThreadOf,        \* the thread of a run whose agent is serialized, or None
  Limit,           \* max_concurrent_runs, or Unlimited
  Unlimited,
  MaxQueued,       \* max_queued_runs
  MaxEvents,       \* bound: how many events an agent yields
  Behaviours,      \* which outside behaviours a model includes
  None

BehaviourClasses ==
  {"cancel",        \* a run in flight is told to stop
   "early_cancel"}  \* ... before its task has taken its first step

ASSUME RuntimeAssumption ==
  /\ IsFiniteSet(Runs)
  /\ ThreadOf \in [Runs -> Threads \cup {None}]
  /\ None \notin Threads
  /\ Limit \in (Nat \ {0}) \cup {Unlimited}
  /\ Unlimited \notin Nat
  /\ MaxQueued \in Nat \ {0}
  /\ MaxEvents \in Nat
  /\ Behaviours \subseteq BehaviourClasses

VARIABLES
  running,    \* _running, and with it the two loops
  accepted,   \* the runs deliver() said yes to, in that order
  jobs,       \* _jobs
  starting,   \* tasks created and not yet begun, as the event loop holds them
  inFlight,   \* the keys of _in_flight
  turns,      \* per thread: who holds its lock, then who waits for it
  yielded,    \* events the agent of each run has yielded
  output,     \* _output
  reported    \* what _report_output has taken from it, by run

vars == <<running, accepted, jobs, starting, inFlight, turns, yielded, output,
          reported>>

Items == Runs \X {"event", "_END"}
Queued == ToSet(jobs)
Starting == ToSet(starting)
Begun == inFlight \ Starting
Without(s, r) ==
  IF r \in ToSet(s) THEN RemoveAt(s, CHOOSE i \in DOMAIN s : s[i] = r) ELSE s
Over(r) == r \in ToSet(accepted) \ (Queued \cup inFlight)

Init ==
  /\ running = FALSE
  /\ accepted = <<>>
  /\ jobs = <<>>
  /\ starting = <<>>
  /\ inFlight = {}
  /\ turns = [t \in Threads |-> <<>>]
  /\ yielded = [r \in Runs |-> 0]
  /\ output = <<>>
  /\ reported = [r \in Runs |-> [events |-> 0, ends |-> 0]]

-----------------------------------------------------------------------------
(* The intake *)

(* Mutant: the limit itself is still let through. *)
HasRoom_one_more ==
  /\ Limit = Unlimited \/ Cardinality(inFlight) <= Limit
  /\ Limit = Unlimited \/ Len(jobs) < MaxQueued

HasRoom ==
  /\ Limit = Unlimited \/ Cardinality(inFlight) < Limit
  /\ Limit = Unlimited \/ Len(jobs) < MaxQueued

(* FunduqLink.deliver, offer and ProviderRuntime.deliver; a decline changes
   nothing here. *)
deliver(r) ==
  /\ r \notin ToSet(accepted)
  /\ running
  /\ HasRoom
  /\ accepted' = Append(accepted, r)
  /\ jobs' = Append(jobs, r)
  /\ UNCHANGED <<running, starting, inFlight, turns, yielded, output, reported>>

(* _run_jobs: a task for every job there is. *)
RunJobs ==
  /\ running
  /\ jobs # <<>>
  /\ jobs' = <<>>
  /\ starting' = starting \o jobs
  /\ inFlight' = inFlight \cup Queued
  /\ UNCHANGED <<running, accepted, turns, yielded, output, reported>>

-----------------------------------------------------------------------------
(* The tasks: _execute around the agent's run_stream *)

(* Mutant: whoever waits for the lock of a thread is put at its head. *)
Enters_jumps_queue(r) ==
  turns' = IF ThreadOf[r] = None THEN turns
           ELSE [turns EXCEPT ![ThreadOf[r]] =
                   IF @ = <<>> THEN <<r>> ELSE <<Head(@), r>> \o Tail(@)]

(* serialized: the lock of the thread is taken, or waited for, in order. *)
Enters(r) ==
  turns' = IF ThreadOf[r] = None THEN turns
           ELSE [turns EXCEPT ![ThreadOf[r]] = Append(@, r)]

(* ... and given up, or the place in the line. *)
Leaves(r) ==
  turns' = IF ThreadOf[r] = None THEN turns
           ELSE [turns EXCEPT ![ThreadOf[r]] = Without(@, r)]

HasTurn(r) == ThreadOf[r] # None => r = Head(turns[ThreadOf[r]])

(* Tasks take their first step in the order they were created in. *)
Begins ==
  LET r == Head(starting)
  IN /\ starting # <<>>
     /\ starting' = Tail(starting)
     /\ Enters(r)
     /\ UNCHANGED <<running, accepted, jobs, inFlight, yielded, output, reported>>

Yields(r) ==
  /\ r \in Begun
  /\ HasTurn(r)
  /\ yielded[r] < MaxEvents
  /\ yielded' = [yielded EXCEPT ![r] = @ + 1]
  /\ output' = Append(output, <<r, "event">>)
  /\ UNCHANGED <<running, accepted, jobs, starting, inFlight, turns, reported>>

(* Mutants: the end overtakes what the run has yielded; the end does not say
   of which run it is; a task that waits for its turn puts no end. *)
Ends_first(r) ==
  /\ inFlight' = inFlight \ {r}
  /\ output' = <<<<r, "_END">>>> \o output
Ends_unnamed(r) ==
  /\ inFlight' = inFlight \ {r}
  /\ output' = Append(output, <<None, "_END">>)
Ends_if_its_turn(r) ==
  /\ inFlight' = inFlight \ {r}
  /\ output' = IF HasTurn(r) THEN Append(output, <<r, "_END">>) ELSE output

(* The finally of _execute, and the callback that clears _in_flight. *)
Ends(r) ==
  /\ inFlight' = inFlight \ {r}
  /\ output' = Append(output, <<r, "_END">>)

(* The stream is exhausted, or raises: either is the end of the run. *)
StreamEnds(r) ==
  /\ r \in Begun
  /\ HasTurn(r)
  /\ Ends(r)
  /\ Leaves(r)
  /\ UNCHANGED <<running, accepted, jobs, starting, yielded, reported>>

(* A task that is cancelled stops where it waits: for its turn or inside the
   agent. One that has not begun never enters the body of _execute, so that
   not even its finally runs. *)
Stops(r) ==
  IF r \in Begun
  THEN Ends(r) /\ Leaves(r) /\ UNCHANGED starting
  ELSE /\ inFlight' = inFlight \ {r}
       /\ starting' = Without(starting, r)
       /\ UNCHANGED <<output, turns>>

(* cancel: a run whose job is still queued is not found, and runs. *)
cancel(r) ==
  /\ "cancel" \in Behaviours
  /\ r \in IF "early_cancel" \in Behaviours THEN inFlight ELSE Begun
  /\ Stops(r)
  /\ UNCHANGED <<running, accepted, jobs, yielded, reported>>

-----------------------------------------------------------------------------
(* The output *)

(* _report_output hands the next item to the link's report_event or
   finish_run; with no link, or one that raises, it is lost at this point. *)
ReportNext ==
  /\ running
  /\ output # <<>>
  /\ output' = Tail(output)
  /\ LET r == Head(output)[1]
     IN reported' = IF Head(output)[2] = "event"
                    THEN [reported EXCEPT ![r].events = @ + 1]
                    ELSE [reported EXCEPT ![r].ends = @ + 1]
  /\ UNCHANGED <<running, accepted, jobs, starting, inFlight, turns, yielded>>

-----------------------------------------------------------------------------
(* The life of the runtime *)

start ==
  /\ ~running
  /\ running' = TRUE
  /\ UNCHANGED <<accepted, jobs, starting, inFlight, turns, yielded, output, reported>>

(* aclose stops both loops and waits for the tasks, which go on to their end
   meanwhile; jobs and output stay where they are. *)
aclose ==
  /\ running
  /\ running' = FALSE
  /\ UNCHANGED <<accepted, jobs, starting, inFlight, turns, yielded, output, reported>>

(* ... and with cancel_in_flight every task stops first. *)
aclose_cancel_in_flight ==
  /\ running
  /\ running' = FALSE
  /\ "early_cancel" \notin Behaviours => starting = <<>>
  /\ inFlight' = {}
  /\ starting' = <<>>
  /\ turns' = [t \in Threads |-> <<>>]
  /\ output' = output \o SetToSeq(Begun \X {"_END"})
  /\ UNCHANGED <<accepted, jobs, yielded, reported>>

TaskStep(r) == Yields(r) \/ StreamEnds(r) \/ cancel(r)

Next ==
  \/ \E r \in Runs : deliver(r) \/ TaskStep(r)
  \/ RunJobs \/ Begins \/ ReportNext
  \/ start \/ aclose \/ aclose_cancel_in_flight

(* What the event loop runs, and an agent whose stream comes to an end. *)
Fairness ==
  /\ WF_vars(RunJobs) /\ WF_vars(Begins) /\ WF_vars(ReportNext)
  /\ \A r \in Runs : WF_vars(StreamEnds(r))

Spec == Init /\ [][Next]_vars
FairSpec == Spec /\ Fairness

-----------------------------------------------------------------------------
(* Properties *)

(* The runtime's queues hold what they are declared to hold. *)
RuntimeTypeOK ==
  /\ running \in BOOLEAN
  /\ accepted \in Seq(Runs) /\ jobs \in Seq(Runs) /\ starting \in Seq(Runs)
  /\ inFlight \subseteq Runs
  /\ turns \in [Threads -> Seq(Runs)]
  /\ yielded \in [Runs -> 0 .. MaxEvents]
  /\ output \in Seq(Items)
  /\ reported \in [Runs -> [events : Nat, ends : Nat]]

(* deliver() counts the tasks in flight but not the jobs that are queued: what
   it lets through stays within the limit only as far as the queue is short.
   With the default of one job the declared limit is kept exactly. *)
WithinLimit ==
  Limit # Unlimited => Cardinality(inFlight) <= Limit + MaxQueued - 1

(* _execute puts the end behind everything its run has yielded, once, and
   _report_output keeps that order through cancels and restarts: funduq hears
   of the end of a run when it has heard the rest, and nothing after it. *)
EndComesLast ==
  \A r \in Runs : reported[r].ends > 0 =>
    /\ reported[r] = [events |-> yielded[r], ends |-> 1]
    /\ r \notin inFlight

(* serialize_per_thread: a run has its turn only when every run of its thread
   that was accepted before it is over. *)
TurnsInOrder ==
  \A i, j \in DOMAIN accepted :
    LET earlier == accepted[i]
        later == accepted[j]
    IN /\ i < j
       /\ ThreadOf[earlier] = ThreadOf[later]
       /\ ThreadOf[later] # None
       /\ later \in Begun
       /\ HasTurn(later)
       => Over(earlier)

(* A run the runtime has said yes to is ended towards funduq, whatever happens
   to its task and however often the runtime is closed on the way, as long as
   it is running in the end. *)
EveryRunEnds ==
  <>[]running => \A r \in Runs : r \in ToSet(accepted) ~> reported[r].ends = 1
=============================================================================
