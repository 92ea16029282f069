------------------------------- MODULE Broker -------------------------------
(***************************************************************************)
(* The in-memory dispatcher of funduq, src/funduq/funduq/broker.py, with   *)
(* the roster it keeps (live_roster.py).  One asyncio loop runs everything,*)
(* so a step is the code between two awaits; the command handlers that the *)
(* broker awaits are left abstract here (a handler takes any time) and are *)
(* filled in by module Dispatch.                                           *)
(*                                                                         *)
(* Abstractions:                                                           *)
(*  - an AgentRef names its provider key, and only that key can serve it   *)
(*    (core.py, _Roster.attach), so Owner is a constant and a claim is a   *)
(*    flag: the claimant is always the owner of the run's agent;           *)
(*  - a Run object is a pair <<run_id, round>>: enqueue_run makes a new    *)
(*    object under the same id each time a paused run is resumed;          *)
(*  - time is a choice: an offer may time out while it is unanswered, a    *)
(*    queued run may outlive its grace while its agent is unserved;        *)
(*  - the agents of one walk of the loop are visited in any order.         *)
(* Bounds: MaxRounds objects per run id, MaxBacklog commands waiting in an *)
(* in_queue before a provider reports or a sweep pushes another, one       *)
(* cancel request per object, quality counters stop at the tolerance.      *)
(***************************************************************************)
EXTENDS Naturals, Sequences, SequencesExt, FiniteSets

CONSTANTS
  Runs,        \* run ids
  Agents,      \* agent refs
  Providers,   \* provider public keys
  AgentOf,     \* the agent a run addresses
  Owner,       \* the provider key in an agent's ref
  Limit,       \* max_concurrent_runs each provider declared, or Unlimited
  Unlimited,   \* the value of Limit that stands for None
  Tolerance,   \* quality_tolerance, or Unlimited when it is None
  MaxRounds,   \* bound: Run objects per run id
  MaxBacklog,  \* bound: commands waiting when another is reported
  Reports,     \* the kinds of event a provider reports (RelayEvent)
  Behaviours,  \* which classes of outside behaviour a model includes
  None         \* no agent, no offer

BehaviourClasses ==
  {"cancel",          \* a caller cancels a run that is not being offered
   "cancel_offered",  \* ... or one whose offer is awaiting its answer
   "decline",         \* a provider answers False
   "refuse",          \* a provider answers with a Refusal
   "unanswered",      \* an offer times out or raises
   "late_report",     \* a provider reports a run whose offer timed out
   "early_report",    \* ... or ends, a run whose acceptance is still on its way
   "resume",          \* a paused run is reopened and enqueued again
   "resume_early",    \* ... while its last pipeline has yet to forget it
   "detach",          \* a provider's connection goes
   "abandon",         \* a provider loses a run it took
   "expire",          \* an unserved agent's grace window passes
   "fail"}            \* the health sweep pushes a Fail

ASSUME BrokerAssumption ==
  /\ IsFiniteSet(Runs)
  /\ AgentOf \in [Runs -> Agents]
  /\ Owner \in [Agents -> Providers]
  /\ Unlimited \notin Nat
  /\ Limit \in [Providers -> Nat \cup {Unlimited}]
  /\ Tolerance \in (Nat \ {0}) \cup {Unlimited}
  /\ MaxRounds \in Nat \ {0}
  /\ MaxBacklog \in Nat
  /\ Reports \cap {"Claim", "FinishStream", "RequestCancel", "Fail"} = {}
  /\ Reports \cap {"off", "get", "finished", "closed"} = {}
  /\ None \notin Agents
  /\ Behaviours \subseteq BehaviourClasses

VARIABLES
  tracked,    \* _runs: the round of the object filed under a run id, 0 if none
  pending,    \* _pending_by_agent: run ids awaiting a place, per agent
  live,       \* LiveRoster._links: the agents that have a connection
  overdue,    \* objects whose grace without a provider has passed
  inFlight,   \* _capacity[key].in_flight
  counts,     \* LiveRoster._counters
  claimed,    \* objects whose claimed_by is set
  cancelled,  \* objects whose cancel_requested is set
  inq,        \* in_queue of each object
  lanes,      \* the _pipeline tasks: at most one per way of being claimed
  solo,       \* the _one_shot tasks
  ended,      \* objects with END_OF_STREAM on their out_queue
  round,      \* how many objects a run id has had
  working,    \* objects a provider has taken and not yet finished
  offer,      \* the offer awaiting its answer, if any
  loop,       \* where run_forever is: "top", "walk" or "asleep"
  toVisit,    \* agents the current walk has still to visit
  at,         \* the agent being visited
  placed,     \* whether this walk placed a run
  workToDo    \* _work_to_do is set

loopVars == <<offer, loop, toVisit, at, placed>>
objVars == <<claimed, cancelled, inq, lanes, solo, ended>>
vars == <<tracked, pending, live, overdue, inFlight, counts, objVars, round,
          working, loopVars, workToDo>>

-----------------------------------------------------------------------------
Objects == Runs \X (1..MaxRounds)
Commands == {"Claim", "FinishStream", "RequestCancel", "Fail"} \cup Reports
Kinds == {"misdeclared", "abandoned", "unanswered", "answered_late"}

(* A pipeline is spawned by an accepted offer or by a late acknowledgement. *)
Lanes == Objects \X {"offer", "late"}
LaneStates == {"off", "get", "finished", "closed"} \cup Commands
SoloTasks == [obj : Objects, cmd : {"RequestCancel", "Fail"},
              step : {"spawned", "handling"}]
Offers == [obj : Objects, answer : {"awaited", "yes"}]

AgentOfObj(o) == AgentOf[o[1]]
Provider(r) == Owner[AgentOf[r]]
AgentsOf(p) == {a \in Agents : Owner[a] = p}
Current(r) == <<r, tracked[r]>>
IsTracked(r) == tracked[r] # 0

(* _Capacity.has_room *)
has_room(p) == Limit[p] # Unlimited => inFlight[p] < Limit[p]

(* Runs of p that the broker tracks as claimed: what in_flight counts. *)
Held(p) == {r \in Runs : IsTracked(r) /\ Current(r) \in claimed /\ Provider(r) = p}

Put(q, o, cmd) == [q EXCEPT ![o] = Append(@, cmd)]
Dequeue(r) == [pending EXCEPT ![AgentOf[r]] = RemoveFirst(@, r)]

-----------------------------------------------------------------------------
(* Helpers that several operations share *)

(* unregister_provider: the agents go, and their clocks start afresh. *)
unregister_provider(as) ==
  /\ live' = live \ as
  /\ overdue' = {o \in overdue : AgentOfObj(o) \notin as}

(* Mutant: withdraw a provider only once it is past its allowance. *)
note_abnormal_past_allowance(p, kind) ==
  LET n == counts[p][kind] + 1
  IN IF Tolerance = Unlimited
     THEN UNCHANGED <<counts, live, overdue>>
     ELSE /\ counts' = [counts EXCEPT ![p][kind] = IF n < Tolerance THEN n ELSE Tolerance]
          /\ unregister_provider(IF n <= Tolerance THEN {} ELSE AgentsOf(p) \cap live)

(* _note_abnormal: count, and withdraw a provider that spent its allowance. *)
note_abnormal(p, kind) ==
  LET n == counts[p][kind] + 1
  IN IF Tolerance = Unlimited
     THEN UNCHANGED <<counts, live, overdue>>
     ELSE /\ counts' = [counts EXCEPT ![p][kind] = IF n < Tolerance THEN n ELSE Tolerance]
          /\ unregister_provider(IF n < Tolerance THEN {} ELSE AgentsOf(p) \cap live)

(* Mutants of forget: a place is freed for a run nobody claimed; none is freed. *)
forget_frees_unclaimed(r) ==
  LET p == Provider(r)
  IN /\ tracked' = [tracked EXCEPT ![r] = 0]
     /\ inFlight' = IF IsTracked(r) THEN [inFlight EXCEPT ![p] = @ - 1] ELSE inFlight
     /\ workToDo' = TRUE

forget_keeps_place(r) ==
  /\ tracked' = [tracked EXCEPT ![r] = 0]
  /\ UNCHANGED <<inFlight, workToDo>>

(* forget: drop the object filed under r, whichever it is, and free its place. *)
forget(r) ==
  LET p == Provider(r)
      frees == IsTracked(r) /\ Current(r) \in claimed /\ inFlight[p] > 0
  IN /\ tracked' = [tracked EXCEPT ![r] = 0]
     /\ inFlight' = IF frees THEN [inFlight EXCEPT ![p] = @ - 1] ELSE inFlight
     /\ workToDo' = (workToDo \/ frees)

(* What claiming an object starts.  Handlers are kept by run id and dropped
   by forget, so an object whose id is no longer tracked gets no pipeline. *)
claim(o, via) ==
  /\ claimed' = claimed \cup {o}
  /\ lanes' = IF IsTracked(o[1]) THEN [lanes EXCEPT ![<<o, via>>] = "get"] ELSE lanes

-----------------------------------------------------------------------------
Init ==
  /\ tracked = [r \in Runs |-> 0]
  /\ pending = [a \in Agents |-> <<>>]
  /\ live = {}
  /\ overdue = {}
  /\ inFlight = [p \in Providers |-> 0]
  /\ counts = [p \in Providers |-> [k \in Kinds |-> 0]]
  /\ claimed = {}
  /\ cancelled = {}
  /\ inq = [o \in Objects |-> <<>>]
  /\ lanes = [l \in Lanes |-> "off"]
  /\ solo = {}
  /\ ended = {}
  /\ round = [r \in Runs |-> 0]
  /\ working = {}
  /\ offer = None
  /\ loop = "top"
  /\ toVisit = {}
  /\ at = None
  /\ placed = FALSE
  /\ workToDo = FALSE

-----------------------------------------------------------------------------
(* What callers and connections do *)

(* A new object replaces whatever _runs held under the id. *)
enqueue_run(r) ==
  /\ round[r] < MaxRounds
  /\ round' = [round EXCEPT ![r] = @ + 1]
  /\ tracked' = [tracked EXCEPT ![r] = round[r] + 1]
  /\ pending' = [pending EXCEPT ![AgentOf[r]] = Append(@, r)]
  /\ workToDo' = TRUE
  /\ UNCHANGED <<live, overdue, inFlight, counts, objVars, working, loopVars>>

Submit(r) == round[r] = 0 /\ enqueue_run(r)

(* A door enqueues a run again once the row says it paused.  The row says so
   from inside the FinishStream handler, before its pipeline forgets the run. *)
Resume(r) ==
  /\ round[r] > 0
  /\ \E via \in {"offer", "late"} :
       LET state == lanes[<<<<r, round[r]>>, via>>]
       IN \/ "resume" \in Behaviours /\ state = "finished"
          \/ "resume_early" \in Behaviours /\ state = "FinishStream"
  /\ enqueue_run(r)

(* Mutant: a registration starts the key's capacity afresh. *)
register_provider_resets(p) ==
  /\ ~ AgentsOf(p) \subseteq live
  /\ live' = live \cup AgentsOf(p)
  /\ overdue' = {o \in overdue : AgentOfObj(o) \notin AgentsOf(p)}
  /\ inFlight' = [inFlight EXCEPT ![p] = 0]
  /\ workToDo' = TRUE
  /\ UNCHANGED <<tracked, pending, counts, objVars, round, working, loopVars>>

(* register_provider: the connection serves its agents again.  Capacity that
   was already tracked for the key is kept. *)
register_provider(p) ==
  /\ ~ AgentsOf(p) \subseteq live
  /\ live' = live \cup AgentsOf(p)
  /\ overdue' = {o \in overdue : AgentOfObj(o) \notin AgentsOf(p)}
  /\ workToDo' = TRUE
  /\ UNCHANGED <<tracked, pending, inFlight, counts, objVars, round, working, loopVars>>

Detach(p) ==
  /\ "detach" \in Behaviours
  /\ AgentsOf(p) \cap live # {}
  /\ unregister_provider(AgentsOf(p))
  /\ UNCHANGED <<tracked, pending, inFlight, counts, objVars, round, working,
                 loopVars, workToDo>>

(* request_cancel: forwarded to the pipeline of a claimed run, recorded by a
   one-shot task for a run nobody has claimed. *)
request_cancel(r) ==
  LET o == Current(r)
      offered == offer # None /\ offer.obj = o
  IN /\ IsTracked(r)
     /\ o \notin cancelled
     /\ IF offered THEN "cancel_offered" \in Behaviours ELSE "cancel" \in Behaviours
     /\ cancelled' = cancelled \cup {o}
     /\ IF o \in claimed
        THEN inq' = Put(inq, o, "RequestCancel") /\ UNCHANGED solo
        ELSE /\ solo' = solo \cup {[obj |-> o, cmd |-> "RequestCancel", step |-> "spawned"]}
             /\ UNCHANGED inq
     /\ UNCHANGED <<tracked, pending, live, overdue, inFlight, counts, claimed, lanes,
                    ended, round, working, loopVars, workToDo>>

(* push(run_id, Fail(...)): what the health sweep does to a run that stalled. *)
push_fail(r) ==
  LET o == Current(r)
  IN /\ IsTracked(r)
     /\ inq' = Put(inq, o, "Fail")
     /\ IF o \in claimed
        THEN note_abnormal(Provider(r), "abandoned")
        ELSE UNCHANGED <<counts, live, overdue>>
     /\ UNCHANGED <<tracked, pending, inFlight, claimed, cancelled, lanes, solo, ended,
                    round, working, loopVars, workToDo>>

FailStalled(r) ==
  /\ "fail" \in Behaviours
  /\ Current(r) \in claimed
  /\ IsTracked(r) /\ Len(inq[Current(r)]) <= MaxBacklog
  /\ push_fail(r)

-----------------------------------------------------------------------------
(* The dispatch loop *)

(* A queued run has outwaited its grace: reference <= cutoff in expire_queued. *)
GracePasses(r) ==
  /\ "expire" \in Behaviours
  /\ IsTracked(r) /\ Current(r) \notin overdue
  /\ AgentOf[r] \notin live
  /\ Contains(pending[AgentOf[r]], r)
  /\ overdue' = overdue \cup {Current(r)}
  /\ UNCHANGED <<tracked, pending, live, inFlight, counts, objVars, round, working,
                 loopVars, workToDo>>

Expirable(r) ==
  /\ IsTracked(r) /\ Current(r) \in overdue
  /\ AgentOf[r] \notin live
  /\ Contains(pending[AgentOf[r]], r)

(* Mutant: a run that is given up on leaves the queue and nobody is told. *)
expire_queued_silently(r) ==
  /\ loop = "top"
  /\ Expirable(r)
  /\ pending' = Dequeue(r)
  /\ UNCHANGED <<tracked, live, overdue, inFlight, counts, objVars, round, working,
                 loopVars, workToDo>>

(* One pass of the inner loop of expire_queued, which the loop runs to the end
   at its top: StartWalk waits until nothing is left to expire. *)
expire_queued(r) ==
  /\ loop = "top"
  /\ Expirable(r)
  /\ pending' = Dequeue(r)
  /\ solo' = solo \cup {[obj |-> Current(r), cmd |-> "Fail", step |-> "spawned"]}
  /\ UNCHANGED <<tracked, live, overdue, inFlight, counts, claimed, cancelled, inq,
                 lanes, ended, round, working, loopVars, workToDo>>

(* The keys of the defaultdict are the agents that ever had a run enqueued. *)
StartWalk ==
  /\ loop = "top"
  /\ \A r \in Runs : ~ Expirable(r)
  /\ loop' = "walk"
  /\ toVisit' = {AgentOf[r] : r \in {x \in Runs : round[x] > 0}}
  /\ at' = None
  /\ placed' = FALSE
  /\ workToDo' = FALSE
  /\ UNCHANGED <<tracked, pending, live, overdue, inFlight, counts, objVars, round,
                 working, offer>>

(* Mutant: the event is cleared on the way to the wait, not before the walk. *)
EndWalk_clears ==
  /\ loop = "walk" /\ toVisit = {}
  /\ loop' = IF placed THEN "top" ELSE "asleep"
  /\ workToDo' = FALSE
  /\ UNCHANGED <<tracked, pending, live, overdue, inFlight, counts, objVars, round,
                 working, offer, toVisit, at, placed>>

EndWalk ==
  /\ loop = "walk" /\ toVisit = {}
  /\ loop' = IF placed THEN "top" ELSE "asleep"
  /\ UNCHANGED <<tracked, pending, live, overdue, inFlight, counts, objVars, round,
                 working, offer, toVisit, at, placed, workToDo>>

(* The wait ends when the event is set, or after unserved_timeout_seconds. *)
Wake ==
  /\ loop = "asleep"
  /\ loop' = "top"
  /\ UNCHANGED <<tracked, pending, live, overdue, inFlight, counts, objVars, round,
                 working, offer, toVisit, at, placed, workToDo>>

(* The head of the queue that is worth offering: gone and cancelled runs are
   dropped on the way to it. *)
Offerable(r) == IsTracked(r) /\ Current(r) \notin cancelled
FromFirstOfferable(q) ==
  LET first == SelectInSeq(q, Offerable)
  IN IF first = 0 THEN <<>> ELSE SubSeq(q, first, Len(q))

Walking(a) == loop = "walk" /\ offer = None /\ a \in toVisit /\ at \in {a, None}

(* _offer_pending returns: nobody serves the agent, nothing waits, no room. *)
LeaveAgent(a) ==
  LET q == FromFirstOfferable(pending[a])
  IN /\ Walking(a)
     /\ IF a \notin live
        THEN UNCHANGED pending
        ELSE /\ q = <<>> \/ ~ has_room(Owner[a])
             /\ pending' = [pending EXCEPT ![a] = q]
     /\ toVisit' = toVisit \ {a}
     /\ at' = None
     /\ UNCHANGED <<tracked, live, overdue, inFlight, counts, objVars, round, working,
                    offer, loop, placed, workToDo>>

(* Mutant: the room is not looked at before the offer. *)
OfferHead_without_room(a) ==
  LET q == FromFirstOfferable(pending[a])
  IN /\ Walking(a)
     /\ a \in live /\ q # <<>>
     /\ pending' = [pending EXCEPT ![a] = q]
     /\ offer' = [obj |-> Current(Head(q)), answer |-> "awaited"]
     /\ at' = a
     /\ UNCHANGED <<tracked, live, overdue, inFlight, counts, objVars, round, working,
                    loop, toVisit, placed, workToDo>>

(* _offer_pending reaches its await: deliver is called with the head. *)
OfferHead(a) ==
  LET q == FromFirstOfferable(pending[a])
  IN /\ Walking(a)
     /\ a \in live /\ q # <<>> /\ has_room(Owner[a])
     /\ pending' = [pending EXCEPT ![a] = q]
     /\ offer' = [obj |-> Current(Head(q)), answer |-> "awaited"]
     /\ at' = a
     /\ UNCHANGED <<tracked, live, overdue, inFlight, counts, objVars, round, working,
                    loop, toVisit, placed, workToDo>>

(* The provider takes the run; its answer is still on its way. *)
ProviderAccepts ==
  /\ offer # None /\ offer.answer = "awaited"
  /\ offer' = [offer EXCEPT !.answer = "yes"]
  /\ working' = working \cup {offer.obj}
  /\ UNCHANGED <<tracked, pending, live, overdue, inFlight, counts, objVars, round,
                 loop, toVisit, at, placed, workToDo>>

(* Back from the await with an acceptance.  Nothing is looked at again. *)
OfferAccepted ==
  LET o == offer.obj
      p == Provider(o[1])
  IN /\ offer # None /\ offer.answer = "yes"
     /\ claim(o, "offer")
     /\ inq' = Put(inq, o, "Claim")
     /\ inFlight' = [inFlight EXCEPT ![p] = @ + 1]
     /\ pending' = Dequeue(o[1])
     /\ placed' = TRUE
     /\ offer' = None
     /\ UNCHANGED <<tracked, live, overdue, counts, cancelled, solo, ended, round,
                    working, loop, toVisit, at, workToDo>>

(* A decline with room is counted, and a declared limit treated as reached. *)
OfferDeclined ==
  LET p == Provider(offer.obj[1])
      misdeclared == has_room(p)
  IN /\ "decline" \in Behaviours
     /\ offer # None /\ offer.answer = "awaited"
     /\ IF misdeclared
        THEN note_abnormal(p, "misdeclared")
        ELSE UNCHANGED <<counts, live, overdue>>
     /\ inFlight' = IF misdeclared /\ Limit[p] # Unlimited
                    THEN [inFlight EXCEPT ![p] = Limit[p]]
                    ELSE inFlight
     /\ offer' = None
     /\ toVisit' = toVisit \ {at}
     /\ at' = None
     /\ UNCHANGED <<tracked, pending, objVars, round, working, loop, placed, workToDo>>

OfferRefused ==
  LET o == offer.obj
  IN /\ "refuse" \in Behaviours
     /\ offer # None /\ offer.answer = "awaited"
     /\ solo' = solo \cup {[obj |-> o, cmd |-> "Fail", step |-> "spawned"]}
     /\ pending' = Dequeue(o[1])
     /\ offer' = None
     /\ UNCHANGED <<tracked, live, overdue, inFlight, counts, claimed, cancelled, inq,
                    lanes, ended, round, working, loop, toVisit, at, placed, workToDo>>

(* Mutant: the place is taken before the answer, and kept when none comes. *)
OfferUnanswered_keeps_place ==
  LET p == Provider(offer.obj[1])
  IN /\ "unanswered" \in Behaviours
     /\ offer # None
     /\ note_abnormal(p, "unanswered")
     /\ inFlight' = [inFlight EXCEPT ![p] = @ + 1]
     /\ offer' = None
     /\ toVisit' = toVisit \ {at}
     /\ at' = None
     /\ UNCHANGED <<tracked, pending, objVars, round, working, loop, placed, workToDo>>

(* Mutant: a run whose offer went unanswered leaves the queue. *)
OfferUnanswered_drops_run ==
  /\ "unanswered" \in Behaviours
  /\ offer # None
  /\ note_abnormal(Provider(offer.obj[1]), "unanswered")
  /\ pending' = Dequeue(offer.obj[1])
  /\ offer' = None
  /\ toVisit' = toVisit \ {at}
  /\ at' = None
  /\ UNCHANGED <<tracked, inFlight, objVars, round, working, loop, placed, workToDo>>

(* The delivery timeout passes, or deliver raises. *)
OfferUnanswered ==
  /\ "unanswered" \in Behaviours
  /\ offer # None
  /\ note_abnormal(Provider(offer.obj[1]), "unanswered")
  /\ offer' = None
  /\ toVisit' = toVisit \ {at}
  /\ at' = None
  /\ UNCHANGED <<tracked, pending, inFlight, objVars, round, working, loop, placed,
                 workToDo>>

-----------------------------------------------------------------------------
(* What a provider that took a run does.  It names the run by its id, so it   *)
(* reaches whichever object is filed under the id now.                        *)

(* Funduq.report_event for a claimed run. *)
report_event(o, event) ==
  LET r == o[1]
      t == Current(r)
  IN /\ o \in working
     /\ IsTracked(r) /\ t \in claimed
     /\ Len(inq[t]) <= MaxBacklog
     /\ inq' = Put(inq, t, event)
     /\ UNCHANGED <<tracked, pending, live, overdue, inFlight, counts, claimed, cancelled,
                    lanes, solo, ended, round, working, loopVars, workToDo>>

(* Mutant: a run that is already claimed can be claimed late as well. *)
accept_late_ack_unguarded(o, event) ==
  LET r == o[1]
      t == Current(r)
      p == Provider(r)
  IN /\ o \in working
     /\ IsTracked(r)
     /\ "late_report" \in Behaviours
     /\ Len(inq[t]) <= MaxBacklog
     /\ AgentOf[r] \in live
     /\ pending' = Dequeue(r)
     /\ inFlight' = [inFlight EXCEPT ![p] = @ + 1]
     /\ note_abnormal(p, "answered_late")
     /\ claim(t, "late")
     /\ inq' = [inq EXCEPT ![t] = @ \o <<"Claim", event>>]
     /\ UNCHANGED <<tracked, cancelled, solo, ended, round, working, loopVars, workToDo>>

(* accept_late_ack, then the push: reporting an unclaimed run claims it. *)
accept_late_ack(o, event) ==
  LET r == o[1]
      t == Current(r)
      p == Provider(r)
  IN /\ o \in working
     /\ IsTracked(r) /\ t \notin claimed
     /\ IF offer # None /\ offer.obj = t
        THEN "early_report" \in Behaviours
        ELSE "late_report" \in Behaviours
     /\ AgentOf[r] \in live
     /\ pending' = Dequeue(r)
     /\ inFlight' = [inFlight EXCEPT ![p] = @ + 1]
     /\ note_abnormal(p, "answered_late")
     /\ claim(t, "late")
     /\ inq' = [inq EXCEPT ![t] = @ \o <<"Claim", event>>]
     /\ UNCHANGED <<tracked, cancelled, solo, ended, round, working, loopVars, workToDo>>

(* Funduq.finish_run: dropped unless the run is claimed. *)
finish_run(o) ==
  LET t == Current(o[1])
  IN /\ o \in working
     /\ offer # None /\ offer.obj = t => "early_report" \in Behaviours
     /\ working' = working \ {o}
     /\ inq' = IF IsTracked(o[1]) /\ t \in claimed THEN Put(inq, t, "FinishStream") ELSE inq
     /\ UNCHANGED <<tracked, pending, live, overdue, inFlight, counts, claimed, cancelled,
                    lanes, solo, ended, round, loopVars, workToDo>>

(* The provider dies with the run, or forgets it. *)
Abandon(o) ==
  /\ "abandon" \in Behaviours
  /\ o \in working
  /\ working' = working \ {o}
  /\ UNCHANGED <<tracked, pending, live, overdue, inFlight, counts, objVars, round,
                 loopVars, workToDo>>

-----------------------------------------------------------------------------
(* Pipelines and one-shot tasks *)

Terminal(l) ==
  \/ lanes[l] \in {"FinishStream", "Fail"}
  \/ lanes[l] = "RequestCancel" /\ l[1] \notin claimed

(* _pipeline takes the next command and calls its handler. *)
PipelineTakes(l) ==
  LET o == l[1]
  IN /\ lanes[l] = "get" /\ inq[o] # <<>>
     /\ lanes' = [lanes EXCEPT ![l] = Head(inq[o])]
     /\ inq' = [inq EXCEPT ![o] = Tail(@)]
     /\ UNCHANGED <<tracked, pending, live, overdue, inFlight, counts, claimed, cancelled,
                    solo, ended, round, working, loopVars, workToDo>>

(* The handler returned (or raised, which is only logged): the next command. *)
PipelineGoesOn(l) ==
  /\ lanes[l] \in Commands /\ ~ Terminal(l)
  /\ lanes' = [lanes EXCEPT ![l] = "get"]
  /\ UNCHANGED <<tracked, pending, live, overdue, inFlight, counts, claimed, cancelled,
                 inq, solo, ended, round, working, loopVars, workToDo>>

(* ... or the end: END_OF_STREAM on the object's own queue, forget by run id. *)
PipelineEnds(l) ==
  /\ lanes[l] \in Commands /\ Terminal(l)
  /\ lanes' = [lanes EXCEPT ![l] = IF @ = "FinishStream" THEN "finished" ELSE "closed"]
  /\ ended' = ended \cup {l[1]}
  /\ forget(l[1][1])
  /\ UNCHANGED <<pending, live, overdue, counts, claimed, cancelled, inq, solo, round,
                 working, loopVars>>

(* _one_shot looks its handler up by run id and awaits it, if there is one. *)
OneShotStarts(s) ==
  /\ s \in solo /\ s.step = "spawned"
  /\ IsTracked(s.obj[1])
  /\ solo' = (solo \ {s}) \cup {[s EXCEPT !.step = "handling"]}
  /\ UNCHANGED <<tracked, pending, live, overdue, inFlight, counts, claimed, cancelled,
                 inq, lanes, ended, round, working, loopVars, workToDo>>

OneShotEnds(s) ==
  /\ s \in solo
  /\ s.step = "handling" \/ ~ IsTracked(s.obj[1])
  /\ solo' = solo \ {s}
  /\ ended' = ended \cup {s.obj}
  /\ forget(s.obj[1])
  /\ UNCHANGED <<pending, live, overdue, counts, claimed, cancelled, inq, lanes, round,
                 working, loopVars>>

-----------------------------------------------------------------------------
LoopStep ==
  \/ \E r \in Runs : expire_queued(r)
  \/ StartWalk
  \/ EndWalk
  \/ Wake
  \/ \E a \in Agents : LeaveAgent(a)
  \/ \E a \in Agents : OfferHead(a)

OfferStep ==
  \/ OfferAccepted
  \/ OfferDeclined
  \/ OfferRefused
  \/ OfferUnanswered

PipelineStep(l) == PipelineTakes(l) \/ PipelineGoesOn(l) \/ PipelineEnds(l)

OneShotStep(s) == OneShotStarts(s) \/ OneShotEnds(s)

Next ==
  \/ \E r \in Runs : Submit(r)
  \/ \E r \in Runs : Resume(r)
  \/ \E p \in Providers : register_provider(p)
  \/ \E p \in Providers : Detach(p)
  \/ \E r \in Runs : request_cancel(r)
  \/ \E r \in Runs : FailStalled(r)
  \/ \E r \in Runs : GracePasses(r)
  \/ LoopStep
  \/ ProviderAccepts
  \/ OfferStep
  \/ \E o \in Objects, e \in Reports : report_event(o, e)
  \/ \E o \in Objects, e \in Reports : accept_late_ack(o, e)
  \/ \E o \in Objects : finish_run(o)
  \/ \E o \in Objects : Abandon(o)
  \/ \E l \in Lanes : PipelineStep(l)
  \/ \E s \in SoloTasks : OneShotStep(s)

Spec == Init /\ [][Next]_vars

(* What the code's scheduling gives: every task of the loop that can run does
   run, an offer is answered or times out, the clocks pass.  A provider ends
   what it took (the SDK's runtime reports the end of every run it executes);
   callers and connections owe nothing. *)
Fairness ==
  /\ WF_vars(LoopStep)
  /\ WF_vars(ProviderAccepts \/ OfferStep)
  /\ \A r \in Runs : WF_vars(GracePasses(r))
  /\ \A l \in Lanes : WF_vars(PipelineStep(l))
  /\ \A s \in SoloTasks : WF_vars(OneShotStep(s))
  /\ \A o \in Objects : WF_vars(finish_run(o))

FairSpec == Spec /\ Fairness

-----------------------------------------------------------------------------
(* The variables keep their types. *)
TypeOK ==
  /\ tracked \in [Runs -> 0..MaxRounds]
  /\ pending \in [Agents -> Seq(Runs)]
  /\ live \subseteq Agents
  /\ overdue \subseteq Objects
  /\ inFlight \in [Providers -> Nat]
  /\ counts \in [Providers -> [Kinds -> Nat]]
  /\ claimed \subseteq Objects
  /\ cancelled \subseteq Objects
  /\ inq \in [Objects -> Seq(Commands)]
  /\ lanes \in [Lanes -> LaneStates]
  /\ solo \subseteq SoloTasks
  /\ ended \subseteq Objects
  /\ round \in [Runs -> 0..MaxRounds]
  /\ working \subseteq Objects
  /\ offer \in Offers \cup {None}
  /\ loop \in {"top", "walk", "asleep"}
  /\ toVisit \subseteq Agents
  /\ at \in Agents \cup {None}
  /\ placed \in BOOLEAN
  /\ workToDo \in BOOLEAN

(* A provider never holds more tracked runs than funduq counts in flight for
   it: whatever order claims, late acknowledgements, declines and forgets come
   in, a place that is in use is never offered as free (_Capacity, forget). *)
HeldIsCounted == \A p \in Providers : Cardinality(Held(p)) <= inFlight[p]

(* A provider is never given more runs than it declared, although the room is
   checked before the await of deliver and the claim made after it: only one
   offer is ever out, and nothing else claims (dispatch.md, one deliverer). *)
LimitRespected ==
  \A p \in Providers : Limit[p] # Unlimited => Cardinality(Held(p)) <= Limit[p]

(* Every place counted in flight belongs to a run that is still tracked, so it
   comes back when that run ends (forget frees what _offer counted). *)
PlacesComeBack == \A p \in Providers : Cardinality(Held(p)) = inFlight[p]

(* A round that was enqueued has ended its stream, or the broker still holds
   it in the one place that will: filed under its id and either claimed, or in
   its agent's queue, or in the hands of a one-shot task. *)
RoundsAccountedFor ==
  \A r \in Runs : round[r] > 0 =>
    LET o == <<r, round[r]>>
    IN \/ o \in ended
       \/ /\ tracked[r] = round[r]
          /\ \/ o \in claimed
             \/ Contains(pending[AgentOf[r]], r)
             \/ \E s \in solo : s.obj = o

(* A run's commands have one consumer, which is what keeps its events in
   order (dispatch.md: ordering per run is guaranteed by the queue). *)
Consuming(l) == lanes[l] \in {"get"} \cup Commands
SingleConsumer ==
  \A o \in Objects : ~ (Consuming(<<o, "offer">>) /\ Consuming(<<o, "late">>))

(* The loop never sleeps on work it could place: asleep with its event clear,
   every served agent's queue is empty of offerable runs or its provider is
   full, however claims, ends, registrations and enqueues fell between the
   moment the event was cleared and the wait. *)
NoMissedWakeup ==
  loop = "asleep" /\ ~ workToDo =>
    \A a \in live : FromFirstOfferable(pending[a]) = <<>> \/ ~ has_room(Owner[a])

(* The event that spends a provider's allowance takes it out of service in the
   same step, whichever of its agents the event was about. *)
AllowanceWithdraws ==
  [][\A p \in Providers, k \in Kinds :
       counts[p][k] # counts'[p][k] /\ counts'[p][k] = Tolerance
         => AgentsOf(p) \cap live' = {}]_vars

(* Every round that is enqueued ends its stream: it is placed and finishes, or
   is refused, cancelled, or given up on. *)
EveryRoundEnds ==
  \A o \in Objects : (tracked[o[1]] = o[2]) ~> (o \in ended)

(* The run at the head of an attached provider's queue is offered, again and
   again while it is declined (requests.md: offered again when something
   changes, for as long as the agent has a provider attached). *)
WaitsAtHead(r) ==
  LET q == FromFirstOfferable(pending[AgentOf[r]])
  IN AgentOf[r] \in live /\ q # <<>> /\ Head(q) = r
WaitingIsOffered ==
  \A r \in Runs :
    WaitsAtHead(r) ~> (~ WaitsAtHead(r) \/ (offer # None /\ offer.obj = Current(r)))
=============================================================================
