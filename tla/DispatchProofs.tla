--------------------------- MODULE DispatchProofs ---------------------------
(***************************************************************************)
(* What is proved of the broker together with its handlers, the runs table *)
(* the doors, the sweep and the restart (module Dispatch).  The lemmas     *)
(* about the broker are those of CapacityProofs.                           *)
(***************************************************************************)
EXTENDS Dispatch, CapacityProofs

-----------------------------------------------------------------------------
(* The variables keep their types *)

LEMMA LaneIsTask == Lanes \subseteq Tasks /\ \A k \in Tasks : k[1] \in Objects /\ k[1][1] \in Runs
BY DEF Lanes, Tasks, Objects

LEMMA TaskOfSolo == \A s \in SoloTasks : TaskOf(s) \in Tasks /\ s.obj \in Objects
BY DEF SoloTasks, TaskOf, Tasks

(* What a handler will commit is statuses and terminal events. *)
LEMMA HandlerWrites ==
  ASSUME NEW o, NEW cmd
  PROVE  handler(o, cmd) \in Seq(Writes)
<1>1. handle_cancel(o) \in Seq(Writes)
  <2>1. <<"cancelling">> \in Seq(Writes) /\ <<"cancelled">> \in Seq(Writes)
    BY DEF Writes, Statuses
  <2> QED
    BY <2>1, Zenon DEF handle_cancel
<1>2. Outcome(o) \in Writes
  <2>1. {"input-required", "completed", "cancelled", "failed"} \subseteq Writes
    BY DEF Writes, Statuses
  <2> QED
    BY <2>1, Zenon DEF Outcome
<1>3. handle_finish(o) \in Seq(Writes)
  <2>1. <<"failed", "RUN_ERROR">> \in Seq(Writes)
    BY DEF Writes, Statuses
  <2>2. <<Outcome(o)>> \in Seq(Writes)
    BY <1>2
  <2> QED
    BY <2>1, <2>2, Zenon DEF handle_finish
<1>4. <<>> \in Seq(Writes) /\ <<"running">> \in Seq(Writes)
      /\ <<"RUN_ERROR", "failed">> \in Seq(Writes) /\ <<"RUN_ERROR">> \in Seq(Writes)
  BY DEF Writes, Statuses
<1> QED
  BY <1>1, <1>3, <1>4 DEF handler

LEMMA MarkType ==
  ASSUME DispatchTypeOK, NEW r \in Runs, NEW to \in Statuses, mark_run_status(r, to)
  PROVE  status' \in [Runs -> Statuses]
BY DEF mark_run_status, DispatchTypeOK

LEMMA AppendErrorType ==
  ASSUME DispatchTypeOK, NEW r \in Runs, append_error(r)
  PROVE  errors' \in [Runs -> 0..2]
BY DEF append_error, DispatchTypeOK

LEMMA InitDispatchTypeOK == DispatchInit => DispatchTypeOK
<1> SUFFICES ASSUME DispatchInit PROVE DispatchTypeOK
  OBVIOUS
<1>1. TypeOK
  BY InitTypeOK DEF DispatchInit
<1>2. todo \in [Tasks -> Seq(Writes)]
  BY DEF DispatchInit
<1> QED
  BY <1>1, <1>2, DispatchAssumption DEF DispatchInit, DispatchTypeOK, Statuses

(* A step of the broker alone, or none of it. *)
LEMMA BrokerStepsTypeOK ==
  ASSUME TypeOK, [Next]_vars \/ (\E r \in Runs : enqueue_run(r) \/ push_fail(r))
  PROVE  TypeOK'
<1>1. CASE [Next]_vars
  BY <1>1, NextTypeOK
<1>2. ASSUME NEW r \in Runs, enqueue_run(r) PROVE TypeOK'
  BY <1>2, CallersTypeOK
<1>3. ASSUME NEW r \in Runs, push_fail(r) PROVE TypeOK'
  <2>1. inq' \in [Objects -> Seq(Commands)]
    BY <1>3, CurrentIsObject, PutType DEF push_fail, TypeOK, Commands
  <2>2. /\ counts' \in [Providers -> [Kinds -> Nat]]
        /\ live' \subseteq Agents
        /\ overdue' \subseteq Objects
    <3>1. CASE Current(r) \in claimed
      BY <1>3, <3>1, NoteAbnormalType, ProviderOfRun DEF push_fail, Kinds
    <3>2. CASE Current(r) \notin claimed
      BY <1>3, <3>2 DEF push_fail, TypeOK
    <3> QED
      BY <3>1, <3>2
  <2> QED
    BY <1>3, <2>1, <2>2 DEF push_fail, loopVars, TypeOK
<1> QED
  BY <1>1, <1>2, <1>3

LEMMA DoorsTypeOK ==
  ASSUME DispatchTypeOK, NEW r \in Runs, DoorStep(r)
  PROVE  DispatchTypeOK'
<1> USE DEF DispatchTypeOK
<1>1. CASE Create(r)
  <2>1. TypeOK'
    BY <1>1, BrokerStepsTypeOK DEF Create
  <2> QED
    BY <1>1, <2>1 DEF Create, OpenDoor, Statuses
<1>2. CASE Reopen(r)
  <2>1. TypeOK'
    BY <1>2, BrokerStepsTypeOK DEF Reopen
  <2> QED
    BY <1>2, <2>1 DEF Reopen, OpenDoor, Statuses
<1>3. CASE FindsServed(r)
  <2>1. TypeOK'
    BY <1>3, BrokerStepsTypeOK DEF FindsServed
  <2> QED
    BY <1>3, <2>1 DEF FindsServed, recordVars
<1>4. CASE FindsOffline(r)
  <2>1. TypeOK'
    BY <1>4, BrokerStepsTypeOK DEF FindsOffline
  <2>2. status' \in [Runs -> Statuses]
    BY <1>4, MarkType DEF FindsOffline, Statuses
  <2> QED
    BY <1>4, <2>1, <2>2 DEF FindsOffline
<1>5. CASE Rejects(r)
  <2>1. TypeOK'
    BY <1>5, BrokerStepsTypeOK DEF Rejects
  <2> QED
    BY <1>5, <2>1 DEF Rejects, recordVars
<1>6. CASE Enqueues(r)
  <2>1. TypeOK'
    BY <1>6, BrokerStepsTypeOK DEF Enqueues
  <2> QED
    BY <1>6, <2>1 DEF Enqueues, recordVars
<1> QED
  BY <1>1, <1>2, <1>3, <1>4, <1>5, <1>6 DEF DoorStep

(* Everything the broker's steps do inside BrokerStep is a step of Broker. *)
LEMMA BrokerStepIsNext == BrokerStep => Next /\ UNCHANGED dispatchVars
BY DEF BrokerStep, Next

LEMMA HandlersTypeOK ==
  ASSUME DispatchTypeOK, NEW k \in Tasks, Commits(k) \/ LosesWrites(k)
  PROVE  DispatchTypeOK'
<1> USE DEF DispatchTypeOK
<1>1. TypeOK'
  BY BrokerStepsTypeOK DEF Commits, LosesWrites
<1>2. todo[k] \in Seq(Writes) /\ todo[k] # <<>>
  BY DEF Commits, LosesWrites
<1>3. Head(todo[k]) \in Writes /\ Tail(todo[k]) \in Seq(Writes) /\ <<>> \in Seq(Writes)
  BY <1>2
<1>4. todo' \in [Tasks -> Seq(Writes)]
  BY <1>3 DEF Commits, LosesWrites
<1>5. CASE Commits(k)
  <2>1. k[1][1] \in Runs
    BY LaneIsTask
  <2>2. status' \in [Runs -> Statuses] /\ errors' \in [Runs -> 0..2]
    <3>1. CASE Head(todo[k]) = "RUN_ERROR"
      BY <1>5, <2>1, <3>1, AppendErrorType DEF Commits
    <3>2. CASE Head(todo[k]) # "RUN_ERROR"
      BY <1>5, <1>3, <2>1, <3>2, MarkType DEF Commits, Writes
    <3> QED
      BY <3>1, <3>2
  <2> QED
    BY <1>1, <1>4, <1>5, <2>2 DEF Commits
<1>6. CASE LosesWrites(k)
  BY <1>1, <1>4, <1>6 DEF LosesWrites, recordVars
<1> QED
  BY <1>5, <1>6

LEMMA MalformedTypeOK ==
  ASSUME TypeOK, NEW l \in Lanes, TakesMalformed(l)
  PROVE  TypeOK'
<1>1. l[1] \in Objects /\ l[1][1] \in Runs /\ "MALFORMED" \in Commands
  <2>3. inq \in [Objects -> Seq(Commands)] /\ l[1] \in Objects
    BY LaneIsTask DEF TypeOK
  <2>1. inq[l[1]] \in Seq(Commands) /\ inq[l[1]] # <<>>
    BY <2>3 DEF TakesMalformed
  <2>2. Head(inq[l[1]]) \in Commands
    BY <2>1
  <2> QED
    BY <2>2, <2>3, LaneIsTask DEF TakesMalformed
<1>2. inq' \in [Objects -> Seq(Commands)]
  <2> DEFINE q == [inq EXCEPT ![l[1]] = <<>>]
  <2>1. q \in [Objects -> Seq(Commands)]
    <3>1. inq \in [Objects -> Seq(Commands)] /\ <<>> \in Seq(Commands)
      BY DEF TypeOK
    <3> QED
      BY <3>1
  <2>2. "Fail" \in Commands
    BY DEF Commands
  <2>3. inq' = IF IsTracked(l[1][1]) THEN Put(q, Current(l[1][1]), "Fail") ELSE q
    BY DEF TakesMalformed
  <2> HIDE DEF q
  <2>4. CASE IsTracked(l[1][1])
    <3>1. Current(l[1][1]) \in Objects
      BY <1>1, <2>4, CurrentIsObject
    <3> QED
      BY <2>1, <2>2, <2>3, <2>4, <3>1, PutType
  <2> QED
    BY <2>1, <2>3, <2>4
<1>3. /\ counts' \in [Providers -> [Kinds -> Nat]]
      /\ live' \subseteq Agents
      /\ overdue' \subseteq Objects
  <2>1. CASE IsTracked(l[1][1]) /\ Current(l[1][1]) \in claimed
    BY <1>1, <2>1, NoteAbnormalType, ProviderOfRun DEF TakesMalformed, Kinds
  <2>2. CASE ~ (IsTracked(l[1][1]) /\ Current(l[1][1]) \in claimed)
    BY <2>2 DEF TakesMalformed, TypeOK
  <2> QED
    BY <2>1, <2>2
<1>4. lanes' \in [Lanes -> LaneStates]
  BY <1>1 DEF TakesMalformed, TypeOK, LaneStates
<1> QED
  BY <1>2, <1>3, <1>4 DEF TakesMalformed, loopVars, TypeOK

LEMMA TasksOwnTypeOK ==
  ASSUME DispatchTypeOK, NEW l, NEW s,
         \/ l \in Lanes /\ TaskStep(l)
         \/ s \in SoloTasks /\ (StartsOneShot(s) \/ EndsOneShot(s))
  PROVE  DispatchTypeOK'
<1> USE DEF DispatchTypeOK
<1>1. CASE l \in Lanes /\ Takes(l)
  <2>1. TypeOK'
    BY <1>1, TasksTypeOK DEF Takes
  <2>2. todo' \in [Tasks -> Seq(Writes)]
    BY <1>1, LaneIsTask, HandlerWrites DEF Takes
  <2>3. saw' \in [Objects -> SUBSET {"RUN_FINISHED", "INTERRUPT", "RUN_ERROR"}]
    BY <1>1, LaneIsTask DEF Takes
  <2> QED
    BY <1>1, <2>1, <2>2, <2>3 DEF Takes, recordVars
<1>2. CASE l \in Lanes /\ TakesMalformed(l)
  <2>1. TypeOK'
    BY <1>2, MalformedTypeOK
  <2> QED
    BY <1>2, <2>1 DEF TakesMalformed, dispatchVars, recordVars
<1>3. CASE l \in Lanes /\ GoesOn(l)
  <2>1. TypeOK'
    BY <1>3, TasksTypeOK DEF GoesOn
  <2> QED
    BY <1>3, <2>1 DEF GoesOn, dispatchVars, recordVars
<1>4. CASE l \in Lanes /\ Ends(l)
  <2>1. TypeOK'
    BY <1>4, TasksTypeOK DEF Ends
  <2> QED
    BY <1>4, <2>1 DEF Ends, dispatchVars, recordVars
<1>5. CASE s \in SoloTasks /\ StartsOneShot(s)
  <2>1. TypeOK'
    BY <1>5, TasksTypeOK DEF StartsOneShot
  <2>2. todo' \in [Tasks -> Seq(Writes)]
    BY <1>5, HandlerWrites DEF StartsOneShot
  <2> QED
    BY <1>5, <2>1, <2>2 DEF StartsOneShot, recordVars
<1>6. CASE s \in SoloTasks /\ EndsOneShot(s)
  <2>1. TypeOK'
    BY <1>6, TasksTypeOK DEF EndsOneShot
  <2> QED
    BY <1>6, <2>1 DEF EndsOneShot, dispatchVars, recordVars
<1> QED
  BY <1>1, <1>2, <1>3, <1>4, <1>5, <1>6 DEF TaskStep

LEMMA SweepsTypeOK ==
  ASSUME DispatchTypeOK, NEW R, NEW r,
         \/ R \in SUBSET Runs /\ SweepStep(R)
         \/ r \in Runs /\ close_with_terminal_event(r)
  PROVE  DispatchTypeOK'
<1> USE DEF DispatchTypeOK
<1>1. CASE R \in SUBSET Runs /\ SweepStep(R)
  <2>1. TypeOK'
    BY <1>1, BrokerStepsTypeOK DEF SweepStep, fail_stalled_runs, fail_stale_paused_runs
  <2> QED
    BY <1>1, <2>1
    DEF SweepStep, fail_stalled_runs, fail_stale_paused_runs, fail_runs, Statuses
<1>2. CASE r \in Runs /\ close_with_terminal_event(r)
  <2>1. TypeOK'
    BY <1>2, BrokerStepsTypeOK DEF close_with_terminal_event
  <2>2. errors' \in [Runs -> 0..2]
    BY <1>2, AppendErrorType DEF close_with_terminal_event
  <2> QED
    BY <1>2, <2>1, <2>2 DEF close_with_terminal_event
<1> QED
  BY <1>1, <1>2

LEMMA ProcessTypeOK ==
  ASSUME DispatchTypeOK, Crash \/ Start \/ Started
  PROVE  DispatchTypeOK'
<1> USE DEF DispatchTypeOK
<1>1. CASE Crash
  <2>1. TypeOK'
    <3>1. /\ tracked' \in [Runs -> 0..MaxRounds]
          /\ pending' \in [Agents -> Seq(Runs)]
          /\ inFlight' \in [Providers -> Nat]
          /\ counts' \in [Providers -> [Kinds -> Nat]]
          /\ inq' \in [Objects -> Seq(Commands)]
          /\ lanes' \in [Lanes -> LaneStates]
      BY <1>1, BrokerAssumption DEF Crash, LaneStates
    <3>3. round' \in [Runs -> 0..MaxRounds] /\ working' \subseteq Objects
      BY <1>1 DEF Crash, TypeOK
    <3>2. live' = {} /\ overdue' = {} /\ claimed' = {} /\ cancelled' = {} /\ solo' = {}
          /\ ended' = {} /\ offer' = None /\ loop' = "top" /\ toVisit' = {} /\ at' = None
          /\ placed' = FALSE /\ workToDo' = FALSE
      BY <1>1 DEF Crash
    <3> QED
      BY <3>1, <3>2, <3>3 DEF TypeOK
  <2>2. todo' \in [Tasks -> Seq(Writes)]
    BY <1>1 DEF Crash
  <2>3. crashes' \in 0..MaxCrashes
    BY <1>1, DispatchAssumption DEF Crash
  <2>4. /\ saw' \in [Objects -> SUBSET {"RUN_FINISHED", "INTERRUPT", "RUN_ERROR"}]
        /\ door' \in [Runs -> {"shut", "opened", "served"}]
    BY <1>1 DEF Crash
  <2>6. status' \in [Runs -> Statuses] /\ errors' \in [Runs -> 0..2]
    BY <1>1 DEF Crash, recordVars
  <2>5. closing' \subseteq Runs /\ phase' \in {"up", "down", "starting"}
    BY <1>1 DEF Crash
  <2> QED
    BY <2>1, <2>2, <2>3, <2>4, <2>5, <2>6
<1>2. CASE Start
  <2>1. TypeOK'
    BY <1>2, BrokerStepsTypeOK DEF Start
  <2> QED
    BY <1>2, <2>1 DEF Start, Statuses
<1>3. CASE Started
  <2>1. TypeOK'
    BY <1>3, BrokerStepsTypeOK DEF Started
  <2> QED
    BY <1>3, <2>1 DEF Started, recordVars
<1> QED
  BY <1>1, <1>2, <1>3

LEMMA NextDispatchTypeOK ==
  ASSUME DispatchTypeOK, [DispatchNext]_allVars
  PROVE  DispatchTypeOK'
<1>1. CASE BrokerStep
  <2>1. TypeOK'
    BY <1>1, BrokerStepIsNext, BrokerStepsTypeOK DEF DispatchTypeOK
  <2> QED
    BY <1>1, <2>1 DEF BrokerStep, DispatchTypeOK, dispatchVars, recordVars
<1>2. CASE UNCHANGED allVars
  <2>1. TypeOK'
    BY <1>2, BrokerStepsTypeOK DEF DispatchTypeOK, allVars
  <2> QED
    BY <1>2, <2>1 DEF allVars, DispatchTypeOK, dispatchVars, recordVars
<1> QED
  BY <1>1, <1>2, DoorsTypeOK, HandlersTypeOK, TasksOwnTypeOK, SweepsTypeOK, ProcessTypeOK
  DEF DispatchNext

(* Whatever the doors, the handlers, the sweep and the restart of the process
   do between the broker's steps, every variable keeps its type. *)
THEOREM DispatchTypeCorrect == DispatchSpec => []DispatchTypeOK
<1>1. DispatchInit => DispatchTypeOK
  BY InitDispatchTypeOK
<1>2. DispatchTypeOK /\ [DispatchNext]_allVars => DispatchTypeOK'
  BY NextDispatchTypeOK
<1> QED
  BY <1>1, <1>2, PTL DEF DispatchSpec

-----------------------------------------------------------------------------
(* The broker keeps its invariants when the handlers, the doors, the sweep and
   the restart run with it *)

(* Nothing of run r is at the broker. *)
Idle(r) ==
  /\ tracked[r] = 0 /\ r \notin InLine
  /\ \A l \in Lanes : l[1][1] = r => ~ AtWork(l)
  /\ \A s \in solo : s.obj[1] # r

(* A door is open only for a queued row, and it alone has to do with the run. *)
DoorsAreIdle ==
  \A r \in Runs : door[r] # "shut" => phase = "up" /\ status[r] = "queued" /\ Idle(r)

(* The steps of the broker that start no round. *)
BrokerMove ==
  \/ LoopStep
  \/ ProviderAccepts
  \/ OfferStep
  \/ \E p \in Providers : register_provider(p)
  \/ \E p \in Providers : Detach(p)
  \/ \E r \in Runs : request_cancel(r)
  \/ \E r \in Runs : GracePasses(r)
  \/ \E o \in Objects, e \in Reports : report_event(o, e)
  \/ \E o \in Objects, e \in Reports : accept_late_ack(o, e)
  \/ \E o \in Objects : finish_run(o)
  \/ \E o \in Objects : Abandon(o)
  \/ \E l \in Lanes : PipelineStep(l)
  \/ \E s \in SoloTasks : OneShotStep(s)
  \/ UNCHANGED vars

LEMMA BrokerMoveIsNext == BrokerMove => [Next]_vars
BY DEF BrokerMove, Next

LEMMA DispatchMoves ==
  ASSUME [DispatchNext]_allVars
  PROVE  \/ BrokerMove
         \/ \E r \in Runs : Enqueues(r)
         \/ \E r \in Runs : push_fail(r)
         \/ \E l \in Lanes : TakesMalformed(l)
         \/ Crash
<1>1. CASE UNCHANGED allVars
  BY <1>1 DEF allVars, BrokerMove
<1>2. CASE BrokerStep
  BY <1>2 DEF BrokerStep, BrokerMove
<1>3. ASSUME NEW r \in Runs, DoorStep(r), ~ Enqueues(r) PROVE UNCHANGED vars
  BY <1>3 DEF DoorStep, Create, Reopen, FindsServed, FindsOffline, Rejects
<1>4. ASSUME NEW k \in Tasks, Commits(k) \/ LosesWrites(k) PROVE UNCHANGED vars
  BY <1>4 DEF Commits, LosesWrites
<1>5. ASSUME NEW l \in Lanes, TaskStep(l) PROVE PipelineStep(l) \/ TakesMalformed(l)
  BY <1>5 DEF TaskStep, Takes, GoesOn, Ends, PipelineStep
<1>6. ASSUME NEW s \in SoloTasks, StartsOneShot(s) \/ EndsOneShot(s) PROVE OneShotStep(s)
  BY <1>6 DEF StartsOneShot, EndsOneShot, OneShotStep
<1>7. ASSUME NEW R \in SUBSET Runs, SweepStep(R) PROVE UNCHANGED vars
  BY <1>7 DEF SweepStep, fail_stalled_runs, fail_stale_paused_runs
<1>8. ASSUME NEW r \in Runs, close_with_terminal_event(r) PROVE UNCHANGED vars \/ push_fail(r)
  BY <1>8 DEF close_with_terminal_event
<1>9. CASE Start \/ Started
  BY <1>9 DEF Start, Started, BrokerMove
<1> QED
  BY <1>1, <1>2, <1>3, <1>4, <1>5, <1>6, <1>7, <1>8, <1>9 DEF DispatchNext, BrokerMove

(* A pushed Fail and a malformed event touch queues that pipelines read. *)
LEMMA PushIsBeside ==
  ASSUME TypeOK, (\E r \in Runs : push_fail(r)) \/ \E l \in Lanes : TakesMalformed(l)
  PROVE  /\ BesideTheLine
         /\ UNCHANGED <<tracked, pending, claimed, cancelled, solo, ended, round, offer>>
         /\ \A l \in Lanes : /\ AtWork(l)' <=> AtWork(l)
                             /\ lanes'[l] \in {"finished", "closed"}
                                  => lanes[l] \in {"finished", "closed"}
<1> USE DEF loopVars
<1>0. tracked \in [Runs -> Nat] /\ lanes \in [Lanes -> LaneStates]
  BY BrokerAssumption DEF TypeOK
<1>1. ASSUME NEW r \in Runs, push_fail(r)
      PROVE  UNCHANGED <<lanes, tracked, pending, claimed, cancelled, solo, ended, round,
                         offer, loop, toVisit, at>>
  BY <1>1 DEF push_fail
<1>2. ASSUME NEW l \in Lanes, TakesMalformed(l)
      PROVE  /\ lanes[l] = "get" /\ lanes' = [lanes EXCEPT ![l] = "MALFORMED"]
             /\ UNCHANGED <<tracked, pending, claimed, cancelled, solo, ended, round,
                            offer, loop, toVisit, at>>
  BY <1>2 DEF TakesMalformed
<1> QED
  BY <1>0, <1>1, <1>2 DEF BesideTheLine, AtWork

(* The process stops: nothing is left at the broker. *)
LEMMA CrashEmptiesBroker ==
  ASSUME LineInv, TypeOK', Crash
  PROVE  /\ LineInv' /\ AccountInv'
         /\ \A r \in Runs : Idle(r)'
<1>1. /\ claimed' = {} /\ cancelled' = {} /\ solo' = {} /\ offer' = None
      /\ tracked' = [r \in Runs |-> 0] /\ pending' = [a \in Agents |-> <<>>]
      /\ lanes' = [l \in Lanes |-> "off"] /\ UNCHANGED round
  BY DEF Crash
<1>2. InLine' = {} /\ QueuedOnce' /\ QueuesAreOwn'
  <2>1. \A r \in Runs : AgentOf[r] \in Agents
    BY ProviderOfRun
  <2>2. \A a \in Agents : pending'[a] = <<>>
    BY <1>1
  <2>3. InLine' = {}
    BY <2>1, <2>2 DEF InLine, ToSet
  <2>4. QueuedOnce'
    BY <2>2 DEF QueuedOnce, IsInjective
  <2>5. QueuesAreOwn'
    <3>1. ASSUME NEW S PROVE <<>> \in Seq(S)
      OBVIOUS
    <3> QED
      BY <2>2, <3>1, Zenon DEF QueuesAreOwn
  <2> QED
    BY <2>3, <2>4, <2>5
<1>3. RoundsBegun'
  <2>1. \A r \in Runs : 0 <= round[r]
    BY BrokerAssumption DEF LineInv, TypeOK
  <2> QED
    BY <1>1, <2>1 DEF RoundsBegun
<1>4. LastIsFiled' /\ OfferAtHead' /\ OfferWaits'
  BY <1>1 DEF LastIsFiled, OfferAtHead, OfferWaits
<1>5. OnePipeline'
  BY <1>1 DEF OnePipeline, Lanes
<1>6. LineInv'
  BY <1>2, <1>3, <1>4, <1>5 DEF LineInv, LineIsUnclaimed
<1>7. \A l \in Lanes : ~ AtWork(l)' /\ lanes'[l] = "off"
  BY <1>1 DEF AtWork
<1>8. AccountInv'
  BY <1>1, <1>7 DEF AccountInv, LanesOver, SoloKnown, OfferLive, CancelIsTaken, AllPlaced,
                    IsTracked
<1> QED
  BY <1>1, <1>2, <1>6, <1>7, <1>8 DEF Idle

LEMMA DispatchKeepsBroker ==
  ASSUME RoundsApart, DispatchTypeOK, LineInv, AccountInv, DoorsAreIdle,
         [DispatchNext]_allVars
  PROVE  LineInv' /\ AccountInv'
<1>0. TypeOK /\ TypeOK'
  BY NextDispatchTypeOK DEF DispatchTypeOK
<1>1. CASE BrokerMove
  BY <1>1, BrokerMoveIsNext, NextLineInv, NextAccountInv DEF RoundsApart
<1>2. ASSUME NEW r \in Runs, Enqueues(r) PROVE LineInv' /\ AccountInv'
  <2>1. enqueue_run(r) /\ Idle(r)
    BY <1>2 DEF Enqueues, DoorsAreIdle
  <2> QED
    BY <1>0, <2>1, EnqueueKeepsLine, EnqueueKeepsAccount DEF Idle
<1>3. CASE (\E r \in Runs : push_fail(r)) \/ \E l \in Lanes : TakesMalformed(l)
  BY <1>0, <1>3, PushIsBeside, BesideKeepsLine, SameKeepsAccount
<1>4. CASE Crash
  BY <1>0, <1>4, CrashEmptiesBroker
<1> QED
  BY <1>1, <1>2, <1>3, <1>4, DispatchMoves

(* The line only gets longer when a round begins. *)
LEMMA LineOnlyLoses ==
  ASSUME LineInv, BrokerMove
  PROVE  InLine' \subseteq InLine
<1> USE DEF LineInv
<1>1. ASSUME UNCHANGED pending PROVE InLine' \subseteq InLine
  BY <1>1, LineSame
<1>2. ASSUME NEW r \in Runs, pending' = Dequeue(r) PROVE InLine' \subseteq InLine
  BY <1>2, LineLoses
<1>3. ASSUME NEW a \in Agents, pending' = [pending EXCEPT ![a] = FromFirstOfferable(pending[a])]
      PROVE  InLine' \subseteq InLine
  BY <1>3, LineTrims
<1>4. CASE LoopStep
  BY <1>1, <1>2, <1>3, <1>4
  DEF LoopStep, expire_queued, StartWalk, EndWalk, Wake, LeaveAgent, OfferHead
<1>5. CASE ProviderAccepts \/ OfferStep
  <2>1. offer # None => offer.obj[1] \in Runs
    BY DEF OfferWaits, InLine
  <2> QED
    BY <1>1, <1>2, <1>5, <2>1
    DEF ProviderAccepts, OfferStep, OfferAccepted, OfferDeclined, OfferRefused, OfferUnanswered
<1>6. ASSUME NEW o \in Objects, NEW e, accept_late_ack(o, e) PROVE InLine' \subseteq InLine
  BY <1>2, <1>6, ProviderOfRun DEF accept_late_ack
<1>7. ASSUME NEW r \in Runs, request_cancel(r) PROVE InLine' \subseteq InLine
  BY <1>1, <1>7 DEF request_cancel
<1>8. ASSUME BesideTheLine PROVE InLine' \subseteq InLine
  BY <1>1, <1>8 DEF BesideTheLine
<1> QED
  BY <1>4, <1>5, <1>6, <1>7, <1>8, TasksAreBeside DEF BrokerMove

(* What is idle stays so until its door enqueues it. *)
LEMMA IdleStays ==
  ASSUME LineInv, TypeOK', NEW r \in Runs, Idle(r), BrokerMove
  PROVE  Idle(r)'
<1> USE DEF LineInv, Idle, objVars, loopVars
<1>1. r \notin InLine'
  BY LineOnlyLoses
<1>0. \A o \in Objects : o[1] \in Runs
  BY ProviderOfRun
<1>2. ASSUME UNCHANGED <<tracked, lanes, solo>> PROVE Idle(r)'
  BY <1>1, <1>2 DEF AtWork
<1>3. ASSUME UNCHANGED <<tracked, lanes>>, \A s \in solo' \ solo : s.obj[1] # r PROVE Idle(r)'
  BY <1>1, <1>3 DEF AtWork
<1>4. ASSUME UNCHANGED <<tracked, solo>>, NEW o \in Objects, NEW via, claim(o, via), o[1] # r
      PROVE  Idle(r)'
  <2>1. \A l \in Lanes : l # <<o, via>> => lanes'[l] = lanes[l]
    BY <1>4 DEF claim, TypeOK
  <2>2. <<o, via>>[1][1] # r
    BY <1>4
  <2>3. \A l \in Lanes : l[1][1] = r => l # <<o, via>>
    BY <2>2
  <2> QED
    BY <1>1, <1>4, <2>1, <2>3 DEF AtWork
<1>5. offer # None => offer.obj \in Objects /\ offer.obj[1] # r
  BY DEF OfferWaits, TypeOK, Offers
<1>6. CASE LoopStep
  <2>1. ASSUME NEW x \in Runs, expire_queued(x) PROVE Idle(r)'
    <3>1. x # r
      BY <2>1 DEF expire_queued, Expirable, IsTracked
    <3>2. UNCHANGED <<tracked, lanes>>
          /\ solo' = solo \cup {[obj |-> Current(x), cmd |-> "Fail", step |-> "spawned"]}
      BY <2>1 DEF expire_queued
    <3>3. Current(x)[1] = x
      BY DEF Current
    <3> QED
      BY <1>3, <3>1, <3>2, <3>3
  <2>2. CASE StartWalk \/ EndWalk \/ Wake \/ \E a \in Agents : LeaveAgent(a) \/ OfferHead(a)
    BY <1>2, <2>2 DEF StartWalk, EndWalk, Wake, LeaveAgent, OfferHead
  <2> QED
    BY <1>6, <2>1, <2>2 DEF LoopStep
<1>7. CASE ProviderAccepts \/ OfferStep
  <2>1. CASE ProviderAccepts \/ OfferDeclined \/ OfferUnanswered
    BY <1>2, <2>1 DEF ProviderAccepts, OfferDeclined, OfferUnanswered
  <2>2. CASE OfferAccepted
    BY <1>4, <1>5, <2>2 DEF OfferAccepted
  <2>3. CASE OfferRefused
    <3>1. UNCHANGED <<tracked, lanes>> /\ offer # None
          /\ solo' = solo \cup {[obj |-> offer.obj, cmd |-> "Fail", step |-> "spawned"]}
      BY <2>3 DEF OfferRefused
    <3> QED
      BY <1>3, <1>5, <3>1
  <2> QED
    BY <1>7, <2>1, <2>2, <2>3 DEF OfferStep
<1>8. ASSUME NEW x \in Runs, request_cancel(x) PROVE Idle(r)'
  <2>1. x # r /\ UNCHANGED <<tracked, lanes>>
    BY <1>8 DEF request_cancel, IsTracked
  <2>2. \/ UNCHANGED solo
        \/ solo' = solo \cup {[obj |-> Current(x), cmd |-> "RequestCancel", step |-> "spawned"]}
    BY <1>8 DEF request_cancel
  <2>3. Current(x)[1] = x
    BY DEF Current
  <2> QED
    BY <1>3, <2>1, <2>2, <2>3
<1>9. ASSUME NEW o \in Objects, NEW e, accept_late_ack(o, e) PROVE Idle(r)'
  <2>1. /\ o[1] # r /\ UNCHANGED <<tracked, solo>> /\ claim(Current(o[1]), "late")
        /\ IsTracked(o[1])
    BY <1>9 DEF accept_late_ack, IsTracked
  <2>2. Current(o[1]) \in Objects /\ Current(o[1])[1] = o[1]
    BY <1>0, <2>1, CurrentIsObject DEF Current
  <2> QED
    BY <1>4, <2>1, <2>2
<1>10. ASSUME NEW o \in Objects, NEW e, report_event(o, e) \/ finish_run(o) \/ Abandon(o)
       PROVE  Idle(r)'
  BY <1>2, <1>10 DEF report_event, finish_run, Abandon
<1>11. CASE \/ \E p \in Providers : register_provider(p) \/ Detach(p)
            \/ \E x \in Runs : GracePasses(x)
            \/ UNCHANGED vars
  BY <1>2, <1>11 DEF register_provider, Detach, GracePasses, vars
<1>12. ASSUME NEW l \in Lanes, PipelineStep(l) PROVE Idle(r)'
  <2>1. l[1][1] \in Runs
    BY ProviderOfRun DEF Lanes
  <2>2. AtWork(l)
    BY <1>12, BrokerAssumption
    DEF PipelineStep, PipelineTakes, PipelineGoesOn, PipelineEnds, Commands, AtWork
  <2>3. l[1][1] # r
    BY <2>2
  <2>4. \A m \in Lanes : m # l => lanes'[m] = lanes[m]
    BY <1>12 DEF PipelineStep, PipelineTakes, PipelineGoesOn, PipelineEnds, TypeOK
  <2>5. tracked'[r] = 0 /\ UNCHANGED solo
    BY <1>12, <2>1, ForgetLetsGo DEF PipelineStep, PipelineTakes, PipelineGoesOn, PipelineEnds
  <2> QED
    BY <1>1, <2>3, <2>4, <2>5 DEF AtWork
<1>13. ASSUME NEW s \in SoloTasks, OneShotStep(s) PROVE Idle(r)'
  <2>1. s.obj[1] \in Runs /\ s \in solo
    BY <1>13, ProviderOfRun DEF SoloTasks, OneShotStep, OneShotStarts, OneShotEnds
  <2>2. tracked'[r] = 0 /\ UNCHANGED lanes
    BY <1>13, <2>1, ForgetLetsGo DEF OneShotStep, OneShotStarts, OneShotEnds
  <2>3. \A t \in solo' : t \in solo \/ t.obj = s.obj
    BY <1>13 DEF OneShotStep, OneShotStarts, OneShotEnds, SoloTasks
  <2> QED
    BY <1>1, <2>1, <2>2, <2>3 DEF AtWork
<1> QED
  BY <1>6, <1>7, <1>8, <1>9, <1>10, <1>11, <1>12, <1>13 DEF BrokerMove

(* A round that another run begins leaves r as it was. *)
LEMMA IdleBesideEnqueue ==
  ASSUME LineInv, NEW r \in Runs, NEW x \in Runs \ {r}, x \notin InLine, Idle(r), enqueue_run(x)
  PROVE  Idle(r)'
<1>1. InLine' = InLine \cup {x}
  BY LineGrows DEF LineInv
<1>2. tracked'[r] = tracked[r]
  BY DEF enqueue_run, LineInv, TypeOK
<1> QED
  BY <1>1, <1>2 DEF enqueue_run, objVars, Idle, AtWork

LEMMA IdleBesidePush ==
  ASSUME TypeOK, NEW r \in Runs, Idle(r),
         (\E x \in Runs : push_fail(x)) \/ \E l \in Lanes : TakesMalformed(l)
  PROVE  Idle(r)'
<1>1. InLine' = InLine
  BY PushIsBeside DEF InLine
<1> QED
  BY <1>1, PushIsBeside DEF Idle

(* What the loop, callers and providers do to the tasks of an object: they
   claim it, spawn a one-shot task for it, or put a command into its queue. *)
QueueGrows(o) ==
  \/ inq'[o] = inq[o]
  \/ /\ o \in claimed
     /\ \E cmd \in Reports \cup {"FinishStream", "RequestCancel"} :
          inq'[o] = Append(inq[o], cmd) /\ (cmd = "RequestCancel" => o \in cancelled')
  \/ /\ o \in claimed' \ claimed
     /\ \/ inq'[o] = Append(inq[o], "Claim")
        \/ \E e \in Reports : inq'[o] = inq[o] \o <<"Claim", e>>

TasksStay ==
  /\ UNCHANGED <<tracked, round, ended>>
  /\ claimed \subseteq claimed' /\ cancelled \subseteq cancelled' /\ solo \subseteq solo'
  /\ \A l \in Lanes :
       \/ lanes'[l] = lanes[l]
       \/ lanes[l] = "off" /\ lanes'[l] = "get" /\ l[1] \in claimed' \ claimed
  /\ \A s \in solo' \ solo :
       s.step = "spawned" /\ (s.cmd = "RequestCancel" => s.obj \in cancelled')
  /\ \A o \in Objects : QueueGrows(o)

LEMMA ClaimOpensLane ==
  ASSUME LineInv, NEW o \in Objects \ claimed, NEW via \in {"offer", "late"}, claim(o, via)
  PROVE  \A l \in Lanes :
           \/ lanes'[l] = lanes[l]
           \/ lanes[l] = "off" /\ lanes'[l] = "get" /\ l[1] \in claimed' \ claimed
<1>1. <<o, via>> \in Lanes /\ <<o, via>>[1] = o
  BY DEF Lanes
<1>2. lanes[<<o, via>>] = "off"
  BY <1>1 DEF LineInv, OnePipeline
<1>3. o \in claimed'
  BY DEF claim
<1> QED
  BY <1>1, <1>2, <1>3 DEF claim, LineInv, TypeOK

LEMMA PutIs ==
  ASSUME NEW q \in [Objects -> Seq(Commands)], NEW o \in Objects, NEW cmd
  PROVE  \A x \in Objects : Put(q, o, cmd)[x] = IF x = o THEN Append(q[x], cmd) ELSE q[x]
BY DEF Put

LEMMA BrokerStepKeepsTasks ==
  ASSUME LineInv, BrokerStep
  PROVE  TasksStay
<1> USE DEF LineInv, objVars, loopVars
<1>0. /\ inq \in [Objects -> Seq(Commands)]
      /\ \A o \in Objects : o[1] \in Runs
      /\ offer # None => offer.obj \in Objects
  BY ProviderOfRun DEF TypeOK, Offers
<1>1. ASSUME UNCHANGED <<tracked, round, ended, claimed, cancelled, solo, lanes, inq>>
      PROVE  TasksStay
  BY <1>1 DEF TasksStay, QueueGrows
<1>2. CASE LoopStep
  <2>1. ASSUME NEW r \in Runs, expire_queued(r) PROVE TasksStay
    <3>1. /\ UNCHANGED <<tracked, round, ended, claimed, cancelled, lanes, inq>>
          /\ solo' = solo \cup {[obj |-> Current(r), cmd |-> "Fail", step |-> "spawned"]}
      BY <2>1 DEF expire_queued
    <3> QED
      BY <3>1 DEF TasksStay, QueueGrows
  <2>2. CASE StartWalk \/ EndWalk \/ Wake \/ \E a \in Agents : LeaveAgent(a) \/ OfferHead(a)
    BY <1>1, <2>2 DEF StartWalk, EndWalk, Wake, LeaveAgent, OfferHead
  <2> QED
    BY <1>2, <2>1, <2>2 DEF LoopStep
<1>3. CASE ProviderAccepts \/ OfferStep
  <2>1. CASE ProviderAccepts \/ OfferDeclined \/ OfferUnanswered
    BY <1>1, <2>1 DEF ProviderAccepts, OfferDeclined, OfferUnanswered
  <2>2. CASE OfferAccepted
    <3> DEFINE o == offer.obj
    <3>1. /\ o \in Objects /\ claim(o, "offer") /\ inq' = Put(inq, o, "Claim")
          /\ UNCHANGED <<tracked, round, ended, cancelled, solo>>
      BY <1>0, <2>2 DEF OfferAccepted
    <3>2. o \notin claimed
      BY <1>0, <2>2, ObjectIsPair DEF OfferAccepted, OfferWaits, LineIsUnclaimed
    <3> HIDE DEF o
    <3>3. claimed' = claimed \cup {o}
      BY <3>1 DEF claim
    <3>4. \A l \in Lanes :
            \/ lanes'[l] = lanes[l]
            \/ lanes[l] = "off" /\ lanes'[l] = "get" /\ l[1] \in claimed' \ claimed
      BY <3>1, <3>2, ClaimOpensLane
    <3>6. \A x \in Objects : inq'[x] = IF x = o THEN Append(inq[x], "Claim") ELSE inq[x]
      BY <1>0, <3>1, PutIs
    <3>5. \A x \in Objects : QueueGrows(x)
      BY <3>2, <3>3, <3>6 DEF QueueGrows
    <3> QED
      BY <3>1, <3>3, <3>4, <3>5 DEF TasksStay
  <2>3. CASE OfferRefused
    <3>1. /\ UNCHANGED <<tracked, round, ended, claimed, cancelled, lanes, inq>>
          /\ solo' = solo \cup {[obj |-> offer.obj, cmd |-> "Fail", step |-> "spawned"]}
      BY <2>3 DEF OfferRefused
    <3> QED
      BY <3>1 DEF TasksStay, QueueGrows
  <2> QED
    BY <1>3, <2>1, <2>2, <2>3 DEF OfferStep
<1>4. ASSUME NEW r \in Runs, request_cancel(r) PROVE TasksStay
  <2> DEFINE o == Current(r)
  <2>1. /\ UNCHANGED <<tracked, round, ended, claimed, lanes>>
        /\ cancelled' = cancelled \cup {o} /\ IsTracked(r)
    BY <1>4 DEF request_cancel
  <2>2. o \in Objects
    BY <2>1, CurrentIsObject
  <2>3. \/ /\ o \in claimed
           /\ inq' = Put(inq, o, "RequestCancel") /\ UNCHANGED solo
        \/ /\ solo' = solo \cup {[obj |-> o, cmd |-> "RequestCancel", step |-> "spawned"]}
           /\ UNCHANGED inq
    BY <1>4 DEF request_cancel
  <2> HIDE DEF o
  <2>5. \A x \in Objects :
          \/ inq'[x] = inq[x]
          \/ x = o /\ o \in claimed /\ inq'[x] = Append(inq[x], "RequestCancel")
    <3>1. CASE UNCHANGED inq
      BY <3>1
    <3>2. CASE o \in claimed /\ inq' = Put(inq, o, "RequestCancel")
      <4>1. \A x \in Objects : inq'[x] = IF x = o THEN Append(inq[x], "RequestCancel") ELSE inq[x]
        BY <1>0, <2>2, <3>2, PutIs
      <4> QED
        BY <3>2, <4>1
    <3> QED
      BY <2>3, <3>1, <3>2
  <2>4. \A x \in Objects : QueueGrows(x)
    BY <2>1, <2>5 DEF QueueGrows
  <2> QED
    BY <2>1, <2>3, <2>4 DEF TasksStay
<1>5. ASSUME NEW o \in Objects, NEW e \in Reports, report_event(o, e) PROVE TasksStay
  <2> DEFINE t == Current(o[1])
  <2>1. /\ UNCHANGED <<tracked, round, ended, claimed, cancelled, solo, lanes>>
        /\ t \in claimed /\ inq' = Put(inq, t, e)
    BY <1>5 DEF report_event
  <2>2. t \in Objects
    BY <2>1 DEF TypeOK
  <2> HIDE DEF t
  <2>5. \A x \in Objects : inq'[x] = IF x = t THEN Append(inq[x], e) ELSE inq[x]
    BY <1>0, <2>1, <2>2, PutIs
  <2>4. \A x \in Objects : QueueGrows(x)
    BY <2>1, <2>5, BrokerAssumption DEF QueueGrows
  <2> QED
    BY <2>1, <2>4 DEF TasksStay
<1>6. ASSUME NEW o \in Objects, NEW e \in Reports, accept_late_ack(o, e) PROVE TasksStay
  <2> DEFINE t == Current(o[1])
  <2>1. /\ UNCHANGED <<tracked, round, ended, cancelled, solo>>
        /\ t \notin claimed /\ inq' = [inq EXCEPT ![t] = @ \o <<"Claim", e>>]
        /\ claim(t, "late") /\ IsTracked(o[1])
    BY <1>6 DEF accept_late_ack
  <2>2. t \in Objects
    BY <1>0, <2>1, CurrentIsObject
  <2> HIDE DEF t
  <2>3. claimed' = claimed \cup {t}
    BY <2>1 DEF claim
  <2>4. \A l \in Lanes :
          \/ lanes'[l] = lanes[l]
          \/ lanes[l] = "off" /\ lanes'[l] = "get" /\ l[1] \in claimed' \ claimed
    BY <2>1, <2>2, ClaimOpensLane
  <2>5. \A x \in Objects : QueueGrows(x)
    BY <1>0, <2>1, <2>2, <2>3 DEF QueueGrows
  <2> QED
    BY <2>1, <2>3, <2>4, <2>5 DEF TasksStay
<1>7. ASSUME NEW o \in Objects, finish_run(o) PROVE TasksStay
  <2> DEFINE t == Current(o[1])
  <2>1. /\ UNCHANGED <<tracked, round, ended, claimed, cancelled, solo, lanes>>
        /\ UNCHANGED inq \/ (t \in claimed /\ inq' = Put(inq, t, "FinishStream"))
    BY <1>7 DEF finish_run
  <2>2. t \in claimed => t \in Objects
    BY DEF TypeOK
  <2> HIDE DEF t
  <2>5. \A x \in Objects :
          \/ inq'[x] = inq[x]
          \/ x = t /\ t \in claimed /\ inq'[x] = Append(inq[x], "FinishStream")
    <3>1. CASE UNCHANGED inq
      BY <3>1
    <3>2. CASE t \in claimed /\ inq' = Put(inq, t, "FinishStream")
      <4>1. \A x \in Objects : inq'[x] = IF x = t THEN Append(inq[x], "FinishStream") ELSE inq[x]
        BY <1>0, <2>2, <3>2, PutIs
      <4> QED
        BY <3>2, <4>1
    <3> QED
      BY <2>1, <3>1, <3>2
  <2>3. "FinishStream" \in Reports \cup {"FinishStream", "RequestCancel"}
        /\ "FinishStream" # "RequestCancel"
    OBVIOUS
  <2>4. \A x \in Objects : QueueGrows(x)
    BY <2>3, <2>5, Zenon DEF QueueGrows
  <2> QED
    BY <2>1, <2>4 DEF TasksStay
<1>8. CASE \/ \E p \in Providers : register_provider(p) \/ Detach(p)
           \/ \E x \in Runs : GracePasses(x)
           \/ \E o \in Objects : Abandon(o)
  BY <1>1, <1>8 DEF register_provider, Detach, GracePasses, Abandon
<1> QED
  BY <1>2, <1>3, <1>4, <1>5, <1>6, <1>7, <1>8 DEF BrokerStep

-----------------------------------------------------------------------------
(* What the handlers have still to commit, and for whom *)

(* A row that has had no round is new, and a paused run waits in no line. *)
RowsBegin ==
  \A r \in Runs :
    /\ status[r] = "none" => round[r] = 0
    /\ status[r] = "input-required" => r \notin InLine

(* Commits are left to a handler that a task is awaiting. *)
TodoKnown ==
  \A k \in Tasks : todo[k] # <<>> =>
    IF k \in Lanes THEN lanes[k] \in Commands ELSE \E s \in solo : TaskOf(s) = k

(* A cancel is told, and recorded, only of an object somebody cancelled; a
   one-shot task records no pause. *)
CancelsAsked ==
  /\ \A o \in Objects : "RequestCancel" \in ToSet(inq[o]) => o \in cancelled
  /\ \A s \in solo : s.cmd = "RequestCancel" => s.obj \in cancelled
  /\ \A k \in Tasks : ToSet(todo[k]) \cap {"cancelling", "cancelled"} # {} => k[1] \in cancelled
  /\ \A k \in Tasks \ Lanes : "input-required" \notin ToSet(todo[k])

RecordInv ==
  /\ DispatchTypeOK /\ LineInv /\ AccountInv
  /\ DoorsAreIdle /\ RowsBegin /\ TodoKnown /\ CancelsAsked

LEMMA FreshIsIdle ==
  ASSUME LineInv, AccountInv, NEW r \in Runs, round[r] = 0
  PROVE  Idle(r)
<1> USE DEF LineInv, AccountInv
<1>1. tracked[r] = 0
  BY DEF LastIsFiled
<1>2. r \notin InLine
  <2> SUFFICES ASSUME r \in InLine PROVE FALSE
    OBVIOUS
  <2> DEFINE q == pending[AgentOf[r]]
             Own == {x \in Runs : AgentOf[x] = AgentOf[r] /\ round[x] > 0}
  <2>1. q \in Seq(Own) /\ r \in ToSet(q)
    BY ProviderOfRun DEF QueuesAreOwn, InLine
  <2>2. r \notin Own
    OBVIOUS
  <2> HIDE DEF q, Own
  <2> QED
    BY <2>1, <2>2 DEF ToSet
<1>3. \A o \in Objects : o[2] # 0
  BY ObjectIsPair
<1>4. \A s \in solo : s.obj \in Objects
  BY ObjectIsPair DEF TypeOK
<1>5. \A l \in Lanes : l[1] \in Objects
  BY ObjectIsPair
<1> QED
  BY <1>1, <1>2, <1>3, <1>4, <1>5 DEF Idle, SoloKnown, LanesOver

(* Where no task of its last round is left, a run that waits in no line is gone. *)
LEMMA OverIsIdle ==
  ASSUME LineInv, AccountInv, NEW r \in Runs \ InLine, RoundIsOver(r)
  PROVE  Idle(r)
<1>1. \A l \in Lanes : l[1][1] = r => ~ AtWork(l)
  BY DEF RoundIsOver, AtWork
<1>2. \A s \in solo : s.obj[1] # r
  BY DEF RoundIsOver
<1>3. ~ Placed(r)
  BY <1>1, <1>2 DEF Placed
<1>4. ~ IsTracked(r)
  BY <1>3 DEF AccountInv, AllPlaced
<1> QED
  BY <1>1, <1>2, <1>4 DEF Idle, IsTracked

(* A task with commits left belongs to the last object of its run. *)
LEMMA TodoIsCurrent ==
  ASSUME LineInv, AccountInv, TodoKnown, NEW k \in Tasks, todo[k] # <<>>
  PROVE  /\ k[1][1] \in Runs /\ k[1] = <<k[1][1], round[k[1][1]]>>
         /\ ~ Idle(k[1][1])
<1>1. k[1] \in Objects /\ k[1] = <<k[1][1], k[1][2]>> /\ k[1][1] \in Runs
  BY LaneIsTask, ObjectIsPair
<1>2. CASE k \in Lanes
  <2>1. AtWork(k)
    BY <1>2, BrokerAssumption DEF TodoKnown, AtWork, Commands
  <2> QED
    BY <1>1, <1>2, <2>1 DEF AccountInv, LanesOver, Idle
<1>3. CASE k \notin Lanes
  <2>1. PICK s \in solo : TaskOf(s) = k
    BY <1>3 DEF TodoKnown
  <2>2. s.obj = k[1]
    BY <2>1 DEF TaskOf
  <2> QED
    BY <1>1, <2>2 DEF AccountInv, SoloKnown, Idle
<1> QED
  BY <1>2, <1>3

(* An idle run's row is let alone by the handlers and the sweep. *)
LEMMA OpenRowStays ==
  ASSUME RecordInv, NEW r \in Runs, door[r] # "shut", [DispatchNext]_allVars, ~ FindsOffline(r)
  PROVE  status'[r] = status[r] /\ (Crash \/ phase' = "up")
<1> USE DEF RecordInv
<1>1. phase = "up" /\ status[r] = "queued" /\ Idle(r)
  BY DEF DoorsAreIdle
<1>2. ASSUME NEW x \in Runs, DoorStep(x) PROVE status'[r] = status[r] /\ phase' = phase
  BY <1>1, <1>2 DEF DoorStep, Create, Reopen, FindsServed, FindsOffline, Rejects, Enqueues,
     mark_run_status, recordVars, DispatchTypeOK
<1>3. ASSUME NEW k \in Tasks, Commits(k) PROVE status'[r] = status[r] /\ phase' = phase
  <2>1. k[1][1] # r
    BY <1>1, <1>3, TodoIsCurrent DEF Commits
  <2> QED
    BY <1>3, <2>1 DEF Commits, mark_run_status, DispatchTypeOK
<1>4. ASSUME NEW R \in SUBSET Runs, SweepStep(R) PROVE status'[r] = status[r] /\ phase' = phase
  <2>1. r \notin R
    BY <1>1, <1>4 DEF SweepStep, fail_stalled_runs, fail_stale_paused_runs
  <2> QED
    BY <1>4, <2>1 DEF SweepStep, fail_stalled_runs, fail_stale_paused_runs, fail_runs
<1>5. ASSUME NEW k \in Tasks, LosesWrites(k) PROVE status'[r] = status[r] /\ phase' = phase
  BY <1>5 DEF LosesWrites, recordVars
<1>6. ASSUME NEW l \in Lanes, TaskStep(l) PROVE status'[r] = status[r] /\ phase' = phase
  BY <1>6 DEF TaskStep, Takes, TakesMalformed, GoesOn, Ends, recordVars, dispatchVars
<1>7. ASSUME NEW s \in SoloTasks, StartsOneShot(s) \/ EndsOneShot(s)
      PROVE  status'[r] = status[r] /\ phase' = phase
  BY <1>7 DEF StartsOneShot, EndsOneShot, recordVars, dispatchVars
<1>8. ASSUME NEW x \in Runs, close_with_terminal_event(x)
      PROVE  status'[r] = status[r] /\ phase' = phase
  BY <1>8 DEF close_with_terminal_event
<1>9. CASE Crash
  BY <1>9 DEF Crash, recordVars
<1>10. ~ Start /\ ~ Started
  BY <1>1 DEF Start, Started
<1>11. CASE BrokerStep \/ UNCHANGED allVars
  BY <1>1, <1>11 DEF BrokerStep, allVars, recordVars, dispatchVars
<1> QED
  BY <1>1, <1>2, <1>3, <1>4, <1>5, <1>6, <1>7, <1>8, <1>9, <1>10, <1>11 DEF DispatchNext

LEMMA NextDoorsAreIdle ==
  ASSUME RoundsApart, RecordInv, [DispatchNext]_allVars
  PROVE  DoorsAreIdle'
<1> USE DEF RecordInv
<1>0. TypeOK'
  BY NextDispatchTypeOK DEF DispatchTypeOK
<1> SUFFICES ASSUME NEW r \in Runs, door'[r] # "shut"
             PROVE  phase' = "up" /\ status'[r] = "queued" /\ Idle(r)'
  BY DEF DoorsAreIdle
<1>1. ~ Crash /\ ~ FindsOffline(r) /\ ~ Enqueues(r)
  BY DEF Crash, FindsOffline, Enqueues, DispatchTypeOK
<1>2. CASE Create(r) \/ Reopen(r)
  <2>1. phase' = "up" /\ status'[r] = "queued" /\ UNCHANGED vars
    BY <1>2 DEF Create, Reopen, DispatchTypeOK
  <2>2. ASSUME Create(r) PROVE Idle(r)
    BY <2>2, FreshIsIdle DEF Create, RowsBegin
  <2>3. ASSUME Reopen(r) PROVE Idle(r)
    <3>1. RoundIsOver(r) /\ r \notin InLine
      BY <2>3 DEF Reopen, RoundsApart, RowsBegin
    <3> QED
      BY <3>1, OverIsIdle
  <2>4. Idle(r)
    BY <1>2, <2>2, <2>3
  <2> QED
    BY <1>0, <2>1, <2>4, IdleStays DEF BrokerMove
<1>3. CASE ~ Create(r) /\ ~ Reopen(r)
  <2>1. door[r] # "shut"
    <3>1. ASSUME NEW x \in Runs, DoorStep(x) PROVE door[r] # "shut"
      <4>1. CASE x = r
        BY <1>1, <1>3, <3>1, <4>1 DEF DoorStep, FindsServed, Rejects
      <4>2. CASE x # r
        BY <3>1, <4>2 DEF DoorStep, Create, Reopen, OpenDoor, FindsServed, FindsOffline, Rejects,
           Enqueues, DispatchTypeOK
      <4> QED
        BY <4>1, <4>2
    <3>2. CASE UNCHANGED door
      BY <3>2
    <3> QED
      BY <1>1, <3>1, <3>2
      DEF DispatchNext, Commits, LosesWrites, TaskStep, Takes, TakesMalformed, GoesOn, Ends,
          StartsOneShot, EndsOneShot, SweepStep, fail_stalled_runs, fail_stale_paused_runs,
          close_with_terminal_event, Start, Started, BrokerStep, dispatchVars, allVars
  <2>2. status'[r] = "queued" /\ phase' = "up" /\ Idle(r)
    BY <1>1, <2>1, OpenRowStays DEF DoorsAreIdle
  <2>3. CASE BrokerMove
    BY <1>0, <2>2, <2>3, IdleStays
  <2>4. ASSUME NEW x \in Runs, Enqueues(x) PROVE Idle(r)'
    <3>1. x # r
      BY <1>1, <2>4
    <3>2. enqueue_run(x) /\ x \notin InLine
      BY <2>4 DEF Enqueues, DoorsAreIdle, Idle
    <3> QED
      BY <2>2, <3>1, <3>2, IdleBesideEnqueue
  <2>5. CASE (\E x \in Runs : push_fail(x)) \/ \E l \in Lanes : TakesMalformed(l)
    BY <2>2, <2>5, IdleBesidePush DEF DispatchTypeOK
  <2> QED
    BY <1>1, <2>2, <2>3, <2>4, <2>5, DispatchMoves
<1> QED
  BY <1>2, <1>3

(* How a row may change: it is made or reopened, a sweep or the restart or a
   door fails it, or a handler commits a legal status. *)
RowMoves(r) ==
  \/ status'[r] = status[r]
  \/ Create(r) \/ Reopen(r)
  \/ /\ FindsOffline(r) \/ Start \/ \E R \in SUBSET Runs : SweepStep(R)
     /\ status'[r] = "failed" /\ status[r] \in LegalFrom("failed")
  \/ \E k \in Tasks :
       /\ Commits(k) /\ k[1][1] = r
       /\ status'[r] = Head(todo[k]) /\ status[r] \in LegalFrom(Head(todo[k]))

LEMMA EveryRowMoves ==
  ASSUME DispatchTypeOK, [DispatchNext]_allVars, NEW r \in Runs
  PROVE  RowMoves(r)
<1> USE DEF DispatchTypeOK
<1>1. ASSUME NEW x \in Runs, DoorStep(x) PROVE RowMoves(r)
  <2>1. CASE Create(x) \/ Reopen(x)
    BY <2>1 DEF Create, Reopen, RowMoves
  <2>2. CASE FindsServed(x) \/ Rejects(x) \/ Enqueues(x)
    BY <2>2 DEF FindsServed, Rejects, Enqueues, recordVars, RowMoves
  <2>3. CASE FindsOffline(x)
    BY <2>3 DEF FindsOffline, mark_run_status, RowMoves
  <2> QED
    BY <1>1, <2>1, <2>2, <2>3 DEF DoorStep
<1>2. ASSUME NEW k \in Tasks, Commits(k) PROVE RowMoves(r)
  <2>1. CASE UNCHANGED status
    BY <2>1 DEF RowMoves
  <2>2. CASE /\ status[k[1][1]] \in LegalFrom(Head(todo[k]))
             /\ status' = [status EXCEPT ![k[1][1]] = Head(todo[k])]
    BY <1>2, <2>2, LaneIsTask DEF RowMoves
  <2> QED
    BY <1>2, <2>1, <2>2 DEF Commits, mark_run_status
<1>3. ASSUME NEW R \in SUBSET Runs, SweepStep(R) PROVE RowMoves(r)
  BY <1>3 DEF SweepStep, fail_stalled_runs, fail_stale_paused_runs, fail_runs, RowMoves, LegalFrom
<1>4. CASE Start
  BY <1>4 DEF Start, Unsettled, RowMoves, LegalFrom
<1>5. ASSUME UNCHANGED status PROVE RowMoves(r)
  BY <1>5 DEF RowMoves
<1> QED
  BY <1>1, <1>2, <1>3, <1>4, <1>5
  DEF DispatchNext, LosesWrites, TaskStep, Takes, TakesMalformed, GoesOn, Ends, StartsOneShot,
      EndsOneShot, close_with_terminal_event, Crash, Started, BrokerStep, recordVars,
      dispatchVars, allVars

(* Rounds begin, and the line grows, where a door enqueues. *)
LEMMA RoundsMove ==
  ASSUME RecordInv, [DispatchNext]_allVars, NEW r \in Runs, ~ Enqueues(r)
  PROVE  round'[r] = round[r] /\ (r \in InLine' => r \in InLine)
<1> USE DEF RecordInv
<1>1. CASE BrokerMove
  <2>1. UNCHANGED round
    <3>1. ASSUME NEW l \in Lanes, PipelineStep(l) PROVE UNCHANGED round
      BY <3>1 DEF PipelineStep, PipelineTakes, PipelineGoesOn, PipelineEnds
    <3>2. ASSUME NEW s \in SoloTasks, OneShotStep(s) PROVE UNCHANGED round
      BY <3>2 DEF OneShotStep, OneShotStarts, OneShotEnds
    <3>3. CASE LoopStep \/ ProviderAccepts \/ OfferStep
      BY <3>3 DEF LoopStep, expire_queued, StartWalk, EndWalk, Wake, LeaveAgent, OfferHead,
         ProviderAccepts, OfferStep, OfferAccepted, OfferDeclined, OfferRefused, OfferUnanswered
    <3> QED
      BY <1>1, <3>1, <3>2, <3>3
      DEF BrokerMove, register_provider, Detach, request_cancel, GracePasses, report_event,
          accept_late_ack, finish_run, Abandon, vars
  <2> QED
    BY <1>1, <2>1, LineOnlyLoses
<1>2. ASSUME NEW x \in Runs, Enqueues(x) PROVE round'[r] = round[r] /\ (r \in InLine' => r \in InLine)
  <2>1. x # r
    BY <1>2
  <2>2. enqueue_run(x) /\ x \notin InLine
    BY <1>2 DEF Enqueues, DoorsAreIdle, Idle
  <2>3. InLine' = InLine \cup {x}
    BY <2>2, LineGrows DEF LineInv
  <2> QED
    BY <2>1, <2>2, <2>3 DEF enqueue_run, LineInv, TypeOK
<1>3. CASE (\E x \in Runs : push_fail(x)) \/ \E l \in Lanes : TakesMalformed(l)
  BY <1>3, PushIsBeside DEF LineInv, InLine
<1>4. CASE Crash
  <2>1. Idle(r)'
    BY <1>4, CrashEmptiesBroker, NextDispatchTypeOK DEF DispatchTypeOK
  <2> QED
    BY <1>4, <2>1 DEF Crash, Idle
<1> QED
  BY <1>1, <1>2, <1>3, <1>4, DispatchMoves

LEMMA NextRowsBegin ==
  ASSUME RecordInv, [DispatchNext]_allVars
  PROVE  RowsBegin'
<1> USE DEF RecordInv
<1> SUFFICES ASSUME NEW r \in Runs
             PROVE  /\ status'[r] = "none" => round'[r] = 0
                    /\ status'[r] = "input-required" => r \notin InLine'
  BY DEF RowsBegin
<1>0. RowMoves(r)
  BY EveryRowMoves
<1>1. CASE Enqueues(r)
  BY <1>1 DEF Enqueues, DoorsAreIdle, recordVars
<1>2. CASE ~ Enqueues(r)
  <2>1. round'[r] = round[r] /\ (r \in InLine' => r \in InLine)
    BY <1>2, RoundsMove
  <2>2. CASE status'[r] = status[r]
    BY <2>1, <2>2 DEF RowsBegin
  <2>3. CASE Create(r) \/ Reopen(r)
    BY <2>3 DEF Create, Reopen, DispatchTypeOK
  <2>4. CASE status'[r] = "failed"
    BY <2>4
  <2>5. ASSUME NEW k \in Tasks, Commits(k), k[1][1] = r, status'[r] = Head(todo[k]),
               status[r] \in LegalFrom(Head(todo[k]))
        PROVE  /\ status'[r] # "none"
               /\ status'[r] = "input-required" => r \notin InLine
    <3>1. status'[r] # "none"
      BY <2>5 DEF LegalFrom
    <3>2. ASSUME status'[r] = "input-required" PROVE r \notin InLine
      <4>1. todo[k] \in Seq(Writes) /\ todo[k] # <<>>
        BY <2>5 DEF Commits, DispatchTypeOK
      <4>2. "input-required" \in ToSet(todo[k])
        BY <2>5, <3>2, <4>1 DEF ToSet
      <4>3. k \in Lanes /\ lanes[k] \in Commands
        BY <4>1, <4>2 DEF CancelsAsked, TodoKnown
      <4>4. k[1] \in claimed
        BY <4>3, BrokerAssumption DEF LineInv, OnePipeline, Commands
      <4>5. k[1] = <<r, round[r]>>
        BY <2>5, <4>1, TodoIsCurrent
      <4> QED
        BY <4>4, <4>5 DEF LineInv, LineIsUnclaimed
    <3> QED
      BY <3>1, <3>2
  <2> QED
    BY <1>0, <2>1, <2>2, <2>3, <2>4, <2>5 DEF RowMoves
<1> QED
  BY <1>1, <1>2

(* Somebody awaits the handler k. *)
Awaited(k) == IF k \in Lanes THEN lanes[k] \in Commands ELSE \E s \in solo : TaskOf(s) = k

(* How what a handler has to commit may change: it is called, commits, is cut
   short, or the process stops. *)
TodoMoves(k) ==
  \/ todo'[k] = todo[k]
  \/ Commits(k) /\ todo'[k] = Tail(todo[k])
  \/ (Crash \/ LosesWrites(k)) /\ todo'[k] = <<>>
  \/ k \in Lanes /\ Takes(k) /\ todo'[k] = handler(k[1], Head(inq[k[1]]))
  \/ \E s \in SoloTasks :
       StartsOneShot(s) /\ TaskOf(s) = k /\ todo'[k] = handler(s.obj, s.cmd)

LEMMA EveryTodoMoves ==
  ASSUME DispatchTypeOK, [DispatchNext]_allVars, NEW k \in Tasks
  PROVE  TodoMoves(k)
<1> USE DEF DispatchTypeOK
<1>1. ASSUME UNCHANGED todo PROVE TodoMoves(k)
  BY <1>1 DEF TodoMoves
<1>2. ASSUME NEW x \in Tasks, Commits(x) \/ LosesWrites(x) PROVE TodoMoves(k)
  BY <1>2 DEF Commits, LosesWrites, TodoMoves
<1>3. ASSUME NEW l \in Lanes, TaskStep(l) PROVE TodoMoves(k)
  <2>1. CASE Takes(l)
    <3>1. todo' = [todo EXCEPT ![l] = handler(l[1], Head(inq[l[1]]))]
      BY <2>1 DEF Takes
    <3> QED
      BY <2>1, <3>1, LaneIsTask DEF TodoMoves
  <2>2. CASE ~ Takes(l)
    BY <1>1, <1>3, <2>2 DEF TaskStep, TakesMalformed, GoesOn, Ends, dispatchVars
  <2> QED
    BY <2>1, <2>2
<1>4. ASSUME NEW s \in SoloTasks, StartsOneShot(s) \/ EndsOneShot(s) PROVE TodoMoves(k)
  <2>1. CASE StartsOneShot(s)
    BY <2>1, TaskOfSolo DEF StartsOneShot, TodoMoves
  <2>2. CASE EndsOneShot(s)
    BY <1>1, <2>2 DEF EndsOneShot, dispatchVars
  <2> QED
    BY <1>4, <2>1, <2>2
<1>5. ASSUME NEW r \in Runs, DoorStep(r) \/ close_with_terminal_event(r) PROVE TodoMoves(k)
  BY <1>1, <1>5 DEF DoorStep, Create, Reopen, FindsServed, FindsOffline, Rejects, Enqueues,
     close_with_terminal_event
<1>6. CASE Crash
  BY <1>6 DEF Crash, TodoMoves
<1>7. ASSUME NEW R \in SUBSET Runs, SweepStep(R) PROVE TodoMoves(k)
  BY <1>1, <1>7 DEF SweepStep, fail_stalled_runs, fail_stale_paused_runs
<1>8. CASE Start \/ Started \/ BrokerStep \/ UNCHANGED allVars
  BY <1>1, <1>8 DEF Start, Started, BrokerStep, dispatchVars, allVars
<1> QED
  BY <1>2, <1>3, <1>4, <1>5, <1>6, <1>7, <1>8 DEF DispatchNext

LEMMA SoloIsNoLane == \A s \in SoloTasks : TaskOf(s) \notin Lanes
BY DEF SoloTasks, TaskOf, Lanes

(* Nobody turns away from a handler that has commits left. *)
LEMMA StaysAwaited ==
  ASSUME RecordInv, [DispatchNext]_allVars, ~ Crash, NEW k \in Tasks, todo[k] # <<>>
  PROVE  Awaited(k)'
<1> USE DEF RecordInv
<1>1. Awaited(k)
  BY DEF TodoKnown, Awaited
<1>2. ASSUME UNCHANGED <<lanes, solo>> PROVE Awaited(k)'
  BY <1>1, <1>2 DEF Awaited
<1>3. CASE BrokerStep
  <2>1. TasksStay
    BY <1>3, BrokerStepKeepsTasks
  <2>2. k \in Lanes => lanes[k] # "off"
    BY <1>1, BrokerAssumption DEF Awaited, Commands
  <2> QED
    BY <1>1, <2>1, <2>2 DEF TasksStay, Awaited
<1>4. ASSUME NEW l \in Lanes, TaskStep(l) PROVE Awaited(k)'
  <2>1. l # k
    <3>1. k \in Lanes => lanes[k] # "get"
      BY <1>1, BrokerAssumption DEF Awaited, Commands
    <3> QED
      BY <1>4, <3>1 DEF TaskStep, Takes, PipelineTakes, TakesMalformed, GoesOn, Ends
  <2>2. UNCHANGED solo /\ \A m \in Lanes : m # l => lanes'[m] = lanes[m]
    BY <1>4 DEF TaskStep, Takes, PipelineTakes, TakesMalformed, GoesOn, Ends, PipelineGoesOn,
       PipelineEnds, LineInv, TypeOK
  <2> QED
    BY <1>1, <2>1, <2>2 DEF Awaited
<1>5. ASSUME NEW s \in SoloTasks, StartsOneShot(s) PROVE Awaited(k)'
  <2> DEFINE t == [s EXCEPT !.step = "handling"]
  <2>1. UNCHANGED lanes /\ solo' = (solo \ {s}) \cup {t}
    BY <1>5 DEF StartsOneShot, OneShotStarts
  <2>2. TaskOf(t) = TaskOf(s)
    BY DEF TaskOf, SoloTasks
  <2> HIDE DEF t
  <2> QED
    BY <1>1, <2>1, <2>2 DEF Awaited
<1>6. ASSUME NEW s \in SoloTasks, EndsOneShot(s) PROVE Awaited(k)'
  <2>1. TaskOf(s) # k /\ UNCHANGED lanes /\ solo' = solo \ {s}
    BY <1>6 DEF EndsOneShot, OneShotEnds
  <2> QED
    BY <1>1, <2>1 DEF Awaited
<1>7. ASSUME NEW r \in Runs, DoorStep(r) \/ close_with_terminal_event(r) PROVE Awaited(k)'
  BY <1>2, <1>7 DEF DoorStep, Create, Reopen, FindsServed, FindsOffline, Rejects, Enqueues,
     enqueue_run, objVars, vars, close_with_terminal_event, push_fail
<1>8. ASSUME NEW R \in SUBSET Runs, SweepStep(R) PROVE Awaited(k)'
  BY <1>2, <1>8 DEF SweepStep, fail_stalled_runs, fail_stale_paused_runs, vars, objVars
<1>9. ASSUME NEW x \in Tasks, Commits(x) \/ LosesWrites(x) PROVE Awaited(k)'
  BY <1>2, <1>9 DEF Commits, LosesWrites, vars, objVars
<1>10. CASE Start \/ Started \/ UNCHANGED allVars
  BY <1>2, <1>10 DEF Start, Started, allVars, vars, objVars
<1> QED
  BY <1>3, <1>4, <1>5, <1>6, <1>7, <1>8, <1>9, <1>10 DEF DispatchNext

LEMMA NextTodoKnown ==
  ASSUME RecordInv, [DispatchNext]_allVars
  PROVE  TodoKnown'
<1> USE DEF RecordInv
<1> SUFFICES ASSUME NEW k \in Tasks, todo'[k] # <<>> PROVE Awaited(k)'
  BY DEF TodoKnown, Awaited
<1>1. TodoMoves(k)
  BY EveryTodoMoves
<1>2. CASE Crash
  BY <1>2 DEF Crash
<1>3. CASE k \in Lanes /\ Takes(k)
  <2>1. k[1] \in Objects /\ inq[k[1]] # <<>> /\ lanes' = [lanes EXCEPT ![k] = Head(inq[k[1]])]
    BY <1>3, LaneIsTask DEF Takes, PipelineTakes
  <2>2. inq[k[1]] \in Seq(Commands)
    BY <2>1 DEF LineInv, TypeOK
  <2>3. Head(inq[k[1]]) \in Commands
    BY <2>1, <2>2
  <2> QED
    BY <1>3, <2>1, <2>3 DEF Awaited, LineInv, TypeOK
<1>4. ASSUME NEW s \in SoloTasks, StartsOneShot(s), TaskOf(s) = k PROVE Awaited(k)'
  <2> DEFINE t == [s EXCEPT !.step = "handling"]
  <2>1. t \in solo'
    BY <1>4 DEF StartsOneShot, OneShotStarts
  <2>2. TaskOf(t) = k
    BY <1>4 DEF TaskOf, SoloTasks
  <2>3. k \notin Lanes
    BY <1>4, SoloIsNoLane
  <2> HIDE DEF t
  <2> QED
    BY <2>1, <2>2, <2>3 DEF Awaited
<1>5. CASE todo[k] # <<>> /\ ~ Crash
  BY <1>5, StaysAwaited
<1> QED
  BY <1>1, <1>2, <1>3, <1>4, <1>5 DEF TodoMoves, Commits

(* What is in a short queue, and in the rest of one. *)
LEMMA ToSetSmall ==
  ASSUME NEW a, NEW b
  PROVE  ToSet(<<>>) = {} /\ ToSet(<<a>>) = {a} /\ ToSet(<<a, b>>) = {a, b}
BY DEF ToSet

LEMMA ToSetTail ==
  ASSUME NEW S, NEW q \in Seq(S), q # <<>>
  PROVE  Head(q) \in ToSet(q) /\ ToSet(Tail(q)) \subseteq ToSet(q)
<1>1. Head(q) \in ToSet(q)
  BY DEF ToSet
<1>2. ASSUME NEW i \in 1..Len(Tail(q)) PROVE Tail(q)[i] \in ToSet(q)
  <2>1. Tail(q)[i] = q[i + 1] /\ i + 1 \in 1..Len(q)
    OBVIOUS
  <2> QED
    BY <2>1 DEF ToSet
<1> QED
  BY <1>1, <1>2 DEF ToSet

LEMMA ToSetConcat ==
  ASSUME NEW S, NEW q \in Seq(S), NEW t \in Seq(S)
  PROVE  ToSet(q \o t) = ToSet(q) \cup ToSet(t)
<1>1. ASSUME NEW i \in 1..Len(q \o t) PROVE (q \o t)[i] \in ToSet(q) \cup ToSet(t)
  <2>1. CASE i <= Len(q)
    BY <2>1 DEF ToSet
  <2>2. CASE ~ i <= Len(q)
    <3>1. (q \o t)[i] = t[i - Len(q)] /\ i - Len(q) \in 1..Len(t)
      BY <2>2
    <3> QED
      BY <3>1 DEF ToSet
  <2> QED
    BY <2>1, <2>2
<1>2. ASSUME NEW i \in 1..Len(q) PROVE q[i] \in ToSet(q \o t)
  <2>1. i \in 1..Len(q \o t) /\ (q \o t)[i] = q[i]
    OBVIOUS
  <2> QED
    BY <2>1 DEF ToSet
<1>3. ASSUME NEW i \in 1..Len(t) PROVE t[i] \in ToSet(q \o t)
  <2>1. Len(q) + i \in 1..Len(q \o t) /\ (q \o t)[Len(q) + i] = t[i]
    OBVIOUS
  <2> QED
    BY <2>1 DEF ToSet
<1>4. ToSet(q) = {q[i] : i \in 1..Len(q)} /\ ToSet(t) = {t[i] : i \in 1..Len(t)}
      /\ ToSet(q \o t) = {(q \o t)[i] : i \in 1..Len(q \o t)}
  BY DEF ToSet
<1> QED
  BY <1>1, <1>2, <1>3, <1>4

(* What a handler commits of a cancel, it commits for a cancelled object. *)
LEMMA HandlerCancels ==
  ASSUME NEW o, NEW cmd, cmd = "RequestCancel" => o \in cancelled,
         ToSet(handler(o, cmd)) \cap {"cancelling", "cancelled"} # {}
  PROVE  o \in cancelled
<1>0. PICK w \in ToSet(handler(o, cmd)) : w \in {"cancelling", "cancelled"}
  OBVIOUS
<1>1. CASE cmd = "RequestCancel"
  BY <1>1
<1>2. CASE cmd = "FinishStream"
  <2>1. handler(o, cmd) \in {<<"failed", "RUN_ERROR">>, <<Outcome(o)>>}
    BY <1>2 DEF handler, handle_finish
  <2>a. /\ ToSet(<<"failed", "RUN_ERROR">>) = {"failed", "RUN_ERROR"}
        /\ ToSet(<<Outcome(o)>>) = {Outcome(o)}
    BY ToSetSmall, Zenon
  <2>2. ToSet(handler(o, cmd)) \subseteq {"failed", "RUN_ERROR", Outcome(o)}
    BY <2>1, <2>a
  <2>3. Outcome(o) \in {"cancelling", "cancelled"}
    BY <1>0, <2>2
  <2> QED
    BY <2>3 DEF Outcome
<1>3. CASE cmd \notin {"RequestCancel", "FinishStream"}
  <2>1. handler(o, cmd) \in {<<"running">>, <<"RUN_ERROR", "failed">>, <<"RUN_ERROR">>, <<>>}
    BY <1>3 DEF handler
  <2>a. /\ ToSet(<<"RUN_ERROR", "failed">>) = {"RUN_ERROR", "failed"}
        /\ ToSet(<<"RUN_ERROR">>) = {"RUN_ERROR"}
        /\ ToSet(<<"running">>) = {"running"}
        /\ ToSet(<<>>) = {}
    BY ToSetSmall, Zenon
  <2>2. ToSet(handler(o, cmd)) \subseteq {"running", "RUN_ERROR", "failed"}
    BY <2>1, <2>a
  <2> QED
    BY <1>0, <2>2
<1> QED
  BY <1>1, <1>2, <1>3

(* A cancel gets into a queue when somebody cancels the object. *)
LEMMA CancelsAreTold ==
  ASSUME RecordInv, [DispatchNext]_allVars, NEW o \in Objects,
         "RequestCancel" \in ToSet(inq'[o])
  PROVE  o \in cancelled'
<1> USE DEF RecordInv
<1>0. inq \in [Objects -> Seq(Commands)]
  BY DEF LineInv, TypeOK
<1>1. ASSUME UNCHANGED cancelled, "RequestCancel" \in ToSet(inq[o]) PROVE o \in cancelled'
  BY <1>1 DEF CancelsAsked
<1>2. CASE BrokerStep
  <2>1. TasksStay
    BY <1>2, BrokerStepKeepsTasks
  <2>2. CASE inq'[o] = inq[o]
    BY <2>1, <2>2 DEF CancelsAsked, TasksStay
  <2>3. ASSUME NEW cmd \in Reports \cup {"FinishStream", "RequestCancel"},
               inq'[o] = Append(inq[o], cmd), cmd = "RequestCancel" => o \in cancelled'
        PROVE  o \in cancelled'
    <3>1. ToSet(inq'[o]) = ToSet(inq[o]) \cup {cmd}
      BY <1>0, <2>3, AppendJoins DEF Commands
    <3> QED
      BY <2>1, <2>3, <3>1 DEF CancelsAsked, TasksStay
  <2>4. CASE inq'[o] = Append(inq[o], "Claim")
    <3>1. ToSet(inq'[o]) = ToSet(inq[o]) \cup {"Claim"}
      BY <1>0, <2>4, AppendJoins DEF Commands
    <3> QED
      BY <2>1, <3>1 DEF CancelsAsked, TasksStay
  <2>5. ASSUME NEW e \in Reports, inq'[o] = inq[o] \o <<"Claim", e>> PROVE o \in cancelled'
    <3>1. <<"Claim", e>> \in Seq(Commands)
      BY DEF Commands
    <3>a. ToSet(<<"Claim", e>>) = {"Claim", e}
      BY ToSetSmall, Zenon
    <3>b. ToSet(inq[o] \o <<"Claim", e>>) = ToSet(inq[o]) \cup ToSet(<<"Claim", e>>)
      <4>1. \A q, t \in Seq(Commands) : ToSet(q \o t) = ToSet(q) \cup ToSet(t)
        BY ToSetConcat, Zenon
      <4> QED
        BY <1>0, <3>1, <4>1
    <3>2. ToSet(inq'[o]) = ToSet(inq[o]) \cup {"Claim", e}
      BY <2>5, <3>a, <3>b
    <3>3. e # "RequestCancel"
      BY BrokerAssumption
    <3> QED
      BY <2>1, <3>2, <3>3 DEF CancelsAsked, TasksStay
  <2> QED
    BY <2>1, <2>2, <2>3, <2>4, <2>5 DEF TasksStay, QueueGrows
<1>3. ASSUME NEW l \in Lanes, TaskStep(l) PROVE o \in cancelled'
  <2>0. l[1] \in Objects /\ l[1][1] \in Runs
    BY LaneIsTask
  <2>1. CASE Takes(l)
    <3>1. inq' = [inq EXCEPT ![l[1]] = Tail(@)] /\ inq[l[1]] # <<>> /\ UNCHANGED cancelled
      BY <2>1 DEF Takes, PipelineTakes
    <3>2. ToSet(Tail(inq[l[1]])) \subseteq ToSet(inq[l[1]])
      BY <1>0, <2>0, <3>1, ToSetTail
    <3>3. ToSet(inq'[o]) \subseteq ToSet(inq[o])
      BY <1>0, <2>0, <3>1, <3>2
    <3> QED
      BY <1>1, <3>1, <3>3
  <2>2. CASE TakesMalformed(l)
    <3> DEFINE q == [inq EXCEPT ![l[1]] = <<>>]
    <3>1. inq' = (IF IsTracked(l[1][1]) THEN Put(q, Current(l[1][1]), "Fail") ELSE q)
          /\ UNCHANGED cancelled
      BY <2>2 DEF TakesMalformed
    <3>2. /\ q \in [Objects -> Seq(Commands)]
          /\ \A x \in Objects : q[x] \in {<<>>, inq[x]}
      <4>1. <<>> \in Seq(Commands)
        OBVIOUS
      <4> QED
        BY <1>0, <4>1
    <3> HIDE DEF q
    <3>3. CASE inq' = q
      BY <1>1, <3>1, <3>2, <3>3, ToSetSmall
    <3>4. CASE IsTracked(l[1][1]) /\ inq' = Put(q, Current(l[1][1]), "Fail")
      <4>1. Current(l[1][1]) \in Objects
        BY <2>0, <3>4, CurrentIsObject DEF LineInv
      <4>2. inq'[o] = IF o = Current(l[1][1]) THEN Append(q[o], "Fail") ELSE q[o]
        BY <3>2, <3>4, <4>1, PutIs
      <4>3. ToSet(Append(q[o], "Fail")) = ToSet(q[o]) \cup {"Fail"}
        BY <3>2, AppendJoins DEF Commands
      <4>4. "RequestCancel" \in ToSet(q[o])
        BY <4>2, <4>3
      <4> QED
        BY <1>1, <3>1, <3>2, <4>4, ToSetSmall
    <3> QED
      BY <3>1, <3>3, <3>4
  <2>3. CASE GoesOn(l) \/ Ends(l)
    BY <1>1, <2>3 DEF GoesOn, Ends, PipelineGoesOn, PipelineEnds
  <2> QED
    BY <1>3, <2>1, <2>2, <2>3 DEF TaskStep
<1>4. ASSUME NEW s \in SoloTasks, StartsOneShot(s) \/ EndsOneShot(s) PROVE o \in cancelled'
  BY <1>1, <1>4 DEF StartsOneShot, EndsOneShot, OneShotStarts, OneShotEnds
<1>5. ASSUME NEW r \in Runs, push_fail(r) PROVE o \in cancelled'
  <2>1. Current(r) \in Objects /\ inq' = Put(inq, Current(r), "Fail") /\ UNCHANGED cancelled
    BY <1>5, CurrentIsObject DEF push_fail, LineInv
  <2>2. inq'[o] = IF o = Current(r) THEN Append(inq[o], "Fail") ELSE inq[o]
    BY <1>0, <2>1, PutIs
  <2>3. ToSet(Append(inq[o], "Fail")) = ToSet(inq[o]) \cup {"Fail"}
    BY <1>0, AppendJoins DEF Commands
  <2> QED
    BY <1>1, <2>1, <2>2, <2>3
<1>6. ASSUME NEW r \in Runs, Enqueues(r) PROVE o \in cancelled'
  BY <1>1, <1>6 DEF Enqueues, enqueue_run, objVars
<1>7. CASE Crash
  <2>1. inq'[o] = <<>>
    BY <1>7 DEF Crash
  <2> QED
    BY <2>1, ToSetSmall
<1>8. CASE UNCHANGED vars
  BY <1>1, <1>8 DEF vars, objVars
<1> QED
  BY <1>2, <1>3, <1>4, <1>5, <1>6, <1>7, <1>8
  DEF DispatchNext, DoorStep, Create, Reopen, FindsServed, FindsOffline, Rejects, Commits,
      LosesWrites, SweepStep, fail_stalled_runs, fail_stale_paused_runs,
      close_with_terminal_event, Start, Started, allVars

(* What is told of a cancel stands until the process stops. *)
LEMMA CancelsStand ==
  ASSUME [DispatchNext]_allVars, LineInv, ~ Crash
  PROVE  /\ cancelled \subseteq cancelled'
         /\ \A s \in solo' :
              \/ s \in solo
              \/ s.cmd = "RequestCancel" => s.obj \in cancelled'
              \/ \E t \in solo : s.cmd = t.cmd /\ s.obj = t.obj
<1>1. ASSUME UNCHANGED <<cancelled, solo>>
      PROVE  /\ cancelled \subseteq cancelled'
             /\ \A s \in solo' :
                  \/ s \in solo
                  \/ s.cmd = "RequestCancel" => s.obj \in cancelled'
                  \/ \E t \in solo : s.cmd = t.cmd /\ s.obj = t.obj
  BY <1>1
<1>2. CASE BrokerStep
  <2>1. TasksStay
    BY <1>2, BrokerStepKeepsTasks
  <2> QED
    BY <2>1 DEF TasksStay
<1>3. ASSUME NEW s \in SoloTasks, StartsOneShot(s)
      PROVE  /\ cancelled \subseteq cancelled'
             /\ \A x \in solo' : x \in solo \/ \E t \in solo : x.cmd = t.cmd /\ x.obj = t.obj
  <2> DEFINE t == [s EXCEPT !.step = "handling"]
  <2>1. s \in solo /\ solo' = (solo \ {s}) \cup {t} /\ UNCHANGED cancelled
    BY <1>3 DEF StartsOneShot, OneShotStarts
  <2>2. t.cmd = s.cmd /\ t.obj = s.obj
    BY DEF SoloTasks
  <2> HIDE DEF t
  <2> QED
    BY <2>1, <2>2
<1>4. ASSUME NEW s \in SoloTasks, EndsOneShot(s)
      PROVE  solo' \subseteq solo /\ UNCHANGED cancelled
  BY <1>4 DEF EndsOneShot, OneShotEnds
<1>5. CASE \E l \in Lanes : TaskStep(l)
  BY <1>1, <1>5 DEF TaskStep, Takes, TakesMalformed, GoesOn, Ends, PipelineTakes,
     PipelineGoesOn, PipelineEnds
<1>6. CASE \E r \in Runs : DoorStep(r) \/ close_with_terminal_event(r)
  BY <1>1, <1>6 DEF DoorStep, Create, Reopen, FindsServed, FindsOffline, Rejects, Enqueues,
     enqueue_run, objVars, vars, close_with_terminal_event, push_fail
<1>7. CASE \/ \E x \in Tasks : Commits(x) \/ LosesWrites(x)
           \/ \E R \in SUBSET Runs : SweepStep(R)
           \/ Start \/ Started \/ UNCHANGED allVars
  BY <1>1, <1>7 DEF Commits, LosesWrites, SweepStep, fail_stalled_runs, fail_stale_paused_runs,
     Start, Started, allVars, vars, objVars
<1> QED
  BY <1>2, <1>3, <1>4, <1>5, <1>6, <1>7 DEF DispatchNext

(* What one-shot tasks are asked to run, none of which pauses a run. *)
LEMMA SoloHandlersDoNotPause ==
  ASSUME NEW s \in SoloTasks
  PROVE  "input-required" \notin ToSet(handler(s.obj, s.cmd))
<1>1. s.cmd \in {"RequestCancel", "Fail"}
  BY DEF SoloTasks
<1>2. handler(s.obj, s.cmd) \in {<<"cancelling">>, <<"cancelled">>, <<"RUN_ERROR", "failed">>}
  BY <1>1 DEF handler, handle_cancel
<1>3. /\ ToSet(<<"cancelling">>) = {"cancelling"} /\ ToSet(<<"cancelled">>) = {"cancelled"}
      /\ ToSet(<<"RUN_ERROR", "failed">>) = {"RUN_ERROR", "failed"}
  BY ToSetSmall, Zenon
<1> QED
  BY <1>2, <1>3

LEMMA NextCancelsAsked ==
  ASSUME RecordInv, [DispatchNext]_allVars
  PROVE  CancelsAsked'
<1> USE DEF RecordInv
<1>1. \A o \in Objects : "RequestCancel" \in ToSet(inq'[o]) => o \in cancelled'
  BY CancelsAreTold
<1>2. CASE Crash
  <2>1. solo' = {} /\ \A k \in Tasks : todo'[k] = <<>>
    BY <1>2 DEF Crash
  <2>2. ToSet(<<>>) = {}
    BY DEF ToSet
  <2> QED
    BY <1>1, <2>1, <2>2 DEF CancelsAsked
<1>3. CASE ~ Crash
  <2>1. cancelled \subseteq cancelled'
    BY <1>3, CancelsStand
  <2>2. \A s \in solo' : s.cmd = "RequestCancel" => s.obj \in cancelled'
    BY <1>3, <2>1, CancelsStand DEF CancelsAsked
  <2>3. ASSUME NEW k \in Tasks
        PROVE  /\ ToSet(todo'[k]) \cap {"cancelling", "cancelled"} # {} => k[1] \in cancelled'
               /\ k \notin Lanes => "input-required" \notin ToSet(todo'[k])
    <3>0. TodoMoves(k) /\ todo[k] \in Seq(Writes)
      BY EveryTodoMoves DEF DispatchTypeOK
    <3>1. CASE ToSet(todo'[k]) \subseteq ToSet(todo[k])
      BY <2>1, <3>1 DEF CancelsAsked
    <3>2. CASE todo'[k] = todo[k] \/ todo'[k] = <<>>
      <4>1. ToSet(<<>>) = {}
        BY DEF ToSet
      <4> QED
        BY <3>1, <3>2, <4>1
    <3>3. CASE Commits(k) /\ todo'[k] = Tail(todo[k])
      <4>1. todo[k] # <<>>
        BY <3>3 DEF Commits
      <4>2. \A q \in Seq(Writes) : q # <<>> => ToSet(Tail(q)) \subseteq ToSet(q)
        BY ToSetTail
      <4> QED
        BY <3>0, <3>1, <3>3, <4>1, <4>2
    <3>4. CASE k \in Lanes /\ Takes(k) /\ todo'[k] = handler(k[1], Head(inq[k[1]]))
      <4> DEFINE o == k[1]
                 cmd == Head(inq[o])
      <4>1. o \in Objects /\ inq[o] # <<>> /\ UNCHANGED cancelled
        BY <3>4, LaneIsTask DEF Takes, PipelineTakes
      <4>2. inq[o] \in Seq(Commands)
        BY <4>1 DEF LineInv, TypeOK
      <4>3. \A q \in Seq(Commands) : q # <<>> => Head(q) \in ToSet(q)
        BY ToSetTail
      <4>4. cmd = "RequestCancel" => o \in cancelled
        BY <4>1, <4>2, <4>3 DEF CancelsAsked
      <4> HIDE DEF cmd, o
      <4>5. ToSet(handler(o, cmd)) \cap {"cancelling", "cancelled"} # {} => o \in cancelled
        BY <4>4, HandlerCancels
      <4>6. todo'[k] = handler(o, cmd)
        BY <3>4 DEF o, cmd
      <4> QED
        BY <2>1, <3>4, <4>5, <4>6 DEF o
    <3>5. ASSUME NEW s \in SoloTasks, StartsOneShot(s), TaskOf(s) = k,
                 todo'[k] = handler(s.obj, s.cmd)
          PROVE  /\ ToSet(todo'[k]) \cap {"cancelling", "cancelled"} # {} => k[1] \in cancelled'
                 /\ k \notin Lanes => "input-required" \notin ToSet(todo'[k])
      <4>1. s \in solo /\ k[1] = s.obj
        BY <3>5 DEF StartsOneShot, OneShotStarts, TaskOf
      <4>2. s.cmd = "RequestCancel" => s.obj \in cancelled
        BY <4>1 DEF CancelsAsked
      <4>3. ToSet(handler(s.obj, s.cmd)) \cap {"cancelling", "cancelled"} # {} => s.obj \in cancelled
        BY <4>2, HandlerCancels
      <4>4. "input-required" \notin ToSet(handler(s.obj, s.cmd))
        BY SoloHandlersDoNotPause
      <4> QED
        BY <2>1, <3>5, <4>1, <4>3, <4>4
    <3> QED
      BY <3>0, <3>2, <3>3, <3>4, <3>5 DEF TodoMoves
  <2> QED
    BY <1>1, <2>2, <2>3 DEF CancelsAsked
<1> QED
  BY <1>2, <1>3

LEMMA InitRecordInv == DispatchInit => RecordInv
<1> SUFFICES ASSUME DispatchInit PROVE RecordInv
  OBVIOUS
<1>0. Init
  BY DEF DispatchInit
<1>1. DispatchTypeOK
  BY InitDispatchTypeOK
<1>2. LineInv /\ AccountInv
  BY <1>0, InitLineInv, InitAccountInv
<1>3. DoorsAreIdle /\ TodoKnown
  BY DEF DispatchInit, DoorsAreIdle, TodoKnown
<1>4. RowsBegin
  BY <1>0 DEF DispatchInit, Init, RowsBegin
<1>5. ToSet(<<>>) = {}
  BY DEF ToSet
<1>6. CancelsAsked
  BY <1>0, <1>5 DEF DispatchInit, Init, CancelsAsked
<1> QED
  BY <1>1, <1>2, <1>3, <1>4, <1>6 DEF RecordInv

LEMMA NextRecordInv ==
  ASSUME RoundsApart, RecordInv, [DispatchNext]_allVars
  PROVE  RecordInv'
<1>1. DispatchTypeOK'
  BY NextDispatchTypeOK DEF RecordInv
<1>2. LineInv' /\ AccountInv'
  BY DispatchKeepsBroker DEF RecordInv
<1>3. DoorsAreIdle' /\ RowsBegin'
  BY NextDoorsAreIdle, NextRowsBegin
<1>4. TodoKnown' /\ CancelsAsked'
  BY NextTodoKnown, NextCancelsAsked
<1> QED
  BY <1>1, <1>2, <1>3, <1>4 DEF RecordInv

-----------------------------------------------------------------------------
(* The runs table moves as RunStatus says *)

Asked == {r \in Runs : round[r] > 0 /\ <<r, round[r]>> \in cancelled}

LEMMA RecordStutters == UNCHANGED <<status, Asked>> => UNCHANGED Record!vars
BY DEF Record!vars, Asked

LEMMA AskedSame == UNCHANGED <<round, cancelled>> => Asked' = Asked
BY DEF Asked

(* What a caller, the loop or a provider does leaves the table alone, and asks
   for the end of one run at most. *)
LEMMA BrokerAsks ==
  ASSUME RecordInv, BrokerStep
  PROVE  [Record!Next]_(Record!vars)
<1> USE DEF RecordInv
<1>0. UNCHANGED <<status, round>>
  BY BrokerStepKeepsTasks DEF BrokerStep, dispatchVars, recordVars, TasksStay
<1>1. CASE UNCHANGED cancelled
  BY <1>0, <1>1, AskedSame, RecordStutters
<1>2. ASSUME NEW r \in Runs, request_cancel(r) PROVE Record!Ask(r)
  <2>1. /\ cancelled' = cancelled \cup {<<r, tracked[r]>>}
        /\ tracked[r] # 0
    BY <1>2 DEF request_cancel, IsTracked, Current
  <2>2. tracked[r] = round[r] /\ round[r] \in Nat /\ round[r] > 0
    BY <2>1, BrokerAssumption DEF LineInv, LastIsFiled, TypeOK
  <2>3. Asked' = Asked \cup {r}
    BY <1>0, <2>1, <2>2 DEF Asked
  <2> QED
    BY <1>0, <2>3 DEF Record!Ask, Asked
<1>3. CASE \A r \in Runs : ~ request_cancel(r)
  BY <1>1, <1>3
  DEF BrokerStep, LoopStep, expire_queued, StartWalk, EndWalk, Wake, LeaveAgent, OfferHead,
      ProviderAccepts, OfferStep, OfferAccepted, OfferDeclined, OfferRefused, OfferUnanswered,
      register_provider, Detach, GracePasses, report_event, accept_late_ack, finish_run,
      Abandon, claim, objVars
<1> QED
  BY <1>2, <1>3 DEF Record!Next

LEMMA SameRules == \A to : Record!LegalFrom(to) = LegalFrom(to)
BY DEF Record!LegalFrom, LegalFrom

(* A commit of a handler is a legal move, and a cancel one was asked for. *)
LEMMA CommitsMove ==
  ASSUME RecordInv, NEW k \in Tasks, Commits(k)
  PROVE  [Record!Next]_(Record!vars)
<1> USE DEF RecordInv
<1> DEFINE r == k[1][1]
           write == Head(todo[k])
<1>0. Asked' = Asked
  BY AskedSame DEF Commits, vars, objVars
<1>1. CASE UNCHANGED status
  BY <1>0, <1>1, RecordStutters
<1>2. CASE status[r] \in LegalFrom(write) /\ status' = [status EXCEPT ![r] = write]
  <2>1. todo[k] # <<>> /\ todo[k] \in Seq(Writes)
    BY DEF Commits, DispatchTypeOK
  <2>2. write \in ToSet(todo[k])
    BY <2>1 DEF ToSet
  <2>3. r \in Runs /\ k[1] = <<r, round[r]>>
    BY <2>1, TodoIsCurrent
  <2>4. write \in {"cancelling", "cancelled"} => r \in Asked
    <3>1. SUFFICES ASSUME write \in {"cancelling", "cancelled"} PROVE r \in Asked
      OBVIOUS
    <3>2. k[1] \in cancelled
      BY <2>2, <3>1 DEF CancelsAsked
    <3>3. round[r] > 0
      BY <2>3, LaneIsTask, ObjectIsPair
    <3> QED
      BY <2>3, <3>2, <3>3 DEF Asked
  <2>5. write \in Record!Statuses
    BY <1>2 DEF LegalFrom, Record!Statuses, Record!Active, Record!Final
  <2> HIDE DEF r, write
  <2>6. Record!Move(r, write)
    BY <1>0, <1>2, <2>4, SameRules DEF Record!Move, Asked
  <2> QED
    BY <2>3, <2>5, <2>6 DEF Record!Next
<1> QED
  BY <1>1, <1>2 DEF Commits, mark_run_status

(* A door makes or reopens the row, fails it, or begins a round of it. *)
LEMMA DoorsMove ==
  ASSUME RecordInv, NEW r \in Runs, DoorStep(r)
  PROVE  [Record!Next]_(Record!vars)
<1> USE DEF RecordInv
<1>1. ASSUME UNCHANGED vars PROVE Asked' = Asked
  BY <1>1, AskedSame DEF vars, objVars
<1>2. CASE Create(r)
  <2>1. Record!Create(r)
    BY <1>1, <1>2 DEF Create, Record!Create, Asked
  <2> QED
    BY <2>1 DEF Record!Next
<1>3. CASE Reopen(r)
  <2>1. Record!Reopen(r)
    BY <1>1, <1>3 DEF Reopen, Record!Reopen, Asked
  <2> QED
    BY <2>1 DEF Record!Next
<1>4. CASE FindsServed(r) \/ Rejects(r)
  BY <1>1, <1>4, RecordStutters DEF FindsServed, Rejects, recordVars
<1>5. CASE FindsOffline(r)
  <2>1. Asked' = Asked
    BY <1>1, <1>5 DEF FindsOffline
  <2>2. CASE UNCHANGED status
    BY <2>1, <2>2, RecordStutters
  <2>3. CASE status[r] \in LegalFrom("failed") /\ status' = [status EXCEPT ![r] = "failed"]
    <3>1. Record!Move(r, "failed")
      BY <2>1, <2>3, SameRules DEF Record!Move, Asked
    <3>2. "failed" \in Record!Statuses
      BY DEF Record!Statuses, Record!Final
    <3> QED
      BY <3>1, <3>2 DEF Record!Next
  <2> QED
    BY <1>5, <2>2, <2>3 DEF FindsOffline, mark_run_status
<1>6. CASE Enqueues(r)
  <2>1. status[r] = "queued" /\ UNCHANGED <<status, cancelled>>
    BY <1>6 DEF Enqueues, DoorsAreIdle, enqueue_run, recordVars, objVars
  <2>2. round' = [round EXCEPT ![r] = @ + 1] /\ round \in [Runs -> Nat]
    BY <1>6, BrokerAssumption DEF Enqueues, enqueue_run, LineInv, TypeOK
  <2>3. <<r, round[r] + 1>> \notin cancelled
    BY <2>2, ObjectIsPair DEF LineInv, LastIsFiled
  <2>4. Asked' = Asked \ {r}
    BY <2>1, <2>2, <2>3 DEF Asked
  <2>5. Record!NewRound(r)
    BY <2>1, <2>4 DEF Record!NewRound, Asked
  <2> QED
    BY <2>5 DEF Record!Next
<1> QED
  BY <1>2, <1>3, <1>4, <1>5, <1>6 DEF DoorStep

LEMMA RecordStep ==
  ASSUME RecordInv, [DispatchNext]_allVars
  PROVE  [Record!Next]_(Record!vars)
<1> USE DEF RecordInv
<1>1. ASSUME UNCHANGED vars PROVE Asked' = Asked
  BY <1>1, AskedSame DEF vars, objVars
<1>2. ASSUME UNCHANGED status, UNCHANGED <<round, cancelled>> PROVE [Record!Next]_(Record!vars)
  BY <1>2, AskedSame, RecordStutters
<1>3. ASSUME NEW R \in SUBSET Runs, fail_runs(R), UNCHANGED vars,
             \A r \in R : status[r] \in LegalFrom("failed")
      PROVE  [Record!Next]_(Record!vars)
  <2>1. Record!FailRows(R)
    BY <1>1, <1>3, SameRules DEF fail_runs, Record!FailRows, Asked
  <2> QED
    BY <2>1 DEF Record!Next
<1>4. ASSUME NEW R \in SUBSET Runs, SweepStep(R) PROVE [Record!Next]_(Record!vars)
  BY <1>3, <1>4 DEF SweepStep, fail_stalled_runs, fail_stale_paused_runs, LegalFrom
<1>5. CASE Start
  <2> DEFINE R == {r \in Runs : status[r] \in Unsettled}
  <2>1. /\ \A r \in R : status[r] \in LegalFrom("failed")
        /\ status' = [r \in Runs |-> IF r \in R THEN "failed" ELSE status[r]]
    BY <1>5 DEF Start, Unsettled, LegalFrom
  <2> HIDE DEF R
  <2>2. Record!FailRows(R)
    BY <1>1, <1>5, <2>1, SameRules DEF Start, Record!FailRows, Asked
  <2>3. R \in SUBSET Runs
    BY DEF R
  <2> QED
    BY <2>2, <2>3 DEF Record!Next
<1>6. CASE Crash
  <2>1. Asked' = {} /\ UNCHANGED status
    BY <1>6 DEF Crash, Asked, recordVars
  <2>2. Record!Stop
    BY <2>1 DEF Record!Stop, Asked
  <2> QED
    BY <2>2 DEF Record!Next
<1>7. ASSUME NEW l \in Lanes, TaskStep(l) PROVE [Record!Next]_(Record!vars)
  BY <1>2, <1>7 DEF TaskStep, Takes, TakesMalformed, GoesOn, Ends, PipelineTakes,
     PipelineGoesOn, PipelineEnds, recordVars, dispatchVars
<1>8. ASSUME NEW s \in SoloTasks, StartsOneShot(s) \/ EndsOneShot(s)
      PROVE  [Record!Next]_(Record!vars)
  BY <1>2, <1>8 DEF StartsOneShot, EndsOneShot, OneShotStarts, OneShotEnds, recordVars,
     dispatchVars
<1>9. CASE \/ \E x \in Tasks : LosesWrites(x)
           \/ \E r \in Runs : close_with_terminal_event(r)
           \/ Started \/ UNCHANGED allVars
  BY <1>2, <1>9 DEF LosesWrites, close_with_terminal_event, push_fail, Started, allVars, vars,
     objVars, recordVars, dispatchVars
<1> QED
  BY <1>4, <1>5, <1>6, <1>7, <1>8, <1>9, BrokerAsks, CommitsMove, DoorsMove DEF DispatchNext

(* Whatever order handlers, doors, sweep and restart commit in, the runs table
   moves as RunStatus says: the commits of handlers.py stay legal and a cancel
   is recorded for a round only when a caller of request_cancel asked for the
   end of that round. *)
THEOREM RecordIsKept == ASSUME RoundsApart PROVE DispatchSpec => ImplementsRunStatus
<1>1. DispatchInit => RecordInv
  BY InitRecordInv
<1>2. RecordInv /\ [DispatchNext]_allVars => RecordInv'
  BY NextRecordInv
<1>3. DispatchInit => Record!Init
  BY DEF DispatchInit, Init, Record!Init
<1>4. RecordInv /\ [DispatchNext]_allVars => [Record!Next]_(Record!vars)
  BY RecordStep
<1> QED
  BY <1>1, <1>2, <1>3, <1>4, PTL DEF DispatchSpec, ImplementsRunStatus, Record!Spec

(* How a pipeline may move: it starts where its object is claimed, and then
   takes its own steps. *)
LaneMoves(l) ==
  \/ lanes'[l] = lanes[l]
  \/ BrokerStep /\ lanes[l] = "off" /\ lanes'[l] = "get" /\ l[1] \in claimed' \ claimed
  \/ Takes(l) /\ lanes'[l] = Head(inq[l[1]])
  \/ TakesMalformed(l) /\ lanes'[l] = "MALFORMED"
  \/ GoesOn(l) /\ lanes'[l] = "get"
  \/ Ends(l) /\ lanes'[l] \in {"finished", "closed"}

LEMMA EveryLaneMoves ==
  ASSUME RecordInv, [DispatchNext]_allVars, ~ Crash, NEW l \in Lanes
  PROVE  LaneMoves(l)
<1> USE DEF RecordInv
<1>0. lanes \in [Lanes -> LaneStates]
  BY DEF LineInv, TypeOK
<1>1. ASSUME UNCHANGED lanes PROVE LaneMoves(l)
  BY <1>1 DEF LaneMoves
<1>2. CASE BrokerStep
  <2>1. TasksStay
    BY <1>2, BrokerStepKeepsTasks
  <2> QED
    BY <1>2, <2>1 DEF TasksStay, LaneMoves
<1>3. ASSUME NEW m \in Lanes, TaskStep(m) PROVE LaneMoves(l)
  <2>1. CASE m # l
    BY <1>0, <1>3, <2>1 DEF TaskStep, Takes, PipelineTakes, TakesMalformed, GoesOn, Ends,
       PipelineGoesOn, PipelineEnds, LaneMoves
  <2>2. CASE m = l
    BY <1>0, <1>3, <2>2 DEF TaskStep, Takes, PipelineTakes, TakesMalformed, GoesOn, Ends,
       PipelineGoesOn, PipelineEnds, LaneMoves
  <2> QED
    BY <2>1, <2>2
<1>4. CASE \/ \E s \in SoloTasks : StartsOneShot(s) \/ EndsOneShot(s)
           \/ \E r \in Runs : DoorStep(r) \/ close_with_terminal_event(r)
  BY <1>1, <1>4 DEF StartsOneShot, EndsOneShot, OneShotStarts, OneShotEnds, DoorStep, Create,
     Reopen, FindsServed, FindsOffline, Rejects, Enqueues, enqueue_run, objVars, vars,
     close_with_terminal_event, push_fail
<1>5. CASE \/ \E x \in Tasks : Commits(x) \/ LosesWrites(x)
           \/ \E R \in SUBSET Runs : SweepStep(R)
           \/ Start \/ Started \/ UNCHANGED allVars
  BY <1>1, <1>5 DEF Commits, LosesWrites, SweepStep, fail_stalled_runs, fail_stale_paused_runs,
     Start, Started, allVars, vars, objVars
<1> QED
  BY <1>2, <1>3, <1>4, <1>5 DEF DispatchNext

(* A pipeline stays with its command until the handler has nothing left. *)
LEMMA PipelineAwaits ==
  ASSUME RecordInv, [DispatchNext]_allVars, ~ Crash, NEW k \in Lanes, todo[k] # <<>>
  PROVE  lanes'[k] = lanes[k]
<1>1. lanes[k] \in Commands
  BY LaneIsTask DEF RecordInv, TodoKnown
<1>2. lanes[k] # "off" /\ lanes[k] # "get"
  BY <1>1, BrokerAssumption DEF Commands
<1> QED
  BY <1>2, EveryLaneMoves
  DEF LaneMoves, Takes, PipelineTakes, TakesMalformed, GoesOn, Ends

(* A pipeline records a cancel only where it handles the end of the stream. *)
CancelSeen == \A k \in Lanes : "cancelled" \in ToSet(todo[k]) => lanes[k] = "FinishStream"

LEMMA HandlerSeesEnd ==
  ASSUME NEW o \in claimed, NEW cmd, "cancelled" \in ToSet(handler(o, cmd))
  PROVE  cmd = "FinishStream"
<1>1. SUFFICES ASSUME cmd # "FinishStream" PROVE FALSE
  OBVIOUS
<1>2. handler(o, cmd) \in {<<"running">>, <<"cancelling">>, <<"RUN_ERROR", "failed">>,
                           <<"RUN_ERROR">>, <<>>}
  BY <1>1 DEF handler, handle_cancel
<1>3. /\ ToSet(<<"running">>) = {"running"} /\ ToSet(<<"cancelling">>) = {"cancelling"}
      /\ ToSet(<<"RUN_ERROR", "failed">>) = {"RUN_ERROR", "failed"}
      /\ ToSet(<<"RUN_ERROR">>) = {"RUN_ERROR"} /\ ToSet(<<>>) = {}
  BY ToSetSmall, Zenon
<1> QED
  BY <1>2, <1>3

LEMMA NextCancelSeen ==
  ASSUME RecordInv, CancelSeen, [DispatchNext]_allVars
  PROVE  CancelSeen'
<1> USE DEF RecordInv
<1> SUFFICES ASSUME NEW k \in Lanes, "cancelled" \in ToSet(todo'[k])
             PROVE  lanes'[k] = "FinishStream"
  BY DEF CancelSeen
<1>0. TodoMoves(k) /\ k \in Tasks /\ k[1] \in Objects /\ todo[k] \in Seq(Writes)
  BY LaneIsTask, EveryTodoMoves DEF DispatchTypeOK
<1>1. ToSet(<<>>) = {}
  BY DEF ToSet
<1>2. ~ Crash
  BY <1>0, <1>1 DEF Crash
<1>3. CASE todo'[k] = todo[k] \/ (Commits(k) /\ todo'[k] = Tail(todo[k]))
  <2>1. todo[k] # <<>>
    BY <1>1, <1>3 DEF Commits
  <2>2. \A q \in Seq(Writes) : q # <<>> => ToSet(Tail(q)) \subseteq ToSet(q)
    BY ToSetTail
  <2>3. "cancelled" \in ToSet(todo[k])
    BY <1>0, <1>3, <2>1, <2>2
  <2> QED
    BY <1>2, <2>1, <2>3, PipelineAwaits DEF CancelSeen
<1>4. CASE Takes(k) /\ todo'[k] = handler(k[1], Head(inq[k[1]]))
  <2>1. /\ lanes[k] = "get" /\ inq[k[1]] # <<>>
        /\ lanes' = [lanes EXCEPT ![k] = Head(inq[k[1]])]
    BY <1>4 DEF Takes, PipelineTakes
  <2>2. k[1] \in claimed
    BY <2>1 DEF LineInv, OnePipeline
  <2>3. Head(inq[k[1]]) = "FinishStream"
    BY <1>4, <2>2, HandlerSeesEnd
  <2> QED
    BY <2>1, <2>3 DEF LineInv, TypeOK
<1>5. ASSUME NEW s \in SoloTasks, TaskOf(s) = k PROVE FALSE
  BY <1>5, SoloIsNoLane
<1> QED
  BY <1>0, <1>1, <1>3, <1>4, <1>5 DEF TodoMoves

(* While nobody claims a run that a one-shot task already deals with, the cancel
   of a claimed run is recorded by its pipeline, at the end of the stream. *)
LEMMA CancelStep ==
  ASSUME RecordInv, CancelSeen, "late_report" \notin Behaviours, [DispatchNext]_allVars,
         NEW r \in Runs, status[r] # "cancelled", status'[r] = "cancelled",
         Current(r) \in claimed
  PROVE  \E l \in Lanes : l[1] = Current(r) /\ lanes[l] = "FinishStream"
<1> USE DEF RecordInv
<1>1. RowMoves(r)
  BY EveryRowMoves
<1>2. PICK k \in Tasks : Commits(k) /\ k[1][1] = r /\ Head(todo[k]) = "cancelled"
  BY <1>1 DEF RowMoves, Create, Reopen, DispatchTypeOK
<1>3. todo[k] # <<>> /\ todo[k] \in Seq(Writes)
  BY <1>2 DEF Commits, DispatchTypeOK
<1>4. k[1] = <<r, round[r]>>
  BY <1>2, <1>3, TodoIsCurrent
<1>5. Current(r) = k[1]
  <2>1. <<r, tracked[r]>> \in Objects
    BY DEF Current, LineInv, TypeOK
  <2>2. tracked[r] # 0
    BY <2>1, ObjectIsPair
  <2> QED
    BY <1>4, <2>2 DEF LineInv, LastIsFiled, Current
<1>6. k \in Lanes
  <2>1. SUFFICES ASSUME k \notin Lanes PROVE FALSE
    OBVIOUS
  <2>2. PICK s \in solo : TaskOf(s) = k
    BY <1>3, <2>1 DEF TodoKnown
  <2>3. s.obj = k[1]
    BY <2>2 DEF TaskOf
  <2> QED
    BY <1>5, <2>3 DEF AccountInv, SoloKnown
<1>7. "cancelled" \in ToSet(todo[k])
  BY <1>2, <1>3 DEF ToSet
<1> QED
  BY <1>5, <1>6, <1>7 DEF CancelSeen

(* A claimed run is recorded cancelled only when its stream has ended, never
   when the cancel is asked for (_handle_cancel writes "cancelling" for it):
   for every configuration in which no provider reports a run whose offer timed
   out, and so claims an object that a one-shot task is already cancelling. *)
THEOREM CancelWaitsForTheEnd ==
  ASSUME RoundsApart, "late_report" \notin Behaviours
  PROVE  DispatchSpec => CancelIsObserved
<1>1. DispatchInit => RecordInv /\ CancelSeen
  <2>1. ASSUME DispatchInit PROVE CancelSeen
    <3>1. ToSet(<<>>) = {}
      BY DEF ToSet
    <3>2. \A k \in Lanes : todo[k] = <<>>
      BY <2>1, LaneIsTask DEF DispatchInit
    <3> QED
      BY <3>1, <3>2 DEF CancelSeen
  <2> QED
    BY <2>1, InitRecordInv
<1>2. RecordInv /\ CancelSeen /\ [DispatchNext]_allVars => (RecordInv /\ CancelSeen)'
  BY NextRecordInv, NextCancelSeen
<1>3. RecordInv /\ CancelSeen /\ [DispatchNext]_allVars
      => [\A r \in Runs :
            status[r] # "cancelled" /\ status'[r] = "cancelled" /\ Current(r) \in claimed
              => \E l \in Lanes : l[1] = Current(r) /\ lanes[l] = "FinishStream"]_allVars
  BY CancelStep
<1> QED
  BY <1>1, <1>2, <1>3, PTL DEF DispatchSpec, CancelIsObserved

-----------------------------------------------------------------------------
(* Rows that promise a verdict *)

(* Where no commit is lost with its session, no row is left behind by a door
   that raises, and no provider reports a run it did not answer for. *)
VerdictsArrive ==
  /\ RoundsApart
  /\ "late_report" \notin Behaviours
  /\ Failures \cap {"lost_write", "rejected"} = {}

(* A row comes to wait for a verdict where a door makes or reopens it, and is
   queued only from there until a pipeline says it runs. *)
LEMMA UnsettledBegins ==
  ASSUME RoundsApart, RecordInv, [DispatchNext]_allVars, NEW r \in Runs,
         status'[r] \in Unsettled
  PROVE  \/ status[r] \in Unsettled /\ (status'[r] = "queued" => status[r] = "queued")
         \/ door'[r] # "shut" /\ Idle(r)' /\ UNCHANGED <<vars, todo, phase>>
<1> USE DEF RecordInv
<1>1. RowMoves(r)
  BY EveryRowMoves
<1>2. ASSUME Create(r) \/ Reopen(r)
      PROVE  door'[r] # "shut" /\ Idle(r)' /\ UNCHANGED <<vars, todo, phase>>
  <2>1. door'[r] # "shut" /\ UNCHANGED <<vars, todo, phase>>
    BY <1>2 DEF Create, Reopen, OpenDoor, DispatchTypeOK
  <2> QED
    BY <2>1, NextDoorsAreIdle DEF DoorsAreIdle
<1>3. CASE status'[r] = status[r]
  BY <1>3
<1>4. ASSUME NEW to, status'[r] = to, status[r] \in LegalFrom(to)
      PROVE  status[r] \in Unsettled /\ status'[r] # "queued"
  BY <1>4 DEF LegalFrom, Unsettled
<1> QED
  BY <1>1, <1>2, <1>3, <1>4 DEF RowMoves

(* Without late and early reports, only an accepted offer claims an object. *)
LEMMA OffersClaim ==
  ASSUME VerdictsArrive, RecordInv, BrokerStep, NEW o \in claimed' \ claimed
  PROVE  /\ o \in Objects /\ IsTracked(o[1]) /\ o = Current(o[1])
         /\ \A x \in Objects : inq'[x] = IF x = o THEN Append(inq[x], "Claim") ELSE inq[x]
<1> USE DEF RecordInv, LineInv
<1>1. ASSUME NEW t \in Objects, NEW e \in Reports PROVE ~ accept_late_ack(t, e)
  BY DEF accept_late_ack, VerdictsArrive, RoundsApart
<1>2. OfferAccepted
  BY <1>1
  DEF BrokerStep, LoopStep, expire_queued, StartWalk, EndWalk, Wake, LeaveAgent, OfferHead,
      ProviderAccepts, OfferStep, OfferDeclined, OfferRefused, OfferUnanswered,
      register_provider, Detach, request_cancel, GracePasses, report_event, finish_run,
      Abandon, objVars
<1>3. offer # None /\ claimed' = claimed \cup {offer.obj} /\ inq' = Put(inq, offer.obj, "Claim")
  BY <1>2 DEF OfferAccepted, claim
<1>4. o = offer.obj /\ o \in Objects
  BY <1>3 DEF TypeOK, Offers
<1>5. IsTracked(o[1]) /\ o[2] = round[o[1]]
  BY <1>3, <1>4 DEF AccountInv, OfferLive, OfferWaits
<1>6. o = <<o[1], tracked[o[1]]>>
  BY <1>4, <1>5, ObjectIsPair DEF LastIsFiled, IsTracked
<1>7. inq \in [Objects -> Seq(Commands)]
  BY DEF TypeOK
<1> QED
  BY <1>3, <1>4, <1>5, <1>6, <1>7, PutIs DEF Current

(* How a queue may change: what callers and providers put into it, a Fail that
   closes a run, and what its own pipeline takes from it. *)
InboxMoves(o) ==
  \/ inq'[o] = inq[o]
  \/ BrokerStep /\ QueueGrows(o)
  \/ /\ \E r \in closing : IsTracked(r) /\ o = Current(r)
     /\ inq'[o] = Append(inq[o], "Fail")
  \/ \E l \in Lanes : l[1] = o /\ (Takes(l) \/ TakesMalformed(l))

LEMMA EveryInboxMoves ==
  ASSUME RecordInv, [DispatchNext]_allVars, ~ Crash, NEW o \in Objects
  PROVE  InboxMoves(o)
<1> USE DEF RecordInv, LineInv
<1>0. inq \in [Objects -> Seq(Commands)]
  BY DEF TypeOK
<1>1. ASSUME UNCHANGED inq PROVE InboxMoves(o)
  BY <1>1 DEF InboxMoves
<1>2. CASE BrokerStep
  BY <1>2, BrokerStepKeepsTasks DEF TasksStay, InboxMoves
<1>3. ASSUME NEW l \in Lanes, TaskStep(l) PROVE InboxMoves(o)
  <2>1. CASE l[1] = o
    BY <1>1, <1>3, <2>1 DEF TaskStep, GoesOn, Ends, PipelineGoesOn, PipelineEnds, InboxMoves
  <2>2. CASE l[1] # o /\ TakesMalformed(l)
    <3> DEFINE r == l[1][1]
               q == [inq EXCEPT ![l[1]] = <<>>]
    <3>1. l[1] \in Objects /\ r \in Runs /\ AtWork(l)
      BY <2>2, LaneIsTask DEF TakesMalformed, AtWork
    <3>2. inq' = IF IsTracked(r) THEN Put(q, Current(r), "Fail") ELSE q
      BY <2>2 DEF TakesMalformed
    <3>3. q \in [Objects -> Seq(Commands)] /\ q[o] = inq[o]
      <4>1. <<>> \in Seq(Commands)
        OBVIOUS
      <4> QED
        BY <1>0, <2>2, <4>1
    <3>4. IsTracked(r) => Current(r) = l[1]
      <4>1. l[1] = <<r, round[r]>>
        BY <3>1, ObjectIsPair DEF AccountInv, LanesOver
      <4> QED
        BY <3>1, <4>1 DEF LastIsFiled, IsTracked, Current
    <3> HIDE DEF q, r
    <3>5. inq'[o] = inq[o]
      <4>1. CASE IsTracked(r)
        <5>1. inq'[o] = IF o = l[1] THEN Append(q[o], "Fail") ELSE q[o]
          BY <3>1, <3>2, <3>3, <3>4, <4>1, PutIs
        <5> QED
          BY <2>2, <3>3, <5>1
      <4>2. CASE ~ IsTracked(r)
        BY <3>2, <3>3, <4>2
      <4> QED
        BY <4>1, <4>2
    <3> QED
      BY <3>5 DEF InboxMoves
  <2>3. CASE l[1] # o /\ ~ TakesMalformed(l)
    BY <1>0, <1>3, <2>3 DEF TaskStep, Takes, PipelineTakes, GoesOn, Ends, PipelineGoesOn,
       PipelineEnds, InboxMoves
  <2> QED
    BY <2>1, <2>2, <2>3
<1>4. ASSUME NEW r \in Runs, close_with_terminal_event(r) PROVE InboxMoves(o)
  <2>1. CASE UNCHANGED inq
    BY <1>1, <2>1
  <2>2. CASE push_fail(r)
    <3>1. Current(r) \in Objects /\ IsTracked(r) /\ r \in closing
          /\ inq' = Put(inq, Current(r), "Fail")
      BY <1>4, <2>2, CurrentIsObject DEF push_fail, close_with_terminal_event
    <3>2. inq'[o] = IF o = Current(r) THEN Append(inq[o], "Fail") ELSE inq[o]
      BY <1>0, <3>1, PutIs
    <3> QED
      BY <3>1, <3>2 DEF InboxMoves
  <2> QED
    BY <1>4, <2>1, <2>2 DEF close_with_terminal_event, vars, objVars
<1>5. CASE \/ \E s \in SoloTasks : StartsOneShot(s) \/ EndsOneShot(s)
           \/ \E r \in Runs : DoorStep(r)
  BY <1>1, <1>5 DEF StartsOneShot, EndsOneShot, OneShotStarts, OneShotEnds, DoorStep, Create,
     Reopen, FindsServed, FindsOffline, Rejects, Enqueues, enqueue_run, objVars, vars
<1>6. CASE \/ \E x \in Tasks : Commits(x) \/ LosesWrites(x)
           \/ \E R \in SUBSET Runs : SweepStep(R)
           \/ Start \/ Started \/ UNCHANGED allVars
  BY <1>1, <1>6 DEF Commits, LosesWrites, SweepStep, fail_stalled_runs, fail_stale_paused_runs,
     Start, Started, allVars, vars, objVars
<1> QED
  BY <1>2, <1>3, <1>4, <1>5, <1>6 DEF DispatchNext

(* While a row is queued, the pipeline of its run has the Claim before it. *)
ClaimIsNext ==
  \A l \in Lanes : status[l[1][1]] = "queued" /\ AtWork(l) =>
    \/ lanes[l] = "get" /\ inq[l[1]] # <<>> /\ Head(inq[l[1]]) = "Claim"
    \/ lanes[l] = "Claim" /\ todo[l] = <<"running">>

(* ... and nothing is in its queue before it is claimed. *)
UnclaimedIsEmpty ==
  \A r \in Runs : status[r] = "queued" /\ IsTracked(r) /\ Current(r) \notin claimed
    => inq[Current(r)] = <<>>

FutureIsEmpty == \A o \in Objects : inq[o] # <<>> => o[2] <= round[o[1]]

ClosingFailed == \A r \in closing : status[r] = "failed"

ClaimFirst == ClaimIsNext /\ UnclaimedIsEmpty /\ FutureIsEmpty /\ ClosingFailed

LEMMA AppendKeepsHead ==
  ASSUME NEW S, NEW q \in Seq(S), NEW e \in S, q # <<>>
  PROVE  Append(q, e) # <<>> /\ Head(Append(q, e)) = Head(q)
OBVIOUS

LEMMA JoinKeepsHead ==
  ASSUME NEW S, NEW q \in Seq(S), NEW t \in Seq(S), q # <<>>
  PROVE  q \o t # <<>> /\ Head(q \o t) = Head(q)
OBVIOUS

(* A run's rounds are numbered upwards. *)
LEMMA RoundsGrow ==
  ASSUME RecordInv, [DispatchNext]_allVars, NEW r \in Runs
  PROVE  round[r] \in Nat /\ round'[r] \in Nat /\ round[r] <= round'[r]
<1>0. round \in [Runs -> Nat]
  <2>1. TypeOK
    BY DEF RecordInv, LineInv
  <2> QED
    BY <2>1, BrokerAssumption DEF TypeOK
<1>1. CASE Enqueues(r)
  <2>1. round' = [round EXCEPT ![r] = @ + 1]
    BY <1>1 DEF Enqueues, enqueue_run
  <2> QED
    BY <1>0, <2>1
<1>2. CASE ~ Enqueues(r)
  <2>1. round'[r] = round[r]
    BY <1>2, RoundsMove
  <2> QED
    BY <1>0, <2>1
<1> QED
  BY <1>1, <1>2

LEMMA NextFutureIsEmpty ==
  ASSUME RecordInv, FutureIsEmpty, [DispatchNext]_allVars
  PROVE  FutureIsEmpty'
<1> USE DEF RecordInv
<1> SUFFICES ASSUME NEW o \in Objects, inq'[o] # <<>> PROVE o[2] <= round'[o[1]]
  BY DEF FutureIsEmpty
<1>0. o[1] \in Runs /\ o[2] \in Nat /\ o = <<o[1], o[2]>>
  BY ObjectIsPair
<1>1. ~ Crash
  BY DEF Crash
<1>2. round[o[1]] \in Nat /\ round'[o[1]] \in Nat /\ round[o[1]] <= round'[o[1]]
  BY <1>0, RoundsGrow
<1>3. o[2] <= round[o[1]]
  <2>1. CASE inq[o] # <<>>
    BY <2>1 DEF FutureIsEmpty
  <2>2. CASE inq[o] = <<>>
    <3>1. InboxMoves(o)
      BY <1>1, EveryInboxMoves
    <3>2. ASSUME o \in claimed PROVE o[2] <= round[o[1]]
      BY <3>2 DEF LineInv, RoundsBegun
    <3>3. ASSUME BrokerStep, o \in claimed' PROVE o[2] <= round[o[1]]
      <4>1. RoundsBegun' /\ UNCHANGED round
        BY <3>3, BrokerStepKeepsTasks, BrokerStepIsNext, NextRoundsBegun
           DEF LineInv, TasksStay
      <4> QED
        BY <3>3, <4>1 DEF RoundsBegun
    <3>4. ASSUME NEW r \in Runs, o = Current(r) PROVE o[2] <= round[o[1]]
      BY <3>4 DEF LineInv, RoundsBegun, Current
    <3>5. ASSUME NEW l \in Lanes, l[1] = o, Takes(l) \/ TakesMalformed(l) PROVE FALSE
      BY <2>2, <3>5 DEF Takes, PipelineTakes, TakesMalformed
    <3> QED
      BY <2>2, <3>1, <3>2, <3>3, <3>4, <3>5 DEF InboxMoves, QueueGrows, DispatchTypeOK
  <2> QED
    BY <2>1, <2>2
<1> QED
  BY <1>0, <1>2, <1>3

LEMMA NextClosingFailed ==
  ASSUME RecordInv, ClosingFailed, [DispatchNext]_allVars
  PROVE  ClosingFailed'
<1> USE DEF RecordInv
<1> SUFFICES ASSUME NEW r \in closing' PROVE status'[r] = "failed"
  BY DEF ClosingFailed
<1>0. r \in Runs
  BY NextDispatchTypeOK DEF DispatchTypeOK
<1>1. CASE r \in closing
  <2>1. status[r] = "failed"
    BY <1>1 DEF ClosingFailed
  <2>2. RowMoves(r)
    BY <1>0, EveryRowMoves
  <2> QED
    BY <2>1, <2>2 DEF RowMoves, Create, Reopen, LegalFrom
<1>2. CASE r \notin closing
  <2>1. ASSUME NEW R \in SUBSET Runs, fail_runs(R) PROVE status'[r] = "failed"
    BY <1>2, <2>1 DEF fail_runs
  <2>2. ASSUME NEW R \in SUBSET Runs, SweepStep(R) PROVE status'[r] = "failed"
    BY <2>1, <2>2 DEF SweepStep, fail_stalled_runs, fail_stale_paused_runs
  <2>3. CASE Start
    BY <1>2, <2>3 DEF Start
  <2>4. CASE closing' \subseteq closing
    BY <1>2, <2>4
  <2>5. CASE \/ \E x \in Runs : DoorStep(x)
             \/ \E x \in Runs : close_with_terminal_event(x)
             \/ \E l \in Lanes : TaskStep(l)
             \/ \E s \in SoloTasks : StartsOneShot(s) \/ EndsOneShot(s)
             \/ \E k \in Tasks : Commits(k) \/ LosesWrites(k)
             \/ Crash \/ Started \/ BrokerStep \/ UNCHANGED allVars
    BY <2>4, <2>5 DEF DoorStep, Create, Reopen, FindsServed, FindsOffline, Rejects, Enqueues,
       close_with_terminal_event, TaskStep, Takes, TakesMalformed, GoesOn, Ends, StartsOneShot,
       EndsOneShot, Commits, LosesWrites, Crash, Started, BrokerStep, dispatchVars, allVars
  <2> QED
    BY <2>2, <2>3, <2>5 DEF DispatchNext
<1> QED
  BY <1>1, <1>2

(* What was claimed stays claimed until the process stops. *)
LEMMA ClaimsStand ==
  ASSUME LineInv, [DispatchNext]_allVars, ~ Crash
  PROVE  claimed \subseteq claimed'
<1>1. CASE BrokerStep
  BY <1>1, BrokerStepKeepsTasks DEF TasksStay
<1>2. CASE \/ \E l \in Lanes : TaskStep(l)
           \/ \E s \in SoloTasks : StartsOneShot(s) \/ EndsOneShot(s)
  BY <1>2 DEF TaskStep, Takes, TakesMalformed, GoesOn, Ends, PipelineTakes, PipelineGoesOn,
     PipelineEnds, StartsOneShot, EndsOneShot, OneShotStarts, OneShotEnds
<1>3. CASE \/ \E x \in Runs : DoorStep(x) \/ close_with_terminal_event(x)
           \/ \E R \in SUBSET Runs : SweepStep(R)
           \/ \E k \in Tasks : Commits(k) \/ LosesWrites(k)
           \/ Start \/ Started \/ UNCHANGED allVars
  BY <1>3 DEF DoorStep, Create, Reopen, FindsServed, FindsOffline, Rejects, Enqueues,
     enqueue_run, close_with_terminal_event, push_fail, SweepStep, fail_stalled_runs,
     fail_stale_paused_runs, Commits, LosesWrites, Start, Started, allVars, vars, objVars
<1> QED
  BY <1>1, <1>2, <1>3 DEF DispatchNext

(* Only a door files a run; the end of a task, or of the process, drops it. *)
Drops(r) ==
  \/ Crash
  \/ \E l \in Lanes : Ends(l) /\ l[1][1] = r
  \/ \E s \in SoloTasks : EndsOneShot(s) /\ s.obj[1] = r

LEMMA TrackedMoves ==
  ASSUME RecordInv, [DispatchNext]_allVars, NEW r \in Runs, ~ Enqueues(r)
  PROVE  tracked'[r] = tracked[r] \/ (tracked'[r] = 0 /\ Drops(r))
<1>0. TypeOK /\ tracked \in [Runs -> Nat]
  <2>1. TypeOK
    BY DEF RecordInv, LineInv
  <2> QED
    BY <2>1, BrokerAssumption DEF TypeOK
<1>1. CASE BrokerStep
  BY <1>1, BrokerStepKeepsTasks DEF TasksStay, RecordInv
<1>2. ASSUME NEW l \in Lanes, TaskStep(l)
      PROVE  tracked'[r] = tracked[r] \/ (tracked'[r] = 0 /\ Drops(r))
  BY <1>0, <1>2, LaneIsTask, ForgetLetsGo DEF TaskStep, Takes, TakesMalformed, GoesOn, Ends,
     PipelineTakes, PipelineGoesOn, PipelineEnds, Drops
<1>3. ASSUME NEW s \in SoloTasks, StartsOneShot(s) \/ EndsOneShot(s)
      PROVE  tracked'[r] = tracked[r] \/ (tracked'[r] = 0 /\ Drops(r))
  <2>1. s.obj[1] \in Runs
    BY ObjectIsPair
  <2> QED
    BY <1>0, <1>3, <2>1, ForgetLetsGo
    DEF StartsOneShot, EndsOneShot, OneShotStarts, OneShotEnds, Drops
<1>4. ASSUME NEW x \in Runs, DoorStep(x) PROVE tracked'[r] = tracked[r]
  BY <1>0, <1>4 DEF DoorStep, Create, Reopen, FindsServed, FindsOffline, Rejects, Enqueues,
     enqueue_run, vars
<1>5. CASE Crash
  BY <1>5 DEF Crash, Drops
<1>6. CASE \/ \E x \in Runs : close_with_terminal_event(x)
           \/ \E R \in SUBSET Runs : SweepStep(R)
           \/ \E k \in Tasks : Commits(k) \/ LosesWrites(k)
           \/ Start \/ Started \/ UNCHANGED allVars
  BY <1>6 DEF close_with_terminal_event, push_fail, SweepStep, fail_stalled_runs,
     fail_stale_paused_runs, Commits, LosesWrites, Start, Started, allVars, vars
<1> QED
  BY <1>1, <1>2, <1>3, <1>4, <1>5, <1>6 DEF DispatchNext

LEMMA NextUnclaimedIsEmpty ==
  ASSUME VerdictsArrive, RecordInv, ClaimFirst, [DispatchNext]_allVars
  PROVE  UnclaimedIsEmpty'
<1> USE DEF RecordInv, ClaimFirst, VerdictsArrive
<1> SUFFICES ASSUME NEW r \in Runs, status'[r] = "queued", tracked'[r] # 0,
                    <<r, tracked'[r]>> \notin claimed'
             PROVE  inq'[<<r, tracked'[r]>>] = <<>>
  BY DEF UnclaimedIsEmpty, IsTracked, Current
<1>1. ~ Crash
  BY DEF Crash
<1>2. CASE Enqueues(r)
  <2>1. tracked'[r] = round[r] + 1 /\ UNCHANGED inq /\ round[r] \in Nat
        /\ round[r] < MaxRounds
    BY <1>2, BrokerAssumption DEF Enqueues, enqueue_run, objVars, LineInv, TypeOK
  <2>2. <<r, round[r] + 1>> \in Objects
    BY <2>1, BrokerAssumption DEF Objects
  <2>3. inq[<<r, round[r] + 1>>] = <<>>
    BY <2>1, <2>2 DEF FutureIsEmpty
  <2> QED
    BY <2>1, <2>3
<1>3. CASE ~ Enqueues(r)
  <2>1. status[r] = "queued" /\ ~ (door'[r] # "shut" /\ Idle(r)')
    <3>1. ~ Idle(r)'
      BY DEF Idle
    <3> QED
      BY <3>1, UnsettledBegins DEF Unsettled
  <2>2. tracked'[r] = tracked[r]
    BY <1>3, TrackedMoves
  <2> DEFINE o == <<r, tracked[r]>>
  <2>3. o \in Objects
    BY <2>2, CurrentIsObject DEF LineInv, IsTracked, Current
  <2>4. o \notin claimed
    <3>1. claimed \subseteq claimed'
      BY <1>1, ClaimsStand
    <3> QED
      BY <2>2, <3>1
  <2>5. inq[o] = <<>>
    BY <2>1, <2>2, <2>4 DEF UnclaimedIsEmpty, IsTracked, Current
  <2> HIDE DEF o
  <2>6. InboxMoves(o) /\ o \notin claimed'
    BY <1>1, <2>2, <2>3, EveryInboxMoves DEF o
  <2>7. ASSUME NEW x \in closing, o = Current(x) PROVE FALSE
    BY <2>1, <2>7 DEF ClosingFailed, Current, o
  <2>8. ASSUME NEW l \in Lanes, l[1] = o, Takes(l) \/ TakesMalformed(l) PROVE FALSE
    BY <2>5, <2>8 DEF Takes, PipelineTakes, TakesMalformed
  <2> QED
    BY <2>2, <2>4, <2>5, <2>6, <2>7, <2>8 DEF InboxMoves, QueueGrows, o
<1> QED
  BY <1>2, <1>3

LEMMA GrowingKeepsHead ==
  ASSUME LineInv, NEW o \in Objects, inq[o] # <<>>, QueueGrows(o) \/ inq'[o] = Append(inq[o], "Fail")
  PROVE  inq'[o] # <<>> /\ Head(inq'[o]) = Head(inq[o])
<1>1. inq[o] \in Seq(Commands)
  BY DEF LineInv, TypeOK
<1>2. ASSUME NEW cmd \in Commands, inq'[o] = Append(inq[o], cmd)
      PROVE  inq'[o] # <<>> /\ Head(inq'[o]) = Head(inq[o])
  BY <1>1, <1>2, AppendKeepsHead
<1>3. ASSUME NEW e \in Reports, inq'[o] = inq[o] \o <<"Claim", e>>
      PROVE  inq'[o] # <<>> /\ Head(inq'[o]) = Head(inq[o])
  <2>1. <<"Claim", e>> \in Seq(Commands)
    BY DEF Commands
  <2>2. \A q, t \in Seq(Commands) : q # <<>> => q \o t # <<>> /\ Head(q \o t) = Head(q)
    BY JoinKeepsHead
  <2> QED
    BY <1>1, <1>3, <2>1, <2>2
<1>4. Reports \cup {"FinishStream", "RequestCancel", "Claim", "Fail"} \subseteq Commands
  BY DEF Commands
<1> QED
  BY <1>2, <1>3, <1>4 DEF QueueGrows

LEMMA NextClaimIsNext ==
  ASSUME VerdictsArrive, RecordInv, ClaimFirst, [DispatchNext]_allVars
  PROVE  ClaimIsNext'
<1> USE DEF RecordInv, ClaimFirst, VerdictsArrive
<1> SUFFICES ASSUME NEW l \in Lanes, status'[l[1][1]] = "queued", AtWork(l)'
             PROVE  \/ lanes'[l] = "get" /\ inq'[l[1]] # <<>> /\ Head(inq'[l[1]]) = "Claim"
                    \/ lanes'[l] = "Claim" /\ todo'[l] = <<"running">>
  BY DEF ClaimIsNext
<1> DEFINE o == l[1]
           r == l[1][1]
<1>0. /\ l \in Tasks /\ o \in Objects /\ r \in Runs
      /\ inq \in [Objects -> Seq(Commands)] /\ lanes \in [Lanes -> LaneStates]
  BY LaneIsTask DEF LineInv, TypeOK
<1>1. ~ Crash
  BY DEF Crash, AtWork
<1>2. status[r] = "queued"
  <2>1. ~ Idle(r)'
    BY DEF Idle
  <2> QED
    BY <1>0, <2>1, UnsettledBegins DEF Unsettled
<1>3. LaneMoves(l) /\ InboxMoves(o) /\ TodoMoves(l)
  BY <1>0, <1>1, EveryLaneMoves, EveryInboxMoves, EveryTodoMoves
<1>4. CASE lanes'[l] = lanes[l] /\ lanes[l] = "get" /\ inq[o] # <<>> /\ Head(inq[o]) = "Claim"
  <2>1. ASSUME NEW m \in Lanes, m[1] = o, Takes(m) \/ TakesMalformed(m) PROVE FALSE
    <3>1. lanes[m] = "get"
      BY <2>1 DEF Takes, PipelineTakes, TakesMalformed
    <3>2. m = l
      BY <1>4, <2>1, <3>1, ObjectIsPair DEF LineInv, OnePipeline
    <3>3. ~ TakesMalformed(m)
      BY <1>4, <3>2 DEF TakesMalformed
    <3>4. lanes'[l] = "Claim"
      BY <1>0, <1>4, <2>1, <3>2, <3>3 DEF Takes, PipelineTakes
    <3> QED
      BY <1>4, <3>4
  <2>2. inq'[o] # <<>> /\ Head(inq'[o]) = "Claim"
    BY <1>0, <1>3, <1>4, <2>1, GrowingKeepsHead DEF InboxMoves
  <2> QED
    BY <1>4, <2>2
<1>5. CASE lanes'[l] = lanes[l] /\ lanes[l] = "Claim" /\ todo[l] = <<"running">>
  <2>1. ~ LosesWrites(l)
    BY DEF LosesWrites
  <2>2. ~ Takes(l)
    BY <1>5 DEF Takes, PipelineTakes
  <2>3. ~ Commits(l)
    <3>1. SUFFICES ASSUME Commits(l) PROVE FALSE
      OBVIOUS
    <3>2. Head(todo[l]) = "running"
      BY <1>5
    <3>3. mark_run_status(r, "running")
      BY <3>1, <3>2 DEF Commits
    <3>4. status[r] \in LegalFrom("running")
      BY <1>2 DEF LegalFrom
    <3>5. status'[r] = "running"
      BY <1>0, <3>3, <3>4 DEF mark_run_status, DispatchTypeOK
    <3> QED
      BY <3>5
  <2>4. \A s \in SoloTasks : TaskOf(s) # l
    BY SoloIsNoLane
  <2>5. todo'[l] = todo[l]
    BY <1>1, <1>3, <2>1, <2>2, <2>3, <2>4 DEF TodoMoves
  <2> QED
    BY <1>5, <2>5
<1>6. AtWork(l) => \/ lanes[l] = "get" /\ inq[o] # <<>> /\ Head(inq[o]) = "Claim"
                   \/ lanes[l] = "Claim" /\ todo[l] = <<"running">>
  BY <1>2 DEF ClaimIsNext
<1>7. CASE lanes'[l] = lanes[l]
  BY <1>4, <1>5, <1>6, <1>7 DEF AtWork
<1>8. CASE BrokerStep /\ lanes[l] = "off" /\ lanes'[l] = "get" /\ o \in claimed' \ claimed
  <2>1. IsTracked(r) /\ o = Current(r) /\ inq'[o] = Append(inq[o], "Claim")
    BY <1>8, OffersClaim
  <2>2. inq[o] = <<>>
    BY <1>0, <1>2, <1>8, <2>1 DEF UnclaimedIsEmpty
  <2>3. inq'[o] = <<"Claim">>
    BY <2>1, <2>2
  <2> QED
    BY <1>8, <2>3
<1>9. CASE Takes(l) /\ lanes'[l] = Head(inq[o])
  <2>1. lanes[l] = "get" /\ todo' = [todo EXCEPT ![l] = handler(o, Head(inq[o]))]
    BY <1>9 DEF Takes, PipelineTakes
  <2>2. Head(inq[o]) = "Claim"
    BY <1>6, <2>1 DEF AtWork
  <2>3. handler(o, "Claim") = <<"running">>
    BY DEF handler
  <2> QED
    BY <1>0, <1>9, <2>1, <2>2, <2>3 DEF DispatchTypeOK
<1>10. ~ TakesMalformed(l)
  BY <1>6 DEF TakesMalformed, AtWork
<1>11. ~ GoesOn(l)
  <2>1. SUFFICES ASSUME GoesOn(l) PROVE FALSE
    OBVIOUS
  <2>2. lanes[l] \in Commands /\ todo[l] = <<>>
    BY <2>1 DEF GoesOn, PipelineGoesOn
  <2>3. AtWork(l) /\ lanes[l] # "get"
    BY <2>2, BrokerAssumption DEF AtWork, Commands
  <2>4. todo[l] # <<"running">>
    BY <2>2
  <2> QED
    BY <1>6, <2>3, <2>4
<1> QED
  BY <1>3, <1>7, <1>8, <1>9, <1>10, <1>11 DEF LaneMoves, AtWork

LEMMA NextClaimFirst ==
  ASSUME VerdictsArrive, RecordInv, ClaimFirst, [DispatchNext]_allVars
  PROVE  ClaimFirst'
<1>1. ClaimIsNext' /\ UnclaimedIsEmpty'
  BY NextClaimIsNext, NextUnclaimedIsEmpty
<1>2. FutureIsEmpty' /\ ClosingFailed'
  BY NextFutureIsEmpty, NextClosingFailed DEF ClaimFirst
<1> QED
  BY <1>1, <1>2 DEF ClaimFirst

-----------------------------------------------------------------------------
(* What a terminal handler has left is a verdict the row will take *)

PipelineSettles ==
  \A l \in Lanes : status[l[1][1]] \in Unsettled =>
    /\ lanes[l] = "FinishStream" => todo[l] # <<>> /\ Head(todo[l]) \in Settled
    /\ lanes[l] = "Fail" => todo[l] \in {<<"RUN_ERROR", "failed">>, <<"failed">>}

OneShotSettles ==
  \A s \in solo : s.step = "handling" /\ status[s.obj[1]] \in Unsettled
    => todo[TaskOf(s)] \in {<<"cancelled">>, <<"RUN_ERROR", "failed">>, <<"failed">>}

StartSettles == phase = "starting" => \A r \in Runs : status[r] \notin Unsettled

(* A commit that is legal is what the row says next. *)
LEMMA CommitSets ==
  ASSUME DispatchTypeOK, NEW k \in Tasks, Commits(k),
         status[k[1][1]] \in LegalFrom(Head(todo[k]))
  PROVE  status'[k[1][1]] = Head(todo[k])
<1>1. Head(todo[k]) # "RUN_ERROR"
  BY DEF LegalFrom
<1>2. k[1][1] \in Runs /\ mark_run_status(k[1][1], Head(todo[k]))
  BY <1>1, LaneIsTask DEF Commits
<1> QED
  BY <1>2 DEF mark_run_status, DispatchTypeOK

LEMMA NextPipelineSettles ==
  ASSUME VerdictsArrive, RecordInv, ClaimFirst, PipelineSettles, [DispatchNext]_allVars
  PROVE  PipelineSettles'
<1> USE DEF RecordInv, ClaimFirst, VerdictsArrive
<1> SUFFICES ASSUME NEW l \in Lanes, status'[l[1][1]] \in Unsettled,
                    lanes'[l] \in {"FinishStream", "Fail"}
             PROVE  /\ lanes'[l] = "FinishStream" => todo'[l] # <<>> /\ Head(todo'[l]) \in Settled
                    /\ lanes'[l] = "Fail"
                         => todo'[l] \in {<<"RUN_ERROR", "failed">>, <<"failed">>}
  BY DEF PipelineSettles
<1> DEFINE o == l[1]
           r == l[1][1]
<1>0. l \in Tasks /\ o \in Objects /\ r \in Runs /\ lanes \in [Lanes -> LaneStates]
  BY LaneIsTask DEF LineInv, TypeOK
<1>1. ~ Crash
  BY DEF Crash
<1>2. status[r] \in Unsettled
  <2>1. ~ Idle(r)'
    BY DEF Idle, AtWork
  <2> QED
    BY <1>0, <2>1, UnsettledBegins
<1>3. LaneMoves(l) /\ TodoMoves(l)
  BY <1>0, <1>1, EveryLaneMoves, EveryTodoMoves
<1>4. \A s \in SoloTasks : TaskOf(s) # l
  BY SoloIsNoLane
<1>5. CASE Takes(l)
  <2>1. /\ todo' = [todo EXCEPT ![l] = handler(o, Head(inq[o]))]
        /\ lanes' = [lanes EXCEPT ![l] = Head(inq[o])]
    BY <1>5 DEF Takes, PipelineTakes
  <2>2. todo'[l] = handler(o, lanes'[l])
    BY <1>0, <2>1 DEF DispatchTypeOK
  <2>3. lanes'[l] = "FinishStream" => todo'[l] \in {<<"failed", "RUN_ERROR">>, <<Outcome(o)>>}
    BY <2>2 DEF handler, handle_finish
  <2>4. Outcome(o) \in Settled
    BY DEF Outcome, Settled
  <2>5. lanes'[l] = "Fail" => todo'[l] = <<"RUN_ERROR", "failed">>
    BY <2>2 DEF handler
  <2>6. /\ <<Outcome(o)>> # <<>> /\ Head(<<Outcome(o)>>) = Outcome(o)
        /\ <<"failed", "RUN_ERROR">> # <<>> /\ Head(<<"failed", "RUN_ERROR">>) = "failed"
    OBVIOUS
  <2>7. lanes'[l] = "FinishStream" => todo'[l] # <<>> /\ Head(todo'[l]) \in Settled
    BY <2>3, <2>4, <2>6, Zenon DEF Settled
  <2> QED
    BY <2>5, <2>7
<1>6. CASE ~ Takes(l)
  <2>1. lanes'[l] = lanes[l]
    BY <1>3, <1>6 DEF LaneMoves
  <2>2. /\ lanes[l] = "FinishStream" => todo[l] # <<>> /\ Head(todo[l]) \in Settled
        /\ lanes[l] = "Fail" => todo[l] \in {<<"RUN_ERROR", "failed">>, <<"failed">>}
    BY <1>2 DEF PipelineSettles
  <2>3. ~ LosesWrites(l)
    BY DEF LosesWrites
  <2>4. ASSUME Commits(l)
        PROVE  lanes'[l] = "Fail" /\ todo'[l] = <<"failed">>
    <3>1. status[r] \notin LegalFrom(Head(todo[l])) \/ status'[r] = Head(todo[l])
      BY <1>0, <2>4, CommitSets
    <3>2. Head(todo[l]) \notin Settled
      <4>1. status[r] # "queued"
        BY <2>1 DEF ClaimIsNext, AtWork
      <4>2. status[r] \in {"running", "cancelling"}
        BY <1>2, <4>1 DEF Unsettled
      <4> QED
        BY <3>1, <4>2 DEF LegalFrom, Settled, Unsettled
    <3>3. lanes[l] = "Fail" /\ todo[l] = <<"RUN_ERROR", "failed">>
      BY <2>1, <2>2, <3>2 DEF Settled
    <3>4. todo'[l] = Tail(todo[l])
      BY <1>0, <2>4 DEF Commits, DispatchTypeOK
    <3> QED
      BY <2>1, <3>3, <3>4
  <2>5. CASE todo'[l] = todo[l]
    BY <2>1, <2>2, <2>5
  <2> QED
    BY <1>1, <1>3, <1>4, <1>6, <2>3, <2>4, <2>5 DEF TodoMoves
<1> QED
  BY <1>5, <1>6

(* A one-shot task is spawned, and then called; it is never made otherwise. *)
LEMMA SoloMoves ==
  ASSUME LineInv, [DispatchNext]_allVars, NEW s \in solo'
  PROVE  \/ s \in solo
         \/ s.step = "spawned"
         \/ \E t \in SoloTasks : StartsOneShot(t) /\ TaskOf(t) = TaskOf(s)
<1>1. CASE solo' \subseteq solo
  BY <1>1
<1>2. CASE BrokerStep
  BY <1>2, BrokerStepKeepsTasks DEF TasksStay
<1>3. ASSUME NEW t \in SoloTasks, StartsOneShot(t)
      PROVE  s \in solo \/ TaskOf(t) = TaskOf(s)
  <2> DEFINE u == [t EXCEPT !.step = "handling"]
  <2>1. solo' = (solo \ {t}) \cup {u}
    BY <1>3 DEF StartsOneShot, OneShotStarts
  <2>2. TaskOf(u) = TaskOf(t)
    BY DEF SoloTasks, TaskOf
  <2> HIDE DEF u
  <2> QED
    BY <2>1, <2>2
<1>4. CASE \/ \E t \in SoloTasks : EndsOneShot(t)
           \/ \E l \in Lanes : TaskStep(l)
           \/ Crash
  BY <1>1, <1>4 DEF EndsOneShot, OneShotEnds, TaskStep, Takes, TakesMalformed, GoesOn, Ends,
     PipelineTakes, PipelineGoesOn, PipelineEnds, Crash
<1>5. CASE \/ \E x \in Runs : DoorStep(x) \/ close_with_terminal_event(x)
           \/ \E R \in SUBSET Runs : SweepStep(R)
           \/ \E k \in Tasks : Commits(k) \/ LosesWrites(k)
           \/ Start \/ Started \/ UNCHANGED allVars
  BY <1>1, <1>5 DEF DoorStep, Create, Reopen, FindsServed, FindsOffline, Rejects, Enqueues,
     enqueue_run, close_with_terminal_event, push_fail, SweepStep, fail_stalled_runs,
     fail_stale_paused_runs, Commits, LosesWrites, Start, Started, allVars, vars, objVars
<1> QED
  BY <1>2, <1>3, <1>4, <1>5 DEF DispatchNext

LEMMA NextOneShotSettles ==
  ASSUME VerdictsArrive, RecordInv, OneShotSettles, [DispatchNext]_allVars
  PROVE  OneShotSettles'
<1> USE DEF RecordInv, VerdictsArrive
<1> DEFINE Left == {<<"cancelled">>, <<"RUN_ERROR", "failed">>, <<"failed">>}
<1> SUFFICES ASSUME NEW s \in solo', s.step = "handling", status'[s.obj[1]] \in Unsettled
             PROVE  todo'[TaskOf(s)] \in Left
  BY DEF OneShotSettles
<1> DEFINE r == s.obj[1]
           k == TaskOf(s)
<1>0. s \in SoloTasks /\ r \in Runs /\ k \in Tasks /\ k[1] = s.obj /\ k \notin Lanes
  <2>1. s \in SoloTasks
    BY NextDispatchTypeOK DEF DispatchTypeOK, TypeOK
  <2> QED
    BY <2>1, ObjectIsPair, TaskOfSolo, SoloIsNoLane DEF TaskOf
<1>1. ~ Crash
  BY DEF Crash
<1>2. status[r] \in Unsettled
  <2>1. ~ Idle(r)'
    BY DEF Idle
  <2> QED
    BY <1>0, <2>1, UnsettledBegins
<1>3. TodoMoves(k)
  BY <1>0, EveryTodoMoves
<1>4. ASSUME NEW t \in SoloTasks, StartsOneShot(t), TaskOf(t) = k PROVE todo'[k] \in Left
  <2>1. t \in solo /\ todo' = [todo EXCEPT ![k] = handler(t.obj, t.cmd)]
    BY <1>4 DEF StartsOneShot, OneShotStarts
  <2>2. t.obj \notin claimed
    BY <2>1 DEF AccountInv, SoloKnown
  <2>3. handler(t.obj, t.cmd) \in {<<"cancelled">>, <<"RUN_ERROR", "failed">>}
    BY <2>2 DEF handler, handle_cancel, SoloTasks
  <2> QED
    BY <1>0, <2>1, <2>3 DEF DispatchTypeOK
<1>5. CASE s \in solo
  <2>1. todo[k] \in Left
    BY <1>2, <1>5 DEF OneShotSettles
  <2>2. ASSUME Commits(k) PROVE todo'[k] \in Left
    <3>1. status[r] \notin LegalFrom(Head(todo[k])) \/ status'[r] = Head(todo[k])
      BY <1>0, <2>2, CommitSets
    <3>2. Head(todo[k]) \notin {"cancelled", "failed"}
      BY <1>2, <3>1 DEF LegalFrom, Unsettled
    <3>3. todo[k] = <<"RUN_ERROR", "failed">>
      BY <2>1, <3>2
    <3>4. todo'[k] = Tail(todo[k])
      BY <1>0, <2>2 DEF Commits, DispatchTypeOK
    <3> QED
      BY <3>3, <3>4
  <2>3. ~ LosesWrites(k)
    BY DEF LosesWrites
  <2>4. ASSUME todo'[k] = todo[k] PROVE todo'[k] \in Left
    BY <2>1, <2>4
  <2> HIDE DEF Left
  <2> QED
    BY <1>0, <1>1, <1>3, <1>4, <2>2, <2>3, <2>4 DEF TodoMoves
<1> QED
  BY <1>4, <1>5, SoloMoves

LEMMA NextStartSettles ==
  ASSUME DispatchTypeOK, StartSettles, [DispatchNext]_allVars
  PROVE  StartSettles'
<1> SUFFICES ASSUME phase' = "starting", NEW r \in Runs PROVE status'[r] \notin Unsettled
  BY DEF StartSettles
<1>1. CASE Start
  BY <1>1 DEF Start, Unsettled
<1>2. CASE phase = "starting" /\ UNCHANGED status
  BY <1>2 DEF StartSettles
<1>3. CASE \/ \E x \in Runs : DoorStep(x) \/ close_with_terminal_event(x)
           \/ \E R \in SUBSET Runs : SweepStep(R)
           \/ \E k \in Tasks : Commits(k) \/ LosesWrites(k)
           \/ \E l \in Lanes : TaskStep(l)
           \/ \E s \in SoloTasks : StartsOneShot(s) \/ EndsOneShot(s)
           \/ Crash \/ Started \/ BrokerStep \/ UNCHANGED allVars
  BY <1>2, <1>3 DEF DoorStep, Create, Reopen, FindsServed, FindsOffline, Rejects, Enqueues,
     close_with_terminal_event, SweepStep, fail_stalled_runs, fail_stale_paused_runs, Commits,
     LosesWrites, TaskStep, Takes, TakesMalformed, GoesOn, Ends, StartsOneShot, EndsOneShot,
     Crash, Started, BrokerStep, dispatchVars, recordVars, allVars
<1> QED
  BY <1>1, <1>3 DEF DispatchNext

EndedBegan == \A o \in ended : o[2] <= round[o[1]]

SettleInv ==
  /\ ClaimFirst
  /\ PipelineSettles /\ OneShotSettles /\ StartSettles
  /\ ActiveIsTracked
  /\ EndedBegan /\ EndMeansSettled

(* When a task is done with a run, the record has its verdict. *)
LEMMA EndsAreSettled ==
  ASSUME VerdictsArrive, RecordInv, SettleInv
  PROVE  /\ \A l \in Lanes : Ends(l) => status[l[1][1]] \notin Unsettled
         /\ \A s \in SoloTasks : EndsOneShot(s) => status[s.obj[1]] \notin Unsettled
<1> USE DEF RecordInv, SettleInv
<1>1. ASSUME NEW l \in Lanes, Ends(l), status[l[1][1]] \in Unsettled PROVE FALSE
  <2>1. todo[l] = <<>> /\ lanes[l] \in Commands /\ Terminal(l)
    BY <1>1 DEF Ends, PipelineEnds
  <2>2. l[1] \in claimed
    BY <2>1, BrokerAssumption DEF LineInv, OnePipeline, Commands
  <2>3. lanes[l] \in {"FinishStream", "Fail"}
    BY <2>1, <2>2 DEF Terminal
  <2>4. todo[l] \notin {<<"RUN_ERROR", "failed">>, <<"failed">>}
    BY <2>1
  <2> QED
    BY <1>1, <2>1, <2>3, <2>4 DEF PipelineSettles
<1>2. ASSUME NEW s \in SoloTasks, EndsOneShot(s), status[s.obj[1]] \in Unsettled PROVE FALSE
  <2>1. /\ s \in solo /\ todo[TaskOf(s)] = <<>> /\ phase = "up"
        /\ s.step = "handling" \/ ~ IsTracked(s.obj[1])
    BY <1>2 DEF EndsOneShot, OneShotEnds
  <2>2. s.obj[1] \in Runs /\ ~ Idle(s.obj[1])
    BY <2>1, ObjectIsPair DEF Idle
  <2>3. IsTracked(s.obj[1])
    BY <1>2, <2>1, <2>2 DEF ActiveIsTracked, DoorsAreIdle
  <2>4. todo[TaskOf(s)] \notin {<<"cancelled">>, <<"RUN_ERROR", "failed">>, <<"failed">>}
    BY <2>1
  <2> QED
    BY <1>2, <2>1, <2>3, <2>4 DEF OneShotSettles
<1> QED
  BY <1>1, <1>2

(* A door shuts behind a row that failed, or that the broker has taken over. *)
LEMMA DoorShuts ==
  ASSUME VerdictsArrive, DispatchTypeOK, [DispatchNext]_allVars, NEW r \in Runs,
         door[r] # "shut", door'[r] = "shut", status'[r] \in Unsettled
  PROVE  Enqueues(r) \/ Crash
<1> USE DEF VerdictsArrive, DispatchTypeOK
<1>1. UNCHANGED door => FALSE
  OBVIOUS
<1>2. ASSUME NEW x \in Runs, DoorStep(x) PROVE Enqueues(r)
  <2>1. x = r
    BY <1>2 DEF DoorStep, Create, Reopen, OpenDoor, FindsServed, FindsOffline, Rejects, Enqueues
  <2>2. ~ FindsOffline(r)
    <3>1. SUFFICES ASSUME FindsOffline(r) PROVE FALSE
      OBVIOUS
    <3>2. mark_run_status(r, "failed")
      BY <3>1 DEF FindsOffline
    <3>3. status[r] \in Unsettled => status'[r] = "failed"
      BY <3>2 DEF mark_run_status, LegalFrom, Unsettled
    <3>4. status'[r] = status[r] \/ status'[r] = "failed"
      BY <3>2 DEF mark_run_status
    <3> QED
      BY <3>3, <3>4 DEF Unsettled
  <2> QED
    BY <1>2, <2>1, <2>2 DEF DoorStep, Create, Reopen, OpenDoor, FindsServed, Rejects
<1> QED
  BY <1>1, <1>2 DEF DispatchNext, Commits, LosesWrites, TaskStep, Takes, TakesMalformed, GoesOn,
     Ends, StartsOneShot, EndsOneShot, SweepStep, fail_stalled_runs, fail_stale_paused_runs,
     close_with_terminal_event, Start, Started, BrokerStep, dispatchVars, allVars

LEMMA NextActiveIsTracked ==
  ASSUME VerdictsArrive, RecordInv, SettleInv, [DispatchNext]_allVars
  PROVE  ActiveIsTracked'
<1> USE DEF VerdictsArrive
<1> SUFFICES ASSUME NEW r \in Runs, phase' = "up", status'[r] \in Unsettled, door'[r] = "shut"
             PROVE  tracked'[r] # 0
  BY DEF ActiveIsTracked, IsTracked
<1>1. status[r] \in Unsettled /\ ~ Crash
  <2>1. ~ Crash
    BY DEF Crash
  <2> QED
    BY <2>1, UnsettledBegins
<1>2. phase = "up"
  <2>1. phase # "starting"
    BY <1>1 DEF SettleInv, StartSettles
  <2>2. phase # "down"
    <3>1. SUFFICES ASSUME phase = "down" PROVE FALSE
      OBVIOUS
    <3>2. ~ Start /\ ~ Started
      BY <3>1 DEF Start, Started
    <3> QED
      BY <1>1, <3>1, <3>2
      DEF DispatchNext, DoorStep, Create, Reopen, FindsServed, FindsOffline, Rejects, Enqueues,
          close_with_terminal_event, SweepStep, fail_stalled_runs, fail_stale_paused_runs,
          Commits, LosesWrites, TaskStep, Takes, TakesMalformed, GoesOn, Ends, StartsOneShot,
          EndsOneShot, BrokerStep, allVars, dispatchVars
  <2> QED
    BY <2>1, <2>2 DEF RecordInv, DispatchTypeOK
<1>3. CASE Enqueues(r)
  BY <1>3, BrokerAssumption DEF Enqueues, enqueue_run, RecordInv, LineInv, TypeOK
<1>4. CASE ~ Enqueues(r)
  <2>1. door[r] = "shut"
    BY <1>1, <1>4, DoorShuts DEF RecordInv
  <2>2. tracked[r] # 0
    BY <1>1, <1>2, <2>1 DEF SettleInv, ActiveIsTracked, IsTracked
  <2>3. ~ Drops(r)
    BY <1>1, EndsAreSettled DEF Drops
  <2> QED
    BY <1>4, <2>2, <2>3, TrackedMoves
<1> QED
  BY <1>3, <1>4

(* Streams end with their task, and all at once with the process. *)
LEMMA EndedMoves ==
  ASSUME RecordInv, [DispatchNext]_allVars, NEW o \in ended'
  PROVE  /\ o \in Objects /\ ~ Crash
         /\ \/ o \in ended
            \/ \E l \in Lanes : Ends(l) /\ l[1] = o
            \/ \E s \in SoloTasks : EndsOneShot(s) /\ s.obj = o
<1>1. o \in Objects /\ ~ Crash
  BY NextDispatchTypeOK DEF RecordInv, DispatchTypeOK, TypeOK, Crash
<1>2. CASE BrokerStep
  BY <1>1, <1>2, BrokerStepKeepsTasks DEF TasksStay, RecordInv
<1>3. ASSUME NEW l \in Lanes, TaskStep(l) PROVE o \in ended \/ (Ends(l) /\ l[1] = o)
  BY <1>3 DEF TaskStep, Takes, TakesMalformed, GoesOn, Ends, PipelineTakes, PipelineGoesOn,
     PipelineEnds
<1>4. ASSUME NEW s \in SoloTasks, StartsOneShot(s) \/ EndsOneShot(s)
      PROVE  o \in ended \/ (EndsOneShot(s) /\ s.obj = o)
  BY <1>4 DEF StartsOneShot, EndsOneShot, OneShotStarts, OneShotEnds
<1>5. ASSUME \/ \E x \in Runs : DoorStep(x) \/ close_with_terminal_event(x)
             \/ \E R \in SUBSET Runs : SweepStep(R)
             \/ \E k \in Tasks : Commits(k) \/ LosesWrites(k)
             \/ Start \/ Started \/ UNCHANGED allVars
      PROVE  o \in ended
  BY <1>5 DEF DoorStep, Create, Reopen, FindsServed, FindsOffline, Rejects, Enqueues,
     enqueue_run, close_with_terminal_event, push_fail, SweepStep, fail_stalled_runs,
     fail_stale_paused_runs, Commits, LosesWrites, Start, Started, allVars, vars, objVars
<1> QED
  BY <1>1, <1>2, <1>3, <1>4, <1>5 DEF DispatchNext

LEMMA NextEndedBegan ==
  ASSUME RecordInv, EndedBegan, [DispatchNext]_allVars
  PROVE  EndedBegan'
<1> SUFFICES ASSUME NEW o \in ended' PROVE o[2] <= round'[o[1]]
  BY DEF EndedBegan
<1>1. o \in Objects /\ o[1] \in Runs /\ o[2] \in Nat /\ o = <<o[1], o[2]>>
  BY EndedMoves, ObjectIsPair
<1>2. o[2] <= round[o[1]]
  <2>1. CASE o \in ended
    BY <2>1 DEF EndedBegan
  <2>2. ASSUME NEW l \in Lanes, Ends(l), l[1] = o PROVE o[2] <= round[o[1]]
    <3>1. l[1] \in claimed
      BY <2>2, BrokerAssumption DEF Ends, PipelineEnds, Commands, RecordInv, LineInv, OnePipeline
    <3> QED
      BY <2>2, <3>1 DEF RecordInv, LineInv, RoundsBegun
  <2>3. ASSUME NEW s \in SoloTasks, EndsOneShot(s), s.obj = o PROVE o[2] <= round[o[1]]
    <3>1. o[2] = round[o[1]]
      BY <2>3 DEF EndsOneShot, OneShotEnds, RecordInv, AccountInv, SoloKnown
    <3> QED
      BY <1>1, <3>1
  <2> QED
    BY <2>1, <2>2, <2>3, EndedMoves
<1>3. round[o[1]] \in Nat /\ round'[o[1]] \in Nat /\ round[o[1]] <= round'[o[1]]
  BY <1>1, RoundsGrow
<1> QED
  BY <1>1, <1>2, <1>3

LEMMA NextEndMeansSettled ==
  ASSUME VerdictsArrive, RecordInv, SettleInv, [DispatchNext]_allVars
  PROVE  EndMeansSettled'
<1> USE DEF VerdictsArrive
<1> SUFFICES ASSUME NEW r \in Runs, round'[r] > 0, <<r, round'[r]>> \in ended',
                    door'[r] = "shut", status'[r] \notin Settled
             PROVE  FALSE
  BY DEF EndMeansSettled
<1>0. RecordInv'
  BY NextRecordInv
<1>1. ~ Crash
  BY EndedMoves
<1>2. status'[r] \in Unsettled
  <2>1. status'[r] # "none"
    BY <1>0 DEF RecordInv, RowsBegin
  <2>2. status'[r] \in Statuses
    BY <1>0 DEF RecordInv, DispatchTypeOK
  <2> QED
    BY <2>1, <2>2 DEF Statuses, Settled, Unsettled
<1>3. status[r] \in Unsettled
  BY <1>2, UnsettledBegins
<1>4. ~ Enqueues(r)
  <2>1. SUFFICES ASSUME Enqueues(r) PROVE FALSE
    OBVIOUS
  <2>2. round'[r] = round[r] + 1 /\ UNCHANGED ended /\ round[r] \in Nat
    BY <2>1, BrokerAssumption DEF Enqueues, enqueue_run, objVars, RecordInv, LineInv, TypeOK
  <2>3. <<r, round[r] + 1>> \in ended
    BY <2>2
  <2>4. round[r] + 1 <= round[r]
    BY <2>3 DEF SettleInv, EndedBegan
  <2> QED
    BY <2>2, <2>4
<1>5. round'[r] = round[r]
  BY <1>4, RoundsMove
<1>6. door[r] = "shut"
  BY <1>1, <1>2, <1>4, DoorShuts DEF RecordInv
<1>7. <<r, round[r]>> \notin ended
  <2>1. status[r] \notin Settled
    BY <1>3 DEF Settled, Unsettled
  <2> QED
    BY <1>5, <1>6, <2>1 DEF SettleInv, EndMeansSettled
<1>8. \/ \E l \in Lanes : Ends(l) /\ l[1][1] = r
      \/ \E s \in SoloTasks : EndsOneShot(s) /\ s.obj[1] = r
  BY <1>5, <1>7, EndedMoves
<1> QED
  BY <1>3, <1>8, EndsAreSettled

LEMMA NextSettleInv ==
  ASSUME VerdictsArrive, RecordInv, SettleInv, [DispatchNext]_allVars
  PROVE  SettleInv'
<1>1. ClaimFirst'
  BY NextClaimFirst DEF SettleInv
<1>2. PipelineSettles' /\ OneShotSettles'
  BY NextPipelineSettles, NextOneShotSettles DEF SettleInv
<1>3. StartSettles' /\ EndedBegan'
  BY NextStartSettles, NextEndedBegan DEF SettleInv, RecordInv
<1>4. ActiveIsTracked' /\ EndMeansSettled'
  BY NextActiveIsTracked, NextEndMeansSettled
<1> QED
  BY <1>1, <1>2, <1>3, <1>4 DEF SettleInv

LEMMA InitSettleInv == DispatchInit => SettleInv
<1> SUFFICES ASSUME DispatchInit PROVE SettleInv
  OBVIOUS
<1>1. /\ lanes = [l \in Lanes |-> "off"] /\ solo = {} /\ ended = {}
      /\ tracked = [r \in Runs |-> 0] /\ inq = [o \in Objects |-> <<>>]
      /\ status = [r \in Runs |-> "none"] /\ closing = {} /\ phase = "up"
  BY DEF DispatchInit, Init
<1>2. ClaimFirst
  BY <1>1, LaneIsTask
  DEF ClaimFirst, ClaimIsNext, UnclaimedIsEmpty, FutureIsEmpty, ClosingFailed, AtWork
<1>3. PipelineSettles /\ OneShotSettles /\ StartSettles
  BY <1>1 DEF PipelineSettles, OneShotSettles, StartSettles
<1>4. ActiveIsTracked /\ EndedBegan /\ EndMeansSettled
  BY <1>1 DEF ActiveIsTracked, EndedBegan, EndMeansSettled, Unsettled
<1> QED
  BY <1>2, <1>3, <1>4 DEF SettleInv

LEMMA SettlesAlways ==
  ASSUME VerdictsArrive
  PROVE  DispatchSpec => [](RecordInv /\ SettleInv)
<1>1. DispatchInit => RecordInv /\ SettleInv
  BY InitRecordInv, InitSettleInv
<1>2. RecordInv /\ SettleInv /\ [DispatchNext]_allVars => (RecordInv /\ SettleInv)'
  BY NextRecordInv, NextSettleInv DEF VerdictsArrive
<1> QED
  BY <1>1, <1>2, PTL DEF DispatchSpec

(* A row that is queued, running or cancelling has somebody who will bring its
   verdict: its door is still at work, or Broker._runs has it (dispatch.md: no
   run is left queued that nothing will ever dispatch). *)
THEOREM NoRowIsLeftBehind ==
  ASSUME VerdictsArrive
  PROVE  DispatchSpec => []ActiveIsTracked
<1>1. RecordInv /\ SettleInv => ActiveIsTracked
  BY DEF SettleInv
<1> QED
  BY <1>1, SettlesAlways, PTL

(* What a2a.py's send_task reads when the stream of a run has ended is the
   outcome of its round: _pipeline and _one_shot put END_OF_STREAM only behind
   the commit of a verdict the row takes. *)
THEOREM OutcomeIsThere ==
  ASSUME VerdictsArrive
  PROVE  DispatchSpec => []EndMeansSettled
<1>1. RecordInv /\ SettleInv => EndMeansSettled
  BY DEF SettleInv
<1> QED
  BY <1>1, SettlesAlways, PTL

-----------------------------------------------------------------------------
(* A failed run carries an error *)

(* r has a RUN_ERROR, or a handler that will append one. *)
Told(r) == errors[r] > 0 \/ \E k \in Tasks : k[1][1] = r /\ "RUN_ERROR" \in ToSet(todo[k])

(* Whatever fails a run, or saw it fail, has told so or is about to. *)
ErrorTold ==
  \A r \in Runs :
    \/ status[r] = "failed"
    \/ \E o \in Objects : o[1] = r /\ "RUN_ERROR" \in saw[o]
    \/ \E k \in Tasks : k[1][1] = r /\ "failed" \in ToSet(todo[k])
    => Told(r)

CancelsTellNothing ==
  \A k \in Tasks : k[2] = "RequestCancel" => "RUN_ERROR" \notin ToSet(todo[k])

(* Nothing but its handlers fails a run. *)
OnlyHandlersFail == phase = "up" /\ closing = {}

ErrorInv == ErrorTold /\ CancelsTellNothing /\ OnlyHandlersFail

LEMMA ToSetHeadTail ==
  ASSUME NEW S, NEW q \in Seq(S), q # <<>>
  PROVE  ToSet(q) = {Head(q)} \cup ToSet(Tail(q))
<1>1. Head(q) \in ToSet(q) /\ ToSet(Tail(q)) \subseteq ToSet(q)
  BY ToSetTail
<1>2. ASSUME NEW i \in 1..Len(q) PROVE q[i] \in {Head(q)} \cup ToSet(Tail(q))
  <2>1. CASE i = 1
    BY <2>1
  <2>2. CASE i # 1
    <3>1. i - 1 \in 1..Len(Tail(q)) /\ Tail(q)[i - 1] = q[i]
      BY <2>2
    <3> QED
      BY <3>1 DEF ToSet
  <2> QED
    BY <2>1, <2>2
<1> QED
  BY <1>1, <1>2 DEF ToSet

(* What one-shot tasks commit. *)
LEMMA SoloHandlers ==
  ASSUME NEW s \in SoloTasks
  PROVE  /\ s.cmd = "RequestCancel"
              => ToSet(handler(s.obj, s.cmd)) \subseteq {"cancelling", "cancelled"}
         /\ s.cmd # "RequestCancel" => ToSet(handler(s.obj, s.cmd)) = {"RUN_ERROR", "failed"}
         /\ s.cmd = TaskOf(s)[2] /\ s.obj = TaskOf(s)[1]
<1>1. s.cmd \in {"RequestCancel", "Fail"}
  BY DEF SoloTasks
<1>2. /\ s.cmd = "RequestCancel" => handler(s.obj, s.cmd) \in {<<"cancelling">>, <<"cancelled">>}
      /\ s.cmd = "Fail" => handler(s.obj, s.cmd) = <<"RUN_ERROR", "failed">>
  BY DEF handler, handle_cancel
<1>3. /\ ToSet(<<"cancelling">>) = {"cancelling"} /\ ToSet(<<"cancelled">>) = {"cancelled"}
      /\ ToSet(<<"RUN_ERROR", "failed">>) = {"RUN_ERROR", "failed"}
  BY ToSetSmall, Zenon
<1> QED
  BY <1>1, <1>2, <1>3 DEF TaskOf

LEMMA ErrorsStay ==
  ASSUME DispatchTypeOK, [DispatchNext]_allVars, NEW r \in Runs, errors[r] > 0
  PROVE  errors'[r] > 0
<1> USE DEF DispatchTypeOK
<1>1. CASE UNCHANGED errors
  BY <1>1
<1>2. ASSUME NEW x \in Runs, append_error(x) PROVE errors'[r] > 0
  BY <1>2 DEF append_error
<1>3. ASSUME NEW k \in Tasks, Commits(k) PROVE errors'[r] > 0
  BY <1>1, <1>2, <1>3, LaneIsTask DEF Commits
<1>4. ASSUME NEW x \in Runs, close_with_terminal_event(x) PROVE errors'[r] > 0
  BY <1>1, <1>2, <1>4 DEF close_with_terminal_event
<1>5. CASE \/ \E x \in Runs : DoorStep(x)
           \/ \E R \in SUBSET Runs : SweepStep(R)
           \/ \E k \in Tasks : LosesWrites(k)
           \/ \E l \in Lanes : TaskStep(l)
           \/ \E s \in SoloTasks : StartsOneShot(s) \/ EndsOneShot(s)
           \/ Crash \/ Start \/ Started \/ BrokerStep \/ UNCHANGED allVars
  BY <1>1, <1>5 DEF DoorStep, Create, Reopen, FindsServed, FindsOffline, Rejects, Enqueues,
     SweepStep, fail_stalled_runs, fail_stale_paused_runs, LosesWrites, TaskStep, Takes,
     TakesMalformed, GoesOn, Ends, StartsOneShot, EndsOneShot, Crash, Start, Started,
     BrokerStep, dispatchVars, recordVars, allVars
<1> QED
  BY <1>3, <1>4, <1>5 DEF DispatchNext

(* What was told, or is about to be, is not taken back. *)
LEMMA ToldStays ==
  ASSUME RecordInv, CancelsTellNothing, OnlyHandlersFail, Failures \subseteq {"rejected"},
         [DispatchNext]_allVars, NEW r \in Runs, Told(r)
  PROVE  Told(r)'
<1> USE DEF RecordInv
<1>1. CASE errors[r] > 0
  BY <1>1, ErrorsStay DEF Told
<1>2. ASSUME NEW k \in Tasks, k[1][1] = r, "RUN_ERROR" \in ToSet(todo[k]) PROVE Told(r)'
  <2>1. todo[k] \in Seq(Writes) /\ todo[k] # <<>> /\ TodoMoves(k)
    <3>1. ToSet(<<>>) = {}
      BY DEF ToSet
    <3> QED
      BY <1>2, <3>1, EveryTodoMoves DEF DispatchTypeOK
  <2>2. ASSUME "RUN_ERROR" \in ToSet(todo'[k]) PROVE Told(r)'
    BY <1>2, <2>2 DEF Told
  <2>3. ~ Crash /\ ~ LosesWrites(k)
    BY DEF Crash, LosesWrites
  <2>4. ~ (k \in Lanes /\ Takes(k))
    BY <2>1, BrokerAssumption DEF TodoKnown, Takes, PipelineTakes, Commands
  <2>5. CASE Commits(k) /\ todo'[k] = Tail(todo[k])
    <3>1. CASE Head(todo[k]) = "RUN_ERROR"
      <4>1. append_error(r)
        BY <1>2, <2>5, <3>1 DEF Commits
      <4>2. errors'[r] > 0
        BY <4>1 DEF append_error, DispatchTypeOK
      <4> QED
        BY <4>2 DEF Told
    <3>2. CASE Head(todo[k]) # "RUN_ERROR"
      <4>1. \A q \in Seq(Writes) : q # <<>> => ToSet(q) = {Head(q)} \cup ToSet(Tail(q))
        BY ToSetHeadTail
      <4> QED
        BY <1>2, <2>1, <2>2, <2>5, <3>2, <4>1
    <3> QED
      BY <3>1, <3>2
  <2>6. ASSUME NEW s \in SoloTasks, TaskOf(s) = k, todo'[k] = handler(s.obj, s.cmd)
        PROVE  Told(r)'
    <3>1. s.cmd # "RequestCancel"
      BY <1>2, <2>6, SoloHandlers DEF CancelsTellNothing
    <3> QED
      BY <2>2, <2>6, <3>1, SoloHandlers
  <2> QED
    BY <1>2, <2>1, <2>2, <2>3, <2>4, <2>5, <2>6 DEF TodoMoves
<1> QED
  BY <1>1, <1>2 DEF Told

LEMMA NextOnlyHandlersFail ==
  ASSUME Failures \subseteq {"rejected"}, OnlyHandlersFail, [DispatchNext]_allVars
  PROVE  OnlyHandlersFail'
<1> USE DEF OnlyHandlersFail
<1>1. ~ Crash /\ ~ Start /\ ~ Started /\ \A R \in SUBSET Runs : ~ SweepStep(R)
  BY DEF Crash, Start, Started, SweepStep, fail_stalled_runs, fail_stale_paused_runs
<1>2. \A r \in Runs : ~ close_with_terminal_event(r)
  BY DEF close_with_terminal_event
<1> QED
  BY <1>1, <1>2 DEF DispatchNext, DoorStep, Create, Reopen, FindsServed, FindsOffline, Rejects,
     Enqueues, Commits, LosesWrites, TaskStep, Takes, TakesMalformed, GoesOn, Ends,
     StartsOneShot, EndsOneShot, BrokerStep, dispatchVars, allVars

LEMMA NextCancelsTellNothing ==
  ASSUME DispatchTypeOK, CancelsTellNothing, [DispatchNext]_allVars
  PROVE  CancelsTellNothing'
<1> SUFFICES ASSUME NEW k \in Tasks, k[2] = "RequestCancel"
             PROVE  "RUN_ERROR" \notin ToSet(todo'[k])
  BY DEF CancelsTellNothing
<1>1. TodoMoves(k) /\ todo[k] \in Seq(Writes) /\ "RUN_ERROR" \notin ToSet(todo[k])
  BY EveryTodoMoves DEF DispatchTypeOK, CancelsTellNothing
<1>2. CASE Commits(k) /\ todo'[k] = Tail(todo[k])
  <2>1. todo[k] # <<>>
    BY <1>2 DEF Commits
  <2>2. \A q \in Seq(Writes) : q # <<>> => ToSet(Tail(q)) \subseteq ToSet(q)
    BY ToSetTail
  <2> QED
    BY <1>1, <1>2, <2>1, <2>2
<1>3. CASE todo'[k] = <<>>
  <2>1. ToSet(<<>>) = {}
    BY DEF ToSet
  <2> QED
    BY <1>3, <2>1
<1>4. k \notin Lanes
  BY DEF Lanes
<1>5. ASSUME NEW s \in SoloTasks, TaskOf(s) = k, todo'[k] = handler(s.obj, s.cmd)
      PROVE  "RUN_ERROR" \notin ToSet(todo'[k])
  BY <1>5, SoloHandlers
<1> QED
  BY <1>1, <1>2, <1>3, <1>4, <1>5 DEF TodoMoves

(* What a round has been seen to report is taken from its queue. *)
LEMMA SawMoves ==
  ASSUME DispatchTypeOK, [DispatchNext]_allVars, NEW o \in Objects,
         "RUN_ERROR" \in saw'[o]
  PROVE  \/ "RUN_ERROR" \in saw[o]
         \/ \E l \in Lanes : l[1] = o /\ todo'[l] = <<"RUN_ERROR">>
<1> USE DEF DispatchTypeOK
<1>1. CASE UNCHANGED saw
  BY <1>1
<1>2. ASSUME NEW l \in Lanes, Takes(l), "RUN_ERROR" \notin saw[o]
      PROVE  l[1] = o /\ todo'[l] = <<"RUN_ERROR">>
  <2> DEFINE cmd == Head(inq[l[1]])
  <2>1. /\ saw' = [saw EXCEPT ![l[1]] = @ \cup ({cmd} \cap {"RUN_FINISHED", "INTERRUPT", "RUN_ERROR"})]
        /\ todo' = [todo EXCEPT ![l] = handler(l[1], cmd)]
    BY <1>2 DEF Takes
  <2> HIDE DEF cmd
  <2>2. l[1] = o /\ cmd = "RUN_ERROR"
    BY <1>2, <2>1
  <2>3. handler(l[1], "RUN_ERROR") = <<"RUN_ERROR">>
    BY DEF handler
  <2> QED
    BY <2>1, <2>2, <2>3, LaneIsTask
<1>3. CASE \E l \in Lanes : TaskStep(l) /\ ~ Takes(l)
  BY <1>1, <1>3 DEF TaskStep, TakesMalformed, GoesOn, Ends, dispatchVars
<1>4. CASE \/ \E x \in Runs : DoorStep(x) \/ close_with_terminal_event(x)
           \/ \E R \in SUBSET Runs : SweepStep(R)
           \/ \E k \in Tasks : Commits(k) \/ LosesWrites(k)
           \/ \E s \in SoloTasks : StartsOneShot(s) \/ EndsOneShot(s)
           \/ Start \/ Started \/ BrokerStep \/ UNCHANGED allVars
  BY <1>1, <1>4 DEF DoorStep, Create, Reopen, FindsServed, FindsOffline, Rejects, Enqueues,
     close_with_terminal_event, SweepStep, fail_stalled_runs, fail_stale_paused_runs, Commits,
     LosesWrites, StartsOneShot, EndsOneShot, Start, Started, BrokerStep, dispatchVars, allVars
<1>5. ~ Crash
  BY DEF Crash
<1> QED
  BY <1>2, <1>3, <1>4, <1>5 DEF DispatchNext

(* A handler that fails a run tells so, unless the run did. *)
LEMMA HandlerTells ==
  ASSUME NEW o, NEW cmd, "failed" \in ToSet(handler(o, cmd))
  PROVE  "RUN_ERROR" \in saw[o] \/ "RUN_ERROR" \in ToSet(handler(o, cmd))
<1>0. /\ ToSet(<<"failed", "RUN_ERROR">>) = {"failed", "RUN_ERROR"}
      /\ ToSet(<<Outcome(o)>>) = {Outcome(o)}
      /\ ToSet(<<"running">>) = {"running"} /\ ToSet(<<"cancelling">>) = {"cancelling"}
      /\ ToSet(<<"cancelled">>) = {"cancelled"}
      /\ ToSet(<<"RUN_ERROR", "failed">>) = {"RUN_ERROR", "failed"}
      /\ ToSet(<<"RUN_ERROR">>) = {"RUN_ERROR"} /\ ToSet(<<>>) = {}
  BY ToSetSmall, Zenon
<1>1. CASE cmd = "FinishStream"
  <2>1. handler(o, cmd) = handle_finish(o)
    BY <1>1 DEF handler
  <2>2. CASE Outcome(o) = "failed" /\ "RUN_ERROR" \notin saw[o]
    <3>1. handle_finish(o) = <<"failed", "RUN_ERROR">>
      BY <2>2 DEF handle_finish
    <3> QED
      BY <1>0, <2>1, <3>1
  <2>3. CASE Outcome(o) # "failed"
    <3>1. handle_finish(o) = <<Outcome(o)>>
      BY <2>3 DEF handle_finish
    <3> QED
      BY <1>0, <2>1, <2>3, <3>1
  <2> QED
    BY <2>2, <2>3
<1>2. CASE cmd # "FinishStream"
  <2>1. handler(o, cmd) \in {<<"running">>, <<"cancelling">>, <<"cancelled">>,
                             <<"RUN_ERROR", "failed">>, <<"RUN_ERROR">>, <<>>}
    BY <1>2 DEF handler, handle_cancel
  <2> QED
    BY <1>0, <2>1
<1> QED
  BY <1>1, <1>2

LEMMA NextErrorTold ==
  ASSUME RecordInv, ErrorInv, Failures \subseteq {"rejected"}, [DispatchNext]_allVars
  PROVE  ErrorTold'
<1> USE DEF RecordInv, ErrorInv
<1> SUFFICES ASSUME NEW r \in Runs,
                    \/ status'[r] = "failed"
                    \/ \E o \in Objects : o[1] = r /\ "RUN_ERROR" \in saw'[o]
                    \/ \E k \in Tasks : k[1][1] = r /\ "failed" \in ToSet(todo'[k])
             PROVE  Told(r)'
  BY DEF ErrorTold
<1>1. ASSUME Told(r) PROVE Told(r)'
  BY <1>1, ToldStays
<1>2. ASSUME NEW k \in Tasks, k[1][1] = r, "RUN_ERROR" \in ToSet(todo'[k]) PROVE Told(r)'
  BY <1>2 DEF Told
<1>3. CASE status'[r] = "failed"
  <2>1. RowMoves(r)
    BY EveryRowMoves
  <2>2. CASE status'[r] = status[r]
    BY <1>1, <1>3, <2>2 DEF ErrorTold
  <2>3. ~ Create(r) /\ ~ Reopen(r)
    BY <1>3 DEF Create, Reopen, DispatchTypeOK
  <2>4. ~ FindsOffline(r) /\ ~ Start /\ \A R \in SUBSET Runs : ~ SweepStep(R)
    BY DEF FindsOffline, Start, OnlyHandlersFail, SweepStep, fail_stalled_runs,
       fail_stale_paused_runs
  <2>5. ASSUME NEW k \in Tasks, Commits(k), k[1][1] = r, Head(todo[k]) = "failed"
        PROVE  Told(r)'
    <3>1. "failed" \in ToSet(todo[k])
      BY <2>5 DEF Commits, DispatchTypeOK, ToSet
    <3> QED
      BY <1>1, <2>5, <3>1 DEF ErrorTold
  <2> QED
    BY <1>3, <2>1, <2>2, <2>3, <2>4, <2>5 DEF RowMoves
<1>4. ASSUME NEW o \in Objects, o[1] = r, "RUN_ERROR" \in saw'[o] PROVE Told(r)'
  <2>1. CASE "RUN_ERROR" \in saw[o]
    BY <1>1, <1>4, <2>1 DEF ErrorTold
  <2>2. ASSUME NEW l \in Lanes, l[1] = o, todo'[l] = <<"RUN_ERROR">> PROVE Told(r)'
    <3>1. ToSet(<<"RUN_ERROR">>) = {"RUN_ERROR"}
      BY ToSetSmall, Zenon
    <3> QED
      BY <1>2, <1>4, <2>2, <3>1, LaneIsTask
  <2> QED
    BY <1>4, <2>1, <2>2, SawMoves
<1>5. ASSUME NEW k \in Tasks, k[1][1] = r, "failed" \in ToSet(todo'[k]) PROVE Told(r)'
  <2>0. TodoMoves(k) /\ todo[k] \in Seq(Writes)
    BY EveryTodoMoves DEF DispatchTypeOK
  <2>1. CASE "failed" \in ToSet(todo[k])
    BY <1>1, <1>5, <2>1 DEF ErrorTold
  <2>2. CASE Commits(k) /\ todo'[k] = Tail(todo[k])
    <3>1. todo[k] # <<>>
      BY <2>2 DEF Commits
    <3>2. \A q \in Seq(Writes) : q # <<>> => ToSet(Tail(q)) \subseteq ToSet(q)
      BY ToSetTail
    <3> QED
      BY <1>5, <2>0, <2>1, <2>2, <3>1, <3>2
  <2>3. todo'[k] # <<>>
    <3>1. ToSet(<<>>) = {}
      BY DEF ToSet
    <3> QED
      BY <1>5, <3>1
  <2>4. ASSUME NEW o, NEW cmd, o = k[1], todo'[k] = handler(o, cmd), o \in Objects
        PROVE  Told(r)'
    <3>1. CASE "RUN_ERROR" \in saw[o]
      BY <1>1, <1>5, <2>4, <3>1 DEF ErrorTold
    <3>2. CASE "RUN_ERROR" \in ToSet(todo'[k])
      BY <1>2, <1>5, <3>2
    <3> QED
      BY <1>5, <2>4, <3>1, <3>2, HandlerTells
  <2>5. k[1] \in Objects
    BY LaneIsTask
  <2>6. CASE k \in Lanes /\ todo'[k] = handler(k[1], Head(inq[k[1]]))
    BY <2>4, <2>5, <2>6
  <2>7. ASSUME NEW s \in SoloTasks, TaskOf(s) = k, todo'[k] = handler(s.obj, s.cmd)
        PROVE  Told(r)'
    BY <2>4, <2>5, <2>7, SoloHandlers
  <2> QED
    BY <1>5, <2>0, <2>1, <2>2, <2>3, <2>6, <2>7 DEF TodoMoves
<1> QED
  BY <1>3, <1>4, <1>5

(* Everything that has come to rest was told. *)
LEMMA RestIsTold ==
  ASSUME RecordInv, ErrorInv, NEW r \in Runs, status[r] = "failed", AtRest(r)
  PROVE  errors[r] > 0
<1>1. SUFFICES ASSUME NEW k \in Tasks, k[1][1] = r, "RUN_ERROR" \in ToSet(todo[k]) PROVE FALSE
  BY DEF ErrorInv, ErrorTold, Told
<1>2. todo[k] # <<>>
  <2>1. ToSet(<<>>) = {}
    BY DEF ToSet
  <2> QED
    BY <1>1, <2>1
<1>3. CASE k \in Lanes
  <2>1. lanes[k] \in Commands
    BY <1>2, <1>3 DEF RecordInv, TodoKnown
  <2> QED
    BY <1>1, <1>3, <2>1, BrokerAssumption DEF AtRest, RoundIsOver, Commands
<1>4. CASE k \notin Lanes
  <2>1. PICK s \in solo : TaskOf(s) = k
    BY <1>2, <1>4 DEF RecordInv, TodoKnown
  <2>2. s.obj[1] = r
    BY <1>1, <2>1 DEF TaskOf
  <2> QED
    BY <2>1, <2>2 DEF AtRest, RoundIsOver
<1> QED
  BY <1>3, <1>4

(* A run that its handlers record as failed carries a RUN_ERROR once they are
   done with it: its own, or the one that _handle_finish and _handle_fail append
   (requests.md).  The hypothesis is where this ends: a door that finds the agent
   offline appends none; a sweep may fail the row while the end of its stream is
   handled, so that nobody takes the Fail it pushes; a lost session or a stop of
   the process may come between the two commits. *)
THEOREM FailureIsTold ==
  ASSUME RoundsApart, Failures \subseteq {"rejected"}
  PROVE  DispatchSpec => []FailedHasError
<1>1. DispatchInit => RecordInv /\ ErrorInv
  <2>1. ASSUME DispatchInit PROVE ErrorInv
    <3>1. ToSet(<<>>) = {}
      BY DEF ToSet
    <3> QED
      BY <2>1, <3>1 DEF DispatchInit, ErrorInv, ErrorTold, CancelsTellNothing, OnlyHandlersFail
  <2> QED
    BY <2>1, InitRecordInv
<1>2. RecordInv /\ ErrorInv /\ [DispatchNext]_allVars => (RecordInv /\ ErrorInv)'
  BY NextRecordInv, NextErrorTold, NextCancelsTellNothing, NextOnlyHandlersFail
  DEF ErrorInv, RecordInv
<1>3. RecordInv /\ ErrorInv => FailedHasError
  BY RestIsTold DEF FailedHasError
<1> QED
  BY <1>1, <1>2, <1>3, PTL DEF DispatchSpec

=============================================================================
