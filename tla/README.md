# funduq, specified

These TLA+ modules specify funduq: the relay that sits between callers (AG-UI
and A2A) and agent providers, queues their runs, offers each run to the
provider that serves its agent, relays what the provider reports, and keeps the
record of how every run ended. `Broker`, `Dispatch`, `Roster`, `Kyok` and `Doors`
are models of the code in `src/funduq/funduq/`, `Runtime` of the provider SDK, and
`Identity` of what both make of signatures; `RunStatus` is the abstract promise
that `Dispatch` implements; the modules named `*Proofs` hold machine-checked
theorems.
`PROJECT.json` lists components, runs, mutants, the source lines behind every
definition, hazards, findings and theorems.

## 1. Inventory: the parts of the system

funduq is one asyncio process. All of its in-memory state is touched from one
event loop, so a step of the system is the code between two `await`s; everything
hard about it comes from what other tasks do *during* an `await`.

| Part | State it keeps | Operations | Modelled in |
|---|---|---|---|
| **Run broker** `broker.py` | `_runs`, `_pending_by_agent`, `_capacity`, `_handlers`, `_work_to_do`; per run: claim, cancel flag, `in_queue`, `out_queue` | `enqueue_run`, `register_provider`, `unregister_provider`, `run_forever` (expire, walk, offer, wait), `_offer`, `accept_late_ack`, `request_cancel`, `push`, `_pipeline`, `_one_shot`, `forget` | `Broker` |
| **Live roster, quality** `live_roster.py` | which connection serves a ref; four counters per key | `attach`, `withdraw`, `note`, `count` | `Broker`, `Roster` (partly) |
| **Command handlers** `handlers.py`, `pause.py` | the round's flags: `pause_payload`, `saw_run_finished`, `saw_run_error` | claim, relay, finish, cancel, fail | `Dispatch` |
| **Runs table and event log** `repo.py` | `runs.status`, `run_events` | `create_run`, `reopen_run`, `mark_run_status`, `_fail_runs` (three sweeps), `append_run_event` | `Dispatch`, `RunStatus` |
| **Health sweep** `health.py` | nothing of its own | `sweep_once`, `close_with_terminal_event` | `Dispatch` |
| **Process start** `core.py` | `_started` | reap orphans, close them, start broker and sweep | `Dispatch` |
| **AG-UI door** `protocols/agui.py` | the request in progress | create or reopen, serving check, build input, bind KYOK, enqueue | `Doors`, `Dispatch`, `Kyok` |
| **A2A door** `protocols/a2a.py` | the request in progress | `_start_run`, `send_task`, resubscribe, get, cancel | `Doors`, `Dispatch`, `Kyok` (partly) |
| **Registration and attachment** `core.py` `_Roster` | challenges, registered names, connections | `register`, `attach`, `detach`, `detach_all` | `Roster` |
| **Deletions** `core.py` | agent and offering rows | `delete_agent`, `delete_llm_offering` | `Roster`, `Kyok` |
| **KYOK relay** `kyok.py`, `protocols/kyok.py` | bindings by run, LLM connections, counters | bind, inherit, discard, `complete` | `Kyok` |
| **Caller streams** `broker.py` `_drain_run` | one `out_queue` per run | subscribe, resubscribe | `Doors` |
| **Threads** `repo.py` | `threads.head_key`, messages, lineage, queue limit | `ensure_thread`, `ensure_queue_room`, `append_thread_messages` | `Doors` (partly) |
| **Identity** `identity.py`, twice | none | sign and verify: chain, delegation, resolution, link | `Identity` |
| **Translation, reduction** `a2a_translate.py`, `agui_reduce.py` | none | pure functions of event lists | not modelled |
| **Provider SDK runtime** `funduq-provider-sdk` | jobs, tasks in flight, output queue, thread locks | `deliver`, `cancel`, `_run_jobs`, `_execute`, `_report_output`, `start`, `aclose`, `serialize_per_thread` | `Runtime` |
| **LLM provider SDK** | none | one async generator behind a link | its end, in `Kyok` |
| **Schema, migrations, settings, ids** | none | declarations | not modelled |
| **Probes** `scripts/probes` | none | measurement scripts | not modelled |

How they interact. A door commits a row (`create_run`, or `reopen_run` for the
answer to a paused run) and some awaits later calls `broker.enqueue_run`. The
broker's loop is the only caller of `deliver`; an accepted offer claims the run
and spawns its pipeline, which consumes the run's commands one at a time and
awaits a handler for each. The handlers write the row and the event log. The
provider reports events and the end of a run by run id, through
`report_event` and `finish_run`. Whatever has no pipeline (a refused, expired or
cancelled queued run) is settled by a one-shot task that calls the handler
directly. Both kinds of task end in `forget`, which frees the provider's place
and wakes the loop. Aside from all this the health sweep fails silent rows and
then tells the broker, and the start of the process fails the rows of the last
one.

What is hard:

* the room is checked before the await of `deliver`, and the claim made after it;
* an offer that timed out may have been taken: the provider then reports a run
  that is queued, being offered again, cancelled or gone;
* capacity is a counter with four writers (accept, late acknowledgement,
  decline, forget), kept under no lock and freed by run id;
* a run id outlives its `Run` objects: the answer to a pause files a new object
  under the id, and everything that names the id (queue entries, `forget`,
  handlers, provider reports) means whichever object is there now;
* a handler commits one statement at a time, and the sweep, a door or a crash
  can commit in between;
* the loop waits on an event which it clears itself;
* `attach`, `delete_*` and the doors each read, await and then write, over the same
  names, and nothing but the order of their awaits keeps them apart;
* a door holds a database session over several awaits; what other doors see of it,
  and which of them wait for it, is decided by which row it happens to write first;
* a provider's runtime is a queue of jobs, a set of tasks and a queue of output,
  and a task may be cancelled, before or after it has begun, while the runtime is
  closed and started around it;
* signing formats are implemented twice, in funduq and in the SDK, on purpose.

What makes each part correct is stated in section 4; section 7 has what is left
for later, with the hazard list in `PROJECT.json`.

## 2. Modules

| Module | What it is |
|---|---|
| `Broker` | the in-memory dispatcher; handlers take any time and are otherwise abstract |
| `MCBroker` | its instances for TLC |
| `BrokerProofs` | types, the allowance, wakeups; what the queue operators return and how queues move |
| `CapacityProofs` | the counter, the limit, one pipeline per run, no round lost |
| `RunStatus` | abstract: how a row's status may move, and that nothing is cancelled unasked |
| `Dispatch` | `EXTENDS Broker`: handlers, rows, doors, sweep, restart around it |
| `MCDispatch` | its instances for TLC |
| `DispatchProofs` | `EXTENDS CapacityProofs`: types, the refinement of `RunStatus`, and every other safety property of `Dispatch` |
| `Runtime` | the provider SDK's runtime, the other end of `deliver` |
| `MCRuntime` | its instance for TLC |
| `RuntimeProofs` | types and the three safety properties of `Runtime`, one theorem each |
| `Roster` | registering, attaching, detaching and deleting served names; has no specification of its own |
| `Kyok` | `EXTENDS Roster`: the LLM roster, runs' bindings and completions |
| `MCKyok` | its symmetry for TLC |
| `KyokProofs` | types and the six other properties of `Kyok`, one theorem each |
| `Identity` | signatures, chains, certificates, resolutions, the link handshake: operators only |
| `IdentityProofs` | what holds of them for any keys, and chains of any length |
| `Doors` | `EXTENDS Identity`: requests against threads, rows and streams |
| `MCDoors` | its instance for TLC |
| `DoorsProofs` | types, and what holds of everything callers present |
| `ThreadProofs` | the four properties of threads, one theorem each |

### Broker

The variables carry the names of the code where they have one; each is annotated
in the module. The central choices:

* **A Run object is `<<run_id, round>>`.** `enqueue_run` makes a new object under
  the same id whenever a paused run is answered. `tracked[r]` is the round filed
  in `_runs` (0: none). Queues, handlers and `forget` work by id, tasks by
  object, exactly as in the code; this is what makes stale tasks visible.
* **`claimed` is a set.** An `AgentRef` contains its provider's key and only that
  key can attach for it (`core.py`, `_Roster.attach`), so the claimant is always
  `Owner[AgentOf[r]]`.
* **Lanes.** A pipeline is started either by an accepted offer or by a late
  acknowledgement, so `<<object, "offer">>` and `<<object, "late">>` name every
  pipeline there can be. A lane's state is `get` (awaiting `in_queue.get`) or the
  command whose handler is running.
* **One-shots** (`solo`) are `spawned` or `handling`; they look their handler up by
  id when they start, and do without one if the id is gone.
* **The loop** is `top` (expire), `walk` with the agents still `toVisit` and the one
  it is `at`, or `asleep`. One `offer` can be out, because only the loop offers.
  The answer is a step of its own after the provider has taken the run, so
  everything else can fall between the two, a timeout included.
* **`working`** are the objects a provider took and has not ended. It survives
  timeouts, forgets and crashes of funduq: the provider does not know.
* **Time** is a choice: an offer may time out, `GracePasses` lets a queued run of
  an unserved agent outlive its grace, `Wake` covers both ends of the wait.

Behaviour that comes from outside is grouped in classes, and the constant
`Behaviours` selects which ones a model includes. That is not a way to hide
failures: each property below is stated with the classes it holds under, the
theorems say for which sets they hold, and the classes that break a property are
named in section 6.

### Dispatch

`Dispatch` keeps every action of `Broker` and puts the handlers inside the
pipeline's and the one-shots' steps. A handler decides everything before its
first `await` and then commits statement by statement; `todo[task]` is the
sequence of commits it has left, and a task goes on only when its `todo` is
empty. `mark_run_status` is the conditional UPDATE (`LegalFrom` is
`LEGAL_STATUS_TRANSITIONS`): a refused transition changes nothing. Of the event
log only the number of `RUN_ERROR`s is kept, to two; other events have no effect
but the flags of the round, kept in `saw`. A door is `opened` when its row is
committed, `served` once it has found the agent served, and `shut` when it has
enqueued, recorded `agent_offline`, or raised `InvalidRunInput`. The sweep's
commit and the terminal events it owes are separate steps (`closing`); the
restart does the same before the broker runs. `Crash` empties everything that
was in memory. Failures are classes too (`Failures`).

### RunStatus

What a reader of the runs table may rely on without knowing any of the above: a
row moves along the legal transitions only, a verdict stands, a paused run is
reopened once per answer, and `cancelling` or `cancelled` is never written
unless somebody asked to cancel the present round. `Dispatch` implements it
with `asked` mapped to the rows whose present round has its cancel flag set.

### Runtime

One action per coroutine step of `runtime.py`. `accepted` is a history (who was told
yes, in which order) and `reported` counts what the link was given; everything else
is the code's. Tasks are created in `starting` and begin in that order, because the
event loop's ready queue is FIFO; an `asyncio.Lock` wakes its waiters in order, which
is what `turns` says. A second round of a run is another element of `Runs`: to the
runtime it is a delivery like any other. An event counts, its content does not.

### Roster and Kyok

`Roster` is `_Roster` cut at its awaits: `attach` up to the read of the names,
`ReadsNames`, `Confirms` (which may refuse, or writes the names live); `register` and
`WithdrawOmitted`; `FindsUnused` and `DeletesRow`. Connections are told apart, so a
link that was replaced cleans up after itself (`Closes`) without being its
replacement. It is one key's roster: nothing is shared between keys. The agent roster
and the LLM roster are instances of the same class in the code; `Kyok` is the second
one, where "in use" means bound to a run. A run's life is `door`, `tracked`, `forget`,
and the two ways to a binding are `BindsAndEnqueues` (its own opt-in) and `Inherits`
(from a referenced run). A completion is `complete`, an await, `Relays`, `Counted`.

### Identity

A signature is the pair of a key and what it signed, a hash is what was hashed, and a
time is in date or expired: symbolic, as cryptography has to be here. What remains is
what the code adds: which key signs what, and what is rebuilt and compared on the
other side. Operators of the SDK and of funduq are written separately, in the shape
each side gives them.

### Doors

A request runs through `Arrives`, `ensure_thread`, then `Looks` and `reopen_run` (an
answer) or `ensure_queue_room` and `create_run` (an utterance), `StoresMessages`,
`Enqueues`, and reads a stream until `EndsStream`. The AG-UI door, the A2A door and
`start_run` share these actions and differ where `DoorOf` is looked at. `lock` is the
row lock a session takes with its first write on a thread's row, and gives up when it
commits or rolls back; an uncommitted thread is locked and absent. The broker's side
is reduced to what shows in rows and stream (`Claimed`, `Settles`, `Folds`,
`EndsStream`): its own races are `Broker`'s and `Dispatch`'s, and the two sides meet
in the assumption that an answer comes after the round that asked has ended
(`dispatch_early_answer` has what happens otherwise).

## 3. Bounds

| Bound | Where | Why it is enough |
|---|---|---|
| two runs, one provider with one place (`broker_*`) | `MCBroker` | contention for a place needs two runs; the second agent of `broker_claims` is there because withdrawal takes all agents of a key |
| one run (`dispatch_*`) | `MCDispatch` | every property there is about one row; runs meet only in the broker's queue and counters, which `broker_*` covers |
| `MaxRounds` 1 or 2 | guard of `enqueue_run`, `Reopen` | the second object is what a stale task of the first can hit |
| `MaxBacklog` 0 | guard of `report_event`, `FailStalled` | one command waits while another is handled; finish and cancel may queue behind it without bound, so up to three wait |
| one cancel per object | `request_cancel` | a second request pushes a second `RequestCancel`, which the pipeline handles the same way |
| quality counters stop at `Tolerance` | `note_abnormal` | beyond it every event withdraws alike; with no tolerance nobody reads them |
| `RUN_ERROR`s counted to 2 | `append_error` | none, one, more than one |
| `MaxCrashes` 1 | `Crash` | the properties are about what one restart owes the rows it finds |

| four runs, three on one thread, limit 2, queue 2, one event each (`runtime_runs`) | `MCRuntime`, `Yields` | three in line is one more than holder and first waiter; the fourth has no lock to wait for; a queue of 2 makes the excess over the limit visible |
| two offerings, links, challenges and runs, one completion (`kyok_relay`) | cfg | a replacement needs two links, a challenge answered twice two attaches, an inheritance two runs; a completion touches no other completion |
| a connection attaches once; one registration and one deletion at a time | guards in `Roster` | a provider that reconnects is another connection; the batches and deletions that follow one another are unbounded |
| one request through each door, one thread, queue limit 1, two pauses (`doors_threads`) | `MCDoors`, guard in `Settles` | three requests are what a question, its answer and an utterance that is too much need; two pauses tell a question from the next |
| chains of one or two hops (`Presentable`) | `Identity` | TLC's bound only: the theorems are about any length where they can be |

`broker_claims` and `broker_late` use the symmetry of the run ids (all runs are of
the same agent, and only safety and action properties are checked there);
`kyok_relay` that of offerings, links, challenges and runs, for the same reason. No
run with a liveness property uses symmetry.

## 4. Runs and properties

| Run | Properties | Classes included |
|---|---|---|
| `broker_claims` | `HeldIsCounted`, `AllowanceWithdraws` | decline, unanswered, late and early reports, detach, sweep, abandon; tolerance 2 |
| `broker_late` | `TypeOK`, `PlacesComeBack`, `RoundsAccountedFor`, `SingleConsumer` | unanswered, late reports, cancel, sweep, detach, abandon |
| `broker_rounds` | `LimitRespected`, `RoundsAccountedFor`, `NoMissedWakeup`, `EveryRoundEnds` | pauses and answers, cancel, refusal, expiry |
| `broker_offered_again` | `WaitingIsOffered`, violated | decline |
| `dispatch_record` | `DispatchTypeOK`, `ImplementsRunStatus`, `CancelIsObserved` | every failure class; cancel, refusal, abandon, answers also early |
| `dispatch_verdicts` | `EndMeansSettled`, `FailedHasError` | all report kinds, malformed events included; cancel, refusal, expiry, detach, abandon, answers |
| `dispatch_settles` | `ActiveIsTracked`, `RunsSettle` | crash, stall, stale pause, offline agent; cancel, refusal, expiry, abandon, answers |
| `runtime_runs` | `RuntimeTypeOK`, `WithinLimit`, `EndComesLast`, `TurnsInOrder`, `EveryRunEnds` | cancel of tasks that have begun; close with and without cancelling, restart |
| `kyok_relay` | `KyokTypeOK`, `NonceAdmitsOnce`, `OnlyAdmittedServe`, `InUseIsKept`, `BindingDiesWithRun`, `LinkKeepsItsNames`, `RelaysForLiveRuns` | none of `racing_delete`, `early_close`, `rejected` |
| `doors_threads` | `DoorsTypeOK`, `AnswerMeetsItsAsk`, `QueueWithinLimit`, `TurnsAlternate`, `ThreadKeepsItsMembers`, `CallersAnswered`, `SessionKeyKeepsItsHead`, `DoorsTakeWhatIsBuilt` | not `two_readers` |
| `dispatch_silent_failure` | `FailedHasError`, violated | stall only |
| `dispatch_early_answer` | `ActiveIsTracked`, violated | answers before the forget |

What they show:

* **Capacity.** `HeldIsCounted`: a place in use is never offered as free, in every
  class of behaviour there is. `LimitRespected`: no provider holds more runs than
  it declared. `PlacesComeBack`: the counter is exactly the number of held runs, so
  a place is neither leaked nor freed twice. `AllowanceWithdraws`: the event that
  spends the allowance takes the whole provider out of service in the same step.
* **No round is lost.** `RoundsAccountedFor`: an enqueued round has ended its
  stream or is in exactly the kind of place that will end it. `EveryRoundEnds`: it
  does end. `NoMissedWakeup`: the loop never sleeps on work it could place.
  `SingleConsumer`: one pipeline per run, on which the order of its events rests.
* **The record.** `ImplementsRunStatus`, as above, through crashes, lost writes,
  racing sweeps and doors. `CancelIsObserved`: a claimed run is recorded cancelled
  only by the handler that ends its stream. `EndMeansSettled`: when the stream has
  ended the row has its outcome, which is what `send_task` answers with.
  `FailedHasError`: a failed run tells its caller so. `ActiveIsTracked`: a row that
  promises a verdict has somebody who will bring it. `RunsSettle`: it gets one.

* **The provider's runtime.** `WithinLimit`: what executes stays within the declared
  limit plus the queue less one; with the default queue of one job, within the limit.
  `EndComesLast`: funduq hears of a run's end once and after everything else of the
  run, through cancels and restarts. `TurnsInOrder`: a serialized thread's runs take
  turns in the order they were accepted, whoever is cancelled in line.
  `EveryRunEnds`: an accepted run is ended towards funduq.
* **The roster.** `NonceAdmitsOnce`, `OnlyAdmittedServe`: what serves has been through
  the handshake, by a challenge of its own. `LinkKeepsItsNames`: the cleanup of a
  replaced link does not take its replacement down. `InUseIsKept`: what is served or
  bound has not been deleted.
* **Keep your own key.** `BindingDiesWithRun`: no binding outlives its run, or its
  offering could never be deleted. `RelaysForLiveRuns`: a completion reaches an LLM
  provider only for a run that is live, and on the link that serves its offering at
  that moment, although the run was looked up an await before.
* **Threads.** `ThreadKeepsItsMembers`: a thread is bound at birth or never, and its
  runs are its head's or its provider's. `AnswerMeetsItsAsk`: an answer that was
  verified against one question does not reopen the run at the next.
  `QueueWithinLimit`: doors that count at the same time do not overshoot.
  `TurnsAlternate`: a prompt is never stored before the reply it answers.
  `CallersAnswered`: every request is refused, answered, or its stream ends.
* **Identity.** `DoorsTakeWhatIsBuilt`: of everything a request still to come can
  present, funduq and the SDK take exactly what the SDK builds (`VerifiedIsBuilt`).
  `SessionKeyKeepsItsHead`: the door and the resolution of an ask, which compute it
  separately, agree on whom a session key speaks for: whoever is let in under the head of
  a paused run can answer it.

Each property of a passing run has a mutant in `PROJECT.json`: a variant of one
definition, written next to it and marked `Mutant` in its comment, under which
TLC finds the property violated. They are plausible slips (a dropped guard, an
event cleared at the wrong end of the walk, a reset counter, an unguarded
reopening, which is what `Funduq.resume_run` does) and show that the property
depends on the code it is about.

### Deadlock and fairness

Deadlock is checked in every run but `doors_threads`. It never occurs in the others:
the broker's loop can always wake up, a runtime can be closed and started again, and
a provider can register. In `doors_threads` every request comes once, so that when all
have ended there is nothing left to do; that nobody is stuck before is
`CallersAnswered`. The liveness runs use `FairSpec` and `DispatchFairSpec`:

* every task of the event loop that can run does: the loop's steps, each
  pipeline, each one-shot, each commit of a handler, each step of a door
  (asyncio's ready queue is FIFO);
* an offer is answered or times out (`asyncio.timeout` around `deliver`);
* clocks pass: the grace of an unserved agent, the stall timeout of a silent row
  (`run_health_sweeps_forever` comes round every interval), the wait of the loop;
* a provider that has taken a run ends it: `_execute` enqueues its end marker in a
  `finally`, whatever the agent does. `Runtime` has this in detail (`EveryRunEnds`);
  it holds for tasks that have begun. Where the class `abandon` lets a provider
  lose a run, it may escape this, and the stall sweep is what settles the row;
* a process that stopped is started again;
* in `Runtime`: both loops and every new task run, and an agent's stream comes to an
  end once it is the thread's turn. `EveryRunEnds` supposes in addition that the
  runtime is running in the end, since `aclose` leaves jobs and output where they are;
* in `Doors`: the steps of a request that has arrived, and of the broker as the rows
  show it. That every tracked run is claimed or failed and then settled is
  `EveryRoundEnds` and `RunsSettle` of the other modules, taken here as a premise. A
  row lock is held over finitely many steps that are fair themselves.

Nothing is assumed of callers, connections or failures. Weak fairness is enough
throughout: none of these steps is disabled again and again by somebody else,
except by connections that keep coming and going; hence `EveryRoundEnds` is
checked without the class `detach` (a provider that flaps faster than the loop
walks can keep a run queued for ever, each attachment restarting its grace).

## 5. What is proved

Every safety invariant and action property of every passing run is stated by a
theorem. Where a theorem has a hypothesis, it names classes of behaviour or failure that
are left out, and says nothing of the size of anything. Most of them break the property
(section 6); the theorems on `Dispatch` also leave out those without which the invariant
of the proof is lost, `RoundsApart`.

`Broker`'s constants need only `BrokerAssumption`: finitely many runs, any sets of
agents and providers, any limits, tolerance and number of rounds, and names of reports
that are neither commands of funduq's own nor states of a lane.

* `BrokerProofs!TypeCorrect`: `Spec => []TypeOK`. Not free: that `inFlight` stays
  a natural number rests on the guard in `forget`, and that the object of an offer
  is one that was filed rests on `FromFirstOfferable` stopping at a tracked run;
  `MinIsMember`, `RemoveFirstIsSeq`, `FromFirstOfferableIsSeq` and `HeadIsOfferable`
  say what the queue operators return.
* `CapacityProofs!CountCoversHeld`: `Spec => []HeldIsCounted`, with **every** class
  of behaviour allowed, those TLC cannot exhaust included (a cancel during an
  offer leaks a place each time, and the counter then grows without bound).
  `HeldIsCounted` is not inductive alone: when `enqueue_run` files a new object, the
  proof has to know that it is not claimed yet. `RoundsBegun` supplies it: objects
  that are filed, claimed or offered belong to a round that has begun, and a new
  object's has not. `CountInv == TypeOK /\ RoundsBegun /\ HeldIsCounted` is the
  inductive invariant. Its steps rest on three lemmas on cardinalities: a set of
  held runs that only shrinks keeps the count, a claim adds at most the one run the
  counter was raised for, a `forget` that frees a place removes a held run.
* `CapacityProofs!LimitKept`: without `late_report` and `early_report`,
  `Spec => []LimitRespected`. The argument is the one of
  `docs/core-components/dispatch.md`, "one deliverer": `RoomIsKept` says the counter
  never exceeds the limit and, *while an offer is out*, stays below it, since
  between the check and the claim only forgets (which lower it) and declines (which
  end the offer) can happen. `QueuesAreOwn` is needed for it: the run offered is of
  the agent whose provider's room was checked. With late acknowledgements the
  statement is false, by design: `accept_late_ack` counts a run the provider is
  already executing, room or no room.
* `BrokerProofs!AllowanceSpentWithdraws`: `Spec => AllowanceWithdraws`, every class.
* `BrokerProofs!SleepsOnNoWork`: `Spec => []NoMissedWakeup`, without `unanswered`, and
  with `decline` only where every provider declares a limit (a decline then takes its
  room away). `NothingMissed` strengthens it to the walk: an agent the walk has passed
  has nothing that could be placed, or the event is set. This is what `_work_to_do.clear()`
  before the walk is for; set after it, the invariant is lost at the first agent.
  Whatever else brings work sets the event.
* `CapacityProofs!OneConsumer`: without `early_report`, `Spec => []SingleConsumer`.
  `LineInv` describes the line of runs in front of the claim: a run is in one queue and
  in it once, what is queued or offered is unclaimed, the offer that is out is at the
  head of its queue, and what has a pipeline is claimed. Acceptance and late
  acknowledgement both claim, so whichever comes second finds the claim made.
* `CapacityProofs!NoRoundIsLost`: `Spec => []RoundsAccountedFor` under `RoundsApart`:
  without `early_report`, `cancel_offered` and `resume_early`, and not `resume` together
  with `late_report`. Each of these lets a task of one round forget the next, or a
  second task take a run that has one. `AccountInv` pairs every filed round with the task
  that will end it, and every task with the round it is about (`LanesOver`, `SoloKnown`):
  since `forget` goes by id, the proof has to know that the object filed under the id is
  the one whose task is ending. `AllFiled` adds that nothing else unfiles a round.
* `CapacityProofs!CountIsExact`: `Spec => []PlacesComeBack` under `RoundsApart` and
  without `decline`. `HeldIsCounted` is one direction; the other, `PlacesAreHeld`, needs
  `AccountInv`, so that the `forget` that removes a held run is the one that gives its
  place back.

`Dispatch` needs `DispatchAssumption` too (known failures, known reports, any number of
crashes). Its invariants rest on those of `Broker`: a step of `Dispatch` is a step of
the broker with commits beside it, a commit, or a crash that empties the broker.

* `DispatchProofs!DispatchTypeCorrect`: `DispatchSpec => []DispatchTypeOK`, every class
  of behaviour and failure.
* `RecordIsKept`: `DispatchSpec => ImplementsRunStatus` under `RoundsApart`, every class
  of failure. Initial states map to initial states, and `RecordStep` maps each step to
  one of `RunStatus` or a stutter. `RecordInv` supplies what the mapping needs: a commit
  of `cancelling` or `cancelled` is only ever pending for an object whose cancel flag is
  set, whether it is still a command in a queue or already in `todo` (`CancelsAsked`);
  commits are left only to a handler that a task is awaiting (`TodoKnown`); and while a
  door is open its row is queued and no task of the run is under way (`DoorsAreIdle`). The run
  `dispatch_record` includes `resume_early` as well, which TLC finds harmless here
  and the theorem leaves out: without `RoundsApart`, `AccountInv` does not hold.
* `CancelWaitsForTheEnd`: `DispatchSpec => CancelIsObserved`, under `RoundsApart` and
  without `late_report`, every class of failure. Besides `RecordInv` it needs that a
  pipeline whose next commit is `cancelled` is handling the end of the stream
  (`CancelSeen`), and that a one-shot is of an unclaimed object (`SoloKnown`).
* `NoRowIsLeftBehind` (`ActiveIsTracked`) and `OutcomeIsThere` (`EndMeansSettled`), under
  `VerdictsArrive`: `RoundsApart`, no late reports, no lost writes, no rejected input;
  crashes, stalls, stale pauses and offline agents allowed. One invariant serves both,
  `SettleInv`. A row is unsettled until a *terminal* handler is done with it, and the
  commits such a handler has left always end in a verdict that the row will take from
  whatever state it is in, sweep and crash included (`PipelineSettles`, `OneShotSettles`,
  `StartSettles`). `ClaimFirst` is what makes the verdict legal: the first command of a
  pipeline is its `Claim`, so that a queued row is running before it can complete.
* `FailureIsTold` (`FailedHasError`), under `RoundsApart` and with no failure but
  `rejected`: where only handlers fail rows, whoever writes `failed` has a `RUN_ERROR`
  in the same `todo`, or has seen the run report its own (`ErrorInv`). TLC finds
  the property violated with each of the other five failures by itself.

`Kyok` needs `RosterAssumption` and `KyokAssumption` (sets of names, connections,
challenges, runs and calls, of any size):

* `KyokProofs!TypeCorrect`, with every class allowed.
* `ChallengeAdmitsOnce`, every class. `NonceAdmitsOnce` is strengthened by `NoncesAreSpent`:
  the challenge of an attach that got past it is gone, so the next attach that names it
  is refused.
* `LinksKeepTheirNames`, every class, `early_close` and `racing_delete` included: the
  compare and the withdrawal of `detach` are one step.
* `AdmittedServe`, without `early_close`; `UseIsKept`, without `racing_delete`;
  `BindingDies` and `CompletionsOfLiveRuns`, without `rejected`. The inductive
  invariant of `UseIsKept` adds what the awaits leave open (`FindingsHold`): while a
  deletion waits, its name is neither served nor bound and nothing else is under way;
  the names an attach has read, and the offering a door wants, have their rows.

`Runtime` needs `RuntimeAssumption` (finitely many runs, any threads, limit, queue):

* `RuntimeProofs!TypeCorrect`, both classes.
* `LimitKept`: `Spec => []WithinLimit`, both classes. A queued job was let in with
  a place to spare among the tasks and another in the queue, and a task that starts only
  moves it; the invariant `RoomForJobs` is that tasks in flight and jobs *together* do
  not exceed limit and queue length less one.
* `EndIsLast`: `Spec => []EndComesLast`, both classes. `EndInv` counts: the events of a run
  that were reported and those still in the output queue are those it yielded; its end is
  put once, when it has left both jobs and tasks, and nothing of the run is queued behind
  it. Folding the queue into counts needs one lemma each for what a put and a take do.
* `TurnsAreInOrder`: `Spec => []TurnsInOrder`, both classes. `TurnInv` says that the order
  of `accepted` is kept through every stage: jobs, tasks yet to begin and each thread's
  line are in that order, and whoever is a stage further was accepted earlier
  (`StagesInOrder`). A cancel takes a run out of the middle of a line, which leaves the
  others in order.

`Identity` has no behaviour; its theorems are about its operators, for any `Keys`:

* `TwinsAgree`: `verify_chain` and `verify_actor_chain` accept the same chains, of any
  length, whatever hops and signatures they are made of. `ExtensionVerifies`: a chain
  that verifies and is extended verifies with the same head.
* `OnlyBuiltChainsVerify`: `VerifiedIsBuilt`, chains of one or two hops. `PinsHold`: a
  link opens exactly if it is pinned to no funduq or to the one it meets. The handshake
  has no step in a model, so that only the proof says so. It uses `NoneAssumption`: that
  what is signed or built is not mistaken for its absence.

`Doors` needs `DoorsAssumption`: finitely many requests of any doors, any threads and
callers, whose effective heads are keys, any limit. All that is checked but
`CallersAnswered` is proved, with `two_readers` allowed:

* `DoorsProofs!TypeCorrect`: a request under way has its thread, one with a run its run.
  `SessionKeysAgree` and `DoorsTakeBuilt` need no invariant of the rows: they hold of
  any keys and certificates, through `NoneAssumption` and `OnlyBuiltChainsVerify`.
* `ThreadProofs!AnswersMeetTheirAsks`. The invariant is `Sessions`: a request that has
  found a thread holds the lock on its row until it commits, unless its answer came late,
  and what it saw stays: the run is of the thread it locked, paused or failed since, at
  the question it saw. Nobody else can reopen it, for two requests that saw runs of one
  thread would hold the same lock.
* `QueuesStayWithinLimit` adds `Room`: who has counted under the lock counts below the
  limit until it creates its run, since no step but a creation adds an utterance to a
  queue, what is reopened having asked before.
* `ThreadsKeepTheirMembers` adds `Members`: a row is on a thread that is there, and who
  holds a thread is creating it or may write to it. Being an action property, it is
  proved from `Members` before and after the step.
* `TurnsTakeTurns` adds `Turns`: a run between its row and the broker is loaded by one
  request only (`LoadsAlone`), queued and untracked; until the reply is folded in, the
  run is tracked, so that no answer sees it; a paused run that is not has its reply last.

Only model-checked: liveness (`EveryRoundEnds`, `RunsSettle`, `WaitingIsOffered`,
`EveryRunEnds`, `CallersAnswered`), since rules for fairness and `ENABLED` are beyond the
proof system; and `ImplementsRunStatus` and `CancelIsObserved` with `resume_early`.

## 6. Where the code and its documents part

Three runs end in a violation, each a statement of the repository's documents
that the code does not keep:

1. **`broker_offered_again`.** `docs/mechanisms/requests.md:18-20`: a declined run is
   offered again for as long as the agent has a provider attached. A decline by a
   provider with room sets its in-flight count to its limit (`broker.py:455`), and
   only the end of a run it holds lowers the count. A provider that declines once
   while idle holds none: it is never offered anything again.
2. **`dispatch_silent_failure`.** `requests.md:76-77`: a failed run that never emitted
   its own `RUN_ERROR` gets one. The sweep commits `failed`, then pushes `Fail`
   (`health.py:29`) into the queue of a pipeline that is already handling
   `FinishStream`; the pipeline ends, nobody reads the `Fail`, and the run is failed
   with no event.
3. **`dispatch_early_answer`.** `dispatch.md:128-131` says what must not happen: a run
   left `queued` for ever. A pause is answered after its handler committed
   `input-required` and before its pipeline's `forget`; the `forget` is by id
   (`broker.py:641`) and drops the new round.

Met while modelling, and listed as hazards rather than run:

* Which classes break which property. `PlacesComeBack` and `SingleConsumer` do not
  survive `early_report` (a provider that reports before its acceptance was
  processed has the run claimed twice); `PlacesComeBack` also not a decline by a
  provider with a limit (1. above), nor a cancel during an offer (the one-shot
  forgets the object, the acceptance then counts a place for it).
  `RoundsAccountedFor` does not survive `resume_early` (3. above).
  `NoMissedWakeup` does not hold with `unanswered`, nor with a `decline` by a provider
  that declared no limit: the loop then sleeps until an event or the timeout, as
  intended. `EveryRoundEnds` with late
  reports: `finish_run` of a run that is not claimed is dropped.
* `CancelIsObserved` fails when a cancel of a queued run races its claim: the
  one-shot records `cancelled` for a run a provider has taken
  (against `requests.md:39-40`).
* With a crash, a lost write or an offline agent `FailedHasError` fails as well: the
  commit and the event are two statements, the next reap does not look at failed
  rows, and the doors record `agent_offline` without an event in the log. A stale pause
  is 2. again: the sweep fails a paused row whose pipeline has not reached its `forget`
  yet, which takes a pause timeout shorter than that stretch.
* With lost writes or a rejected input `ActiveIsTracked` fails: the row stays
  `queued`, and only a restart settles it.
* `requests.md:84-90` describes the paused run failed without an event as a known
  gap; `health.py` appends one, so the gap is closed and the text stale.
  `requests.md:11-14` still speaks of one turn per thread, which `dispatch.md` and
  the code gave up. `docs/mechanisms/quality.md:29` says a counter has no
  consequence; `_note_abnormal` withdraws the provider when a tolerance is set.
* Provider SDK. `_execute`'s docstring (`runtime.py:119-120`) promises the terminal marker
  even on cancellation. A task that is cancelled before its first step never enters the
  body, and no marker is put (class `early_cancel`); funduq settles the run by the stall
  sweep. A cancel of a job that is still queued does nothing, a run id that is delivered
  again while it executes takes the first task's place in `_in_flight`, and an item that
  `_report_output` has in hand while its link awaits is lost when the runtime closes:
  the in-process link never awaits, so `Runtime` does not have the last one.
* Roster. A deletion and an attach, or a door, that overlap can leave a served name or a
  bound offering without its row (class `racing_delete`; `identity.md:48-49` says a
  deletion is refused while the name is in use). A link that closes during its attach
  goes live afterwards (`early_close`), and of two overlapping attaches the slower one
  ends up serving although it began first. A name a registration omitted can be attached
  again without being registered again, its row being kept (`core.py:530-532` says it
  stays offline until it is). An error in the `touch` after `write_live` raises from an
  attach whose names are live.
* KYOK. The binding of a run that is rejected after it inherited (class `rejected`) is
  never discarded. A cancel during the await of `_verify_caller` does not stop the
  completion it races (`requests.md:100-103` says such calls are refused).
* Doors. `repo.py:738-740` calls the count of queued runs unlocked and expects an overshoot
  by one; the bump of `last_activity_at` in the same session locks the thread's row, and
  `QueueWithinLimit` holds, the mutant without the bump aside. Only an A2A answer that
  came late has given the lock up when it counts. The same lock is all that keeps
  `AnswerMeetsItsAsk`.
* A request that is cancelled, or whose input does not build, leaves a queued row that
  nobody dispatches. An AG-UI answer on a thread nobody has seen returns the snapshot of a
  thread its session then rolls back. Of two readers of one stream one never sees its
  end (class `two_readers`). `send_task` reads the row after the stream has ended
  (`a2a.py:192`), by when the next round may have begun, and reports that round's
  status.
* `reduce_events_to_messages` appends a `TOOL_CALL_RESULT` as often as it is reported.
* A run that reported its own `RUN_ERROR` and is then failed by a malformed event or
  the sweep gets a second one: `_handle_fail` always appends.

## 7. Plan

Order of work, most important behaviour first. Done:

1. `Broker`: dispatch, claims, capacity, queues.
2. `BrokerProofs`, `CapacityProofs`: types, the counter, the limit.
3. `RunStatus`: the abstract status machine.
4. `Dispatch`: handlers, doors, sweep, restart; refinement of `RunStatus` by TLC.
5. `Runtime`, `RuntimeProofs`: the provider SDK's side of a run.
6. `Roster`, `Kyok`, `KyokProofs`: the ceremony, deletions, bindings and completions.
7. `Identity`, `Doors`, `IdentityProofs`: chains and certificates, threads and streams.
8. `DoorsProofs`, `ThreadProofs`: every safety property of `Doors`.
9. `RuntimeProofs`: `EndComesLast`, `TurnsInOrder`.
10. `BrokerProofs`, `CapacityProofs`: every safety property of `Broker`.
11. `DispatchProofs`: every safety property of `Dispatch`, the refinement among them.

Next, all of it proof, by weakening hypotheses:

12. `RecordIsKept` and `CancelWaitsForTheEnd` with `resume_early`, which needs an account
    of the tasks of a round that outlive it in place of `AccountInv`.
13. `OutcomeIsThere` with late reports, where rounds do not resume.

## 8. Not modelled, and why

* The mathematics of signatures, tokens and hashes, JSON and database encodings: `Identity`
  takes a signature to be who signed what, and what does not parse is refused before it.
* Translation to A2A and the reduction of events to messages: pure functions whose
  result is wording and layout no other part reads.
* `delete_agent`'s refusals by history, which come after the checks that are modelled; an
  agent row with history is never deleted.
* The completion's counters and `LlmProviderQuality`: written, and read by nobody here.
* Listings and snapshots of records: reads.
* The content of events and messages, and folding events into thread messages:
  data; only the events that decide an outcome are told apart.
* Several funduq processes on one database. The conditional updates are written
  with that in mind, but the broker's state is per process and `Funduq.start` fails
  every unsettled row it finds, so the code supports one.
* Exceptions inside the broker's own loop: they are logged, and the loop sleeps and
  starts over from the top; no operation it calls is known to raise there.
* Fail and stop of the database as a whole, beyond the lost write of a handler.
* Schema, migrations, settings, probes.
