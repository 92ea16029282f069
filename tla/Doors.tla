------------------------------- MODULE Doors -------------------------------
(***************************************************************************)
(* What a caller's request does to a thread: the AG-UI and A2A doors       *)
(* (protocols/agui.py, protocols/a2a.py) and Funduq.start_run, the thread  *)
(* and run rows they read and write (repo.py), and the stream they read    *)
(* until it ends (broker.py).                                              *)
(*                                                                         *)
(* Each stretch between two awaits is a step.  A request's first write, on *)
(* the row of its thread, locks that row until the session commits or      *)
(* rolls back; where the database locks more, less can happen.  The broker *)
(* is reduced to what the rows and the stream show of it: Broker and       *)
(* Dispatch have the rest, and what happens when a question is answered    *)
(* before the round that asked it has ended, which does not happen here.   *)
(* What callers present is verified by Identity, a resolution with the     *)
(* certificate that comes with it; from then on a caller is the effective  *)
(* head of its chain, or None.  Ids are minted: a thread's is an element   *)
(* of Threads, a run goes by the request that creates it.  Bounds: one     *)
(* request for each element of Requests, MaxAsks pauses of a run.          *)
(***************************************************************************)
EXTENDS Identity, FiniteSets

CONSTANTS
  Requests,
  DoorOf,        \* "ag-ui", "a2a" or "start_run"
  Threads,
  Callers,       \* the chains and certificates that are presented
  Resolutions,   \* the resolutions and certificates that are presented
  Provider,      \* the key that serves the agent
  QueueLimit,    \* thread_queue_limit
  MaxAsks,       \* bound: how often a run pauses
  DoorClasses    \* which outside behaviours a model includes

ASSUME DoorsAssumption ==
  /\ DoorOf \in [Requests -> {"ag-ui", "a2a", "start_run"}]
  /\ IsFiniteSet(Requests)
  /\ None \notin Requests \cup Threads
  /\ "absent" \notin Keys \cup {None}
  /\ Provider \in Keys
  /\ \A c \in Callers : Admits(c.chain, c.delegation) =>
       EffectiveHead(c.chain, c.delegation) \in Keys \cup {None}
  /\ QueueLimit \in Nat \ {0} /\ MaxAsks \in Nat
  /\ DoorClasses \subseteq {"two_readers"}  \* a stream is subscribed to twice

VARIABLES
  lock,      \* the request whose transaction has written each thread's row
  threads,   \* threads.head_key: a head, None when unbound, or "absent"
  status,    \* runs.status
  row,       \* thread_id and head_key of each run; late: see reopen_run
  asks,      \* how often each run has paused
  log,       \* thread_messages of each run: which side's they are
  folding,   \* settled rounds whose reply is still to be stored
  tracked,   \* runs the broker has a stream for
  req        \* what each request has done and knows

vars == <<lock, threads, status, row, asks, log, folding, tracked, req>>

Statuses == {"none", "queued", "running", "input-required", "completed", "failed"}
Waiting == {"arrived", "ensured", "saw", "counted", "stored", "committed", "streaming", "stranded"}
Ended == {"answered", "refused", "left"}

At(step) == [step |-> step, kind |-> "utterance", thread |-> None, head |-> None,
             run |-> None, ask |-> 0]

Init ==
  /\ lock = [t \in Threads |-> None]
  /\ threads = [t \in Threads |-> "absent"]
  /\ status = [r \in Requests |-> "none"]
  /\ row = [r \in Requests |-> [thread |-> None, head |-> None, late |-> FALSE]]
  /\ asks = [r \in Requests |-> 0]
  /\ log = [r \in Requests |-> <<>>]
  /\ folding = {}
  /\ tracked = {}
  /\ req = [q \in Requests |-> At("idle")]

Goes(q, step) == req' = [req EXCEPT ![q].step = step]
Ends(q, step) == req' = [req EXCEPT ![q] = At(step)]
Readers(r) == {q \in Requests : req[q].step = "streaming" /\ req[q].run = r}

-----------------------------------------------------------------------------
(* Sessions *)

Unlocked(q) == [t \in Threads |-> IF lock[t] = q THEN None ELSE lock[t]]

(* A thread created in this session, bound to its creator's head at birth. *)
Commit(q) ==
  /\ lock' = Unlocked(q)
  /\ threads' = [t \in Threads |->
       IF lock[t] = q /\ threads[t] = "absent" THEN req[q].head ELSE threads[t]]

Refused(q) == Ends(q, "refused") /\ lock' = Unlocked(q)

(* Mutant: the session is left open behind the snapshot. *)
Snapshot_keeps_session(q) == Ends(q, "answered") /\ UNCHANGED lock

(* ThreadSnapshot: the session has written nothing else, and rolls back. *)
Snapshot(q) == Ends(q, "answered") /\ lock' = Unlocked(q)

-----------------------------------------------------------------------------
(* The rows as a statement sees them *)

OnThread(t, s) == {r \in Requests : row[r].thread = t /\ status[r] = s}

(* Of several, the code takes the one created last. *)
Paused(t) == OnThread(t, "input-required") \ tracked

(* Mutant: an anonymous caller may write to a thread that is bound. *)
MayWrite_anonymous(q, t) == threads[t] \in {None, req[q].head} \/ req[q].head \in {None, Provider}

(* ThreadMembershipRequired for anyone else. *)
MayWrite(q, t) == threads[t] \in {None, req[q].head} \/ req[q].head = Provider

(* ensure_queue_room *)
HasQueueRoom(t) == Cardinality(OnThread(t, "queued")) < QueueLimit

-----------------------------------------------------------------------------
(* A request up to the run's row *)

(* An A2A answer names a run, an AG-UI answer its thread; start_run has
   neither chains nor answers.  A thread that is not there is to be created.
   verify_caller comes before anything is written. *)
Arrives(q, kind, t, c, r) ==
  /\ req[q].step = "idle"
  /\ threads[t] = "absent" => \A p \in Requests : req[p].thread # t
  /\ DoorOf[q] = "start_run" => c.chain = None /\ kind = "utterance"
  /\ IF DoorOf[q] = "a2a" /\ kind = "answer"
     THEN r # None /\ status[r] # "none" /\ row[r].thread = t
     ELSE r = None
  /\ IF Admits(c.chain, c.delegation)
     THEN req' = [req EXCEPT ![q] = [step |-> "arrived", kind |-> kind, thread |-> t,
            head |-> EffectiveHead(c.chain, c.delegation), run |-> r, ask |-> 0]]
     ELSE Ends(q, "refused")
  /\ UNCHANGED <<lock, threads, status, row, asks, log, folding, tracked>>

(* The input does not parse, names an offering, thread or agent that is not
   there or another agent's thread, or the caller goes away. *)
TurnedAway(q) ==
  /\ req[q].step = "arrived"
  /\ Ends(q, "refused")
  /\ UNCHANGED <<lock, threads, status, row, asks, log, folding, tracked>>

(* Mutant: the row of a thread that is there is read and not written. *)
ensure_thread_reads(q) ==
  LET t == req[q].thread
  IN /\ req[q].step = "arrived"
     /\ IF threads[t] = "absent"
        THEN Goes(q, "ensured") /\ lock' = [lock EXCEPT ![t] = q]
        ELSE UNCHANGED lock /\ IF MayWrite(q, t) THEN Goes(q, "ensured") ELSE Ends(q, "refused")
     /\ UNCHANGED <<threads, status, row, asks, log, folding, tracked>>

(* The thread is created, which nobody sees before the commit, or its
   last_activity_at written. *)
ensure_thread(q) ==
  LET t == req[q].thread
  IN /\ req[q].step = "arrived"
     /\ IF threads[t] = "absent" \/ MayWrite(q, t)
        THEN lock[t] = None /\ Goes(q, "ensured") /\ lock' = [lock EXCEPT ![t] = q]
        ELSE Ends(q, "refused") /\ UNCHANGED lock
     /\ UNCHANGED <<threads, status, row, asks, log, folding, tracked>>

(* Mutant: what was looked up is reopened in a session of its own. *)
Saw_commits(q, r) ==
  /\ req' = [req EXCEPT ![q].step = "saw", ![q].run = r, ![q].ask = asks[r]]
  /\ lock' = Unlocked(q)

(* The question found stays with the request, and so does the lock. *)
Saw(q, r) ==
  /\ req' = [req EXCEPT ![q].step = "saw", ![q].run = r, ![q].ask = asks[r]]
  /\ UNCHANGED lock

(* An answer looks for its ask, and whoever answers a chained ask shows a
   resolution signed by its head or the provider.  With no ask there, AG-UI
   has nothing to do with an answer and A2A takes it for an utterance. *)
Looks(q) ==
  LET t == req[q].thread
      found == IF DoorOf[q] = "a2a" THEN {req[q].run} \cap Paused(t) ELSE Paused(t)
      Verified(r) == {g \in Resolutions :
        verify_resolution(g.resolution, r, {row[r].head, Provider}, g.delegation)}
  IN /\ req[q].step = "ensured" /\ req[q].kind = "answer"
     /\ \/ \E r \in found :
             \/ /\ row[r].head # None => Verified(r) # {}
                /\ Saw(q, r)
             \/ row[r].head # None /\ Verified(r) # Resolutions /\ Refused(q)
        \/ found = {} /\ DoorOf[q] = "ag-ui" /\ Snapshot(q)
        \/ /\ found = {} /\ DoorOf[q] = "a2a"
           /\ req' = [req EXCEPT ![q].kind = "utterance"] /\ UNCHANGED lock
     /\ UNCHANGED <<threads, status, row, asks, log, folding, tracked>>

(* The conditional update, committed.  An answer that is late goes on, without
   the lock, as an utterance (A2A), or no further (AG-UI). *)
reopen_run(q) ==
  LET r == req[q].run
  IN /\ req[q].step = "saw"
     /\ \/ /\ status[r] = "input-required"
           /\ status' = [status EXCEPT ![r] = "queued"]
           /\ req' = [req EXCEPT ![q].step = "stored", ![q].ask = 0]
        \/ /\ status[r] # "input-required"
           /\ UNCHANGED status
           /\ \/ DoorOf[q] = "ag-ui" /\ Ends(q, "answered")
              \/ /\ DoorOf[q] = "a2a"
                 /\ req' = [req EXCEPT ![q].step = "ensured", ![q].kind = "late", ![q].ask = 0]
     /\ Commit(q)
     /\ UNCHANGED <<row, asks, log, folding, tracked>>

(* ensure_queue_room: ThreadQueueFull at the limit. *)
ensure_queue_room(q) ==
  /\ req[q].step = "ensured" /\ req[q].kind \in {"utterance", "late"}
  /\ IF HasQueueRoom(req[q].thread) THEN Goes(q, "counted") /\ UNCHANGED lock ELSE Refused(q)
  /\ UNCHANGED <<threads, status, row, asks, log, folding, tracked>>

(* Mutant: the run takes its head from the row of the thread. *)
NewRow_of_thread(q) ==
  [thread |-> req[q].thread, head |-> threads[req[q].thread], late |-> req[q].kind = "late"]

NewRow(q) == [thread |-> req[q].thread, head |-> req[q].head, late |-> req[q].kind = "late"]

create_run(q) ==
  /\ req[q].step = "counted"
  /\ status' = [status EXCEPT ![q] = "queued"]
  /\ row' = [row EXCEPT ![q] = NewRow(q)]
  /\ req' = [req EXCEPT ![q] = [At("stored") EXCEPT !.run = q]]
  /\ Commit(q)
  /\ UNCHANGED <<asks, log, folding, tracked>>

-----------------------------------------------------------------------------
(* ... and from there to its stream *)

(* The messages are stored, and if the agent is not served that is the end of
   the run. *)
StoresMessages(q) ==
  LET r == req[q].run
  IN /\ req[q].step = "stored" /\ DoorOf[q] # "start_run"
     /\ log' = [log EXCEPT ![r] = Append(@, "prompt")]
     /\ \/ Goes(q, "committed") /\ UNCHANGED status
        \/ Ends(q, "answered") /\ status' = [status EXCEPT ![r] = "failed"]
     /\ UNCHANGED <<lock, threads, row, asks, folding, tracked>>

(* InvalidRunInput, or the request is cancelled at an await: what is committed
   stays, and the run is not enqueued. *)
Abandoned(q) ==
  /\ req[q].step \in {"ensured", "saw", "counted", "stored", "committed"}
  /\ Refused(q)
  /\ UNCHANGED <<threads, status, row, asks, log, folding, tracked>>

(* enqueue_run, and the caller's subscription to it in the same step. *)
Enqueues(q) ==
  /\ req[q].step = IF DoorOf[q] = "start_run" THEN "stored" ELSE "committed"
  /\ tracked' = tracked \cup {req[q].run}
  /\ Goes(q, "streaming")
  /\ UNCHANGED <<lock, threads, status, row, asks, log, folding>>

(* resubscribe_task, once the run is found: its stream, or its status. *)
resubscribe_task(q, r) ==
  /\ req[q].step = "idle" /\ DoorOf[q] = "a2a"
  /\ status[r] # "none"
  /\ Readers(r) # {} => "two_readers" \in DoorClasses
  /\ req' = [req EXCEPT ![q] = IF r \in tracked THEN [At("streaming") EXCEPT !.run = r]
                               ELSE At("answered")]
  /\ UNCHANGED <<lock, threads, status, row, asks, log, folding, tracked>>

(* A caller may stop reading. *)
Leaves(q) ==
  /\ req[q].step = "streaming"
  /\ Ends(q, "left")
  /\ UNCHANGED <<lock, threads, status, row, asks, log, folding, tracked>>

-----------------------------------------------------------------------------
(* The broker's side, as the rows show it *)

Claimed(r) ==
  /\ r \in tracked /\ status[r] = "queued"
  /\ status' = [status EXCEPT ![r] = "running"]
  /\ UNCHANGED <<lock, threads, row, asks, log, folding, tracked, req>>

(* A run fails from either status; it completes or pauses once it runs. *)
Settles(r, s) ==
  /\ r \in tracked
  /\ status[r] \in IF s = "failed" THEN {"queued", "running"} ELSE {"running"}
  /\ s = "input-required" => asks[r] < MaxAsks
  /\ status' = [status EXCEPT ![r] = s]
  /\ asks' = [asks EXCEPT ![r] = IF s = "input-required" THEN @ + 1 ELSE @]
  /\ folding' = IF s = "failed" THEN folding ELSE folding \cup {r}
  /\ UNCHANGED <<lock, threads, row, log, tracked, req>>

(* The reply is folded into the thread after the status has been committed. *)
Folds(r) ==
  /\ r \in folding
  /\ log' = [log EXCEPT ![r] = Append(@, "reply")]
  /\ folding' = folding \ {r}
  /\ UNCHANGED <<lock, threads, status, row, asks, tracked, req>>

(* Mutant: the stream ends before the reply is stored. *)
EndsStream_early(r) ==
  /\ r \in tracked /\ status[r] \notin {"queued", "running"}
  /\ tracked' = tracked \ {r}
  /\ req' = [q \in Requests |->
       IF q \in Readers(r) THEN At("answered") ELSE req[q]]
  /\ UNCHANGED <<lock, threads, status, row, asks, log, folding>>

(* END_OF_STREAM is put once, for whichever reader takes it. *)
EndsStream(r) ==
  /\ r \in tracked /\ status[r] \notin {"queued", "running"} /\ r \notin folding
  /\ tracked' = tracked \ {r}
  /\ \E hears \in Readers(r) \cup {None} :
       /\ hears = None => Readers(r) = {}
       /\ req' = [q \in Requests |->
            IF q \notin Readers(r) THEN req[q]
            ELSE At(IF q = hears THEN "answered" ELSE "stranded")]
  /\ UNCHANGED <<lock, threads, status, row, asks, log, folding>>

(* fail_stale_paused_runs *)
FailsStale(r) ==
  /\ status[r] = "input-required"
  /\ status' = [status EXCEPT ![r] = "failed"]
  /\ UNCHANGED <<lock, threads, row, asks, log, folding, tracked, req>>

-----------------------------------------------------------------------------
RequestStep(q) ==
  \/ ensure_thread(q) \/ Looks(q) \/ reopen_run(q) \/ ensure_queue_room(q)
  \/ create_run(q) \/ StoresMessages(q) \/ Enqueues(q)

BrokerStep(r) ==
  \/ Claimed(r) \/ Folds(r) \/ EndsStream(r)
  \/ \E s \in {"completed", "input-required", "failed"} : Settles(r, s)

Next ==
  \/ \E q \in Requests :
       \/ \E kind \in {"utterance", "answer"}, t \in Threads, c \in Callers,
            r \in Requests \cup {None} : Arrives(q, kind, t, c, r)
       \/ \E r \in Requests : resubscribe_task(q, r)
       \/ TurnedAway(q) \/ RequestStep(q) \/ Abandoned(q) \/ Leaves(q)
  \/ \E r \in Requests : BrokerStep(r) \/ FailsStale(r)

(* The event loop runs what is ready, and every run is claimed or failed, and
   settled, in the end: see EveryRunSettles of Dispatch and NoMissedWakeup of
   Broker. *)
Fairness ==
  /\ \A q \in Requests : WF_vars(RequestStep(q))
  /\ \A r \in Requests : WF_vars(BrokerStep(r))

Spec == Init /\ [][Next]_vars
FairSpec == Spec /\ Fairness

-----------------------------------------------------------------------------
(* Properties *)

(* The rows and the requests hold what they are declared to hold. *)
DoorsTypeOK ==
  /\ lock \in [Threads -> Requests \cup {None}]
  /\ threads \in [Threads -> Keys \cup {None, "absent"}]
  /\ status \in [Requests -> Statuses]
  /\ row \in [Requests -> [thread : Threads \cup {None}, head : Keys \cup {None}, late : BOOLEAN]]
  /\ asks \in [Requests -> 0 .. MaxAsks]
  /\ log \in [Requests -> Seq({"prompt", "reply"})]
  /\ folding \subseteq Requests /\ tracked \subseteq Requests
  /\ req \in [Requests -> [step : {"idle"} \cup Waiting \cup Ended,
                           kind : {"utterance", "answer", "late"},
                           thread : Threads \cup {None}, head : Keys \cup {None},
                           run : Requests \cup {None}, ask : 0 .. MaxAsks]]

(* The reopening asks only whether the run is paused, not at which question.
   That the answer is still to the question its door looked at is due to the
   lock on the thread's row, which a bump of last_activity_at happens to take:
   nobody else can answer in between, and let the run ask something new. *)
AnswerMeetsItsAsk ==
  \A q \in Requests :
    req[q].step = "saw" /\ status[req[q].run] = "input-required"
      => asks[req[q].run] = req[q].ask

(* The count and the creation are in one hold of the lock: of the runs waiting
   on a thread, those that were never an answer are within the limit.  Only an
   A2A answer that came late is counted without it. *)
QueueWithinLimit ==
  \A t \in Threads :
    Cardinality({r \in OnThread(t, "queued") : asks[r] = 0 /\ ~row[r].late}) <= QueueLimit

(* A thread is bound to a head at birth and never again, and every run on a
   bound thread is a member's. *)
ThreadKeepsItsMembers ==
  [][\A t \in Threads :
       /\ threads[t] # "absent" => threads'[t] = threads[t]
       /\ \A r \in Requests :
            row'[r].thread = t /\ threads'[t] # None => row'[r].head \in {threads'[t], Provider}]_vars

(* In what a thread keeps of a run, what was said to it and what it replied
   alternate, from the prompt on; start_run stores no prompt. *)
TurnsAlternate ==
  \A r \in Requests :
    /\ \A i \in 2 .. Len(log[r]) : log[r][i] # log[r][i - 1]
    /\ log[r] # <<>> /\ DoorOf[r] # "start_run" => log[r][1] = "prompt"

(* Whoever is let in under a head: its key, and its certificate or None. *)
Speakers ==
  {[key |-> head(c[1]), delegation |-> c[2], head |-> EffectiveHead(c[1], c[2])] :
     c \in {c \in Built \X (Certificates \cup {None}) : Admits(c[1], c[2])}}

(* verify_caller and verify_resolution each work out whom a session key speaks
   for: a caller that is let in under a head can answer what the runs of that
   head ask. *)
SessionKeyKeepsItsHead ==
  \A r \in Requests, s \in Speakers :
    status[r] = "input-required" /\ row[r].head = s.head =>
      verify_resolution(sign_resolution(s.key, r, "in date"), r, {row[r].head, Provider},
                        s.delegation)

(* Of all that a request still to come may present, the doors will take what
   the SDK builds and nothing else, and the SDK judges it alike. *)
DoorsTakeWhatIsBuilt ==
  (\E q \in Requests : req[q].step = "idle") => VerifiedIsBuilt

(* Whoever comes to a door is refused, answered, or reads a stream that ends. *)
CallersAnswered ==
  \A q \in Requests : req[q].step \in Waiting ~> req[q].step \in Ended
=============================================================================
