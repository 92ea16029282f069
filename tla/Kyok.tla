-------------------------------- MODULE Kyok --------------------------------
(***************************************************************************)
(* Keep your own key: the relay of completions (kyok.py,                   *)
(* protocols/kyok.py) over the roster of one LLM provider's offerings, and *)
(* what binds runs to offerings and lets them go: the doors                *)
(* (protocols/agui.py, protocols/a2a.py) and the broker's forget.          *)
(*                                                                         *)
(* A token is the run and agent it names: a run has one once its input     *)
(* was built with one.  Of a completion the stream's end is kept, not its  *)
(* chunks; of a run, that the broker tracks it and whether it has been     *)
(* told to stop.  A second round of a run goes through a door again.       *)
(* Bound: the completions asked for are those of Calls, one call each.     *)
(***************************************************************************)
EXTENDS Roster

CONSTANTS
  Runs,
  Calls,
  KyokClasses  \* which failures a model includes

ASSUME KyokAssumption ==
  /\ IsFiniteSet(Calls)
  /\ None \notin Runs
  /\ KyokClasses \subseteq
       {"rejected"}  \* a door raises after a run has inherited its binding

VARIABLES
  tracked,    \* runs the broker knows
  cancelled,  \* those with cancel_requested
  door,       \* how far the request that brings each run has come
  wanted,     \* the offering an opt-in names
  bindings,   \* KyokRelay._bindings: the offering of each run, or None
  granted,    \* runs whose agent holds a token
  call        \* how far each completion has come

kyokVars == <<tracked, cancelled, door, wanted, bindings, granted, call>>
vars == <<rosterVars, kyokVars>>

Bound == {bindings[r] : r \in Runs} \ {None}

KyokInit ==
  /\ tracked = {} /\ cancelled = {} /\ granted = {}
  /\ door = [r \in Runs |-> "none"]
  /\ wanted = [r \in Runs |-> None]
  /\ bindings = [r \in Runs |-> None]
  /\ call = [k \in Calls |-> [step |-> "idle", run |-> None, link |-> None]]

Init == RosterInit /\ KyokInit

-----------------------------------------------------------------------------
(* The operations of the facade on the LLM roster *)

register_llm_providers(batch) == register(batch) /\ UNCHANGED kyokVars

attach_llm_provider(c, x, names) == attach(c, x, names) /\ UNCHANGED kyokVars

detach_llm_provider(c) == Closes(c) /\ UNCHANGED kyokVars

detach_all_for == detach_all /\ UNCHANGED kyokVars

(* An offering is in use while a run is bound to it; nobody remembers runs
   that were. *)
delete_llm_offering(n) ==
  /\ FindsUnused(n, Bound, \E r \in Runs : door[r] = "opted_in")
  /\ UNCHANGED kyokVars

RosterOperation ==
  \/ \E batch \in SUBSET Names : register_llm_providers(batch)
  \/ \E c \in Connections, x \in Nonces, names \in SUBSET Names : attach_llm_provider(c, x, names)
  \/ \E c \in Connections : detach_llm_provider(c)
  \/ detach_all_for
  \/ \E n \in Names : delete_llm_offering(n)

-----------------------------------------------------------------------------
(* Tokens: issued with the run's input, they outlive the run. *)

issue_kyok_token(runs) == granted' = granted \cup runs

verify_kyok_token(r) == r \in granted

-----------------------------------------------------------------------------
(* The doors *)

(* Between rounds and before the first a run has no door open. *)
Arrives(r) == door[r] = "none" /\ r \notin tracked

(* Mutant: the run is bound as soon as its offering is found. *)
OptsIn_binds(r, n) ==
  /\ Arrives(r)
  /\ n \in rows
  /\ deleting # None => "racing_delete" \in RosterClasses
  /\ door' = [door EXCEPT ![r] = "opted_in"]
  /\ wanted' = [wanted EXCEPT ![r] = n]
  /\ bindings' = [bindings EXCEPT ![r] = n]
  /\ UNCHANGED <<rosterVars, tracked, cancelled, granted, call>>

(* An opt-in names an offering that must be registered. *)
OptsIn(r, n) ==
  /\ Arrives(r)
  /\ n \in rows
  /\ deleting # None => "racing_delete" \in RosterClasses
  /\ door' = [door EXCEPT ![r] = "opted_in"]
  /\ wanted' = [wanted EXCEPT ![r] = n]
  /\ UNCHANGED <<rosterVars, tracked, cancelled, bindings, granted, call>>

(* bind_run and enqueue_run, with no await in between. *)
BindsAndEnqueues(r) ==
  /\ door[r] = "opted_in"
  /\ bindings' = [bindings EXCEPT ![r] = wanted[r]]
  /\ issue_kyok_token({r})
  /\ tracked' = tracked \cup {r}
  /\ door' = [door EXCEPT ![r] = "none"]
  /\ wanted' = [wanted EXCEPT ![r] = None]
  /\ UNCHANGED <<rosterVars, cancelled, call>>

(* inherit: the first of referenceTaskIds lends its binding; the commit is
   still to come.  Without one the run goes on unbound. *)
Inherits(r, parent) ==
  /\ Arrives(r)
  /\ door' = [door EXCEPT ![r] = "prepared"]
  /\ bindings' = [bindings EXCEPT ![r] = bindings[parent]]
  /\ issue_kyok_token(IF bindings[parent] # None THEN {r} ELSE {})
  /\ UNCHANGED <<rosterVars, tracked, cancelled, wanted, call>>

Enqueues(r) ==
  /\ door[r] = "prepared"
  /\ tracked' = tracked \cup {r}
  /\ door' = [door EXCEPT ![r] = "none"]
  /\ UNCHANGED <<rosterVars, cancelled, wanted, bindings, granted, call>>

(* The input does not build, or the commit fails: the run is never enqueued,
   and nothing takes back what it inherited. *)
Rejects(r) ==
  /\ \/ door[r] = "opted_in"
     \/ door[r] = "prepared" /\ (bindings[r] # None => "rejected" \in KyokClasses)
  /\ door' = [door EXCEPT ![r] = "none"]
  /\ wanted' = [wanted EXCEPT ![r] = None]
  /\ UNCHANGED <<rosterVars, tracked, cancelled, bindings, granted, call>>

request_cancel(r) ==
  /\ r \in tracked \ cancelled
  /\ cancelled' = cancelled \cup {r}
  /\ UNCHANGED <<rosterVars, tracked, door, wanted, bindings, granted, call>>

(* RunBroker.forget, with KyokRelay.discard as its listener. *)
forget(r) ==
  /\ r \in tracked
  /\ tracked' = tracked \ {r}
  /\ cancelled' = cancelled \ {r}
  /\ bindings' = [bindings EXCEPT ![r] = None]
  /\ UNCHANGED <<rosterVars, door, wanted, granted, call>>

-----------------------------------------------------------------------------
(* KyokAdapter.complete *)

Over(k, step) == call' = [call EXCEPT ![k] = [step |-> step, run |-> None, link |-> None]]

(* The token's run is live and not being cancelled, or 403. *)
complete(k, r) ==
  /\ call[k].step = "idle"
  /\ verify_kyok_token(r)
  /\ IF r \in tracked \ cancelled
     THEN call' = [call EXCEPT ![k] = [step |-> "verifying", run |-> r, link |-> None]]
     ELSE Over(k, "rejected")
  /\ UNCHANGED <<rosterVars, tracked, cancelled, door, wanted, bindings, granted>>

(* Mutant: any link of the key will do, whichever offering it serves. *)
Relays_of_key(k) ==
  /\ call[k].step = "verifying"
  /\ \/ /\ bindings[call[k].run] # None
        /\ \E n \in Served :
             call' = [call EXCEPT ![k].step = "relaying", ![k].link = serving[n]]
     \/ Over(k, "rejected")
  /\ UNCHANGED <<rosterVars, tracked, cancelled, door, wanted, bindings, granted>>

(* After _verify_caller's await: the caller's proof (401) or the body (400)
   may be bad; binding and link are those of this moment, or 503. *)
Relays(k) ==
  LET n == bindings[call[k].run]
      link == IF n = None THEN None ELSE serving[n]
  IN /\ call[k].step = "verifying"
     /\ \/ link # None /\ call' = [call EXCEPT ![k].step = "relaying", ![k].link = link]
        \/ Over(k, "rejected")
     /\ UNCHANGED <<rosterVars, tracked, cancelled, door, wanted, bindings, granted>>

(* The stream ends, is refused, dies otherwise, or is read no further:
   _counted adds one to a counter of the key, which nothing here reads. *)
Counted(k) ==
  /\ call[k].step = "relaying"
  /\ Over(k, "over")
  /\ UNCHANGED <<rosterVars, tracked, cancelled, door, wanted, bindings, granted>>

-----------------------------------------------------------------------------
DoorStep(r) ==
  \/ \E n \in Names : OptsIn(r, n)
  \/ \E parent \in Runs \ {r} : Inherits(r, parent)
  \/ BindsAndEnqueues(r) \/ Enqueues(r) \/ Rejects(r)

CallStep(k) ==
  \/ \E r \in Runs : complete(k, r)
  \/ Relays(k) \/ Counted(k)

Next ==
  \/ RosterOperation
  \/ RosterStep /\ UNCHANGED kyokVars
  \/ \E r \in Runs : DoorStep(r) \/ request_cancel(r) \/ forget(r)
  \/ \E k \in Calls : CallStep(k)

Spec == Init /\ [][Next]_vars

-----------------------------------------------------------------------------
(* Properties *)

(* The roster and the relay hold what their tables are declared to hold. *)
KyokTypeOK ==
  /\ rows \subseteq Names
  /\ registering \in (SUBSET Names) \cup {None}
  /\ serving \in [Names -> Connections \cup {None}]
  /\ challenges \in [Nonces -> {"unissued", "live", "stale", "gone"}]
  /\ attempt \in [Connections -> [step : Steps, names : SUBSET Names, nonce : Nonces \cup {None}]]
  /\ open \subseteq Connections
  /\ deleting \in Names \cup {None}
  /\ tracked \subseteq Runs /\ cancelled \subseteq tracked /\ granted \subseteq Runs
  /\ door \in [Runs -> {"none", "opted_in", "prepared"}]
  /\ wanted \in [Runs -> Names \cup {None}]
  /\ bindings \in [Runs -> Names \cup {None}]
  /\ call \in [Calls -> [step : {"idle", "verifying", "relaying", "over", "rejected"},
                         run : Runs \cup {None}, link : Connections \cup {None}]]
  /\ \A k \in Calls : call[k].step = "verifying" => call[k].run \in Runs

(* A challenge admits one connection: of two attaches that were answered by
   the same nonce, however they interleave, one is refused. *)
NonceAdmitsOnce ==
  \A c, d \in Connections :
    c # d /\ attempt[c].nonce # None => attempt[c].nonce # attempt[d].nonce

(* A provider that refuses this funduq in confirm_connect, or whose attach was
   turned down, serves nothing; nor does a link that has closed. *)
OnlyAdmittedServe ==
  \A n \in Served : serving[n] \in open /\ attempt[serving[n]].step = "attached"

(* delete_*: refused while the name is in use.  What is served, or bound to a
   run that is tracked, keeps its row. *)
InUseIsKept ==
  Served \cup {bindings[r] : r \in tracked} \subseteq rows \cup {None}

(* The cleanup after a replaced link never takes its replacement down: an open
   link loses a name to another link, to a registration that omits the name,
   or to the eviction of the whole key. *)
LinkKeepsItsNames ==
  [][\A n \in Names :
       serving[n] # None /\ serving'[n] = None /\ serving[n] \in open' =>
         \/ registering # None /\ n \notin registering
         \/ Served' = {} /\ open' = open]_vars

(* A binding lives with its run: forget discards it, so that only a run that
   is tracked, or that its door is about to enqueue, has one. *)
BindingDiesWithRun ==
  \A r \in Runs : bindings[r] # None => r \in tracked \/ door[r] = "prepared"

(* The run is looked up before the caller's proof is awaited and the binding
   after it: what reaches an LLM provider is the completion of a run that is
   tracked at that moment, or about to be again, on the link that serves the
   offering it is bound to. *)
RelaysForLiveRuns ==
  [][\A k \in Calls :
       call'[k].step = "relaying" /\ call[k].step # "relaying" =>
         LET r == call[k].run
         IN /\ r \in tracked \/ door[r] = "prepared"
            /\ bindings[r] # None /\ call'[k].link = serving[bindings[r]]]_vars
=============================================================================
