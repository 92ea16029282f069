------------------------------- MODULE Roster -------------------------------
(***************************************************************************)
(* One roster of served names (core.py, _Roster): registering, attaching,  *)
(* detaching and deleting, with the awaits between their checks and their  *)
(* writes.  Agents and LLM offerings are served by the same steps; what    *)
(* makes a name "in use" besides being served differs, and is what the      *)
(* deletion is given as inUse, with whether a door is looking at a name.   *)
(*                                                                         *)
(* One provider key: keys share nothing here.  A signature either verifies *)
(* or does not; a nonce stands for the challenge that carries it.  Bounds: *)
(* a connection attaches once, and the challenges are those of Nonces; one *)
(* registration and one deletion are under way at a time.                  *)
(***************************************************************************)
EXTENDS Naturals, FiniteSets

CONSTANTS
  Names,
  Connections,
  Nonces,
  RosterClasses,  \* which outside behaviours a model includes
  None

ASSUME RosterAssumption ==
  /\ None \notin Connections \cup Names \cup Nonces
  /\ RosterClasses \subseteq
       {"racing_delete",  \* a deletion beside an attach or a door
        "early_close"}    \* a link closes while its attach is under way

VARIABLES
  rows,         \* the key's rows in agents or llm_providers
  registering,  \* the batch that is stored and not yet compared, or None
  serving,      \* LiveRoster._links: the connection behind each name, or None
  challenges,   \* _connect_challenges, by nonce
  attempt,      \* how far the attach of each connection has come
  open,         \* connections that are open
  deleting      \* the name a deletion has found unused, or None

rosterVars == <<rows, registering, serving, challenges, attempt, open, deleting>>

Steps == {"idle", "reading", "read", "attached", "refused"}
UnderWay(c) == attempt[c].step \in {"reading", "read"}
ServedBy(c) == {n \in Names : serving[n] = c}
Served == {n \in Names : serving[n] # None}

RosterInit ==
  /\ rows = {}
  /\ registering = None
  /\ serving = [n \in Names |-> None]
  /\ challenges = [x \in Nonces |-> "unissued"]
  /\ attempt = [c \in Connections |-> [step |-> "idle", names |-> {}, nonce |-> None]]
  /\ open = Connections
  /\ deleting = None

(* Mutant: a withdrawn name is marked instead of taken out. *)
withdraw_marks(names) ==
  serving' = [n \in Names |-> IF n \in names THEN "offline" ELSE serving[n]]

withdraw(names) ==
  serving' = [n \in Names |-> IF n \in names THEN None ELSE serving[n]]

-----------------------------------------------------------------------------
(* register: the signed batch is stored, then compared with what is served *)

(* repo.register_agents, register_llm_providers: rows are added or refreshed,
   and committed; a name the batch omits keeps its row. *)
store(batch) == rows' = rows \cup batch

register(batch) ==
  /\ registering = None
  /\ batch # {}
  /\ store(batch)
  /\ registering' = batch
  /\ UNCHANGED <<serving, challenges, attempt, open, deleting>>

WithdrawOmitted ==
  /\ registering # None
  /\ withdraw(Served \ registering)
  /\ registering' = None
  /\ UNCHANGED <<rows, challenges, attempt, open, deleting>>

-----------------------------------------------------------------------------
(* Challenges *)

(* issue_connect_challenge forgets the stale ones. *)
issue_connect_challenge(x) ==
  /\ challenges[x] = "unissued"
  /\ challenges' = [y \in Nonces |->
       IF y = x THEN "live" ELSE IF challenges[y] = "stale" THEN "gone" ELSE challenges[y]]
  /\ UNCHANGED <<rows, registering, serving, attempt, open, deleting>>

ChallengeExpires(x) ==
  /\ challenges[x] = "live"
  /\ challenges' = [challenges EXCEPT ![x] = "stale"]
  /\ UNCHANGED <<rows, registering, serving, attempt, open, deleting>>

(* Mutant: the challenge is looked up and left where it is. *)
consume_connect_challenge_keeps(x) == UNCHANGED challenges

(* _consume_connect_challenge *)
consume_connect_challenge(x) == challenges' = [challenges EXCEPT ![x] = "gone"]

-----------------------------------------------------------------------------
(* attach *)

Attempt(c, step) == attempt' = [attempt EXCEPT ![c].step = step]

(* Up to the first await: the challenge is consumed whatever comes of it,
   the proof verified, and only a fresh challenge well answered gets on. *)
attach(c, x, names) ==
  /\ c \in open
  /\ attempt[c].step = "idle"
  /\ names # {}
  /\ deleting # None => "racing_delete" \in RosterClasses
  /\ challenges[x] # "unissued"
  /\ consume_connect_challenge(x)
  /\ \/ /\ challenges[x] = "live"
        /\ attempt' = [attempt EXCEPT ![c] = [step |-> "reading", names |-> names, nonce |-> x]]
     \/ Attempt(c, "refused")
  /\ UNCHANGED <<rows, registering, serving, open, deleting>>

(* registered_names: AgentNotFound, LlmProviderNotFound for the unknown. *)
ReadsNames(c) ==
  /\ attempt[c].step = "reading"
  /\ Attempt(c, IF attempt[c].names \subseteq rows THEN "read" ELSE "refused")
  /\ UNCHANGED <<rows, registering, serving, challenges, open, deleting>>

(* Mutant: the names go live before the provider has confirmed. *)
Confirms_late(c) ==
  /\ attempt[c].step = "read"
  /\ serving' = [n \in Names |-> IF n \in attempt[c].names THEN c ELSE serving[n]]
  /\ Attempt(c, "attached") \/ Attempt(c, "refused")
  /\ UNCHANGED <<rows, registering, challenges, open, deleting>>

(* confirm_connect may raise; otherwise write_live, in the same step.  The
   touch that follows writes last_seen_at, which nothing here reads; should it
   fail, the attach raises with its names live. *)
Confirms(c) ==
  /\ attempt[c].step = "read"
  /\ \/ /\ serving' = [n \in Names |-> IF n \in attempt[c].names THEN c ELSE serving[n]]
        /\ Attempt(c, "attached")
     \/ Attempt(c, "refused") /\ UNCHANGED serving
  /\ UNCHANGED <<rows, registering, challenges, open, deleting>>

-----------------------------------------------------------------------------
(* detach: the compare and the withdrawal are one step *)

(* Mutant: whatever the key serves goes down with the link. *)
detach_by_key(c) == withdraw(Names)

detach(c) == withdraw(ServedBy(c))

(* A link closes and its transport cleans up after it with detach_provider or
   detach_llm_provider; one that has never tried to attach is not seen here. *)
Closes(c) ==
  /\ c \in open
  /\ attempt[c].step # "idle"
  /\ UnderWay(c) => "early_close" \in RosterClasses
  /\ open' = open \ {c}
  /\ detach(c)
  /\ UNCHANGED <<rows, registering, challenges, attempt, deleting>>

(* detach_all_for: whichever connections serve the key. *)
detach_all ==
  /\ Served # {}
  /\ withdraw(Served)
  /\ UNCHANGED <<rows, registering, challenges, attempt, open, deleting>>

-----------------------------------------------------------------------------
(* delete_agent, delete_llm_offering: row, use, and an await before the delete *)

(* Mutant: a name that is being served may go. *)
FindsUnused_served(n, inUse, doorsOpen) ==
  /\ deleting = None
  /\ n \in rows
  /\ n \notin inUse
  /\ doorsOpen \/ (\E c \in Connections : UnderWay(c)) => "racing_delete" \in RosterClasses
  /\ deleting' = n
  /\ UNCHANGED <<rows, registering, serving, challenges, attempt, open>>

FindsUnused(n, inUse, doorsOpen) ==
  /\ deleting = None
  /\ n \in rows
  /\ serving[n] = None
  /\ n \notin inUse
  /\ doorsOpen \/ (\E c \in Connections : UnderWay(c)) => "racing_delete" \in RosterClasses
  /\ deleting' = n
  /\ UNCHANGED <<rows, registering, serving, challenges, attempt, open>>

DeletesRow ==
  /\ deleting # None
  /\ rows' = rows \ {deleting}
  /\ deleting' = None
  /\ UNCHANGED <<registering, serving, challenges, attempt, open>>

-----------------------------------------------------------------------------
(* What goes on by itself once an operation has begun, and the challenges. *)
RosterStep ==
  \/ WithdrawOmitted
  \/ \E x \in Nonces : issue_connect_challenge(x) \/ ChallengeExpires(x)
  \/ \E c \in Connections : ReadsNames(c) \/ Confirms(c)
  \/ DeletesRow
=============================================================================
