----------------------------- MODULE KyokProofs -----------------------------
(* What Roster and Kyok promise for any names, links, challenges, runs and  *)
(* completions, with the operations of a key's roster interleaved with the  *)
(* doors and the relay at every await.                                      *)
EXTENDS Kyok, TLAPS

-----------------------------------------------------------------------------
(* Type correctness *)

LEMMA InitTypeOK == Init => KyokTypeOK
BY RosterAssumption, KyokAssumption DEF Init, RosterInit, KyokInit, KyokTypeOK, Steps

(* The part of the type invariant that Roster's own steps can disturb. *)
RosterTypeOK ==
  /\ rows \subseteq Names
  /\ registering \in (SUBSET Names) \cup {None}
  /\ serving \in [Names -> Connections \cup {None}]
  /\ challenges \in [Nonces -> {"unissued", "live", "stale", "gone"}]
  /\ attempt \in [Connections -> [step : Steps, names : SUBSET Names, nonce : Nonces \cup {None}]]
  /\ open \subseteq Connections
  /\ deleting \in Names \cup {None}

LEMMA RosterOperationTypeOK ==
  ASSUME RosterTypeOK, RosterOperation
  PROVE  RosterTypeOK' /\ UNCHANGED kyokVars
<1> USE DEF RosterTypeOK, Steps
<1>1. ASSUME NEW batch \in SUBSET Names, register_llm_providers(batch)
      PROVE  RosterTypeOK' /\ UNCHANGED kyokVars
  BY <1>1 DEF register_llm_providers, register, store
<1>2. ASSUME NEW c \in Connections, NEW x \in Nonces, NEW names \in SUBSET Names,
             attach_llm_provider(c, x, names)
      PROVE  RosterTypeOK' /\ UNCHANGED kyokVars
  BY <1>2 DEF attach_llm_provider, attach, consume_connect_challenge, Attempt
<1>3. ASSUME NEW c \in Connections, detach_llm_provider(c)
      PROVE  RosterTypeOK' /\ UNCHANGED kyokVars
  BY <1>3 DEF detach_llm_provider, Closes, detach, withdraw
<1>4. ASSUME detach_all_for PROVE RosterTypeOK' /\ UNCHANGED kyokVars
  BY <1>4 DEF detach_all_for, detach_all, withdraw
<1>5. ASSUME NEW n \in Names, delete_llm_offering(n)
      PROVE  RosterTypeOK' /\ UNCHANGED kyokVars
  BY <1>5 DEF delete_llm_offering, FindsUnused
<1> QED
  BY <1>1, <1>2, <1>3, <1>4, <1>5 DEF RosterOperation

LEMMA RosterStepTypeOK ==
  ASSUME RosterTypeOK, RosterStep
  PROVE  RosterTypeOK'
<1> USE DEF RosterTypeOK, Steps
<1>1. ASSUME WithdrawOmitted PROVE RosterTypeOK'
  BY <1>1 DEF WithdrawOmitted, withdraw
<1>2. ASSUME NEW x \in Nonces, issue_connect_challenge(x) \/ ChallengeExpires(x)
      PROVE  RosterTypeOK'
  BY <1>2 DEF issue_connect_challenge, ChallengeExpires
<1>3. ASSUME NEW c \in Connections, ReadsNames(c) PROVE RosterTypeOK'
  BY <1>3 DEF ReadsNames, Attempt
<1>4. ASSUME NEW c \in Connections, Confirms(c) PROVE RosterTypeOK'
  BY <1>4 DEF Confirms, Attempt
<1>5. ASSUME DeletesRow PROVE RosterTypeOK'
  BY <1>5 DEF DeletesRow
<1> QED
  BY <1>1, <1>2, <1>3, <1>4, <1>5 DEF RosterStep

LEMMA NextTypeOK == KyokTypeOK /\ [Next]_vars => KyokTypeOK'
<1> SUFFICES ASSUME KyokTypeOK, [Next]_vars PROVE KyokTypeOK'
  OBVIOUS
<1> USE DEF KyokTypeOK, kyokVars, rosterVars
<1>1. CASE RosterOperation
  BY <1>1, RosterOperationTypeOK DEF RosterTypeOK
<1>2. CASE RosterStep /\ UNCHANGED kyokVars
  BY <1>2, RosterStepTypeOK DEF RosterTypeOK
<1>3. ASSUME NEW r \in Runs, DoorStep(r) PROVE KyokTypeOK'
  <2>1. ASSUME NEW n \in Names, OptsIn(r, n) PROVE KyokTypeOK'
    BY <2>1 DEF OptsIn
  <2>2. ASSUME NEW parent \in Runs, Inherits(r, parent) PROVE KyokTypeOK'
    BY <2>2 DEF Inherits, issue_kyok_token
  <2>3. CASE BindsAndEnqueues(r)
    BY <2>3 DEF BindsAndEnqueues, issue_kyok_token
  <2>4. CASE Enqueues(r)
    BY <2>4 DEF Enqueues
  <2>5. CASE Rejects(r)
    BY <2>5 DEF Rejects
  <2> QED
    <3> HIDE DEF KyokTypeOK
    <3> QED
      BY <1>3, <2>1, <2>2, <2>3, <2>4, <2>5 DEF DoorStep
<1>4. ASSUME NEW r \in Runs, request_cancel(r) PROVE KyokTypeOK'
  BY <1>4 DEF request_cancel
<1>5. ASSUME NEW r \in Runs, forget(r) PROVE KyokTypeOK'
  BY <1>5 DEF forget
<1>6. ASSUME NEW k \in Calls, CallStep(k) PROVE KyokTypeOK'
  <2>1. ASSUME NEW r \in Runs, complete(k, r) PROVE KyokTypeOK'
    BY <2>1 DEF complete, verify_kyok_token, Over
  <2>2. CASE Relays(k)
    <3> DEFINE n == bindings[call[k].run]
               link == IF n = None THEN None ELSE serving[n]
    <3>1. call[k].run \in Runs /\ n \in Names \cup {None}
      BY <2>2 DEF Relays
    <3>2. link \in Connections \cup {None}
      BY <3>1
    <3>3. \/ call' = [call EXCEPT ![k].step = "relaying", ![k].link = link]
          \/ Over(k, "rejected")
      BY <2>2 DEF Relays
    <3> HIDE DEF link
    <3> QED
      BY <2>2, <3>2, <3>3 DEF Relays, Over
  <2>3. CASE Counted(k)
    BY <2>3 DEF Counted, Over
  <2> QED
    BY <1>6, <2>1, <2>2, <2>3 DEF CallStep
<1>7. CASE UNCHANGED vars
  BY <1>7 DEF vars
<1> HIDE DEF KyokTypeOK, kyokVars, rosterVars
<1> QED
  BY <1>1, <1>2, <1>3, <1>4, <1>5, <1>6, <1>7 DEF Next

(* The tables of the roster, the relay and the calls hold what they are
   declared to hold, whatever the interleaving. *)
THEOREM TypeCorrect == Spec => []KyokTypeOK
BY InitTypeOK, NextTypeOK, PTL DEF Spec

-----------------------------------------------------------------------------
(* Where a step can be *)

LEMMA KyokKeepsRoster ==
  ASSUME \/ \E r \in Runs : DoorStep(r) \/ request_cancel(r) \/ forget(r)
         \/ \E k \in Calls : CallStep(k)
         \/ UNCHANGED vars
  PROVE  UNCHANGED rosterVars
<1>1. ASSUME NEW r \in Runs, DoorStep(r) PROVE UNCHANGED rosterVars
  BY <1>1 DEF DoorStep, OptsIn, Inherits, BindsAndEnqueues, Enqueues, Rejects
<1>2. ASSUME NEW r \in Runs, request_cancel(r) \/ forget(r) PROVE UNCHANGED rosterVars
  BY <1>2 DEF request_cancel, forget
<1>3. ASSUME NEW k \in Calls, CallStep(k) PROVE UNCHANGED rosterVars
  BY <1>3 DEF CallStep, complete, Relays, Counted
<1> QED
  BY <1>1, <1>2, <1>3 DEF vars

(* Every step of a roster is one of its operations or of what follows them. *)
LEMMA RosterCases ==
  ASSUME [Next]_vars
  PROVE  \/ \E batch \in SUBSET Names : register(batch)
         \/ WithdrawOmitted
         \/ \E x \in Nonces : issue_connect_challenge(x) \/ ChallengeExpires(x)
         \/ \E c \in Connections, x \in Nonces, names \in SUBSET Names : attach(c, x, names)
         \/ \E c \in Connections : ReadsNames(c) \/ Confirms(c) \/ Closes(c)
         \/ detach_all
         \/ \E n \in Names : FindsUnused(n, Bound, \E r \in Runs : door[r] = "opted_in")
         \/ DeletesRow
         \/ UNCHANGED rosterVars
BY KyokKeepsRoster DEF Next, RosterOperation, RosterStep, register_llm_providers,
   attach_llm_provider, detach_llm_provider, detach_all_for, delete_llm_offering

-----------------------------------------------------------------------------
(* A challenge admits one connection *)

(* What a connection was admitted by is spent. *)
NoncesAreSpent ==
  \A c \in Connections : attempt[c].nonce # None => challenges[attempt[c].nonce] = "gone"

NonceInv == KyokTypeOK /\ NoncesAreSpent /\ NonceAdmitsOnce

LEMMA NextNonceInv == NonceInv /\ [Next]_vars => NonceInv'
<1> SUFFICES ASSUME NonceInv, [Next]_vars PROVE NoncesAreSpent' /\ NonceAdmitsOnce'
  BY NextTypeOK DEF NonceInv
<1> USE DEF NonceInv, NoncesAreSpent, NonceAdmitsOnce, KyokTypeOK
<1>1. ASSUME NEW c \in Connections, NEW x \in Nonces, NEW names \in SUBSET Names,
             attach(c, x, names)
      PROVE  NoncesAreSpent' /\ NonceAdmitsOnce'
  <2>1. CASE challenges[x] = "live" /\
             attempt' = [attempt EXCEPT ![c] = [step |-> "reading", names |-> names, nonce |-> x]]
    <3>1. \A d \in Connections : attempt[d].nonce # x
      BY <2>1, RosterAssumption
    <3>2. challenges' = [challenges EXCEPT ![x] = "gone"]
      BY <1>1 DEF attach, consume_connect_challenge
    <3> QED
      BY <2>1, <3>1, <3>2
  <2>2. CASE attempt' = [attempt EXCEPT ![c].step = "refused"]
    BY <1>1, <2>2 DEF attach, consume_connect_challenge
  <2> QED
    BY <1>1, <2>1, <2>2 DEF attach, Attempt
<1>2. ASSUME NEW x \in Nonces, issue_connect_challenge(x) \/ ChallengeExpires(x)
      PROVE  NoncesAreSpent' /\ NonceAdmitsOnce'
  BY <1>2 DEF issue_connect_challenge, ChallengeExpires
<1>3. ASSUME NEW c \in Connections, ReadsNames(c) \/ Confirms(c)
      PROVE  NoncesAreSpent' /\ NonceAdmitsOnce'
  <2>1. UNCHANGED challenges /\ \E s : attempt' = [attempt EXCEPT ![c].step = s]
    BY <1>3 DEF ReadsNames, Confirms, Attempt
  <2>2. \A d \in Connections : attempt'[d].nonce = attempt[d].nonce
    BY <2>1
  <2> QED
    BY <2>1, <2>2
<1>4. CASE UNCHANGED <<challenges, attempt>>
  BY <1>4
<1> HIDE DEF NonceInv, NoncesAreSpent, NonceAdmitsOnce, KyokTypeOK
<1> QED
  BY <1>1, <1>2, <1>3, <1>4, RosterCases
     DEF register, WithdrawOmitted, Closes, detach_all, FindsUnused, DeletesRow, rosterVars

(* _consume_connect_challenge: however attaches interleave, no two are admitted
   by one challenge; without any restriction on what else happens. *)
THEOREM ChallengeAdmitsOnce == Spec => []NonceAdmitsOnce
<1>1. Init => NonceInv
  <2> SUFFICES ASSUME Init PROVE NoncesAreSpent /\ NonceAdmitsOnce
    BY InitTypeOK DEF NonceInv
  <2> QED
    BY DEF Init, RosterInit, NoncesAreSpent, NonceAdmitsOnce
<1>2. NonceInv => NonceAdmitsOnce
  BY DEF NonceInv
<1> QED
  BY <1>1, <1>2, NextNonceInv, PTL DEF Spec

-----------------------------------------------------------------------------
(* Only admitted links serve *)

(* A link whose attach is under way is open. *)
AttachesAreOpen == \A c \in Connections : UnderWay(c) => c \in open

AdmissionInv == KyokTypeOK /\ AttachesAreOpen /\ OnlyAdmittedServe

LEMMA NextAdmissionInv ==
  ASSUME "early_close" \notin RosterClasses, AdmissionInv, [Next]_vars
  PROVE  AdmissionInv'
<1> SUFFICES AttachesAreOpen' /\ OnlyAdmittedServe'
  BY NextTypeOK DEF AdmissionInv
<1> USE RosterAssumption DEF AdmissionInv, AttachesAreOpen, OnlyAdmittedServe, UnderWay, Served, KyokTypeOK
<1>1. ASSUME NEW c \in Connections, NEW x \in Nonces, NEW names \in SUBSET Names,
             attach(c, x, names)
      PROVE  AttachesAreOpen' /\ OnlyAdmittedServe'
  <2>1. /\ c \in open /\ attempt[c].step = "idle" /\ UNCHANGED <<serving, open>>
        /\ \/ attempt' = [attempt EXCEPT ![c] = [step |-> "reading", names |-> names, nonce |-> x]]
           \/ attempt' = [attempt EXCEPT ![c].step = "refused"]
    BY <1>1 DEF attach, Attempt
  <2>2. \A n \in Names : serving[n] # c
    BY <2>1
  <2> QED
    BY <2>1, <2>2
<1>2. ASSUME NEW c \in Connections, ReadsNames(c) PROVE AttachesAreOpen' /\ OnlyAdmittedServe'
  <2>1. /\ attempt[c].step = "reading" /\ UNCHANGED <<serving, open>>
        /\ \/ attempt' = [attempt EXCEPT ![c].step = "read"]
           \/ attempt' = [attempt EXCEPT ![c].step = "refused"]
    BY <1>2 DEF ReadsNames, Attempt
  <2>2. c \in open /\ \A n \in Names : serving[n] # c
    BY <2>1
  <2> QED
    BY <2>1, <2>2
<1>3. ASSUME NEW c \in Connections, Confirms(c) PROVE AttachesAreOpen' /\ OnlyAdmittedServe'
  <2>1. /\ attempt[c].step = "read" /\ UNCHANGED open
        /\ \/ /\ serving' = [n \in Names |-> IF n \in attempt[c].names THEN c ELSE serving[n]]
              /\ attempt' = [attempt EXCEPT ![c].step = "attached"]
           \/ /\ UNCHANGED serving
              /\ attempt' = [attempt EXCEPT ![c].step = "refused"]
    BY <1>3 DEF Confirms, Attempt
  <2>2. c \in open /\ \A n \in Names : serving[n] # c
    BY <2>1
  <2> QED
    BY <2>1, <2>2
<1>4. ASSUME NEW c \in Connections, Closes(c) PROVE AttachesAreOpen' /\ OnlyAdmittedServe'
  BY <1>4 DEF Closes, detach, withdraw, ServedBy
<1>5. CASE WithdrawOmitted \/ detach_all
  BY <1>5 DEF WithdrawOmitted, detach_all, withdraw
<1>6. CASE UNCHANGED <<serving, open, attempt>>
  BY <1>6
<1> HIDE DEF AdmissionInv, AttachesAreOpen, OnlyAdmittedServe, UnderWay, Served, KyokTypeOK
<1> QED
  BY <1>1, <1>2, <1>3, <1>4, <1>5, <1>6, RosterCases
     DEF register, issue_connect_challenge, ChallengeExpires, FindsUnused, DeletesRow, rosterVars

(* attach and detach: as long as no link closes while its attach is under way,
   whoever serves a name was admitted and confirmed, and is open. *)
THEOREM AdmittedServe ==
  ASSUME "early_close" \notin RosterClasses
  PROVE  Spec => []OnlyAdmittedServe
<1>1. Init => AdmissionInv
  <2> SUFFICES ASSUME Init PROVE AttachesAreOpen /\ OnlyAdmittedServe
    BY InitTypeOK DEF AdmissionInv
  <2> QED
    BY DEF Init, RosterInit, AttachesAreOpen, OnlyAdmittedServe, UnderWay, Served
<1>2. AdmissionInv /\ [Next]_vars => AdmissionInv'
  BY NextAdmissionInv
<1>3. AdmissionInv => OnlyAdmittedServe
  BY DEF AdmissionInv
<1> QED
  BY <1>1, <1>2, <1>3, PTL DEF Spec

-----------------------------------------------------------------------------
(* A binding dies with its run, and completions are those of live runs *)

BindingInv == KyokTypeOK /\ BindingDiesWithRun

LEMMA NextBindingInv ==
  ASSUME "rejected" \notin KyokClasses, BindingInv, [Next]_vars
  PROVE  BindingInv'
<1> SUFFICES BindingDiesWithRun'
  BY NextTypeOK DEF BindingInv
<1> USE DEF BindingInv, BindingDiesWithRun, KyokTypeOK
<1>1. ASSUME NEW r \in Runs, DoorStep(r) PROVE BindingDiesWithRun'
  <2>1. ASSUME NEW n \in Names, OptsIn(r, n) PROVE BindingDiesWithRun'
    BY <2>1 DEF OptsIn, Arrives
  <2>2. ASSUME NEW parent \in Runs, Inherits(r, parent) PROVE BindingDiesWithRun'
    BY <2>2 DEF Inherits
  <2>3. CASE BindsAndEnqueues(r)
    BY <2>3 DEF BindsAndEnqueues
  <2>4. CASE Enqueues(r)
    BY <2>4 DEF Enqueues
  <2>5. CASE Rejects(r)
    BY <2>5 DEF Rejects
  <2> HIDE DEF BindingInv, BindingDiesWithRun, KyokTypeOK
  <2> QED
    BY <1>1, <2>1, <2>2, <2>3, <2>4, <2>5 DEF DoorStep
<1>2. ASSUME NEW r \in Runs, forget(r) PROVE BindingDiesWithRun'
  BY <1>2 DEF forget
<1>3. CASE UNCHANGED <<tracked, door, bindings>>
  BY <1>3
<1>4. ASSUME NEW k \in Calls, CallStep(k) PROVE UNCHANGED <<tracked, door, bindings>>
  BY <1>4 DEF CallStep, complete, Relays, Counted
<1>5. ASSUME RosterOperation PROVE UNCHANGED <<tracked, door, bindings>>
  BY <1>5 DEF RosterOperation, register_llm_providers, attach_llm_provider,
     detach_llm_provider, detach_all_for, delete_llm_offering, kyokVars
<1> HIDE DEF BindingInv, BindingDiesWithRun, KyokTypeOK
<1> QED
  BY <1>1, <1>2, <1>3, <1>4, <1>5 DEF Next, request_cancel, kyokVars, vars

(* forget and its listener: as long as no door raises after a run inherited a
   binding, only a tracked run, or one about to be enqueued, has one. *)
THEOREM BindingDies ==
  ASSUME "rejected" \notin KyokClasses
  PROVE  Spec => []BindingDiesWithRun
<1>1. Init => BindingInv
  <2> SUFFICES ASSUME Init PROVE BindingDiesWithRun
    BY InitTypeOK DEF BindingInv
  <2> QED
    BY DEF Init, KyokInit, BindingDiesWithRun
<1>2. BindingInv /\ [Next]_vars => BindingInv'
  BY NextBindingInv
<1>3. BindingInv => BindingDiesWithRun
  BY DEF BindingInv
<1> QED
  BY <1>1, <1>2, <1>3, PTL DEF Spec

(* A step of RelaysForLiveRuns. *)
RelayStep ==
  \A k \in Calls :
    call'[k].step = "relaying" /\ call[k].step # "relaying" =>
      LET r == call[k].run
      IN /\ r \in tracked \/ door[r] = "prepared"
         /\ bindings[r] # None /\ call'[k].link = serving[bindings[r]]

LEMMA NextRelayStep == BindingInv /\ [Next]_vars => [RelayStep]_vars
<1> SUFFICES ASSUME BindingInv, Next PROVE RelayStep
  BY DEF RelayStep, vars
<1>1. ASSUME NEW k \in Calls, CallStep(k) PROVE RelayStep
  <2> USE DEF BindingInv, KyokTypeOK
  <2>1. ASSUME NEW r \in Runs, complete(k, r) PROVE RelayStep
    BY <2>1 DEF complete, Over, RelayStep
  <2>2. CASE Counted(k)
    BY <2>2 DEF Counted, Over, RelayStep
  <2>3. CASE Relays(k)
    <3> DEFINE r == call[k].run
               link == IF bindings[r] = None THEN None ELSE serving[bindings[r]]
    <3>1. CASE Over(k, "rejected")
      BY <3>1 DEF Over, RelayStep
    <3>2. CASE link # None /\ call' = [call EXCEPT ![k].step = "relaying", ![k].link = link]
      <4>1. r \in Runs /\ bindings[r] # None
        BY <2>3, <3>2 DEF Relays
      <4>2. r \in tracked \/ door[r] = "prepared"
        BY <4>1 DEF BindingDiesWithRun
      <4>3. call'[k].link = serving[bindings[r]]
        BY <3>2, <4>1
      <4>4. \A i \in Calls : i # k => call'[i] = call[i]
        BY <3>2
      <4> QED
        BY <4>1, <4>2, <4>3, <4>4 DEF RelayStep
    <3> QED
      BY <2>3, <3>1, <3>2 DEF Relays
  <2> QED
    BY <1>1, <2>1, <2>2, <2>3 DEF CallStep
<1>2. CASE UNCHANGED call
  BY <1>2 DEF RelayStep
<1>3. ASSUME NEW r \in Runs, DoorStep(r) \/ request_cancel(r) \/ forget(r) PROVE UNCHANGED call
  BY <1>3 DEF DoorStep, OptsIn, Inherits, BindsAndEnqueues, Enqueues, Rejects,
     request_cancel, forget
<1>4. ASSUME RosterOperation PROVE UNCHANGED call
  BY <1>4 DEF RosterOperation, register_llm_providers, attach_llm_provider,
     detach_llm_provider, detach_all_for, delete_llm_offering, kyokVars
<1> QED
  BY <1>1, <1>2, <1>3, <1>4 DEF Next, kyokVars

(* complete: a completion that gets through its awaits is that of a run still
   tracked, or about to be again, and goes to the link serving its offering. *)
THEOREM CompletionsOfLiveRuns ==
  ASSUME "rejected" \notin KyokClasses
  PROVE  Spec => RelaysForLiveRuns
<1>1. Init => BindingInv
  <2> SUFFICES ASSUME Init PROVE BindingDiesWithRun
    BY InitTypeOK DEF BindingInv
  <2> QED
    BY DEF Init, KyokInit, BindingDiesWithRun
<1>2. BindingInv /\ [Next]_vars => BindingInv'
  BY NextBindingInv
<1>3. [][RelayStep]_vars => RelaysForLiveRuns
  BY DEF RelaysForLiveRuns, RelayStep
<1> QED
  BY <1>1, <1>2, <1>3, NextRelayStep, PTL DEF Spec

-----------------------------------------------------------------------------
(* Cleaning up after one link takes no other link down *)

(* A step of LinkKeepsItsNames. *)
LinkStep ==
  \A n \in Names :
    serving[n] # None /\ serving'[n] = None /\ serving[n] \in open' =>
      \/ registering # None /\ n \notin registering
      \/ Served' = {} /\ open' = open

LEMMA NextLinkStep == KyokTypeOK /\ [Next]_vars => [LinkStep]_vars
<1> SUFFICES ASSUME KyokTypeOK, [Next]_vars PROVE LinkStep \/ UNCHANGED vars
  OBVIOUS
<1> USE DEF KyokTypeOK, LinkStep
<1>1. ASSUME NEW c \in Connections, Confirms(c) PROVE LinkStep
  BY <1>1, RosterAssumption DEF Confirms
<1>2. ASSUME NEW c \in Connections, Closes(c) PROVE LinkStep
  BY <1>2 DEF Closes, detach, withdraw, ServedBy
<1>3. CASE WithdrawOmitted
  BY <1>3 DEF WithdrawOmitted, withdraw, Served
<1>4. CASE detach_all
  BY <1>4 DEF detach_all, withdraw, Served
<1>5. CASE UNCHANGED serving
  BY <1>5
<1> HIDE DEF KyokTypeOK, LinkStep
<1> QED
  BY <1>1, <1>2, <1>3, <1>4, <1>5, RosterCases
     DEF register, issue_connect_challenge, ChallengeExpires, attach, ReadsNames,
         FindsUnused, DeletesRow, rosterVars

(* detach goes by the connection: an open link loses a name only to another
   link, to a registration that omits it, or to the eviction of the key. *)
THEOREM LinksKeepTheirNames == Spec => LinkKeepsItsNames
<1>1. [][LinkStep]_vars => LinkKeepsItsNames
  BY DEF LinkKeepsItsNames, LinkStep
<1> QED
  BY <1>1, InitTypeOK, NextTypeOK, NextLinkStep, PTL DEF Spec

-----------------------------------------------------------------------------
(* What is in use keeps its row *)

(* What a deletion, an attach or a door has found stays as it was found until
   the row goes, the names go live or the run is bound. *)
FindingsHold ==
  /\ \A c \in Connections : attempt[c].step = "read" => attempt[c].names \subseteq rows
  /\ \A r \in Runs : door[r] = "opted_in" => wanted[r] \in rows
  /\ deleting # None =>
       /\ serving[deleting] = None /\ deleting \notin Bound
       /\ \A c \in Connections : ~UnderWay(c)
       /\ \A r \in Runs : door[r] # "opted_in"

UseInv == KyokTypeOK /\ FindingsHold /\ Served \subseteq rows /\ Bound \subseteq rows

LEMMA RosterKeepsUse ==
  ASSUME "racing_delete" \notin RosterClasses, UseInv, RosterOperation \/ RosterStep,
         UNCHANGED kyokVars
  PROVE  FindingsHold' /\ Served' \subseteq rows' /\ Bound' \subseteq rows'
<1> DEFINE Goal == FindingsHold' /\ Served' \subseteq rows' /\ Bound' \subseteq rows'
<1> SUFFICES Goal
  OBVIOUS
<1> USE RosterAssumption DEF UseInv, FindingsHold, Served, Bound, UnderWay, KyokTypeOK, kyokVars
<1>1. ASSUME NEW batch \in SUBSET Names, register(batch) PROVE Goal
  BY <1>1 DEF register, store
<1>2. CASE WithdrawOmitted
  BY <1>2 DEF WithdrawOmitted, withdraw
<1>3. ASSUME NEW x \in Nonces, issue_connect_challenge(x) \/ ChallengeExpires(x) PROVE Goal
  BY <1>3 DEF issue_connect_challenge, ChallengeExpires
<1>4. ASSUME NEW c \in Connections, NEW x \in Nonces, NEW names \in SUBSET Names,
             attach(c, x, names)
      PROVE  Goal
  BY <1>4 DEF attach, Attempt
<1>5. ASSUME NEW c \in Connections, ReadsNames(c) PROVE Goal
  BY <1>5 DEF ReadsNames, Attempt
<1>6. ASSUME NEW c \in Connections, Confirms(c) PROVE Goal
  BY <1>6 DEF Confirms, Attempt
<1>7. ASSUME NEW c \in Connections, Closes(c) PROVE Goal
  BY <1>7 DEF Closes, detach, withdraw
<1>8. CASE detach_all
  BY <1>8 DEF detach_all, withdraw
<1>9. ASSUME NEW n \in Names, FindsUnused(n, Bound, \E r \in Runs : door[r] = "opted_in")
      PROVE  Goal
  BY <1>9 DEF FindsUnused
<1>10. CASE DeletesRow
  BY <1>10 DEF DeletesRow
<1> HIDE DEF Goal, UseInv, FindingsHold, Served, Bound, UnderWay, KyokTypeOK, kyokVars
<1> QED
  BY <1>1, <1>2, <1>3, <1>4, <1>5, <1>6, <1>7, <1>8, <1>9, <1>10
     DEF RosterOperation, RosterStep, register_llm_providers, attach_llm_provider,
         detach_llm_provider, detach_all_for, delete_llm_offering

LEMMA NextUseInv ==
  ASSUME "racing_delete" \notin RosterClasses, UseInv, [Next]_vars
  PROVE  UseInv'
<1> DEFINE Goal == FindingsHold' /\ Served' \subseteq rows' /\ Bound' \subseteq rows'
<1> SUFFICES Goal
  BY NextTypeOK DEF UseInv
<1>1. CASE RosterOperation
  BY <1>1, RosterKeepsUse, RosterOperationTypeOK DEF UseInv, KyokTypeOK, RosterTypeOK
<1>2. CASE RosterStep /\ UNCHANGED kyokVars
  BY <1>2, RosterKeepsUse
<1> USE RosterAssumption DEF UseInv, FindingsHold, Served, Bound, UnderWay, KyokTypeOK, rosterVars
<1>3. ASSUME NEW r \in Runs, DoorStep(r) PROVE Goal
  <2>1. ASSUME NEW n \in Names, OptsIn(r, n) PROVE Goal
    BY <2>1 DEF OptsIn
  <2>2. ASSUME NEW parent \in Runs, Inherits(r, parent) PROVE Goal
    BY <2>2 DEF Inherits
  <2>3. CASE BindsAndEnqueues(r)
    BY <2>3 DEF BindsAndEnqueues
  <2>4. CASE Enqueues(r)
    BY <2>4 DEF Enqueues
  <2>5. CASE Rejects(r)
    BY <2>5 DEF Rejects
  <2> HIDE DEF Goal
  <2> QED
    BY <1>3, <2>1, <2>2, <2>3, <2>4, <2>5 DEF DoorStep
<1>4. ASSUME NEW r \in Runs, forget(r) PROVE Goal
  BY <1>4 DEF forget
<1>5. CASE UNCHANGED <<rosterVars, door, wanted, bindings>>
  BY <1>5
<1>6. ASSUME NEW k \in Calls, CallStep(k) PROVE UNCHANGED <<rosterVars, door, wanted, bindings>>
  BY <1>6 DEF CallStep, complete, Relays, Counted
<1> HIDE DEF Goal, UseInv, FindingsHold, Served, Bound, UnderWay, KyokTypeOK, rosterVars
<1> QED
  BY <1>1, <1>2, <1>3, <1>4, <1>5, <1>6 DEF Next, request_cancel, vars, kyokVars

(* delete_llm_offering: as long as nothing attaches or opts in between its
   checks and its commit, what is served or bound to a tracked run keeps its
   row, through registrations, attaches and evictions. *)
THEOREM UseIsKept ==
  ASSUME "racing_delete" \notin RosterClasses
  PROVE  Spec => []InUseIsKept
<1>1. Init => UseInv
  <2> SUFFICES ASSUME Init PROVE FindingsHold /\ Served \subseteq rows /\ Bound \subseteq rows
    BY InitTypeOK DEF UseInv
  <2> QED
    BY DEF Init, RosterInit, KyokInit, FindingsHold, Served, Bound, UnderWay
<1>2. UseInv /\ [Next]_vars => UseInv'
  BY NextUseInv
<1>3. UseInv => InUseIsKept
  BY DEF UseInv, InUseIsKept, Bound, KyokTypeOK
<1> QED
  BY <1>1, <1>2, <1>3, PTL DEF Spec
=============================================================================
