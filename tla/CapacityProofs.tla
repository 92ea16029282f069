--------------------------- MODULE CapacityProofs ---------------------------
(* What Broker's capacity counters promise, for any number of runs, agents *)
(* and providers.  The room is read before deliver is awaited, the claim is *)
(* made after it, forgets and late acknowledgements fall in between, and    *)
(* the counter is neither the number of claims nor kept under a lock.       *)
EXTENDS BrokerProofs

(* An object is filed, offered and claimed only once its round has begun, so
   the object that an enqueue files has never been claimed. *)
RoundsBegun ==
  /\ \A r \in Runs : tracked[r] <= round[r]
  /\ \A o \in claimed : o[2] <= round[o[1]]
  /\ offer # None => offer.obj[2] <= round[offer.obj[1]]

CountInv == TypeOK /\ RoundsBegun /\ HeldIsCounted

-----------------------------------------------------------------------------
(* Runs held by a provider, as a finite set *)

LEMMA HeldIsFinite ==
  /\ \A p \in Providers : IsFiniteSet(Held(p)) /\ Cardinality(Held(p)) \in Nat
<1> SUFFICES ASSUME NEW p \in Providers
             PROVE  IsFiniteSet(Held(p)) /\ Cardinality(Held(p)) \in Nat
  OBVIOUS
<1>1. Held(p) \subseteq Runs /\ IsFiniteSet(Runs)
  BY BrokerAssumption DEF Held
<1>2. IsFiniteSet(Held(p))
  BY <1>1, FS_Subset
<1> QED
  BY <1>2, FS_CardinalityType

LEMMA HeldIsFinitePrimed ==
  \A p \in Providers : IsFiniteSet(Held(p)') /\ Cardinality(Held(p)') \in Nat
<1> SUFFICES ASSUME NEW p \in Providers
             PROVE  IsFiniteSet(Held(p)') /\ Cardinality(Held(p)') \in Nat
  OBVIOUS
<1>1. Held(p)' \subseteq Runs /\ IsFiniteSet(Runs)
  BY BrokerAssumption DEF Held
<1>2. IsFiniteSet(Held(p)')
  BY <1>1, FS_Subset
<1> QED
  BY <1>2, FS_CardinalityType

(* A step that claims nothing and lowers no counter keeps the counting. *)
LEMMA ShrinkKeepsCount ==
  ASSUME TypeOK, TypeOK', HeldIsCounted,
         \A p \in Providers : Held(p)' \subseteq Held(p),
         \A p \in Providers : inFlight[p] <= inFlight'[p]
  PROVE  HeldIsCounted'
<1> SUFFICES ASSUME NEW p \in Providers
             PROVE  Cardinality(Held(p)') <= inFlight'[p]
  BY DEF HeldIsCounted
<1>1. Cardinality(Held(p)') <= Cardinality(Held(p))
  BY HeldIsFinite, FS_Subset
<1>2. Cardinality(Held(p)') \in Nat /\ Cardinality(Held(p)) \in Nat
  BY HeldIsFinite, HeldIsFinitePrimed
<1>3. inFlight[p] \in Nat /\ inFlight'[p] \in Nat
  BY DEF TypeOK
<1>4. Cardinality(Held(p)) <= inFlight[p] /\ inFlight[p] <= inFlight'[p]
  BY DEF HeldIsCounted
<1> QED
  BY <1>1, <1>2, <1>3, <1>4

(* A step that leaves the claims, the files and the counters alone. *)
LEMMA SameKeepsCount ==
  ASSUME HeldIsCounted, UNCHANGED <<tracked, claimed, inFlight>>
  PROVE  HeldIsCounted'
BY DEF HeldIsCounted, Held, IsTracked, Current

(* A claim takes a place for at most one more run. *)
LEMMA ClaimKeepsCount ==
  ASSUME TypeOK, TypeOK', HeldIsCounted, NEW o \in Objects,
         UNCHANGED tracked, claimed' = claimed \cup {o},
         inFlight' = [inFlight EXCEPT ![Provider(o[1])] = @ + 1]
  PROVE  HeldIsCounted'
<1> SUFFICES ASSUME NEW p \in Providers
             PROVE  Cardinality(Held(p)') <= inFlight'[p]
  BY DEF HeldIsCounted
<1>1. o[1] \in Runs /\ Provider(o[1]) \in Providers
  BY ProviderOfRun
<1>2. Cardinality(Held(p)') \in Nat /\ Cardinality(Held(p)) \in Nat
  BY HeldIsFinite, HeldIsFinitePrimed
<1>3. inFlight[p] \in Nat /\ Cardinality(Held(p)) <= inFlight[p]
  BY DEF TypeOK, HeldIsCounted
<1>4. CASE Provider(o[1]) = p
  <2>1. Held(p)' \subseteq Held(p) \cup {o[1]}
    BY DEF Held, IsTracked, Current
  <2>2. /\ IsFiniteSet(Held(p) \cup {o[1]})
        /\ Cardinality(Held(p) \cup {o[1]}) <= Cardinality(Held(p)) + 1
    <3>1. IsFiniteSet(Held(p))
      BY HeldIsFinite
    <3> HIDE DEF Held
    <3>2. /\ IsFiniteSet(Held(p) \cup {o[1]})
          /\ Cardinality(Held(p) \cup {o[1]}) =
               IF o[1] \in Held(p) THEN Cardinality(Held(p)) ELSE Cardinality(Held(p)) + 1
      BY <3>1, FS_AddElement
    <3> QED
      BY <3>2, <1>2
  <2>3. Cardinality(Held(p)') <= Cardinality(Held(p) \cup {o[1]})
    BY <2>1, <2>2, FS_Subset
  <2>4. inFlight'[p] = inFlight[p] + 1
    BY <1>4 DEF TypeOK
  <2>5. Cardinality(Held(p) \cup {o[1]}) \in Nat
    BY <2>2, FS_CardinalityType
  <2> QED
    BY <1>2, <1>3, <2>2, <2>3, <2>4, <2>5
<1>5. CASE Provider(o[1]) # p
  <2>1. Held(p)' \subseteq Held(p)
    BY <1>5 DEF Held, IsTracked, Current
  <2>2. Cardinality(Held(p)') <= Cardinality(Held(p))
    BY <2>1, HeldIsFinite, FS_Subset
  <2>3. inFlight'[p] = inFlight[p]
    BY <1>1, <1>5 DEF TypeOK
  <2> QED
    BY <1>2, <1>3, <2>2, <2>3
<1> QED
  BY <1>4, <1>5

(* forget frees a place only with the run that held it. *)
LEMMA ForgetKeepsCount ==
  ASSUME TypeOK, TypeOK', HeldIsCounted, NEW r \in Runs,
         forget(r), UNCHANGED claimed
  PROVE  HeldIsCounted'
<1>1. Provider(r) \in Providers
  BY ProviderOfRun
<1>2. \A p \in Providers : Held(p)' \subseteq Held(p)
  BY DEF forget, Held, IsTracked, Current, TypeOK
<1>3. CASE UNCHANGED inFlight
  BY <1>2, <1>3, ShrinkKeepsCount DEF TypeOK
<1>4. CASE /\ r \in Held(Provider(r)) /\ inFlight[Provider(r)] > 0
           /\ inFlight' = [inFlight EXCEPT ![Provider(r)] = @ - 1]
  <2> SUFFICES ASSUME NEW p \in Providers
               PROVE  Cardinality(Held(p)') <= inFlight'[p]
    BY DEF HeldIsCounted
  <2>1. Cardinality(Held(p)') \in Nat /\ Cardinality(Held(p)) \in Nat
    BY HeldIsFinite, HeldIsFinitePrimed
  <2>2. inFlight[p] \in Nat /\ Cardinality(Held(p)) <= inFlight[p]
    BY DEF TypeOK, HeldIsCounted
  <2>3. CASE p = Provider(r)
    <3>1. Held(p)' \subseteq Held(p) \ {r}
      BY <1>2 DEF forget, Held, IsTracked, TypeOK
    <3>2. /\ IsFiniteSet(Held(p) \ {r})
          /\ Cardinality(Held(p) \ {r}) = Cardinality(Held(p)) - 1
      BY <1>4, <2>3, HeldIsFinite, FS_RemoveElement
    <3>3. Cardinality(Held(p)') <= Cardinality(Held(p) \ {r})
      BY <3>1, <3>2, FS_Subset
    <3>4. inFlight'[p] = inFlight[p] - 1
      BY <1>4, <2>3 DEF TypeOK
    <3> QED
      BY <2>1, <2>2, <3>2, <3>3, <3>4
  <2>4. CASE p # Provider(r)
    <3>1. Cardinality(Held(p)') <= Cardinality(Held(p))
      BY <1>2, HeldIsFinite, FS_Subset
    <3>2. inFlight'[p] = inFlight[p]
      BY <1>4, <2>4 DEF TypeOK
    <3> QED
      BY <2>1, <2>2, <3>1, <3>2
  <2> QED
    BY <2>3, <2>4
<1> QED
  BY <1>3, <1>4 DEF forget, Held

(* Every step keeps the count, and the rounds in order. *)
LEMMA RoundsBegunSame ==
  ASSUME RoundsBegun, UNCHANGED <<tracked, round, claimed>>, offer' \in {offer, None}
  PROVE  RoundsBegun'
BY DEF RoundsBegun

LEMMA CurrentHasBegun ==
  ASSUME TypeOK, RoundsBegun, NEW r \in Runs
  PROVE  Current(r)[1] = r /\ Current(r)[2] <= round[r]
BY DEF RoundsBegun, Current

(* The object that an enqueue files is of the round that begins with it. *)
LEMMA EnqueueBegins ==
  ASSUME TypeOK, RoundsBegun, NEW r \in Runs, enqueue_run(r)
  PROVE  RoundsBegun'
<1> USE DEF objVars, loopVars
<1>1. \A x \in Runs : round[x] \in Nat /\ round'[x] \in Nat /\ round[x] <= round'[x]
  BY BrokerAssumption DEF enqueue_run, TypeOK
<1>2. \A x \in Runs : tracked'[x] <= round'[x]
  BY <1>1 DEF enqueue_run, TypeOK, RoundsBegun
<1>3. \A o \in Objects : o[1] \in Runs /\ o[2] \in Nat
  BY BrokerAssumption DEF Objects
<1>4. claimed \subseteq Objects /\ (offer # None => offer.obj \in Objects)
  BY DEF TypeOK, Offers
<1>5. \A o \in Objects : o[2] <= round[o[1]] => o[2] <= round'[o[1]]
  BY <1>1, <1>3
<1> QED
  BY <1>2, <1>4, <1>5 DEF enqueue_run, RoundsBegun

LEMMA NextRoundsBegun == TypeOK /\ RoundsBegun /\ [Next]_vars => RoundsBegun'
<1> SUFFICES ASSUME TypeOK, RoundsBegun, [Next]_vars PROVE RoundsBegun'
  OBVIOUS
<1> USE DEF objVars, loopVars
<1>1. ASSUME NEW r \in Runs, Submit(r) \/ Resume(r) PROVE RoundsBegun'
  BY <1>1, EnqueueBegins DEF Submit, Resume
<1>2. ASSUME NEW a \in Agents, OfferHead(a) PROVE RoundsBegun'
  <2> DEFINE h == Head(FromFirstOfferable(pending[a]))
  <2>1. FromFirstOfferable(pending[a]) \in Seq(Runs)
        /\ FromFirstOfferable(pending[a]) # <<>>
    BY <1>2, FromFirstOfferableIsSeq DEF OfferHead, TypeOK
  <2>2. h \in Runs
    BY <2>1
  <2>3. offer' = [obj |-> Current(h), answer |-> "awaited"]
    BY <1>2 DEF OfferHead
  <2> HIDE DEF h
  <2>4. offer'.obj = Current(h)
    BY <2>3
  <2>5. offer'.obj[2] <= round[offer'.obj[1]]
    BY <2>2, <2>4, CurrentHasBegun
  <2> QED
    BY <1>2, <2>5 DEF OfferHead, RoundsBegun
<1>3. CASE ProviderAccepts
  BY <1>3 DEF ProviderAccepts, RoundsBegun, TypeOK, Offers
<1>4. CASE OfferAccepted
  BY <1>4 DEF OfferAccepted, claim, RoundsBegun
<1>5. CASE OfferDeclined \/ OfferRefused \/ OfferUnanswered
  BY <1>5, RoundsBegunSame DEF OfferDeclined, OfferRefused, OfferUnanswered
<1>6. ASSUME NEW o \in Objects, NEW e \in Reports, accept_late_ack(o, e)
      PROVE  RoundsBegun'
  <2>1. claimed' = claimed \cup {Current(o[1])}
    BY <1>6 DEF accept_late_ack, claim
  <2>2. o[1] \in Runs
    BY ProviderOfRun
  <2>3. Current(o[1])[2] <= round[Current(o[1])[1]]
    BY <2>2, CurrentHasBegun
  <2> QED
    BY <1>6, <2>1, <2>3 DEF accept_late_ack, RoundsBegun
<1>7. ASSUME NEW r \in Runs, forget(r), UNCHANGED <<round, claimed, offer>>
      PROVE  RoundsBegun'
  <2>1. \A x \in Runs : round[x] \in Nat /\ tracked'[x] \in {tracked[x], 0}
    BY <1>7, BrokerAssumption DEF forget, TypeOK
  <2>2. \A x \in Runs : tracked'[x] <= round[x]
    BY <2>1 DEF RoundsBegun
  <2> QED
    BY <1>7, <2>2 DEF RoundsBegun
<1>8. ASSUME NEW l \in Lanes, PipelineStep(l) PROVE RoundsBegun'
  <2>1. l[1][1] \in Runs
    BY ProviderOfRun DEF Lanes
  <2> QED
    BY <1>8, <2>1, <1>7, RoundsBegunSame
       DEF PipelineStep, PipelineTakes, PipelineGoesOn, PipelineEnds
<1>9. ASSUME NEW s \in SoloTasks, OneShotStep(s) PROVE RoundsBegun'
  <2>1. s.obj[1] \in Runs
    BY ProviderOfRun DEF SoloTasks
  <2> QED
    BY <1>9, <2>1, <1>7, RoundsBegunSame DEF OneShotStep, OneShotStarts, OneShotEnds
<1>10. ASSUME UNCHANGED <<tracked, round, claimed, offer>> PROVE RoundsBegun'
  BY <1>10, RoundsBegunSame
<1>11. ASSUME NEW p \in Providers, register_provider(p) \/ Detach(p)
       PROVE  UNCHANGED <<tracked, round, claimed, offer>>
  BY <1>11 DEF register_provider, Detach
<1>12. ASSUME NEW r \in Runs,
              request_cancel(r) \/ FailStalled(r) \/ GracePasses(r) \/ expire_queued(r)
       PROVE  UNCHANGED <<tracked, round, claimed, offer>>
  BY <1>12 DEF request_cancel, FailStalled, push_fail, GracePasses, expire_queued
<1>13. ASSUME NEW a \in Agents, StartWalk \/ EndWalk \/ Wake \/ LeaveAgent(a)
       PROVE  UNCHANGED <<tracked, round, claimed, offer>>
  BY <1>13 DEF StartWalk, EndWalk, Wake, LeaveAgent
<1>14. ASSUME NEW o \in Objects, NEW e, report_event(o, e) \/ finish_run(o) \/ Abandon(o)
       PROVE  UNCHANGED <<tracked, round, claimed, offer>>
  BY <1>14 DEF report_event, finish_run, Abandon
<1>15. ASSUME StartWalk \/ EndWalk \/ Wake \/ UNCHANGED vars
       PROVE  UNCHANGED <<tracked, round, claimed, offer>>
  BY <1>15 DEF StartWalk, EndWalk, Wake, vars
<1> QED
  BY <1>1, <1>2, <1>3, <1>4, <1>5, <1>6, <1>8, <1>9, <1>10, <1>11, <1>12, <1>13, <1>14,
     <1>15 DEF Next, LoopStep, OfferStep

LEMMA NextHeldIsCounted ==
  TypeOK /\ TypeOK' /\ RoundsBegun /\ HeldIsCounted /\ [Next]_vars => HeldIsCounted'
<1> SUFFICES ASSUME TypeOK, TypeOK', RoundsBegun, HeldIsCounted, [Next]_vars
             PROVE  HeldIsCounted'
  OBVIOUS
<1> USE DEF objVars, loopVars
<1>1. ASSUME NEW r \in Runs, Submit(r) \/ Resume(r) PROVE HeldIsCounted'
  <2>1. enqueue_run(r)
    BY <1>1 DEF Submit, Resume
  <2>2. round[r] \in Nat /\ tracked'[r] = round[r] + 1
    BY <2>1, BrokerAssumption DEF enqueue_run, TypeOK
  <2>3. <<r, tracked'[r]>> \notin claimed
    <3>1. ASSUME <<r, round[r] + 1>> \in claimed PROVE round[r] + 1 <= round[r]
      BY <3>1 DEF RoundsBegun
    <3> QED
      BY <2>2, <3>1
  <2>4. \A x \in Runs \ {r} : tracked'[x] = tracked[x]
    BY <2>1 DEF enqueue_run, TypeOK
  <2>5. \A p \in Providers : Held(p)' \subseteq Held(p)
    BY <2>1, <2>3, <2>4 DEF enqueue_run, Held, IsTracked, Current
  <2> QED
    BY <2>1, <2>5, ShrinkKeepsCount DEF enqueue_run, TypeOK
<1>2. CASE OfferAccepted
  <2>1. offer.obj \in Objects
    BY <1>2 DEF OfferAccepted, TypeOK, Offers
  <2> QED
    BY <1>2, <2>1, ClaimKeepsCount DEF OfferAccepted, claim
<1>3. CASE OfferDeclined
  <2> DEFINE p == Provider(offer.obj[1])
  <2>1. offer.obj \in Objects
    BY <1>3 DEF OfferDeclined, TypeOK, Offers
  <2>2. p \in Providers
    BY <2>1, ProviderOfRun
  <2>3. \A q \in Providers : inFlight[q] \in Nat
    BY DEF TypeOK
  <2>4. \/ inFlight' = inFlight
        \/ /\ has_room(p) /\ Limit[p] # Unlimited
           /\ inFlight' = [inFlight EXCEPT ![p] = Limit[p]]
    BY <1>3 DEF OfferDeclined
  <2>5. has_room(p) /\ Limit[p] # Unlimited => Limit[p] \in Nat /\ inFlight[p] < Limit[p]
    BY <2>2, BrokerAssumption DEF has_room
  <2> HIDE DEF p
  <2>6. \A q \in Providers : inFlight[q] <= inFlight'[q]
    <3>1. inFlight \in [Providers -> Nat]
      BY DEF TypeOK
    <3> TAKE q \in Providers
    <3>2. CASE inFlight' = inFlight
      BY <2>3, <3>2
    <3>3. CASE /\ has_room(p) /\ Limit[p] # Unlimited
               /\ inFlight' = [inFlight EXCEPT ![p] = Limit[p]]
      BY <2>2, <2>3, <2>5, <3>1, <3>3
    <3> QED
      BY <2>4, <3>2, <3>3
  <2>7. \A q \in Providers : Held(q)' \subseteq Held(q)
    BY <1>3 DEF OfferDeclined, Held, IsTracked, Current
  <2> QED
    BY <2>6, <2>7, ShrinkKeepsCount
<1>4. ASSUME NEW o \in Objects, NEW e \in Reports, accept_late_ack(o, e)
      PROVE  HeldIsCounted'
  <2>1. o[1] \in Runs
    BY ProviderOfRun
  <2>2. Current(o[1]) \in Objects /\ Current(o[1])[1] = o[1]
    BY <1>4, <2>1, CurrentIsObject DEF accept_late_ack, Current
  <2> QED
    BY <1>4, <2>2, ClaimKeepsCount DEF accept_late_ack, claim
<1>5. ASSUME NEW l \in Lanes, PipelineStep(l) PROVE HeldIsCounted'
  <2>1. l[1][1] \in Runs
    BY ProviderOfRun DEF Lanes
  <2> QED
    BY <1>5, <2>1, ForgetKeepsCount, SameKeepsCount
       DEF PipelineStep, PipelineTakes, PipelineGoesOn, PipelineEnds
<1>6. ASSUME NEW s \in SoloTasks, OneShotStep(s) PROVE HeldIsCounted'
  <2>1. s.obj[1] \in Runs
    BY ProviderOfRun DEF SoloTasks
  <2> QED
    BY <1>6, <2>1, ForgetKeepsCount, SameKeepsCount
       DEF OneShotStep, OneShotStarts, OneShotEnds
<1>7. ASSUME NEW p \in Providers, register_provider(p) \/ Detach(p)
      PROVE  UNCHANGED <<tracked, claimed, inFlight>>
  BY <1>7 DEF register_provider, Detach
<1>8. ASSUME NEW r \in Runs,
             request_cancel(r) \/ FailStalled(r) \/ GracePasses(r) \/ expire_queued(r)
      PROVE  UNCHANGED <<tracked, claimed, inFlight>>
  BY <1>8 DEF request_cancel, FailStalled, push_fail, GracePasses, expire_queued
<1>9. ASSUME NEW a \in Agents, LeaveAgent(a) \/ OfferHead(a)
      PROVE  UNCHANGED <<tracked, claimed, inFlight>>
  BY <1>9 DEF LeaveAgent, OfferHead
<1>10. ASSUME NEW o \in Objects, NEW e, report_event(o, e) \/ finish_run(o) \/ Abandon(o)
       PROVE  UNCHANGED <<tracked, claimed, inFlight>>
  BY <1>10 DEF report_event, finish_run, Abandon
<1>11. ASSUME \/ StartWalk \/ EndWalk \/ Wake
              \/ ProviderAccepts \/ OfferRefused \/ OfferUnanswered
              \/ UNCHANGED vars
       PROVE  UNCHANGED <<tracked, claimed, inFlight>>
  BY <1>11 DEF StartWalk, EndWalk, Wake, ProviderAccepts, OfferRefused, OfferUnanswered,
               vars
<1> QED
  BY <1>1, <1>2, <1>3, <1>4, <1>5, <1>6, <1>7, <1>8, <1>9, <1>10, <1>11, SameKeepsCount
     DEF Next, LoopStep, OfferStep

LEMMA InitCountInv == Init => CountInv
<1> SUFFICES ASSUME Init PROVE CountInv
  OBVIOUS
<1>1. RoundsBegun
  BY DEF Init, RoundsBegun
<1>2. \A p \in Providers : Held(p) = {} /\ inFlight[p] = 0
  BY DEF Init, Held, IsTracked
<1>3. HeldIsCounted
  BY <1>2, FS_EmptySet DEF HeldIsCounted
<1> QED
  BY <1>1, <1>3, InitTypeOK DEF CountInv

(* A place in use is never offered as free: through every interleaving of the
   claims of _offer and accept_late_ack, the write of _offer to a provider that
   declined, and the forgets of pipelines and one-shot tasks, the counter of a
   provider stays at or above the runs it holds. *)
THEOREM CountCoversHeld == Spec => []HeldIsCounted
<1>1. Init => CountInv
  BY InitCountInv
<1>2. CountInv /\ [Next]_vars => CountInv'
  BY NextTypeOK, NextRoundsBegun, NextHeldIsCounted DEF CountInv
<1>3. CountInv => HeldIsCounted
  BY DEF CountInv
<1> QED
  BY <1>1, <1>2, <1>3, PTL DEF Spec

-----------------------------------------------------------------------------
(* The declared limit *)

(* The counter stays within the declared limit, and while an offer is out there
   is still room for the run it offers. *)
RoomIsKept ==
  \A p \in Providers : Limit[p] # Unlimited =>
    /\ inFlight[p] <= Limit[p]
    /\ offer # None /\ Provider(offer.obj[1]) = p => inFlight[p] < Limit[p]

(* A step that raises no counter and makes no offer. *)
LEMMA LessKeepsRoom ==
  ASSUME TypeOK, TypeOK', RoomIsKept, offer' \in {offer, None},
         \A p \in Providers : inFlight'[p] <= inFlight[p]
  PROVE  RoomIsKept'
<1> SUFFICES ASSUME NEW p \in Providers, Limit[p] # Unlimited
             PROVE  /\ inFlight'[p] <= Limit[p]
                    /\ offer' # None /\ Provider(offer'.obj[1]) = p
                         => inFlight'[p] < Limit[p]
  BY DEF RoomIsKept, Provider
<1>1. inFlight[p] \in Nat /\ inFlight'[p] \in Nat /\ Limit[p] \in Nat
  BY BrokerAssumption DEF TypeOK
<1>2. inFlight'[p] <= inFlight[p] /\ inFlight[p] <= Limit[p]
  BY DEF RoomIsKept
<1>3. offer' # None /\ Provider(offer'.obj[1]) = p => inFlight[p] < Limit[p]
  BY DEF RoomIsKept
<1> QED
  BY <1>1, <1>2, <1>3

(* A step that writes one counter and leaves no offer out. *)
LEMMA AnswerKeepsRoom ==
  ASSUME TypeOK, RoomIsKept, offer' = None, NEW p \in Providers, NEW n \in Nat,
         inFlight' = [inFlight EXCEPT ![p] = n],
         Limit[p] # Unlimited => n <= Limit[p]
  PROVE  RoomIsKept'
BY DEF RoomIsKept, TypeOK

LEMMA ForgetKeepsRoom ==
  ASSUME TypeOK, TypeOK', RoomIsKept, NEW r \in Runs, forget(r), UNCHANGED offer
  PROVE  RoomIsKept'
<1>1. Provider(r) \in Providers
  BY ProviderOfRun
<1>2. \/ inFlight' = inFlight
      \/ inFlight' = [inFlight EXCEPT ![Provider(r)] = @ - 1]
  BY DEF forget
<1>3. \A p \in Providers : inFlight[p] \in Nat
  BY DEF TypeOK
<1>4. \A p \in Providers : inFlight'[p] \in {inFlight[p], inFlight[p] - 1}
  BY <1>2 DEF TypeOK
<1>5. \A p \in Providers : inFlight'[p] <= inFlight[p]
  BY <1>3, <1>4
<1> QED
  BY <1>5, LessKeepsRoom

LEMMA NextRoomIsKept ==
  ASSUME Behaviours \cap {"late_report", "early_report"} = {},
         TypeOK, TypeOK', QueuesAreOwn, RoomIsKept, [Next]_vars
  PROVE  RoomIsKept'
<1> USE DEF objVars, loopVars
<1>1. ASSUME UNCHANGED inFlight, offer' \in {offer, None} PROVE RoomIsKept'
  <2>1. \A p \in Providers : inFlight'[p] <= inFlight[p]
    BY <1>1 DEF TypeOK
  <2> QED
    BY <1>1, <2>1, LessKeepsRoom
<1>2. ASSUME NEW a \in Agents, OfferHead(a) PROVE RoomIsKept'
  <2> DEFINE q == FromFirstOfferable(pending[a])
  <2>1. q \in Seq({r \in Runs : AgentOf[r] = a /\ round[r] > 0}) /\ q # <<>>
    BY <1>2, FromFirstOfferableIsSeq DEF OfferHead, QueuesAreOwn
  <2>2. Head(q) \in {r \in Runs : AgentOf[r] = a /\ round[r] > 0}
    <3> HIDE DEF q
    <3> QED
      BY <2>1
  <2>3. /\ offer' = [obj |-> Current(Head(q)), answer |-> "awaited"]
        /\ has_room(Owner[a]) /\ UNCHANGED inFlight
    BY <1>2 DEF OfferHead
  <2> HIDE DEF q
  <2>4. Provider(offer'.obj[1]) = Owner[a]
    BY <2>2, <2>3 DEF Current, Provider
  <2> QED
    BY <2>3, <2>4 DEF RoomIsKept, has_room, Provider
<1>3. CASE OfferAccepted
  <2> DEFINE p == Provider(offer.obj[1])
  <2>1. offer.obj \in Objects /\ offer # None
    BY <1>3 DEF OfferAccepted, TypeOK, Offers
  <2>2. p \in Providers
    BY <2>1, ProviderOfRun
  <2>3. Limit[p] # Unlimited => inFlight[p] < Limit[p] /\ Limit[p] \in Nat
    BY <2>1, <2>2, BrokerAssumption DEF RoomIsKept
  <2>4. inFlight' = [inFlight EXCEPT ![p] = inFlight[p] + 1] /\ offer' = None
    BY <1>3 DEF OfferAccepted
  <2> HIDE DEF p
  <2>5. inFlight[p] \in Nat
    BY <2>2 DEF TypeOK
  <2>6. inFlight[p] + 1 \in Nat /\ (Limit[p] # Unlimited => inFlight[p] + 1 <= Limit[p])
    BY <2>3, <2>5
  <2> QED
    BY <2>2, <2>4, <2>6, AnswerKeepsRoom
<1>4. CASE OfferDeclined
  <2> DEFINE p == Provider(offer.obj[1])
  <2>1. offer.obj \in Objects /\ offer # None
    BY <1>4 DEF OfferDeclined, TypeOK, Offers
  <2>2. p \in Providers
    BY <2>1, ProviderOfRun
  <2>3. /\ offer' = None
        /\ \/ UNCHANGED inFlight
           \/ Limit[p] # Unlimited /\ inFlight' = [inFlight EXCEPT ![p] = Limit[p]]
    BY <1>4 DEF OfferDeclined
  <2> HIDE DEF p
  <2>4. Limit[p] # Unlimited => Limit[p] \in Nat /\ Limit[p] <= Limit[p]
    BY <2>2, BrokerAssumption
  <2> QED
    BY <1>1, <2>2, <2>3, <2>4, AnswerKeepsRoom
<1>5. ASSUME NEW o \in Objects, NEW e \in Reports, accept_late_ack(o, e)
      PROVE  FALSE
  BY <1>5 DEF accept_late_ack
<1>6. ASSUME NEW l \in Lanes, PipelineStep(l) PROVE RoomIsKept'
  <2>1. l[1][1] \in Runs
    BY ProviderOfRun DEF Lanes
  <2> QED
    BY <1>1, <1>6, <2>1, ForgetKeepsRoom
       DEF PipelineStep, PipelineTakes, PipelineGoesOn, PipelineEnds
<1>7. ASSUME NEW s \in SoloTasks, OneShotStep(s) PROVE RoomIsKept'
  <2>1. s.obj[1] \in Runs
    BY ProviderOfRun DEF SoloTasks
  <2> QED
    BY <1>1, <1>7, <2>1, ForgetKeepsRoom DEF OneShotStep, OneShotStarts, OneShotEnds
<1>8. ASSUME NEW r \in Runs, Submit(r) \/ Resume(r) PROVE UNCHANGED <<inFlight, offer>>
  BY <1>8 DEF Submit, Resume, enqueue_run
<1>9. ASSUME NEW p \in Providers, register_provider(p) \/ Detach(p)
      PROVE  UNCHANGED <<inFlight, offer>>
  BY <1>9 DEF register_provider, Detach
<1>10. ASSUME NEW r \in Runs,
              request_cancel(r) \/ FailStalled(r) \/ GracePasses(r) \/ expire_queued(r)
       PROVE  UNCHANGED <<inFlight, offer>>
  BY <1>10 DEF request_cancel, FailStalled, push_fail, GracePasses, expire_queued
<1>11. ASSUME NEW a \in Agents, LeaveAgent(a) PROVE UNCHANGED <<inFlight, offer>>
  BY <1>11 DEF LeaveAgent
<1>12. ASSUME NEW o \in Objects, NEW e, report_event(o, e) \/ finish_run(o) \/ Abandon(o)
       PROVE  UNCHANGED <<inFlight, offer>>
  BY <1>12 DEF report_event, finish_run, Abandon
<1>13. ASSUME StartWalk \/ EndWalk \/ Wake \/ UNCHANGED vars
       PROVE  UNCHANGED <<inFlight, offer>>
  BY <1>13 DEF StartWalk, EndWalk, Wake, vars
<1>14. CASE ProviderAccepts
  <2>1. offer # None /\ offer \in Offers /\ offer' = [offer EXCEPT !.answer = "yes"]
    BY <1>14 DEF ProviderAccepts, TypeOK
  <2>2. offer'.obj = offer.obj
    BY <2>1 DEF Offers
  <2> QED
    BY <1>14, <2>1, <2>2 DEF ProviderAccepts, RoomIsKept, Provider
<1>15. CASE OfferRefused \/ OfferUnanswered
  BY <1>1, <1>15 DEF OfferRefused, OfferUnanswered
<1> QED
  BY <1>1, <1>2, <1>3, <1>4, <1>5, <1>6, <1>7, <1>8, <1>9, <1>10, <1>11, <1>12, <1>13,
     <1>14, <1>15 DEF Next, LoopStep, OfferStep

(* Nobody is given more than it declared: as long as every acceptance comes in
   as the answer to its offer, no provider ever holds more runs than its
   max_concurrent_runs, whatever else happens between the check of the room and
   the claim: detaches, cancels, declines, withdrawals, forgets, resumes. *)
THEOREM LimitKept ==
  ASSUME Behaviours \cap {"late_report", "early_report"} = {}
  PROVE  Spec => []LimitRespected
<1> DEFINE Inv == CountInv /\ QueuesAreOwn /\ RoomIsKept
<1>1. Init => Inv
  <2> SUFFICES ASSUME Init PROVE Inv
    OBVIOUS
  <2>1. CountInv
    BY InitCountInv
  <2>2. QueuesAreOwn
    BY DEF Init, QueuesAreOwn
  <2>3. RoomIsKept
    BY BrokerAssumption DEF Init, RoomIsKept
  <2> QED
    BY <2>1, <2>2, <2>3
<1>2. Inv /\ [Next]_vars => Inv'
  BY NextTypeOK, NextRoundsBegun, NextHeldIsCounted, NextQueueMoves,
     QueueMovesKeepOwn, NextRoomIsKept
     DEF CountInv
<1>3. Inv => LimitRespected
  <2> SUFFICES ASSUME Inv, NEW p \in Providers, Limit[p] # Unlimited
               PROVE  Cardinality(Held(p)) <= Limit[p]
    BY DEF LimitRespected
  <2>1. Cardinality(Held(p)) <= inFlight[p] /\ inFlight[p] <= Limit[p]
    BY DEF CountInv, HeldIsCounted, RoomIsKept
  <2>2. Cardinality(Held(p)) \in Nat /\ inFlight[p] \in Nat /\ Limit[p] \in Nat
    BY HeldIsFinite, BrokerAssumption DEF CountInv, TypeOK
  <2> QED
    BY <2>1, <2>2
<1> QED
  BY <1>1, <1>2, <1>3, PTL DEF Spec

-----------------------------------------------------------------------------
(* The line of each agent, and who has what of a round *)

(* The runs in their agent's queue. *)
InLine == {r \in Runs : r \in ToSet(pending[AgentOf[r]])}
QueuedOnce == \A a \in Agents : IsInjective(pending[a])

(* What is filed under a run id is its last object, and nobody cancels an
   object that is yet to come. *)
LastIsFiled ==
  /\ \A r \in Runs : tracked[r] \in {0, round[r]}
  /\ \A o \in cancelled : o[2] <= round[o[1]]

(* A run that waits for a place has not been claimed, and the run that is on
   offer waits. *)
LineIsUnclaimed == \A r \in InLine : <<r, round[r]>> \notin claimed
OfferWaits ==
  offer # None => offer.obj[1] \in InLine /\ offer.obj[2] = round[offer.obj[1]]

(* A pipeline runs for a claimed object, and an object is claimed one way. *)
OnePipeline ==
  /\ \A l \in Lanes : lanes[l] # "off" => l[1] \in claimed
  /\ \A o \in Objects : "off" \in {lanes[<<o, "offer">>], lanes[<<o, "late">>]}

LineInv ==
  /\ TypeOK /\ RoundsBegun
  /\ QueuesAreOwn /\ QueuedOnce
  /\ LastIsFiled
  /\ LineIsUnclaimed
  /\ OfferAtHead /\ OfferWaits
  /\ OnePipeline

(* A run joins the line of its agent once. *)
LEMMA LineGrows ==
  ASSUME TypeOK, QueuedOnce, NEW r \in Runs \ InLine, enqueue_run(r)
  PROVE  InLine' = InLine \cup {r} /\ QueuedOnce'
<1>1. AgentOf \in [Runs -> Agents] /\ pending \in [Agents -> Seq(Runs)]
  BY BrokerAssumption DEF TypeOK
<1>2. pending' = [pending EXCEPT ![AgentOf[r]] = Append(pending[AgentOf[r]], r)]
  BY DEF enqueue_run
<1>3. /\ ToSet(Append(pending[AgentOf[r]], r)) = ToSet(pending[AgentOf[r]]) \cup {r}
      /\ IsInjective(Append(pending[AgentOf[r]], r))
  BY <1>1, AppendJoins DEF InLine, QueuedOnce
<1>4. \A a \in Agents : /\ IsInjective(pending'[a])
                        /\ ToSet(pending'[a]) = IF a = AgentOf[r] THEN ToSet(pending[a]) \cup {r}
                                                ELSE ToSet(pending[a])
  BY <1>1, <1>2, <1>3 DEF QueuedOnce
<1> QED
  BY <1>1, <1>4 DEF InLine, QueuedOnce

(* ... and leaves it for good when it is taken out. *)
LEMMA LineLoses ==
  ASSUME TypeOK, QueuedOnce, QueuesAreOwn, NEW r \in Runs, pending' = Dequeue(r)
  PROVE  InLine' = InLine \ {r} /\ QueuedOnce'
<1>1. AgentOf \in [Runs -> Agents] /\ pending \in [Agents -> Seq(Runs)]
  BY BrokerAssumption DEF TypeOK
<1>2. /\ ToSet(RemoveFirst(pending[AgentOf[r]], r)) = ToSet(pending[AgentOf[r]]) \ {r}
      /\ IsInjective(RemoveFirst(pending[AgentOf[r]], r))
  BY <1>1, RemoveFirstTakesOut DEF QueuedOnce
<1>3. \A a \in Agents : /\ IsInjective(pending'[a])
                        /\ ToSet(pending'[a]) = IF a = AgentOf[r] THEN ToSet(pending[a]) \ {r}
                                                ELSE ToSet(pending[a])
  BY <1>1, <1>2 DEF QueuedOnce, Dequeue
<1> QED
  BY <1>1, <1>3 DEF InLine, QueuedOnce

(* What is dropped on the way to the head was not worth offering. *)
LEMMA LineTrims ==
  ASSUME TypeOK, QueuedOnce, NEW a \in Agents,
         pending' = [pending EXCEPT ![a] = FromFirstOfferable(pending[a])]
  PROVE  /\ InLine' \subseteq InLine /\ QueuedOnce'
         /\ \A r \in InLine : Offerable(r) => r \in InLine'
<1>1. AgentOf \in [Runs -> Agents] /\ pending \in [Agents -> Seq(Runs)]
  BY BrokerAssumption DEF TypeOK
<1> DEFINE f == FromFirstOfferable(pending[a])
<1>2. /\ ToSet(f) \subseteq ToSet(pending[a]) /\ IsInjective(f)
      /\ \A e \in ToSet(pending[a]) : Offerable(e) => e \in ToSet(f)
  BY <1>1, FromFirstOfferableKeeps DEF QueuedOnce
<1> HIDE DEF f
<1>3. pending' = [pending EXCEPT ![a] = f]
  BY DEF f
<1>4. \A b \in Agents :
        /\ IsInjective(pending'[b]) /\ ToSet(pending'[b]) \subseteq ToSet(pending[b])
        /\ \A e \in ToSet(pending[b]) : Offerable(e) => e \in ToSet(pending'[b])
  BY <1>1, <1>2, <1>3 DEF QueuedOnce
<1> QED
  BY <1>1, <1>4 DEF InLine, QueuedOnce

LEMMA LineSame ==
  ASSUME QueuedOnce, UNCHANGED pending
  PROVE  InLine' = InLine /\ QueuedOnce'
BY DEF InLine, QueuedOnce

(* What is offered is at the head of its agent's line, tracked and current. *)
LEMMA HeadWaits ==
  ASSUME TypeOK, QueuesAreOwn, QueuedOnce, LastIsFiled, NEW a \in Agents, OfferHead(a)
  PROVE  \E r \in InLine : /\ offer' = [obj |-> <<r, round[r]>>, answer |-> "awaited"]
                           /\ Offerable(r) /\ AgentOf[r] = a /\ r \in InLine'
<1> DEFINE f == FromFirstOfferable(pending[a])
           r == Head(f)
<1>1. f # <<>> /\ Offerable(r) /\ IsTracked(r)
  BY HeadIsOfferable DEF OfferHead, TypeOK
<1>2. f \in Seq({x \in Runs : AgentOf[x] = a /\ round[x] > 0})
  BY FromFirstOfferableIsSeq DEF QueuesAreOwn
<1>3. ToSet(f) \subseteq ToSet(pending[a])
  BY FromFirstOfferableKeeps DEF TypeOK
<1>4. /\ offer' = [obj |-> Current(r), answer |-> "awaited"]
      /\ pending' = [pending EXCEPT ![a] = f]
  BY DEF OfferHead
<1> HIDE DEF f
<1>5. r \in ToSet(f) /\ r \in Runs /\ AgentOf[r] = a
  BY <1>1, <1>2 DEF ToSet
<1> HIDE DEF r
<1>6. r \in InLine
  BY <1>3, <1>5 DEF InLine
<1>7. r \in InLine'
  BY <1>4, <1>5 DEF InLine, TypeOK
<1>8. Current(r) = <<r, round[r]>>
  BY <1>1, <1>5 DEF LastIsFiled, Current, IsTracked
<1> QED
  BY <1>1, <1>4, <1>5, <1>6, <1>7, <1>8

(* A step beside the lines: it may let go of a filed object, and no pipeline
   starts. *)
BesideTheLine ==
  /\ UNCHANGED <<pending, claimed, cancelled, round, offer, loop, toVisit, at>>
  /\ \A r \in Runs : tracked'[r] \in {0, tracked[r]}
  /\ \A l \in Lanes : lanes[l] = "off" => lanes'[l] = "off"

LEMMA BesideKeepsLine ==
  ASSUME LineInv, TypeOK', BesideTheLine
  PROVE  LineInv'
<1> USE DEF LineInv, BesideTheLine
<1>1. InLine' = InLine /\ QueuedOnce'
  BY LineSame
<1>2. RoundsBegun'
  <2>1. \A r \in Runs : tracked[r] \in Nat /\ round[r] \in Nat
    BY BrokerAssumption DEF TypeOK
  <2> QED
    BY <2>1 DEF RoundsBegun
<1>3. LastIsFiled'
  BY DEF LastIsFiled
<1>4. OnePipeline'
  <2>1. \A o \in Objects : <<o, "offer">> \in Lanes /\ <<o, "late">> \in Lanes
    BY DEF Lanes
  <2> QED
    BY <2>1 DEF OnePipeline
<1>5. QueuesAreOwn' /\ LineIsUnclaimed' /\ OfferAtHead' /\ OfferWaits'
  BY <1>1 DEF QueuesAreOwn, LineIsUnclaimed, OfferAtHead, OfferWaits
<1> QED
  BY <1>1, <1>2, <1>3, <1>4, <1>5

(* forget lets go of what is filed under one id. *)
LEMMA ForgetLetsGo ==
  ASSUME TypeOK, NEW r \in Runs, forget(r)
  PROVE  \A x \in Runs : tracked'[x] = IF x = r THEN 0 ELSE tracked[x]
BY DEF forget, TypeOK

(* The tasks and what providers and connections do beside claiming. *)
LEMMA TasksAreBeside ==
  ASSUME TypeOK,
         \/ \E p \in Providers : register_provider(p) \/ Detach(p)
         \/ \E r \in Runs : push_fail(r) \/ FailStalled(r) \/ GracePasses(r)
         \/ \E o \in Objects, e \in Reports : report_event(o, e)
         \/ \E o \in Objects : finish_run(o) \/ Abandon(o)
         \/ \E l \in Lanes : PipelineStep(l)
         \/ \E s \in SoloTasks : OneShotStep(s)
         \/ UNCHANGED vars
  PROVE  BesideTheLine
<1> USE DEF objVars, loopVars
<1>0. tracked \in [Runs -> Nat] /\ lanes \in [Lanes -> LaneStates]
  BY BrokerAssumption DEF TypeOK
<1>1. ASSUME UNCHANGED <<pending, claimed, cancelled, round, offer, loop, toVisit, at,
                         tracked, lanes>>
      PROVE  BesideTheLine
  BY <1>0, <1>1 DEF BesideTheLine
<1>2. ASSUME NEW p \in Providers, register_provider(p) \/ Detach(p) PROVE BesideTheLine
  BY <1>1, <1>2 DEF register_provider, Detach
<1>3. ASSUME NEW r \in Runs, push_fail(r) \/ FailStalled(r) \/ GracePasses(r)
      PROVE  BesideTheLine
  BY <1>1, <1>3 DEF push_fail, FailStalled, GracePasses
<1>4. ASSUME NEW o \in Objects, NEW e, report_event(o, e) \/ finish_run(o) \/ Abandon(o)
      PROVE  BesideTheLine
  BY <1>1, <1>4 DEF report_event, finish_run, Abandon
<1>5. ASSUME NEW l \in Lanes, PipelineStep(l) PROVE BesideTheLine
  <2>1. l[1][1] \in Runs
    BY ProviderOfRun DEF Lanes
  <2>2. \A m \in Lanes : lanes[m] = "off" => lanes'[m] = "off"
    <3>1. lanes[l] # "off"
      BY <1>5, BrokerAssumption
         DEF PipelineStep, PipelineTakes, PipelineGoesOn, PipelineEnds, Commands
    <3>2. \A m \in Lanes : m # l => lanes'[m] = lanes[m]
      BY <1>0, <1>5 DEF PipelineStep, PipelineTakes, PipelineGoesOn, PipelineEnds
    <3> QED
      BY <3>1, <3>2
  <2>3. \A r \in Runs : tracked'[r] \in {0, tracked[r]}
    BY <1>5, <2>1, ForgetLetsGo DEF PipelineStep, PipelineTakes, PipelineGoesOn, PipelineEnds
  <2>4. UNCHANGED <<pending, claimed, cancelled, round, offer, loop, toVisit, at>>
    BY <1>5 DEF PipelineStep, PipelineTakes, PipelineGoesOn, PipelineEnds
  <2> QED
    BY <2>2, <2>3, <2>4 DEF BesideTheLine
<1>6. ASSUME NEW s \in SoloTasks, OneShotStep(s) PROVE BesideTheLine
  <2>1. s.obj[1] \in Runs
    BY ProviderOfRun DEF SoloTasks
  <2>2. \A r \in Runs : tracked'[r] \in {0, tracked[r]}
    BY <1>6, <2>1, ForgetLetsGo DEF OneShotStep, OneShotStarts, OneShotEnds
  <2>3. UNCHANGED <<pending, claimed, cancelled, round, offer, loop, toVisit, at, lanes>>
    BY <1>6 DEF OneShotStep, OneShotStarts, OneShotEnds
  <2> QED
    BY <1>0, <2>2, <2>3 DEF BesideTheLine
<1>7. CASE UNCHANGED vars
  BY <1>1, <1>7 DEF vars
<1> QED
  BY <1>2, <1>3, <1>4, <1>5, <1>6, <1>7

(* A round begins for a run that is not in line. *)
LEMMA EnqueueKeepsLine ==
  ASSUME LineInv, TypeOK', NEW r \in Runs \ InLine, enqueue_run(r)
  PROVE  LineInv'
<1> USE DEF LineInv
<1>1. InLine' = InLine \cup {r} /\ QueuedOnce'
  BY LineGrows
<1>2. RoundsBegun' /\ QueuesAreOwn'
  BY EnqueueBegins, QueueMovesKeepOwn DEF QueueMoves
<1>3. /\ round' = [round EXCEPT ![r] = round[r] + 1]
      /\ tracked' = [tracked EXCEPT ![r] = round[r] + 1]
      /\ UNCHANGED <<claimed, cancelled, lanes, offer, loop, toVisit, at>>
  BY DEF enqueue_run, objVars, loopVars
<1>4. round \in [Runs -> Nat] /\ tracked \in [Runs -> Nat] /\ round[r] \in Nat
  BY BrokerAssumption DEF TypeOK
<1>5. LastIsFiled'
  <2>1. \A x \in Runs : round[x] \in Nat /\ round'[x] \in {round[x], round[x] + 1}
    BY <1>3, <1>4
  <2>2. \A x \in Runs : tracked'[x] \in {0, round'[x]}
    BY <1>3, <1>4 DEF LastIsFiled
  <2>3. \A o \in cancelled : o[1] \in Runs /\ o[2] \in Nat /\ o[2] <= round[o[1]]
    BY DEF LastIsFiled, TypeOK, Objects
  <2>4. \A o \in cancelled : o[2] <= round'[o[1]]
    BY <2>1, <2>3
  <2> QED
    BY <1>3, <2>2, <2>4 DEF LastIsFiled
<1>6. LineIsUnclaimed'
  <2>1. <<r, round[r] + 1>> \notin claimed
    <3>1. ASSUME <<r, round[r] + 1>> \in claimed PROVE round[r] + 1 <= round[r]
      BY <3>1 DEF RoundsBegun
    <3> QED
      BY <1>4, <3>1
  <2>2. \A x \in InLine : x \in Runs /\ x # r /\ round'[x] = round[x]
    BY <1>3, <1>4 DEF InLine
  <2> QED
    BY <1>1, <1>3, <1>4, <2>1, <2>2 DEF LineIsUnclaimed
<1>7. OfferAtHead' /\ OnePipeline'
  BY <1>3 DEF OfferAtHead, OnePipeline
<1>8. OfferWaits'
  BY <1>1, <1>3, <1>4 DEF OfferWaits, InLine
<1> QED
  BY <1>1, <1>2, <1>5, <1>6, <1>7, <1>8

(* A step that claims nothing: the lines only get shorter. *)
LEMMA ShorterKeepsLine ==
  ASSUME LineInv, TypeOK', RoundsBegun', QueuesAreOwn', OfferAtHead',
         QueuedOnce', InLine' \subseteq InLine, OfferWaits',
         UNCHANGED <<tracked, round, claimed, lanes, cancelled>>
  PROVE  LineInv'
<1> USE DEF LineInv
<1>1. LastIsFiled' /\ OnePipeline'
  BY DEF LastIsFiled, OnePipeline
<1>2. LineIsUnclaimed'
  BY DEF LineIsUnclaimed
<1> QED
  BY <1>1, <1>2

(* A run that is claimed leaves the line, if it is in it, and gets one pipeline. *)
LEMMA ClaimKeepsLine ==
  ASSUME LineInv, TypeOK', RoundsBegun', QueuesAreOwn', OfferAtHead',
         NEW r \in Runs, NEW via \in {"offer", "late"},
         <<r, round[r]>> \in Objects \ claimed,
         claim(<<r, round[r]>>, via), pending' = Dequeue(r),
         offer' = None \/ (offer' = offer /\ offer.obj # <<r, round[r]>>),
         UNCHANGED <<tracked, round, cancelled>>
  PROVE  LineInv'
<1> USE DEF LineInv
<1> DEFINE o == <<r, round[r]>>
<1>1. InLine' = InLine \ {r} /\ QueuedOnce'
  BY LineLoses
<1>2. LastIsFiled'
  BY DEF LastIsFiled
<1>3. claimed' = claimed \cup {o}
  BY DEF claim
<1>4. LineIsUnclaimed'
  BY <1>1, <1>3 DEF LineIsUnclaimed
<1>5. OnePipeline'
  <2>1. lanes \in [Lanes -> LaneStates] /\ o \in Objects
        /\ <<o, "offer">> \in Lanes /\ <<o, "late">> \in Lanes
    BY DEF TypeOK, Lanes
  <2>2. lanes[<<o, "offer">>] = "off" /\ lanes[<<o, "late">>] = "off"
    BY <2>1 DEF OnePipeline
  <2>3. lanes' = lanes \/ lanes' = [lanes EXCEPT ![<<o, via>>] = "get"]
    BY DEF claim
  <2>4. \A l \in Lanes : lanes'[l] # "off" => lanes[l] # "off" \/ l = <<o, via>>
    BY <2>1, <2>3
  <2> HIDE DEF o
  <2>5. \A l \in Lanes : lanes'[l] # "off" => l[1] \in claimed'
    BY <1>3, <2>4 DEF OnePipeline
  <2>6. SUFFICES ASSUME NEW x \in Objects
                 PROVE  "off" \in {lanes'[<<x, "offer">>], lanes'[<<x, "late">>]}
    BY <2>5 DEF OnePipeline
  <2>7. <<x, "offer">> \in Lanes /\ <<x, "late">> \in Lanes
    BY DEF Lanes
  <2>8. CASE x = o
    BY <2>2, <2>4, <2>7, <2>8
  <2>9. CASE x # o
    <3>1. lanes'[<<x, "offer">>] # "off" => lanes[<<x, "offer">>] # "off"
      BY <2>4, <2>7, <2>9
    <3>2. lanes'[<<x, "late">>] # "off" => lanes[<<x, "late">>] # "off"
      BY <2>4, <2>7, <2>9
    <3> QED
      BY <3>1, <3>2 DEF OnePipeline
  <2> QED
    BY <2>8, <2>9
<1>6. OfferWaits'
  <2>1. CASE offer' = offer /\ offer # None
    <3>1. offer.obj \in Runs \X Nat
      BY <2>1, BrokerAssumption DEF TypeOK, Offers, Objects
    <3>2. offer.obj = <<offer.obj[1], offer.obj[2]>>
      BY <3>1
    <3>3. offer.obj[1] # r
      BY <2>1, <3>2 DEF OfferWaits
    <3> QED
      BY <1>1, <2>1, <3>3 DEF OfferWaits
  <2> QED
    BY <2>1 DEF OfferWaits
<1> QED
  BY <1>1, <1>2, <1>4, <1>5, <1>6

(* The loop, the offers and their answers, cancels and late acknowledgements. *)
LEMMA MovesKeepLine ==
  ASSUME LineInv, "early_report" \notin Behaviours, [Next]_vars, TypeOK',
         \/ \E r \in Runs : request_cancel(r)
         \/ LoopStep \/ ProviderAccepts \/ OfferStep
         \/ \E o \in Objects, e \in Reports : accept_late_ack(o, e)
  PROVE  LineInv'
<1> USE DEF LineInv, objVars, loopVars
<1>0. RoundsBegun' /\ QueuesAreOwn' /\ OfferAtHead'
  BY NextRoundsBegun, NextQueueMoves, QueueMovesKeepOwn, NextOfferAtHead
<1>1. ASSUME NEW r \in Runs, request_cancel(r) PROVE LineInv'
  <2>1. InLine' = InLine /\ QueuedOnce'
    BY <1>1, LineSame DEF request_cancel
  <2>2. UNCHANGED <<tracked, round, claimed, lanes, offer>>
        /\ cancelled' = cancelled \cup {Current(r)} /\ IsTracked(r)
    BY <1>1 DEF request_cancel
  <2>3. Current(r)[1] = r /\ Current(r)[2] <= round[r]
    BY CurrentHasBegun
  <2>4. LastIsFiled'
    BY <2>2, <2>3 DEF LastIsFiled
  <2> QED
    BY <1>0, <2>1, <2>2, <2>4 DEF LineIsUnclaimed, OfferWaits, OnePipeline
<1>2. ASSUME NEW r \in Runs, expire_queued(r) PROVE LineInv'
  <2>1. InLine' = InLine \ {r} /\ QueuedOnce'
    BY <1>2, LineLoses DEF expire_queued
  <2>2. UNCHANGED <<tracked, round, claimed, lanes, cancelled, offer>> /\ loop = "top"
    BY <1>2 DEF expire_queued
  <2>3. OfferWaits'
    BY <2>2 DEF OfferAtHead, OfferWaits
  <2> QED
    BY <1>0, <2>1, <2>2, <2>3, ShorterKeepsLine
<1>3. CASE StartWalk \/ EndWalk \/ Wake
  <2>1. InLine' = InLine /\ QueuedOnce'
    BY <1>3, LineSame DEF StartWalk, EndWalk, Wake
  <2>2. UNCHANGED <<tracked, round, claimed, lanes, cancelled, offer>>
    BY <1>3 DEF StartWalk, EndWalk, Wake
  <2>3. OfferWaits'
    BY <2>1, <2>2 DEF OfferWaits
  <2> QED
    BY <1>0, <2>1, <2>2, <2>3, ShorterKeepsLine
<1>4. ASSUME NEW a \in Agents, LeaveAgent(a) PROVE LineInv'
  <2>1. InLine' \subseteq InLine /\ QueuedOnce'
    BY <1>4, LineSame, LineTrims DEF LeaveAgent
  <2>2. UNCHANGED <<tracked, round, claimed, lanes, cancelled, offer>> /\ offer = None
    BY <1>4 DEF LeaveAgent, Walking
  <2>3. OfferWaits'
    BY <2>2 DEF OfferWaits
  <2> QED
    BY <1>0, <2>1, <2>2, <2>3, ShorterKeepsLine
<1>5. ASSUME NEW a \in Agents, OfferHead(a) PROVE LineInv'
  <2>1. InLine' \subseteq InLine /\ QueuedOnce'
    BY <1>5, LineTrims DEF OfferHead
  <2>2. UNCHANGED <<tracked, round, claimed, lanes, cancelled>>
    BY <1>5 DEF OfferHead
  <2>3. PICK r \in InLine : /\ offer' = [obj |-> <<r, round[r]>>, answer |-> "awaited"]
                            /\ r \in InLine'
    BY <1>5, HeadWaits
  <2>4. OfferWaits'
    BY <2>2, <2>3 DEF OfferWaits
  <2> QED
    BY <1>0, <2>1, <2>2, <2>4, ShorterKeepsLine
<1>6. CASE ProviderAccepts
  <2>1. InLine' = InLine /\ QueuedOnce'
    BY <1>6, LineSame DEF ProviderAccepts
  <2>2. UNCHANGED <<tracked, round, claimed, lanes, cancelled>>
    BY <1>6 DEF ProviderAccepts
  <2>3. offer # None /\ offer \in Offers /\ offer' = [offer EXCEPT !.answer = "yes"]
    BY <1>6 DEF ProviderAccepts, TypeOK
  <2>4. offer'.obj = offer.obj
    BY <2>3 DEF Offers
  <2>5. OfferWaits'
    BY <2>1, <2>2, <2>3, <2>4 DEF OfferWaits
  <2> QED
    BY <1>0, <2>1, <2>2, <2>5, ShorterKeepsLine
<1>7. ASSUME offer # None, offer' = None, UNCHANGED <<tracked, round, claimed, lanes, cancelled>>,
             pending' \in {pending, Dequeue(offer.obj[1])}
      PROVE  LineInv'
  <2>1. offer.obj[1] \in Runs
    BY <1>7, ProviderOfRun DEF TypeOK, Offers
  <2>2. InLine' \subseteq InLine /\ QueuedOnce'
    BY <1>7, <2>1, LineSame, LineLoses
  <2>3. OfferWaits'
    BY <1>7 DEF OfferWaits
  <2> QED
    BY <1>0, <1>7, <2>2, <2>3, ShorterKeepsLine
<1>8. CASE OfferAccepted
  <2>1. offer # None /\ offer.obj \in Objects
    BY <1>8 DEF OfferAccepted, TypeOK, Offers
  <2>2. PICK r \in Runs : offer.obj = <<r, round[r]>> /\ r \in InLine
    <3>1. offer.obj = <<offer.obj[1], offer.obj[2]>> /\ offer.obj[1] \in Runs
      BY <2>1 DEF Objects
    <3> QED
      BY <2>1, <3>1 DEF OfferWaits
  <2>3. <<r, round[r]>> \in Objects \ claimed
    BY <2>1, <2>2 DEF LineIsUnclaimed
  <2>4. /\ claim(<<r, round[r]>>, "offer") /\ pending' = Dequeue(r) /\ offer' = None
        /\ UNCHANGED <<tracked, round, cancelled>>
    BY <1>8, <2>2 DEF OfferAccepted
  <2> QED
    BY <1>0, <2>3, <2>4, ClaimKeepsLine
<1>9. CASE OfferDeclined \/ OfferRefused \/ OfferUnanswered
  BY <1>7, <1>9 DEF OfferDeclined, OfferRefused, OfferUnanswered
<1>10. ASSUME NEW o \in Objects, NEW e \in Reports, accept_late_ack(o, e) PROVE LineInv'
  <2> DEFINE r == o[1]
  <2>1. r \in Runs /\ IsTracked(r) /\ Current(r) \notin claimed
        /\ ~ (offer # None /\ offer.obj = Current(r))
    BY <1>10, ProviderOfRun DEF accept_late_ack
  <2>2. Current(r) \in Objects /\ Current(r) = <<r, round[r]>>
    BY <2>1, CurrentIsObject DEF LastIsFiled, IsTracked, Current
  <2>3. /\ claim(Current(r), "late") /\ pending' = Dequeue(r) /\ offer' = offer
        /\ UNCHANGED <<tracked, round, cancelled>>
    BY <1>10 DEF accept_late_ack
  <2> HIDE DEF r
  <2>4. <<r, round[r]>> \in Objects \ claimed /\ claim(<<r, round[r]>>, "late")
        /\ (offer # None => offer.obj # <<r, round[r]>>)
    BY <2>1, <2>2, <2>3
  <2> QED
    BY <1>0, <2>1, <2>3, <2>4, ClaimKeepsLine
<1> QED
  BY <1>1, <1>2, <1>3, <1>4, <1>5, <1>6, <1>8, <1>9, <1>10 DEF LoopStep, OfferStep

(* A round begins for a run that is not in line: its id is new, or its last
   round has been claimed. *)
LEMMA EnqueueOutOfLine ==
  ASSUME LineInv, NEW r \in Runs, Submit(r) \/ Resume(r)
  PROVE  r \notin InLine /\ enqueue_run(r)
<1> USE DEF LineInv
<1>1. CASE Submit(r)
  <2>1. round[r] = 0
    BY <1>1 DEF Submit
  <2>2. \A i \in 1..Len(pending[AgentOf[r]]) : round[pending[AgentOf[r]][i]] > 0
    <3> DEFINE q == pending[AgentOf[r]]
               Own == {x \in Runs : AgentOf[x] = AgentOf[r] /\ round[x] > 0}
    <3>1. q \in Seq(Own)
      BY ProviderOfRun DEF QueuesAreOwn
    <3>2. \A x \in Own : round[x] > 0
      OBVIOUS
    <3> HIDE DEF q, Own
    <3>3. \A i \in 1..Len(q) : q[i] \in Own
      BY <3>1
    <3> QED
      BY <3>2, <3>3 DEF q
  <2>3. pending[AgentOf[r]] \in Seq(Runs)
    BY ProviderOfRun DEF TypeOK
  <2>4. r \notin InLine
    BY <2>1, <2>2, <2>3 DEF InLine, ToSet
  <2> QED
    BY <1>1, <2>4 DEF Submit
<1>2. CASE Resume(r)
  <2>1. PICK via \in {"offer", "late"} :
          lanes[<<<<r, round[r]>>, via>>] \in {"finished", "FinishStream"}
    BY <1>2 DEF Resume
  <2>2. <<<<r, round[r]>>, via>> \in Lanes
    BY <1>2, BrokerAssumption DEF Resume, enqueue_run, TypeOK, Lanes, Objects
  <2>3. <<r, round[r]>> \in claimed
    BY <2>1, <2>2 DEF OnePipeline
  <2> QED
    BY <1>2, <2>3 DEF Resume, LineIsUnclaimed
<1> QED
  BY <1>1, <1>2

LEMMA NextLineInv ==
  ASSUME "early_report" \notin Behaviours, LineInv, [Next]_vars
  PROVE  LineInv'
<1>1. TypeOK'
  BY NextTypeOK DEF LineInv
<1>2. ASSUME NEW r \in Runs, Submit(r) \/ Resume(r) PROVE LineInv'
  BY <1>1, <1>2, EnqueueOutOfLine, EnqueueKeepsLine
<1>3. ASSUME BesideTheLine PROVE LineInv'
  BY <1>1, <1>3, BesideKeepsLine
<1> QED
  BY <1>1, <1>2, <1>3, TasksAreBeside, MovesKeepLine DEF Next, LineInv

LEMMA InitLineInv == Init => LineInv
<1> SUFFICES ASSUME Init PROVE LineInv
  OBVIOUS
<1>1. TypeOK /\ RoundsBegun
  BY InitCountInv DEF CountInv
<1>2. InLine = {} /\ QueuedOnce /\ QueuesAreOwn
  BY BrokerAssumption DEF Init, InLine, ToSet, QueuedOnce, IsInjective, QueuesAreOwn
<1>3. LastIsFiled /\ OfferAtHead /\ OfferWaits
  BY DEF Init, LastIsFiled, OfferAtHead, OfferWaits
<1>4. OnePipeline
  BY DEF Init, OnePipeline, Lanes
<1> QED
  BY <1>1, <1>2, <1>3, <1>4 DEF LineInv, LineIsUnclaimed

(* One consumer per run: a Run object gets at most one _pipeline, whether the
   answer to its offer claims it or accept_late_ack does, so what its provider
   reports is handled in the order it was reported.  The exception that the
   hypothesis names is a report for a run whose acceptance is on its way. *)
THEOREM OneConsumer ==
  ASSUME "early_report" \notin Behaviours
  PROVE  Spec => []SingleConsumer
<1>1. Init => LineInv
  BY InitLineInv
<1>2. LineInv /\ [Next]_vars => LineInv'
  BY NextLineInv
<1>3. LineInv => SingleConsumer
  <2>1. "off" \notin {"get"} \cup Commands
    BY BrokerAssumption DEF Commands
  <2> QED
    BY <2>1 DEF LineInv, OnePipeline, SingleConsumer, Consuming
<1> QED
  BY <1>1, <1>2, <1>3, PTL DEF Spec

-----------------------------------------------------------------------------
(* Every round is accounted for *)

(* A pipeline at work is of the last object of its run; once it is over, the
   run is filed no more unless another round has begun. *)
AtWork(l) == lanes[l] \notin {"off", "finished", "closed"}
LanesOver ==
  \A l \in Lanes :
    /\ AtWork(l) => l[1][2] = round[l[1][1]]
    /\ lanes[l] \in {"finished", "closed"} /\ l[1][2] = round[l[1][1]]
         => tracked[l[1][1]] = 0

(* A one-shot task works on the last object of its run, which is out of the
   line or cancelled.  Unless it is reported late, nobody has claimed it. *)
SoloKnown ==
  \A s \in solo :
    /\ s.obj[2] = round[s.obj[1]]
    /\ s.obj \in cancelled \/ s.obj[1] \notin InLine
    /\ "late_report" \notin Behaviours => s.obj \notin claimed

(* What is offered is still to be had, and who cancels an unclaimed object has
   a task to tell of it. *)
OfferLive == offer # None => IsTracked(offer.obj[1]) /\ offer.obj \notin cancelled
CancelIsTaken ==
  \A r \in Runs :
    IsTracked(r) /\ Current(r) \in cancelled \ claimed
      => \E s \in solo : s.obj = Current(r)

(* The last round of r is in the hands of who will end it. *)
Placed(r) ==
  \/ \E l \in Lanes : l[1] = <<r, round[r]>> /\ AtWork(l)
  \/ r \in InLine
  \/ \E s \in solo : s.obj = <<r, round[r]>>
AllPlaced == \A r \in Runs : IsTracked(r) => Placed(r)

AccountInv == LanesOver /\ SoloKnown /\ OfferLive /\ CancelIsTaken /\ AllPlaced

(* A round that has not ended its stream is filed. *)
AllFiled ==
  \A r \in Runs : round[r] > 0 => <<r, round[r]>> \in ended \/ tracked[r] = round[r]

LEMMA AllPlacedIsAccounted ==
  ASSUME LineInv, AllPlaced, AllFiled
  PROVE  RoundsAccountedFor
<1>1. ASSUME NEW r \in InLine PROVE Contains(pending[AgentOf[r]], r)
  <2>1. pending[AgentOf[r]] \in Seq(Runs) /\ r \in ToSet(pending[AgentOf[r]])
    BY ProviderOfRun DEF LineInv, TypeOK, InLine
  <2> QED
    BY <2>1 DEF ToSet, Contains
<1>2. \A l \in Lanes : AtWork(l) => l[1] \in claimed
  BY DEF LineInv, OnePipeline, AtWork
<1>3. \A r \in Runs : round[r] > 0 /\ tracked[r] = round[r] => IsTracked(r)
  <2>1. round \in [Runs -> 0..MaxRounds] /\ MaxRounds \in Nat
    BY BrokerAssumption DEF LineInv, TypeOK
  <2> QED
    BY <2>1 DEF IsTracked
<1> QED
  BY <1>1, <1>2, <1>3, Zenon DEF AllPlaced, AllFiled, Placed, RoundsAccountedFor

(* The current object of a tracked run is its last. *)
LEMMA CurrentIsLast ==
  ASSUME LastIsFiled, NEW r \in Runs, IsTracked(r)
  PROVE  Current(r) = <<r, round[r]>> /\ tracked[r] = round[r]
BY DEF LastIsFiled, IsTracked, Current

(* Objects of a run are told apart by their rounds. *)
LEMMA ObjectIsPair ==
  /\ \A o \in Objects : o = <<o[1], o[2]>> /\ o[1] \in Runs /\ o[2] \in Nat /\ o[2] > 0
  /\ \A l \in Lanes : l[1] \in Objects /\ l = <<l[1], l[2]>> /\ l[2] \in {"offer", "late"}
  /\ \A s \in SoloTasks : s.obj \in Objects
BY BrokerAssumption DEF Objects, Lanes, SoloTasks

(* Nothing of the rounds changes. *)
LEMMA SameKeepsAccount ==
  ASSUME AccountInv, UNCHANGED <<tracked, pending, claimed, cancelled, solo, ended, round>>,
         offer' # None => offer # None /\ offer'.obj = offer.obj,
         \A l \in Lanes : /\ AtWork(l)' <=> AtWork(l)
                          /\ lanes'[l] \in {"finished", "closed"} => lanes[l] \in {"finished", "closed"}
  PROVE  AccountInv'
<1>1. InLine' = InLine
  BY DEF InLine
<1>2. LanesOver'
  BY DEF AccountInv, LanesOver
<1>3. SoloKnown' /\ OfferLive' /\ CancelIsTaken' /\ AllPlaced'
  BY <1>1 DEF AccountInv, SoloKnown, OfferLive, CancelIsTaken, AllPlaced, Placed,
              IsTracked, Current
<1> QED
  BY <1>2, <1>3 DEF AccountInv

(* A round begins where nothing is left of the one before. *)
LEMMA EnqueueKeepsAccount ==
  ASSUME LineInv, AccountInv, NEW r \in Runs \ InLine, enqueue_run(r),
         \A s \in solo : s.obj[1] # r,
         \A l \in Lanes : l[1][1] = r => ~ AtWork(l)
  PROVE  AccountInv'
<1> USE DEF LineInv, AccountInv
<1>1. InLine' = InLine \cup {r}
  BY LineGrows
<1>2. /\ round' = [round EXCEPT ![r] = round[r] + 1]
      /\ tracked' = [tracked EXCEPT ![r] = round[r] + 1]
      /\ UNCHANGED <<claimed, cancelled, lanes, solo, ended, offer>>
  BY DEF enqueue_run, objVars, loopVars
<1>3. round \in [Runs -> Nat] /\ tracked \in [Runs -> Nat] /\ round[r] \in Nat
  BY BrokerAssumption DEF TypeOK
<1>4. \A x \in Runs : round'[x] = IF x = r THEN round[r] + 1 ELSE round[x]
  BY <1>2, <1>3
<1>5. \A x \in Runs : tracked'[x] = IF x = r THEN round[r] + 1 ELSE tracked[x]
  BY <1>2, <1>3
<1>6. LanesOver'
  <2> SUFFICES ASSUME NEW l \in Lanes
               PROVE  /\ AtWork(l) => l[1][2] = round'[l[1][1]]
                      /\ lanes[l] \in {"finished", "closed"} /\ l[1][2] = round'[l[1][1]]
                           => tracked'[l[1][1]] = 0
    BY <1>2 DEF LanesOver, AtWork
  <2>1. l[1] \in Objects /\ l[1][1] \in Runs
    BY ObjectIsPair
  <2>2. CASE l[1][1] = r
    <3>1. lanes[l] # "off" => l[1][2] <= round[r]
      BY <2>2 DEF OnePipeline, RoundsBegun
    <3>2. l[1][2] \in Nat
      BY <2>1, ObjectIsPair
    <3> QED
      BY <1>3, <1>4, <2>1, <2>2, <3>1, <3>2 DEF AtWork
  <2>3. CASE l[1][1] # r
    BY <1>4, <1>5, <2>1, <2>3 DEF LanesOver
  <2> QED
    BY <2>2, <2>3
<1>7. \A s \in solo : s.obj \in Objects /\ s.obj[1] \in Runs \ {r}
  BY ObjectIsPair DEF TypeOK
<1>8. SoloKnown'
  BY <1>1, <1>2, <1>4, <1>7 DEF SoloKnown
<1>9. OfferLive'
  BY <1>2, <1>5 DEF OfferLive, OfferWaits, IsTracked, InLine
<1>10. CancelIsTaken'
  <2>1. <<r, round[r] + 1>> \notin cancelled
    <3>1. ASSUME <<r, round[r] + 1>> \in cancelled PROVE round[r] + 1 <= round[r]
      BY <3>1 DEF LastIsFiled
    <3> QED
      BY <1>3, <3>1
  <2> SUFFICES ASSUME NEW x \in Runs, tracked'[x] # 0,
                      <<x, tracked'[x]>> \in cancelled \ claimed
               PROVE  \E s \in solo : s.obj = <<x, tracked'[x]>>
    BY <1>2 DEF CancelIsTaken, IsTracked, Current
  <2>2. x # r /\ tracked'[x] = tracked[x]
    BY <1>5, <2>1
  <2> QED
    BY <2>2 DEF CancelIsTaken, IsTracked, Current
<1>11. AllPlaced'
  <2> SUFFICES ASSUME NEW x \in Runs, tracked'[x] # 0
               PROVE  Placed(x)'
    BY DEF AllPlaced, IsTracked
  <2>1. CASE x = r
    BY <1>1, <2>1 DEF Placed
  <2>2. CASE x # r
    <3>1. round'[x] = round[x] /\ tracked'[x] = tracked[x]
      BY <1>4, <1>5, <2>2
    <3>2. Placed(x)
      BY <3>1 DEF AllPlaced, IsTracked
    <3> QED
      BY <1>1, <1>2, <3>1, <3>2 DEF Placed, AtWork
  <2> QED
    BY <2>1, <2>2
<1> QED
  BY <1>6, <1>8, <1>9, <1>10, <1>11

(* A run that leaves the line goes to a one-shot task, or was not to be had. *)
LEMMA TrimKeepsAccount ==
  ASSUME LineInv, AccountInv, NEW a \in Agents,
         pending' = [pending EXCEPT ![a] = FromFirstOfferable(pending[a])],
         UNCHANGED <<tracked, claimed, cancelled, solo, ended, round, lanes>>,
         OfferLive'
  PROVE  AccountInv'
<1> USE DEF LineInv, AccountInv
<1>1. InLine' \subseteq InLine /\ \A r \in InLine : Offerable(r) => r \in InLine'
  BY LineTrims
<1>2. LanesOver' /\ CancelIsTaken'
  BY DEF LanesOver, AtWork, CancelIsTaken, IsTracked, Current
<1>3. SoloKnown'
  BY <1>1 DEF SoloKnown
<1>4. AllPlaced'
  <2> SUFFICES ASSUME NEW r \in Runs, IsTracked(r)
               PROVE  Placed(r)'
    BY DEF AllPlaced, IsTracked
  <2>1. Placed(r) /\ Current(r) = <<r, round[r]>>
    BY CurrentIsLast DEF AllPlaced
  <2>2. (\E l \in Lanes : l[1] = <<r, round[r]>> /\ AtWork(l))
          => (\E l \in Lanes : l[1] = <<r, round'[r]>> /\ AtWork(l)')
    BY DEF AtWork
  <2>3. CASE Offerable(r) \/ r \notin InLine
    BY <1>1, <2>1, <2>2, <2>3 DEF Placed
  <2>4. CASE ~ Offerable(r) /\ r \in InLine
    <3>1. <<r, round[r]>> \in cancelled \ claimed
      BY <2>1, <2>4 DEF Offerable, LineIsUnclaimed
    <3> QED
      BY <2>1, <3>1 DEF CancelIsTaken, Placed
  <2> QED
    BY <2>3, <2>4
<1> QED
  BY <1>2, <1>3, <1>4

LEMMA GiveUpKeepsAccount ==
  ASSUME LineInv, AccountInv, NEW r \in InLine, IsTracked(r),
         NEW s \in SoloTasks, s.obj = <<r, round[r]>>,
         pending' = Dequeue(r), solo' = solo \cup {s}, offer' = None,
         UNCHANGED <<tracked, claimed, cancelled, ended, round, lanes>>
  PROVE  AccountInv'
<1> USE DEF LineInv, AccountInv
<1>0. r \in Runs
  BY DEF InLine
<1>1. InLine' = InLine \ {r}
  BY <1>0, LineLoses
<1>2. LanesOver' /\ CancelIsTaken' /\ OfferLive'
  BY DEF LanesOver, AtWork, CancelIsTaken, OfferLive, IsTracked, Current
<1>3. s.obj[1] = r /\ s.obj[2] = round[r] /\ s.obj \notin claimed
  BY DEF LineIsUnclaimed
<1>4. SoloKnown'
  BY <1>1, <1>3 DEF SoloKnown
<1>6. AllPlaced'
  BY <1>1 DEF AllPlaced, Placed, IsTracked, AtWork
<1> QED
  BY <1>2, <1>4, <1>6

LEMMA ClaimKeepsAccount ==
  ASSUME LineInv, AccountInv, NEW r \in Runs, IsTracked(r), NEW via \in {"offer", "late"},
         claim(<<r, round[r]>>, via), pending' = Dequeue(r),
         <<r, round[r]>> \in Objects,
         "late_report" \notin Behaviours => \A s \in solo : s.obj # <<r, round[r]>>,
         offer' \in {None, offer},
         UNCHANGED <<tracked, solo, cancelled, ended, round>>
  PROVE  AccountInv'
<1> USE DEF LineInv, AccountInv
<1> DEFINE o == <<r, round[r]>>
<1>1. InLine' = InLine \ {r}
  BY LineLoses
<1>2. claimed' = claimed \cup {o} /\ tracked[r] = round[r]
  BY CurrentIsLast DEF claim
<1>3. \A l \in Lanes : lanes'[l] = lanes[l] \/ (l[1] = o /\ lanes'[l] = "get")
  <2>1. lanes' = lanes \/ lanes' = [lanes EXCEPT ![<<o, via>>] = "get"]
    BY DEF claim
  <2>2. <<o, via>>[1] = o
    OBVIOUS
  <2> HIDE DEF o
  <2> QED
    BY <2>1, <2>2 DEF TypeOK
<1>4. LanesOver'
  BY <1>3 DEF LanesOver, AtWork
<1>5. SoloKnown'
  BY <1>1, <1>2 DEF SoloKnown
<1>6. CancelIsTaken' /\ OfferLive'
  BY <1>2 DEF CancelIsTaken, OfferLive, IsTracked, Current
<1>7. AllPlaced'
  <2>1. lanes'[<<o, via>>] = "get" /\ <<o, via>> \in Lanes /\ <<o, via>>[1] = o
    BY DEF claim, TypeOK, Lanes
  <2>2. \A l \in Lanes : AtWork(l) => AtWork(l)'
    BY <1>3 DEF AtWork
  <2>3. Placed(r)'
    BY <2>1 DEF Placed, AtWork
  <2> QED
    BY <1>1, <2>2, <2>3 DEF AllPlaced, Placed, IsTracked
<1> QED
  BY <1>4, <1>5, <1>6, <1>7

(* A task ends the stream of the last object of its run and forgets the run. *)
LEMMA EndKeepsAccount ==
  ASSUME LineInv, AccountInv, NEW r \in Runs, forget(r),
         solo' \subseteq solo,
         \A s \in solo \ solo' : s.obj[1] = r,
         offer # None => offer.obj[1] # r,
         \A l \in Lanes : \/ lanes'[l] = lanes[l]
                          \/ l[1][1] = r /\ ~ AtWork(l)',
         UNCHANGED <<pending, claimed, cancelled, round, offer>>
  PROVE  AccountInv'
<1> USE DEF LineInv, AccountInv
<1>1. InLine' = InLine
  BY DEF InLine
<1>2. \A x \in Runs : tracked'[x] = IF x = r THEN 0 ELSE tracked[x]
  BY ForgetLetsGo
<1>3. LanesOver'
  <2>1. \A l \in Lanes : l[1][1] \in Runs
    BY ObjectIsPair
  <2> QED
    BY <1>2, <2>1 DEF LanesOver, AtWork
<1>4. SoloKnown'
  BY <1>1 DEF SoloKnown
<1>5. OfferLive'
  <2>1. offer # None => offer.obj[1] \in Runs
    BY ProviderOfRun DEF TypeOK, Offers
  <2> QED
    BY <1>2, <2>1 DEF OfferLive, IsTracked
<1>6. CancelIsTaken'
  <2> SUFFICES ASSUME NEW x \in Runs, tracked'[x] # 0,
                      <<x, tracked'[x]>> \in cancelled \ claimed
               PROVE  \E s \in solo' : s.obj = <<x, tracked'[x]>>
    BY DEF CancelIsTaken, IsTracked, Current
  <2>1. x # r /\ tracked'[x] = tracked[x]
    BY <1>2
  <2>2. PICK s \in solo : s.obj = <<x, tracked[x]>>
    BY <2>1 DEF CancelIsTaken, IsTracked, Current
  <2> QED
    BY <2>1, <2>2
<1>7. AllPlaced'
  <2> SUFFICES ASSUME NEW x \in Runs, tracked'[x] # 0
               PROVE  Placed(x)'
    BY DEF AllPlaced, IsTracked
  <2>1. x # r /\ Placed(x) /\ tracked'[x] = tracked[x]
    BY <1>2 DEF AllPlaced, IsTracked
  <2>3. \A l \in Lanes : l[1] = <<x, round[x]>> => lanes'[l] = lanes[l]
    BY <2>1
  <2>2. ASSUME NEW s \in solo, s.obj = <<x, round[x]>> PROVE s \in solo'
    BY <2>1, <2>2
  <2> QED
    BY <1>1, <2>1, <2>2, <2>3 DEF Placed, AtWork
<1> QED
  BY <1>3, <1>4, <1>5, <1>6, <1>7

(* Which reports and cancels a model leaves out for the rounds to be accounted
   for: an answer that races a report or a cancel of the offered run, a resume
   that races the forget of the round before, and late reports where rounds
   resume (a one-shot task of the unclaimed round forgets the resumed one). *)
RoundsApart ==
  /\ Behaviours \cap {"early_report", "cancel_offered", "resume_early"} = {}
  /\ "resume" \notin Behaviours \/ "late_report" \notin Behaviours

LEMMA ResumeStartsClean ==
  ASSUME RoundsApart, LineInv, AccountInv, NEW r \in Runs, Resume(r)
  PROVE  /\ tracked[r] = 0
         /\ \A s \in solo : s.obj[1] # r
         /\ \A l \in Lanes : l[1][1] = r => ~ AtWork(l)
<1> USE DEF LineInv, AccountInv
<1> DEFINE o == <<r, round[r]>>
<1>1. PICK via \in {"offer", "late"} : lanes[<<o, via>>] = "finished"
  BY DEF Resume, RoundsApart
<1>2. "late_report" \notin Behaviours
  BY DEF Resume, RoundsApart
<1>3. o \in Objects /\ <<o, via>> \in Lanes
  BY BrokerAssumption DEF Resume, enqueue_run, TypeOK, Lanes, Objects
<1>4. o \in claimed
  BY <1>1, <1>3 DEF OnePipeline
<1>5. tracked[r] = 0
  <2>1. <<o, via>>[1][1] = r /\ <<o, via>>[1][2] = round[r]
    OBVIOUS
  <2> QED
    BY <1>1, <1>3, <2>1 DEF LanesOver
<1>6. \A x \in Objects : x[1] = r /\ x[2] = round[r] => x = o
  BY ObjectIsPair
<1>7. ASSUME NEW s \in solo, s.obj[1] = r PROVE FALSE
  <2>1. s.obj \in Objects
    BY ObjectIsPair DEF TypeOK
  <2> QED
    BY <1>2, <1>4, <1>6, <1>7, <2>1 DEF SoloKnown
<1>8. ASSUME NEW l \in Lanes, l[1][1] = r, AtWork(l) PROVE FALSE
  <2>1. l[1] \in Objects /\ l = <<l[1], l[2]>> /\ l[2] \in {"offer", "late"}
    BY ObjectIsPair
  <2>2. l[1] = o
    BY <1>6, <1>8, <2>1 DEF LanesOver
  <2>3. l[2] = via
    BY <1>1, <1>3, <1>8, <2>1, <2>2 DEF OnePipeline, AtWork
  <2>4. l = <<o, via>>
    BY <2>1, <2>2, <2>3
  <2> QED
    BY <1>1, <1>8, <2>4 DEF AtWork
<1> QED
  BY <1>5, <1>7, <1>8

LEMMA SubmitStartsClean ==
  ASSUME LineInv, AccountInv, NEW r \in Runs, Submit(r)
  PROVE  /\ tracked[r] = 0
         /\ \A s \in solo : s.obj[1] # r
         /\ \A l \in Lanes : l[1][1] = r => ~ AtWork(l)
<1> USE DEF LineInv, AccountInv
<1>1. round[r] = 0 /\ tracked[r] = 0
  BY DEF Submit, LastIsFiled
<1>2. \A o \in Objects : o[2] # 0
  BY ObjectIsPair
<1>3. \A s \in solo : s.obj \in Objects
  BY ObjectIsPair DEF TypeOK
<1>4. \A l \in Lanes : l[1] \in Objects
  BY ObjectIsPair
<1> QED
  BY <1>1, <1>2, <1>3, <1>4 DEF SoloKnown, LanesOver

(* What callers, connections and the loop do to the rounds. *)
LEMMA CallersKeepAccount ==
  ASSUME RoundsApart, LineInv, AccountInv,
         \/ \E r \in Runs : Submit(r) \/ Resume(r) \/ request_cancel(r) \/ FailStalled(r)
                            \/ GracePasses(r)
         \/ \E p \in Providers : register_provider(p) \/ Detach(p)
         \/ LoopStep
  PROVE  AccountInv'
<1> USE DEF LineInv, AccountInv, objVars, loopVars
<1>1. ASSUME NEW r \in Runs, Submit(r) \/ Resume(r) PROVE AccountInv'
  <2>1. r \notin InLine /\ enqueue_run(r)
    BY <1>1, EnqueueOutOfLine
  <2>2. /\ \A s \in solo : s.obj[1] # r
        /\ \A l \in Lanes : l[1][1] = r => ~ AtWork(l)
    BY <1>1, SubmitStartsClean, ResumeStartsClean
  <2> QED
    BY <2>1, <2>2, EnqueueKeepsAccount
<1>2. ASSUME UNCHANGED <<tracked, pending, claimed, cancelled, solo, ended, round, lanes, offer>>
      PROVE  AccountInv'
  BY <1>2, SameKeepsAccount DEF AtWork
<1>3. ASSUME NEW r \in Runs, request_cancel(r) PROVE AccountInv'
  <2> DEFINE o == Current(r)
  <2>1. /\ cancelled' = cancelled \cup {o} /\ IsTracked(r)
        /\ UNCHANGED <<tracked, pending, claimed, lanes, ended, round, offer>>
        /\ offer # None => offer.obj # o
    BY <1>3 DEF request_cancel, RoundsApart
  <2>2. o = <<r, round[r]>>
    BY <2>1, CurrentIsLast
  <2>3. \/ o \in claimed /\ UNCHANGED solo
        \/ \E s \in SoloTasks : s.obj = o /\ o \notin claimed /\ solo' = solo \cup {s}
    <3>1. o \in Objects
      BY <2>1, CurrentIsObject
    <3>2. [obj |-> o, cmd |-> "RequestCancel", step |-> "spawned"] \in SoloTasks
      BY <3>1 DEF SoloTasks
    <3> QED
      BY <1>3, <3>2 DEF request_cancel
  <2> HIDE DEF o
  <2>4. InLine' = InLine
    BY <2>1 DEF InLine
  <2>5. solo \subseteq solo'
    BY <2>3
  <2>6. LanesOver' /\ OfferLive'
    BY <2>1 DEF LanesOver, AtWork, OfferLive, IsTracked
  <2>7. SoloKnown'
    BY <2>1, <2>2, <2>3, <2>4 DEF SoloKnown
  <2>8. CancelIsTaken'
    BY <2>1, <2>3, <2>5 DEF CancelIsTaken, IsTracked, Current
  <2>9. AllPlaced'
    BY <2>1, <2>4, <2>5 DEF AllPlaced, Placed, IsTracked, AtWork
  <2> QED
    BY <2>6, <2>7, <2>8, <2>9
<1>4. ASSUME NEW r \in Runs, FailStalled(r) \/ GracePasses(r) PROVE AccountInv'
  BY <1>2, <1>4 DEF FailStalled, push_fail, GracePasses
<1>5. ASSUME NEW p \in Providers, register_provider(p) \/ Detach(p) PROVE AccountInv'
  BY <1>2, <1>5 DEF register_provider, Detach
<1>6. ASSUME NEW r \in Runs, expire_queued(r) PROVE AccountInv'
  <2> DEFINE s == [obj |-> Current(r), cmd |-> "Fail", step |-> "spawned"]
  <2>1. IsTracked(r) /\ Current(r) \in Objects /\ Current(r) = <<r, round[r]>>
    BY <1>6, CurrentIsLast, CurrentIsObject DEF expire_queued, Expirable
  <2>2. r \in InLine
    BY <1>6 DEF expire_queued, Expirable, InLine, ToSet, Contains
  <2>3. s \in SoloTasks /\ s.obj = <<r, round[r]>>
    BY <2>1 DEF SoloTasks
  <2>4. /\ pending' = Dequeue(r) /\ solo' = solo \cup {s} /\ offer' = None
        /\ UNCHANGED <<tracked, claimed, cancelled, ended, round, lanes>>
    BY <1>6 DEF expire_queued, OfferAtHead
  <2> HIDE DEF s
  <2> QED
    BY <2>1, <2>2, <2>3, <2>4, GiveUpKeepsAccount
<1>7. CASE StartWalk \/ EndWalk \/ Wake
  BY <1>2, <1>7 DEF StartWalk, EndWalk, Wake
<1>8. ASSUME NEW a \in Agents, LeaveAgent(a) PROVE AccountInv'
  <2>1. offer' = None /\ UNCHANGED <<tracked, claimed, cancelled, solo, ended, round, lanes>>
        /\ offer = None
    BY <1>8 DEF LeaveAgent, Walking
  <2>2. OfferLive'
    BY <2>1 DEF OfferLive
  <2> QED
    BY <1>2, <1>8, <2>1, <2>2, TrimKeepsAccount DEF LeaveAgent
<1>9. ASSUME NEW a \in Agents, OfferHead(a) PROVE AccountInv'
  <2>1. PICK r \in InLine : /\ offer' = [obj |-> <<r, round[r]>>, answer |-> "awaited"]
                            /\ Offerable(r)
    BY <1>9, HeadWaits
  <2>2. UNCHANGED <<tracked, claimed, cancelled, solo, ended, round, lanes>>
    BY <1>9 DEF OfferHead
  <2>3. r \in Runs /\ IsTracked(r) /\ Current(r) \notin cancelled
    BY <2>1 DEF InLine, Offerable
  <2>4. OfferLive'
    BY <2>1, <2>2, <2>3, CurrentIsLast DEF OfferLive, IsTracked
  <2> QED
    BY <1>9, <2>2, <2>4, TrimKeepsAccount DEF OfferHead
<1> QED
  BY <1>1, <1>3, <1>4, <1>5, <1>6, <1>7, <1>8, <1>9 DEF LoopStep

(* What providers do, and the tasks. *)
LEMMA ProvidersKeepAccount ==
  ASSUME RoundsApart, LineInv, AccountInv,
         \/ ProviderAccepts \/ OfferStep
         \/ \E o \in Objects, e \in Reports : report_event(o, e) \/ accept_late_ack(o, e)
         \/ \E o \in Objects : finish_run(o) \/ Abandon(o)
  PROVE  AccountInv'
<1> USE DEF LineInv, AccountInv, objVars, loopVars
<1>1. ASSUME UNCHANGED <<tracked, pending, claimed, cancelled, solo, ended, round, lanes>>,
             offer' # None => offer # None /\ offer'.obj = offer.obj
      PROVE  AccountInv'
  BY <1>1, SameKeepsAccount DEF AtWork
<1>2. CASE ProviderAccepts
  <2>1. offer # None /\ offer \in Offers /\ offer' = [offer EXCEPT !.answer = "yes"]
    BY <1>2 DEF ProviderAccepts, TypeOK
  <2>2. offer'.obj = offer.obj
    BY <2>1 DEF Offers
  <2> QED
    BY <1>1, <1>2, <2>1, <2>2 DEF ProviderAccepts
<1>3. offer # None => \E r \in InLine : /\ offer.obj = <<r, round[r]>> /\ IsTracked(r)
                                        /\ offer.obj \in Objects \ cancelled
  <2>1. offer # None => offer.obj \in Objects
    BY DEF TypeOK, Offers
  <2> QED
    BY <2>1, ObjectIsPair DEF OfferWaits, OfferLive
<1>4. CASE OfferAccepted
  <2>1. PICK r \in InLine : /\ offer.obj = <<r, round[r]>> /\ IsTracked(r)
                            /\ offer.obj \in Objects \ cancelled
    BY <1>3, <1>4 DEF OfferAccepted
  <2>2. /\ claim(<<r, round[r]>>, "offer") /\ pending' = Dequeue(r) /\ offer' = None
        /\ UNCHANGED <<tracked, solo, cancelled, ended, round>>
    BY <1>4, <2>1 DEF OfferAccepted
  <2>3. \A s \in solo : s.obj # <<r, round[r]>>
    BY <2>1 DEF SoloKnown
  <2>4. r \in Runs
    BY DEF InLine
  <2> QED
    BY <2>1, <2>2, <2>3, <2>4, ClaimKeepsAccount
<1>5. CASE OfferDeclined \/ OfferUnanswered
  BY <1>1, <1>5 DEF OfferDeclined, OfferUnanswered
<1>6. CASE OfferRefused
  <2> DEFINE s == [obj |-> offer.obj, cmd |-> "Fail", step |-> "spawned"]
  <2>1. PICK r \in InLine : /\ offer.obj = <<r, round[r]>> /\ IsTracked(r)
                            /\ offer.obj \in Objects \ cancelled
    BY <1>3, <1>6 DEF OfferRefused
  <2>2. s \in SoloTasks /\ s.obj = <<r, round[r]>>
    BY <2>1 DEF SoloTasks
  <2>3. /\ pending' = Dequeue(r) /\ solo' = solo \cup {s} /\ offer' = None
        /\ UNCHANGED <<tracked, claimed, cancelled, ended, round, lanes>>
    BY <1>6, <2>1 DEF OfferRefused
  <2> HIDE DEF s
  <2> QED
    BY <2>1, <2>2, <2>3, GiveUpKeepsAccount
<1>7. ASSUME NEW o \in Objects, NEW e, report_event(o, e) \/ finish_run(o) \/ Abandon(o)
      PROVE  AccountInv'
  BY <1>1, <1>7 DEF report_event, finish_run, Abandon
<1>8. ASSUME NEW o \in Objects, NEW e \in Reports, accept_late_ack(o, e) PROVE AccountInv'
  <2> DEFINE r == o[1]
  <2>1. r \in Runs /\ IsTracked(r) /\ "late_report" \in Behaviours
    BY <1>8, ProviderOfRun DEF accept_late_ack, RoundsApart
  <2>2. Current(r) \in Objects /\ Current(r) = <<r, round[r]>>
    BY <2>1, CurrentIsObject, CurrentIsLast
  <2>3. /\ claim(Current(r), "late") /\ pending' = Dequeue(r) /\ offer' = offer
        /\ UNCHANGED <<tracked, solo, cancelled, ended, round>>
    BY <1>8 DEF accept_late_ack
  <2> HIDE DEF r
  <2>5. claim(<<r, round[r]>>, "late") /\ <<r, round[r]>> \in Objects
    BY <2>2, <2>3
  <2> QED
    BY <2>1, <2>3, <2>5, ClaimKeepsAccount
<1> QED
  BY <1>2, <1>4, <1>5, <1>6, <1>7, <1>8 DEF OfferStep

LEMMA TasksKeepAccount ==
  ASSUME LineInv, AccountInv,
         (\E l \in Lanes : PipelineStep(l)) \/ \E s \in SoloTasks : OneShotStep(s)
  PROVE  AccountInv'
<1> USE DEF LineInv, AccountInv, loopVars
<1>0. offer # None => /\ offer.obj \in Objects /\ offer.obj[1] \in InLine
                      /\ offer.obj = <<offer.obj[1], round[offer.obj[1]]>>
                      /\ offer.obj \notin cancelled \cup claimed
  <2>1. offer # None => offer.obj \in Objects
    BY DEF TypeOK, Offers
  <2> QED
    BY <2>1, ObjectIsPair DEF OfferWaits, OfferLive, LineIsUnclaimed
<1>1. ASSUME NEW l \in Lanes, PipelineTakes(l) \/ PipelineGoesOn(l) PROVE AccountInv'
  <2>1. UNCHANGED <<tracked, pending, claimed, cancelled, solo, ended, round, offer>>
    BY <1>1 DEF PipelineTakes, PipelineGoesOn
  <2>2. \A m \in Lanes : m # l => lanes'[m] = lanes[m]
    BY <1>1 DEF PipelineTakes, PipelineGoesOn, TypeOK
  <2>3. lanes[l] \notin {"off", "finished", "closed"}
    BY <1>1, BrokerAssumption DEF PipelineTakes, PipelineGoesOn, Commands
  <2>4. lanes'[l] \in {"get"} \cup Commands
    <3>1. CASE PipelineTakes(l)
      <4>1. l[1] \in Objects
        BY ObjectIsPair
      <4>2. Head(inq[l[1]]) \in Commands
        BY <3>1, <4>1 DEF PipelineTakes, TypeOK
      <4> QED
        BY <3>1, <4>2 DEF PipelineTakes, TypeOK
    <3>2. CASE PipelineGoesOn(l)
      BY <3>2 DEF PipelineGoesOn, TypeOK
    <3> QED
      BY <1>1, <3>1, <3>2
  <2>5. lanes'[l] \notin {"off", "finished", "closed"}
    BY <2>4, BrokerAssumption DEF Commands
  <2> QED
    BY <2>1, <2>2, <2>3, <2>5, SameKeepsAccount DEF AtWork
<1>2. ASSUME NEW l \in Lanes, PipelineEnds(l) PROVE AccountInv'
  <2> DEFINE r == l[1][1]
  <2>1. l[1] \in Objects /\ r \in Runs
    BY ObjectIsPair
  <2>2. lanes[l] \notin {"off", "finished", "closed"}
    BY <1>2, BrokerAssumption DEF PipelineEnds, Commands
  <2>3. l[1] = <<r, round[r]>> /\ l[1] \in claimed
    BY <2>1, <2>2, ObjectIsPair DEF LanesOver, AtWork, OnePipeline
  <2>4. \A m \in Lanes : lanes'[m] = lanes[m] \/ (m = l /\ ~ AtWork(l)')
    BY <1>2 DEF PipelineEnds, AtWork, TypeOK
  <2>5. /\ forget(r) /\ ended' = ended \cup {l[1]}
        /\ UNCHANGED <<pending, claimed, cancelled, round, offer, solo>>
    BY <1>2 DEF PipelineEnds
  <2>6. offer # None => offer.obj[1] # r
    BY <1>0, <2>3
  <2> QED
    BY <2>1, <2>3, <2>4, <2>5, <2>6, EndKeepsAccount
<1>3. ASSUME NEW s \in SoloTasks, OneShotStarts(s) PROVE AccountInv'
  <2>1. PICK t \in SoloTasks : t.obj = s.obj /\ solo' = (solo \ {s}) \cup {t}
    <3>1. [s EXCEPT !.step = "handling"] \in SoloTasks
          /\ [s EXCEPT !.step = "handling"].obj = s.obj
      BY DEF SoloTasks
    <3> QED
      BY <1>3, <3>1 DEF OneShotStarts
  <2>2. /\ UNCHANGED <<tracked, pending, claimed, cancelled, ended, round, offer, lanes>>
        /\ s \in solo
    BY <1>3 DEF OneShotStarts
  <2>3. InLine' = InLine
    BY <2>2 DEF InLine
  <2>4. \A o : (\E x \in solo : x.obj = o) <=> (\E x \in solo' : x.obj = o)
    BY <2>1, <2>2
  <2>5. LanesOver' /\ OfferLive'
    BY <2>2 DEF LanesOver, AtWork, OfferLive, IsTracked
  <2>6. SoloKnown'
    BY <2>1, <2>2, <2>3 DEF SoloKnown
  <2>7. CancelIsTaken'
    BY <2>2, <2>4 DEF CancelIsTaken, IsTracked, Current
  <2>8. AllPlaced'
    BY <2>2, <2>3, <2>4 DEF AllPlaced, Placed, IsTracked, AtWork
  <2> QED
    BY <2>5, <2>6, <2>7, <2>8
<1>4. ASSUME NEW s \in SoloTasks, OneShotEnds(s) PROVE AccountInv'
  <2> DEFINE r == s.obj[1]
  <2>1. s.obj \in Objects /\ r \in Runs
    BY ObjectIsPair
  <2>2. s \in solo /\ s.obj = <<r, round[r]>>
    BY <1>4, <2>1, ObjectIsPair DEF OneShotEnds, SoloKnown
  <2>3. /\ forget(r) /\ ended' = ended \cup {s.obj} /\ solo' = solo \ {s}
        /\ UNCHANGED <<pending, claimed, cancelled, round, offer, lanes>>
    BY <1>4 DEF OneShotEnds
  <2>4. offer # None => offer.obj[1] # r
    BY <1>0, <2>2 DEF SoloKnown
  <2> QED
    BY <2>1, <2>2, <2>3, <2>4, EndKeepsAccount
<1> QED
  BY <1>1, <1>2, <1>3, <1>4 DEF PipelineStep, OneShotStep

LEMMA NextAccountInv ==
  ASSUME RoundsApart, LineInv, AccountInv, [Next]_vars
  PROVE  AccountInv'
<1>1. CASE UNCHANGED vars
  BY <1>1, SameKeepsAccount DEF vars, objVars, loopVars, AtWork
<1> QED
  BY <1>1, CallersKeepAccount, ProvidersKeepAccount, TasksKeepAccount DEF Next

LEMMA InitAccountInv == Init => AccountInv
<1> SUFFICES ASSUME Init PROVE AccountInv
  OBVIOUS
<1>1. LanesOver
  BY DEF Init, LanesOver, AtWork
<1> QED
  BY <1>1 DEF Init, AccountInv, SoloKnown, OfferLive, CancelIsTaken, AllPlaced, IsTracked

(* A task that ends a stream ends that of the last round of its run. *)
LEMMA NextAllFiled ==
  ASSUME LineInv, AccountInv, AllFiled, [Next]_vars
  PROVE  AllFiled'
<1> USE DEF LineInv, AccountInv, objVars, loopVars
<1>1. ASSUME UNCHANGED <<tracked, round, ended>> PROVE AllFiled'
  BY <1>1 DEF AllFiled
<1>2. ASSUME NEW r \in Runs, enqueue_run(r) PROVE AllFiled'
  <2>1. \A x \in Runs : \/ (round'[x] = round[x] /\ tracked'[x] = tracked[x])
                        \/ round'[x] = tracked'[x]
    BY <1>2 DEF enqueue_run, TypeOK
  <2> QED
    BY <1>2, <2>1 DEF AllFiled, enqueue_run
<1>3. ASSUME NEW r \in Runs, forget(r), UNCHANGED round, ended' = ended \cup {<<r, round[r]>>}
      PROVE  AllFiled'
  BY <1>3, ForgetLetsGo DEF AllFiled
<1>4. ASSUME NEW l \in Lanes, PipelineStep(l) PROVE AllFiled'
  <2>1. CASE PipelineTakes(l) \/ PipelineGoesOn(l)
    BY <1>1, <2>1 DEF PipelineTakes, PipelineGoesOn
  <2>2. CASE PipelineEnds(l)
    <3>1. AtWork(l)
      BY <2>2, BrokerAssumption DEF PipelineEnds, Commands, AtWork
    <3>2. l[1] = <<l[1][1], round[l[1][1]]>> /\ l[1][1] \in Runs
      BY <3>1, ObjectIsPair DEF LanesOver
    <3> QED
      BY <1>3, <2>2, <3>2 DEF PipelineEnds
  <2> QED
    BY <1>4, <2>1, <2>2 DEF PipelineStep
<1>5. ASSUME NEW s \in SoloTasks, OneShotStep(s) PROVE AllFiled'
  <2>1. CASE OneShotStarts(s)
    BY <1>1, <2>1 DEF OneShotStarts
  <2>2. CASE OneShotEnds(s)
    <3>1. s.obj = <<s.obj[1], round[s.obj[1]]>> /\ s.obj[1] \in Runs
      BY <2>2, ObjectIsPair DEF OneShotEnds, SoloKnown
    <3> QED
      BY <1>3, <2>2, <3>1 DEF OneShotEnds
  <2> QED
    BY <1>5, <2>1, <2>2 DEF OneShotStep
<1>6. ASSUME NEW r \in Runs, Submit(r) \/ Resume(r) PROVE AllFiled'
  BY <1>2, <1>6 DEF Submit, Resume
<1>7. ASSUME NEW r \in Runs, request_cancel(r) \/ FailStalled(r) \/ GracePasses(r)
      PROVE  AllFiled'
  BY <1>1, <1>7 DEF request_cancel, FailStalled, push_fail, GracePasses
<1>8. ASSUME NEW p \in Providers, register_provider(p) \/ Detach(p) PROVE AllFiled'
  BY <1>1, <1>8 DEF register_provider, Detach
<1>9. CASE LoopStep
  BY <1>1, <1>9 DEF LoopStep, expire_queued, StartWalk, EndWalk, Wake, LeaveAgent, OfferHead
<1>10. CASE ProviderAccepts \/ OfferStep
  BY <1>1, <1>10
  DEF ProviderAccepts, OfferStep, OfferAccepted, OfferDeclined, OfferRefused, OfferUnanswered
<1>11. ASSUME NEW o \in Objects, NEW e,
              report_event(o, e) \/ accept_late_ack(o, e) \/ finish_run(o) \/ Abandon(o)
       PROVE  AllFiled'
  BY <1>1, <1>11 DEF report_event, accept_late_ack, finish_run, Abandon
<1>12. CASE UNCHANGED vars
  BY <1>1, <1>12 DEF vars
<1> QED
  BY <1>4, <1>5, <1>6, <1>7, <1>8, <1>9, <1>10, <1>11, <1>12 DEF Next

(* No round is lost: what was enqueued has ended its stream, or is filed under
   its id and in the hands of a pipeline, of its agent's queue or of a one-shot
   task, in whatever order offers, answers, cancels, expiries, late reports and
   forgets by run id come. *)
THEOREM NoRoundIsLost ==
  ASSUME RoundsApart
  PROVE  Spec => []RoundsAccountedFor
<1> DEFINE Inv == LineInv /\ AccountInv /\ AllFiled
<1>1. Init => Inv
  <2>1. Init => AllFiled
    BY DEF Init, AllFiled
  <2> QED
    BY <2>1, InitLineInv, InitAccountInv
<1>2. Inv /\ [Next]_vars => Inv'
  BY NextLineInv, NextAccountInv, NextAllFiled DEF RoundsApart
<1>3. Inv => RoundsAccountedFor
  BY AllPlacedIsAccounted DEF AccountInv
<1> QED
  BY <1>1, <1>2, <1>3, PTL DEF Spec

-----------------------------------------------------------------------------
(* Every place that is counted is held *)

PlacesAreHeld == \A p \in Providers : inFlight[p] <= Cardinality(Held(p))

LEMMA PlacesAreExact ==
  ASSUME TypeOK, HeldIsCounted, PlacesAreHeld
  PROVE  PlacesComeBack
<1> SUFFICES ASSUME NEW p \in Providers PROVE Cardinality(Held(p)) = inFlight[p]
  BY DEF PlacesComeBack
<1>1. Cardinality(Held(p)) \in Nat /\ inFlight[p] \in Nat
  BY HeldIsFinite DEF TypeOK
<1>2. Cardinality(Held(p)) <= inFlight[p] /\ inFlight[p] <= Cardinality(Held(p))
  BY DEF HeldIsCounted, PlacesAreHeld
<1> QED
  BY <1>1, <1>2

LEMMA SameKeepsPlaces ==
  ASSUME PlacesAreHeld, UNCHANGED <<tracked, claimed, inFlight>>
  PROVE  PlacesAreHeld'
BY DEF PlacesAreHeld, Held, IsTracked, Current

(* A place is counted with the claim of a run that was filed and had none. *)
LEMMA ClaimKeepsPlaces ==
  ASSUME TypeOK, PlacesAreHeld, NEW r \in Runs, IsTracked(r), Current(r) \notin claimed,
         UNCHANGED tracked, claimed' = claimed \cup {Current(r)},
         inFlight' = [inFlight EXCEPT ![Provider(r)] = @ + 1]
  PROVE  PlacesAreHeld'
<1> SUFFICES ASSUME NEW p \in Providers
             PROVE  inFlight'[p] <= Cardinality(Held(p)')
  BY DEF PlacesAreHeld
<1>1. Provider(r) \in Providers
  BY ProviderOfRun
<1>2. Cardinality(Held(p)') \in Nat /\ Cardinality(Held(p)) \in Nat
  BY HeldIsFinite, HeldIsFinitePrimed
<1>3. inFlight[p] \in Nat /\ inFlight[p] <= Cardinality(Held(p))
  BY DEF TypeOK, PlacesAreHeld
<1>4. CASE Provider(r) = p
  <2>1. Held(p)' = Held(p) \cup {r} /\ r \notin Held(p)
    BY <1>4 DEF Held, IsTracked, Current, Provider
  <2>2. IsFiniteSet(Held(p))
    BY HeldIsFinite
  <2> HIDE DEF Held
  <2>3. Cardinality(Held(p) \cup {r}) = Cardinality(Held(p)) + 1
    BY <2>1, <2>2, FS_AddElement
  <2>4. inFlight'[p] = inFlight[p] + 1
    BY <1>4 DEF TypeOK
  <2> QED
    BY <1>2, <1>3, <2>1, <2>3, <2>4
<1>5. CASE Provider(r) # p
  <2>1. Held(p) \subseteq Held(p)'
    BY <1>5 DEF Held, IsTracked, Current, Provider
  <2>2. Cardinality(Held(p)) <= Cardinality(Held(p)')
    BY <2>1, HeldIsFinitePrimed, FS_Subset
  <2>3. inFlight'[p] = inFlight[p]
    BY <1>1, <1>5 DEF TypeOK
  <2> QED
    BY <1>2, <1>3, <2>2, <2>3
<1> QED
  BY <1>4, <1>5

(* ... and freed with the forget of a run that held it. *)
LEMMA ForgetKeepsPlaces ==
  ASSUME TypeOK, HeldIsCounted, PlacesAreHeld, NEW r \in Runs, forget(r), UNCHANGED claimed
  PROVE  PlacesAreHeld'
<1> SUFFICES ASSUME NEW p \in Providers
             PROVE  inFlight'[p] <= Cardinality(Held(p)')
  BY DEF PlacesAreHeld
<1>1. Provider(r) \in Providers
  BY ProviderOfRun
<1>2. Cardinality(Held(p)') \in Nat /\ Cardinality(Held(p)) \in Nat
  BY HeldIsFinite, HeldIsFinitePrimed
<1>3. inFlight[p] \in Nat /\ inFlight[p] <= Cardinality(Held(p))
      /\ Cardinality(Held(p)) <= inFlight[p]
  BY DEF TypeOK, PlacesAreHeld, HeldIsCounted
<1>4. \A x \in Runs : tracked'[x] = IF x = r THEN 0 ELSE tracked[x]
  BY ForgetLetsGo
<1>5. CASE r \in Held(p)
  <2>1. Provider(r) = p /\ IsTracked(r) /\ Current(r) \in claimed
    BY <1>5 DEF Held
  <2>2. Held(p)' = Held(p) \ {r}
    BY <1>4 DEF Held, IsTracked, Current, Provider
  <2>3. IsFiniteSet(Held(p))
    BY HeldIsFinite
  <2> HIDE DEF Held
  <2>4. Cardinality(Held(p) \ {r}) = Cardinality(Held(p)) - 1
    BY <1>5, <2>3, FS_RemoveElement
  <2>5. Cardinality(Held(p)) > 0
    BY <1>2, <2>2, <2>4
  <2>6. inFlight[p] > 0
    BY <1>2, <1>3, <2>5
  <2>7. inFlight'[p] = inFlight[p] - 1
    BY <2>1, <2>6 DEF forget, TypeOK
  <2> QED
    BY <1>2, <1>3, <2>2, <2>4, <2>7
<1>6. CASE r \notin Held(p)
  <2>1. Held(p) \subseteq Held(p)'
    BY <1>4, <1>6 DEF Held, IsTracked, Current, Provider
  <2>2. Cardinality(Held(p)) <= Cardinality(Held(p)')
    BY <2>1, HeldIsFinitePrimed, FS_Subset
  <2>3. inFlight'[p] = inFlight[p]
    BY <1>1, <1>6 DEF forget, Held, TypeOK
  <2> QED
    BY <1>2, <1>3, <2>2, <2>3
<1> QED
  BY <1>5, <1>6

LEMMA NextPlacesAreHeld ==
  ASSUME RoundsApart, "decline" \notin Behaviours,
         LineInv, AccountInv, HeldIsCounted, PlacesAreHeld, [Next]_vars
  PROVE  PlacesAreHeld'
<1> USE DEF LineInv, AccountInv, objVars, loopVars
<1>1. ASSUME NEW r \in Runs, Submit(r) \/ Resume(r) PROVE PlacesAreHeld'
  <2>1. enqueue_run(r) /\ tracked[r] = 0
    BY <1>1, EnqueueOutOfLine, SubmitStartsClean, ResumeStartsClean
  <2>2. \A x \in Runs \ {r} : tracked'[x] = tracked[x]
    BY <2>1 DEF enqueue_run, TypeOK
  <2>3. UNCHANGED <<claimed, inFlight>>
    BY <2>1 DEF enqueue_run
  <2>4. \A p \in Providers : Held(p) \subseteq Held(p)'
    BY <2>1, <2>2, <2>3 DEF Held, IsTracked, Current
  <2> SUFFICES ASSUME NEW p \in Providers
               PROVE  inFlight'[p] <= Cardinality(Held(p)')
    BY DEF PlacesAreHeld
  <2>5. Cardinality(Held(p)) <= Cardinality(Held(p)')
    BY <2>4, HeldIsFinitePrimed, FS_Subset
  <2>6. /\ Cardinality(Held(p)) \in Nat /\ Cardinality(Held(p)') \in Nat
        /\ inFlight[p] \in Nat /\ inFlight[p] <= Cardinality(Held(p))
    BY HeldIsFinite, HeldIsFinitePrimed DEF TypeOK, PlacesAreHeld
  <2> QED
    BY <2>3, <2>5, <2>6
<1>2. CASE OfferAccepted
  <2> DEFINE r == offer.obj[1]
  <2>1. offer # None /\ offer.obj \in Objects
    BY <1>2 DEF OfferAccepted, TypeOK, Offers
  <2>2. r \in Runs /\ IsTracked(r) /\ offer.obj = <<r, round[r]>>
    BY <2>1, ObjectIsPair DEF OfferLive, OfferWaits
  <2>3. Current(r) = offer.obj /\ offer.obj \notin claimed
    BY <2>1, <2>2, CurrentIsLast DEF OfferWaits, LineIsUnclaimed
  <2>4. /\ UNCHANGED tracked /\ claimed' = claimed \cup {offer.obj}
        /\ inFlight' = [inFlight EXCEPT ![Provider(r)] = @ + 1]
    BY <1>2 DEF OfferAccepted, claim
  <2> QED
    BY <2>2, <2>3, <2>4, ClaimKeepsPlaces
<1>3. ASSUME NEW o \in Objects, NEW e \in Reports, accept_late_ack(o, e)
      PROVE  PlacesAreHeld'
  <2>1. o[1] \in Runs
    BY ProviderOfRun
  <2> QED
    BY <1>3, <2>1, ClaimKeepsPlaces DEF accept_late_ack, claim
<1>4. ASSUME NEW l \in Lanes, PipelineStep(l) PROVE PlacesAreHeld'
  <2>1. l[1][1] \in Runs
    BY ProviderOfRun DEF Lanes
  <2> QED
    BY <1>4, <2>1, ForgetKeepsPlaces, SameKeepsPlaces
       DEF PipelineStep, PipelineTakes, PipelineGoesOn, PipelineEnds
<1>5. ASSUME NEW s \in SoloTasks, OneShotStep(s) PROVE PlacesAreHeld'
  <2>1. s.obj[1] \in Runs
    BY ProviderOfRun DEF SoloTasks
  <2> QED
    BY <1>5, <2>1, ForgetKeepsPlaces, SameKeepsPlaces
       DEF OneShotStep, OneShotStarts, OneShotEnds
<1>6. ASSUME NEW p \in Providers, register_provider(p) \/ Detach(p)
      PROVE  UNCHANGED <<tracked, claimed, inFlight>>
  BY <1>6 DEF register_provider, Detach
<1>7. ASSUME NEW r \in Runs,
             request_cancel(r) \/ FailStalled(r) \/ GracePasses(r) \/ expire_queued(r)
      PROVE  UNCHANGED <<tracked, claimed, inFlight>>
  BY <1>7 DEF request_cancel, FailStalled, push_fail, GracePasses, expire_queued
<1>8. ASSUME NEW a \in Agents, LeaveAgent(a) \/ OfferHead(a)
      PROVE  UNCHANGED <<tracked, claimed, inFlight>>
  BY <1>8 DEF LeaveAgent, OfferHead
<1>9. ASSUME NEW o \in Objects, NEW e, report_event(o, e) \/ finish_run(o) \/ Abandon(o)
      PROVE  UNCHANGED <<tracked, claimed, inFlight>>
  BY <1>9 DEF report_event, finish_run, Abandon
<1>10. ASSUME \/ StartWalk \/ EndWalk \/ Wake
              \/ ProviderAccepts \/ OfferRefused \/ OfferUnanswered
              \/ UNCHANGED vars
       PROVE  UNCHANGED <<tracked, claimed, inFlight>>
  BY <1>10 DEF StartWalk, EndWalk, Wake, ProviderAccepts, OfferRefused, OfferUnanswered,
               vars
<1>11. ~ OfferDeclined
  BY DEF OfferDeclined
<1> QED
  BY <1>1, <1>2, <1>3, <1>4, <1>5, <1>6, <1>7, <1>8, <1>9, <1>10, <1>11, SameKeepsPlaces
     DEF Next, LoopStep, OfferStep

(* A provider's counter is exact: every place that a claim took comes back with
   the forget of the run that took it, once, although forget goes by run id and
   claims come in as answers and as late reports.  Only the write of _offer to
   a provider that declined puts the counter elsewhere, which the hypothesis
   leaves out. *)
THEOREM CountIsExact ==
  ASSUME RoundsApart, "decline" \notin Behaviours
  PROVE  Spec => []PlacesComeBack
<1> DEFINE Inv == LineInv /\ AccountInv /\ HeldIsCounted /\ PlacesAreHeld
<1>1. Init => Inv
  <2> SUFFICES ASSUME Init PROVE Inv
    OBVIOUS
  <2>1. LineInv /\ AccountInv /\ HeldIsCounted
    BY InitLineInv, InitAccountInv, InitCountInv DEF CountInv
  <2>2. PlacesAreHeld
    <3>1. \A p \in Providers : inFlight[p] = 0 /\ Cardinality(Held(p)) \in Nat
      BY HeldIsFinite DEF Init
    <3> QED
      BY <3>1 DEF PlacesAreHeld
  <2> QED
    BY <2>1, <2>2
<1>2. Inv /\ [Next]_vars => Inv'
  <2> SUFFICES ASSUME Inv, [Next]_vars PROVE Inv'
    OBVIOUS
  <2>1. LineInv' /\ AccountInv'
    BY NextLineInv, NextAccountInv DEF RoundsApart
  <2>2. HeldIsCounted'
    BY <2>1, NextHeldIsCounted DEF LineInv
  <2>3. PlacesAreHeld'
    BY NextPlacesAreHeld
  <2> QED
    BY <2>1, <2>2, <2>3
<1>3. Inv => PlacesComeBack
  BY PlacesAreExact DEF LineInv
<1> QED
  BY <1>1, <1>2, <1>3, PTL DEF Spec

=============================================================================
