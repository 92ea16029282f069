---------------------------- MODULE BrokerProofs ----------------------------
(* Theorems of Broker, for any number of runs, agents and providers, any
   limits and tolerance, any number of rounds, and whatever classes of
   behaviour Behaviours holds. *)
EXTENDS Broker, FiniteSetTheorems, SequenceTheorems, NaturalsInduction, WellFoundedInduction, TLAPS

-----------------------------------------------------------------------------
(* What the operators on queues return *)

(* The least of a nonempty set of naturals is in it and at the bottom of it:
   the index that a search from the front of a queue finds. *)
LEMMA MinIsLeast ==
  ASSUME NEW I \in SUBSET Nat, I # {}
  PROVE  Min(I) \in I /\ \A i \in I : Min(I) <= i
<1> DEFINE R == OpToRel(<, Nat)
<1>1. IsWellFoundedOn(R, Nat)
  BY NatLessThanWellFounded
<1>2. \A x, y \in Nat : <<y, x>> \notin R => x <= y
  BY DEF OpToRel
<1> HIDE DEF R
<1>3. PICK x \in I : \A y \in I : ~ (<<y, x>> \in R)
  BY <1>1, WFMin
<1>4. \A y \in I : x <= y
  BY <1>2, <1>3
<1> QED
  BY <1>3, <1>4 DEF Min

LEMMA MinIsMember ==
  ASSUME NEW I \in SUBSET Nat, I # {}
  PROVE  Min(I) \in I
BY MinIsLeast

(* Taking a run out of a queue leaves a queue. *)
LEMMA RemoveFirstIsSeq ==
  ASSUME NEW S, NEW q \in Seq(S), NEW e
  PROVE  RemoveFirst(q, e) \in Seq(S)
<1> DEFINE I == {i \in 1..Len(q) : q[i] = e}
<1>1. RemoveFirst(q, e) = IF I # {} THEN RemoveAt(q, Min(I)) ELSE q
  BY DEF RemoveFirst, SelectInSeq
<1>2. I \in SUBSET Nat /\ I \subseteq 1..Len(q)
  OBVIOUS
<1> HIDE DEF I
<1>3. I # {} => Min(I) \in 1..Len(q)
  BY <1>2, MinIsMember
<1> QED
  BY <1>1, <1>3 DEF RemoveAt

(* Dropping what is not worth offering leaves a queue of the same runs. *)
LEMMA FromFirstOfferableIsSeq ==
  ASSUME NEW S, NEW q \in Seq(S)
  PROVE  FromFirstOfferable(q) \in Seq(S)
<1> DEFINE I == {i \in 1..Len(q) : Offerable(q[i])}
<1>1. SelectInSeq(q, Offerable) = IF I # {} THEN Min(I) ELSE 0
  BY DEF SelectInSeq
<1>2. I \in SUBSET Nat /\ I \subseteq 1..Len(q)
  OBVIOUS
<1> HIDE DEF I
<1>3. SelectInSeq(q, Offerable) \in 0..Len(q)
  <2>1. I # {} => Min(I) \in 1..Len(q)
    BY <1>2, MinIsMember
  <2> QED
    BY <1>1, <2>1
<1> QED
  BY <1>3 DEF FromFirstOfferable

(* The head of what is left is worth offering: the loop offers tracked runs. *)
LEMMA HeadIsOfferable ==
  ASSUME NEW S, NEW q \in Seq(S), FromFirstOfferable(q) # <<>>
  PROVE  Offerable(Head(FromFirstOfferable(q))) /\ IsTracked(Head(FromFirstOfferable(q)))
<1> DEFINE I == {i \in 1..Len(q) : Offerable(q[i])}
<1>1. SelectInSeq(q, Offerable) = IF I # {} THEN Min(I) ELSE 0
  BY DEF SelectInSeq
<1>2. I \in SUBSET Nat
  OBVIOUS
<1>3. I # {} /\ Min(I) \in I
  <2> HIDE DEF I
  <2>1. I # {}
    BY <1>1 DEF FromFirstOfferable
  <2> QED
    BY <1>2, <2>1, MinIsMember
<1>4. Min(I) \in 1..Len(q) /\ Offerable(q[Min(I)])
  BY <1>3
<1> HIDE DEF I
<1>5. FromFirstOfferable(q) = SubSeq(q, Min(I), Len(q))
  BY <1>1, <1>3, <1>4 DEF FromFirstOfferable
<1>6. Head(FromFirstOfferable(q)) = q[Min(I)]
  BY <1>4, <1>5
<1> QED
  BY <1>4, <1>6 DEF Offerable

(* Taking a run out of a queue that holds it once takes out that run alone. *)
LEMMA RemoveFirstTakesOut ==
  ASSUME NEW S, NEW q \in Seq(S), NEW e, IsInjective(q)
  PROVE  /\ IsInjective(RemoveFirst(q, e))
         /\ ToSet(RemoveFirst(q, e)) = ToSet(q) \ {e}
<1> DEFINE I == {i \in 1..Len(q) : q[i] = e}
<1>1. RemoveFirst(q, e) = IF I # {} THEN RemoveAt(q, Min(I)) ELSE q
  BY DEF RemoveFirst, SelectInSeq
<1>2. I \in SUBSET Nat /\ \A i \in I : i \in 1..Len(q) /\ q[i] = e
  OBVIOUS
<1>3. CASE I = {}
  <2>1. e \notin ToSet(q)
    BY <1>3 DEF ToSet
  <2> QED
    BY <1>1, <1>3, <2>1
<1>4. CASE I # {}
  <2> HIDE DEF I
  <2>1. PICK m \in 1..Len(q) : q[m] = e /\ RemoveFirst(q, e) = RemoveAt(q, m)
    BY <1>1, <1>2, <1>4, MinIsMember
  <2> DEFINE left == SubSeq(q, 1, m - 1)
             right == SubSeq(q, m + 1, Len(q))
             s == RemoveFirst(q, e)
             k(i) == IF i < m THEN i ELSE i + 1
  <2>2. /\ left \in Seq(S) /\ Len(left) = m - 1
        /\ right \in Seq(S) /\ Len(right) = Len(q) - m
    OBVIOUS
  <2>3. \A i \in 1..(m - 1) : left[i] = q[i]
    OBVIOUS
  <2>4. \A i \in 1..(Len(q) - m) : right[i] = q[m + i]
    OBVIOUS
  <2>5. s = left \o right
    BY <2>1 DEF RemoveAt
  <2> HIDE DEF left, right, s
  <2>6. s \in Seq(S) /\ Len(s) = Len(q) - 1
    BY <2>2, <2>5
  <2>7. \A i \in 1..(Len(q) - 1) : s[i] = q[k(i)]
    <3> SUFFICES ASSUME NEW i \in 1..(Len(q) - 1) PROVE s[i] = q[k(i)]
      OBVIOUS
    <3>1. CASE i < m
      BY <2>2, <2>3, <2>5, <3>1
    <3>2. CASE ~ i < m
      <4>1. s[i] = right[i - (m - 1)]
        BY <2>2, <2>5, <3>2
      <4>2. right[i - (m - 1)] = q[m + (i - (m - 1))]
        BY <2>4, <3>2
      <4>3. m + (i - (m - 1)) = k(i)
        BY <3>2
      <4> QED
        BY <4>1, <4>2, <4>3
    <3> QED
      BY <3>1, <3>2
  <2>8. \A i \in 1..(Len(q) - 1) : k(i) \in (1..Len(q)) \ {m}
    OBVIOUS
  <2>9. \A i, j \in 1..(Len(q) - 1) : k(i) = k(j) => i = j
    OBVIOUS
  <2>10. \A j \in (1..Len(q)) \ {m} : \E i \in 1..(Len(q) - 1) : k(i) = j
    <3> TAKE j \in (1..Len(q)) \ {m}
    <3>1. CASE j < m
      BY <3>1
    <3>2. CASE ~ j < m
      <4> WITNESS j - 1 \in 1..(Len(q) - 1)
      <4> QED
        BY <3>2
    <3> QED
      BY <3>1, <3>2
  <2> HIDE DEF k
  <2>11. DOMAIN s = 1..(Len(q) - 1) /\ DOMAIN q = 1..Len(q)
    BY <2>6
  <2>12. IsInjective(s)
    BY <2>7, <2>8, <2>9, <2>11 DEF IsInjective
  <2>13. \A j \in (1..Len(q)) \ {m} : q[j] # e
    BY <2>1, <2>11 DEF IsInjective
  <2>14. ToSet(s) \subseteq ToSet(q) \ {e}
    BY <2>7, <2>8, <2>11, <2>13 DEF ToSet
  <2>15. ToSet(q) \ {e} \subseteq ToSet(s)
    <3> SUFFICES ASSUME NEW j \in 1..Len(q), q[j] # e PROVE q[j] \in ToSet(s)
      BY <2>11 DEF ToSet
    <3>1. j # m
      BY <2>1
    <3>2. PICK i \in 1..(Len(q) - 1) : k(i) = j
      BY <2>10, <3>1
    <3> QED
      BY <2>7, <2>11, <3>2 DEF ToSet
  <2> QED
    BY <2>12, <2>14, <2>15 DEF s
<1> QED
  BY <1>3, <1>4

(* Taking a run out of any queue brings no other run into it. *)
LEMMA RemoveFirstWithin ==
  ASSUME NEW S, NEW q \in Seq(S), NEW e
  PROVE  ToSet(RemoveFirst(q, e)) \subseteq ToSet(q)
<1> DEFINE T == ToSet(q)
<1>1. q \in Seq(T)
  BY DEF ToSet
<1> HIDE DEF T
<1>2. RemoveFirst(q, e) \in Seq(T)
  BY <1>1, RemoveFirstIsSeq
<1>3. ToSet(RemoveFirst(q, e)) \subseteq T
  BY <1>2 DEF ToSet
<1> QED
  BY <1>3 DEF T

(* Dropping what is not worth offering drops nothing that is. *)
LEMMA FromFirstOfferableKeeps ==
  ASSUME NEW S, NEW q \in Seq(S)
  PROVE  /\ ToSet(FromFirstOfferable(q)) \subseteq ToSet(q)
         /\ \A e \in ToSet(q) : Offerable(e) => e \in ToSet(FromFirstOfferable(q))
         /\ IsInjective(q) => IsInjective(FromFirstOfferable(q))
<1> DEFINE I == {i \in 1..Len(q) : Offerable(q[i])}
           f == FromFirstOfferable(q)
<1>1. SelectInSeq(q, Offerable) = IF I # {} THEN Min(I) ELSE 0
  BY DEF SelectInSeq
<1>2. I \in SUBSET Nat /\ I \subseteq 1..Len(q) /\ DOMAIN q = 1..Len(q)
  OBVIOUS
<1>3. \A i \in 1..Len(q) : Offerable(q[i]) => i \in I
  OBVIOUS
<1>4. CASE I = {}
  <2>1. f = <<>>
    BY <1>1, <1>4 DEF FromFirstOfferable
  <2> HIDE DEF f, I
  <2>2. ToSet(f) = {} /\ IsInjective(f)
    BY <2>1 DEF ToSet, IsInjective
  <2>3. \A e \in ToSet(q) : ~ Offerable(e)
    BY <1>2, <1>3, <1>4 DEF ToSet
  <2> QED
    BY <2>2, <2>3 DEF f
<1>5. CASE I # {}
  <2> HIDE DEF I
  <2>1. PICK m \in I : SelectInSeq(q, Offerable) = m /\ \A i \in I : m <= i
    BY <1>1, <1>2, <1>5, MinIsLeast
  <2>2. m \in 1..Len(q)
    BY <1>2, <2>1
  <2>3. f = SubSeq(q, m, Len(q))
    BY <2>1, <2>2 DEF FromFirstOfferable
  <2> HIDE DEF f
  <2>4. /\ f \in Seq(S) /\ Len(f) = Len(q) - m + 1
        /\ DOMAIN f = 1..(Len(q) - m + 1)
    BY <2>2, <2>3
  <2>5. \A i \in 1..(Len(q) - m + 1) : f[i] = q[m + i - 1] /\ m + i - 1 \in 1..Len(q)
    BY <2>2, <2>3
  <2>6. ToSet(f) \subseteq ToSet(q)
    BY <1>2, <2>4, <2>5 DEF ToSet
  <2>7. \A e \in ToSet(q) : Offerable(e) => e \in ToSet(f)
    <3> SUFFICES ASSUME NEW j \in 1..Len(q), Offerable(q[j]) PROVE q[j] \in ToSet(f)
      BY <1>2 DEF ToSet
    <3>1. m <= j
      BY <1>3, <2>1
    <3>2. j - m + 1 \in 1..(Len(q) - m + 1) /\ m + (j - m + 1) - 1 = j
      BY <2>2, <3>1
    <3>3. f[j - m + 1] = q[j]
      BY <2>5, <3>2
    <3> QED
      BY <2>4, <3>2, <3>3 DEF ToSet
  <2>8. ASSUME IsInjective(q) PROVE IsInjective(f)
    <3> SUFFICES ASSUME NEW i \in 1..(Len(q) - m + 1), NEW j \in 1..(Len(q) - m + 1),
                        f[i] = f[j]
                 PROVE  i = j
      BY <2>4 DEF IsInjective
    <3>1. m + i - 1 = m + j - 1
      BY <1>2, <2>5, <2>8 DEF IsInjective
    <3> QED
      BY <2>2, <3>1
  <2> QED
    BY <2>6, <2>7, <2>8 DEF f
<1> QED
  BY <1>4, <1>5

(* A queue that is empty from its first offerable run holds no offerable run. *)
LEMMA NothingOfferable ==
  ASSUME NEW S, NEW q \in Seq(S)
  PROVE  FromFirstOfferable(q) = <<>> <=> \A e \in ToSet(q) : ~ Offerable(e)
<1>1. FromFirstOfferable(q) \in Seq(S)
  BY FromFirstOfferableIsSeq
<1>2. ASSUME FromFirstOfferable(q) = <<>> PROVE \A e \in ToSet(q) : ~ Offerable(e)
  <2>1. ToSet(FromFirstOfferable(q)) = {}
    BY <1>2 DEF ToSet
  <2> QED
    BY <2>1, FromFirstOfferableKeeps
<1>3. ASSUME FromFirstOfferable(q) # <<>> PROVE \E e \in ToSet(q) : Offerable(e)
  <2>1. Offerable(Head(FromFirstOfferable(q)))
    BY <1>3, HeadIsOfferable
  <2>2. Head(FromFirstOfferable(q)) \in ToSet(FromFirstOfferable(q))
    BY <1>1, <1>3 DEF ToSet
  <2> QED
    BY <2>1, <2>2, FromFirstOfferableKeeps
<1> QED
  BY <1>2, <1>3

(* Joining a queue adds one run to it, and keeps it free of repetitions. *)
LEMMA AppendJoins ==
  ASSUME NEW S, NEW q \in Seq(S), NEW e \in S
  PROVE  /\ ToSet(Append(q, e)) = ToSet(q) \cup {e}
         /\ IsInjective(q) /\ e \notin ToSet(q) => IsInjective(Append(q, e))
<1> DEFINE s == Append(q, e)
<1>1. /\ DOMAIN q = 1..Len(q) /\ DOMAIN s = 1..(Len(q) + 1) /\ Len(q) \in Nat
      /\ s[Len(q) + 1] = e
  OBVIOUS
<1>2. \A i \in 1..Len(q) : s[i] = q[i]
  OBVIOUS
<1> HIDE DEF s
<1>3. ToSet(s) = ToSet(q) \cup {e}
  <2>1. ToSet(s) \subseteq ToSet(q) \cup {e}
    BY <1>1, <1>2 DEF ToSet
  <2>2. ToSet(q) \subseteq ToSet(s) /\ e \in ToSet(s)
    BY <1>1, <1>2 DEF ToSet
  <2> QED
    BY <2>1, <2>2
<1>4. ASSUME IsInjective(q), e \notin ToSet(q) PROVE IsInjective(s)
  <2> SUFFICES ASSUME NEW i \in 1..(Len(q) + 1), NEW j \in 1..(Len(q) + 1), s[i] = s[j]
               PROVE  i = j
    BY <1>1 DEF IsInjective
  <2>1. \A x \in 1..Len(q) : s[x] # e
    BY <1>1, <1>2, <1>4 DEF ToSet
  <2>2. CASE i \in 1..Len(q) /\ j \in 1..Len(q)
    BY <1>1, <1>2, <1>4, <2>2 DEF IsInjective
  <2>3. CASE i \notin 1..Len(q) \/ j \notin 1..Len(q)
    BY <1>1, <2>1, <2>3
  <2> QED
    BY <2>2, <2>3
<1> QED
  BY <1>3, <1>4 DEF s

-----------------------------------------------------------------------------
(* Type correctness *)

LEMMA ProviderOfRun ==
  /\ \A r \in Runs : AgentOf[r] \in Agents /\ Provider(r) \in Providers
  /\ \A o \in Objects : o[1] \in Runs
BY BrokerAssumption DEF Provider, Objects

LEMMA CurrentIsObject ==
  ASSUME TypeOK, NEW r \in Runs, IsTracked(r)
  PROVE  Current(r) \in Objects
BY BrokerAssumption DEF TypeOK, IsTracked, Current, Objects

LEMMA PutType ==
  ASSUME NEW q \in [Objects -> Seq(Commands)], NEW o \in Objects, NEW cmd \in Commands
  PROVE  Put(q, o, cmd) \in [Objects -> Seq(Commands)]
BY DEF Put

LEMMA DequeueType ==
  ASSUME TypeOK, NEW r \in Runs
  PROVE  Dequeue(r) \in [Agents -> Seq(Runs)]
<1>1. pending[AgentOf[r]] \in Seq(Runs)
  BY ProviderOfRun DEF TypeOK
<1>2. RemoveFirst(pending[AgentOf[r]], r) \in Seq(Runs)
  BY <1>1, RemoveFirstIsSeq
<1> QED
  BY <1>2, ProviderOfRun DEF Dequeue, TypeOK

LEMMA NoteAbnormalType ==
  ASSUME TypeOK, NEW p \in Providers, NEW kind \in Kinds, note_abnormal(p, kind)
  PROVE  /\ counts' \in [Providers -> [Kinds -> Nat]]
         /\ live' \subseteq Agents
         /\ overdue' \subseteq Objects
<1>1. counts[p][kind] \in Nat /\ counts[p] \in [Kinds -> Nat]
  BY DEF TypeOK
<1>2. CASE Tolerance = Unlimited
  BY <1>2 DEF note_abnormal, TypeOK
<1>3. CASE Tolerance # Unlimited
  <2>1. Tolerance \in Nat
    BY <1>3, BrokerAssumption
  <2>2. PICK as : live' = live \ as /\ overdue' \subseteq overdue
    BY <1>3 DEF note_abnormal, unregister_provider
  <2>3. \E n \in Nat : counts' = [counts EXCEPT ![p][kind] = n]
    BY <1>1, <1>3, <2>1 DEF note_abnormal
  <2>4. counts' \in [Providers -> [Kinds -> Nat]]
    <3>1. PICK n \in Nat : counts' = [counts EXCEPT ![p][kind] = n]
      BY <2>3
    <3>2. [counts[p] EXCEPT ![kind] = n] \in [Kinds -> Nat]
      BY <1>1
    <3>3. counts \in [Providers -> [Kinds -> Nat]]
      BY DEF TypeOK
    <3> QED
      BY <3>1, <3>2, <3>3
  <2> QED
    BY <2>2, <2>4 DEF TypeOK
<1> QED
  BY <1>2, <1>3

LEMMA ForgetType ==
  ASSUME TypeOK, NEW r \in Runs, forget(r)
  PROVE  /\ tracked' \in [Runs -> 0..MaxRounds]
         /\ inFlight' \in [Providers -> Nat]
         /\ workToDo' \in BOOLEAN
<1>1. inFlight[Provider(r)] \in Nat
  BY ProviderOfRun DEF TypeOK
<1>2. tracked' \in [Runs -> 0..MaxRounds]
  BY BrokerAssumption DEF forget, TypeOK
<1>3. inFlight' \in [Providers -> Nat]
  <2>1. \/ inFlight' = inFlight
        \/ /\ inFlight[Provider(r)] > 0
           /\ inFlight' = [inFlight EXCEPT ![Provider(r)] = @ - 1]
    BY DEF forget
  <2>2. inFlight \in [Providers -> Nat]
    BY DEF TypeOK
  <2>3. inFlight[Provider(r)] > 0 => inFlight[Provider(r)] - 1 \in Nat
    BY <1>1
  <2> QED
    BY <2>1, <2>2, <2>3
<1>4. workToDo' \in BOOLEAN
  BY DEF forget, TypeOK
<1> QED
  BY <1>2, <1>3, <1>4

LEMMA ClaimType ==
  ASSUME TypeOK, NEW o \in Objects, NEW via \in {"offer", "late"}, claim(o, via)
  PROVE  /\ claimed' \subseteq Objects
         /\ lanes' \in [Lanes -> LaneStates]
BY DEF claim, TypeOK, Lanes, LaneStates

LEMMA InitTypeOK == Init => TypeOK
<1> SUFFICES ASSUME Init PROVE TypeOK
  OBVIOUS
<1>1. pending \in [Agents -> Seq(Runs)] /\ inq \in [Objects -> Seq(Commands)]
  BY DEF Init
<1>2. tracked \in [Runs -> 0..MaxRounds] /\ round \in [Runs -> 0..MaxRounds]
  BY BrokerAssumption DEF Init
<1>3. counts \in [Providers -> [Kinds -> Nat]] /\ inFlight \in [Providers -> Nat]
  BY DEF Init
<1>4. lanes \in [Lanes -> LaneStates]
  BY DEF Init, LaneStates
<1> QED
  BY <1>1, <1>2, <1>3, <1>4 DEF Init, TypeOK

(* One lemma per family of actions; each step is one action. *)
LEMMA CallersTypeOK ==
  ASSUME TypeOK, NEW r, NEW p,
         \/ r \in Runs /\ enqueue_run(r)
         \/ p \in Providers /\ register_provider(p)
         \/ p \in Providers /\ Detach(p)
         \/ r \in Runs /\ request_cancel(r)
         \/ r \in Runs /\ FailStalled(r)
         \/ r \in Runs /\ GracePasses(r)
  PROVE  TypeOK'
<1> USE DEF objVars, loopVars
<1>1. CASE r \in Runs /\ enqueue_run(r)
  <2>1. pending' \in [Agents -> Seq(Runs)]
    BY <1>1, ProviderOfRun DEF enqueue_run, TypeOK
  <2>2. tracked' \in [Runs -> 0..MaxRounds] /\ round' \in [Runs -> 0..MaxRounds]
    BY <1>1, BrokerAssumption DEF enqueue_run, TypeOK
  <2> QED
    BY <1>1, <2>1, <2>2 DEF enqueue_run, TypeOK
<1>2. CASE p \in Providers /\ register_provider(p)
  BY <1>2 DEF register_provider, AgentsOf, TypeOK
<1>3. CASE p \in Providers /\ Detach(p)
  BY <1>3 DEF Detach, unregister_provider, AgentsOf, TypeOK
<1>4. CASE r \in Runs /\ request_cancel(r)
  <2>1. Current(r) \in Objects
    BY <1>4, CurrentIsObject DEF request_cancel
  <2>2. Put(inq, Current(r), "RequestCancel") \in [Objects -> Seq(Commands)]
    BY <2>1, PutType DEF TypeOK, Commands
  <2>3. [obj |-> Current(r), cmd |-> "RequestCancel", step |-> "spawned"] \in SoloTasks
    BY <2>1 DEF SoloTasks
  <2> QED
    BY <1>4, <2>1, <2>2, <2>3 DEF request_cancel, TypeOK
<1>5. CASE r \in Runs /\ FailStalled(r)
  <2>1. Current(r) \in Objects /\ Provider(r) \in Providers
    BY <1>5, CurrentIsObject, ProviderOfRun DEF FailStalled
  <2>2. Put(inq, Current(r), "Fail") \in [Objects -> Seq(Commands)]
    BY <2>1, PutType DEF TypeOK, Commands
  <2>3. /\ counts' \in [Providers -> [Kinds -> Nat]]
        /\ live' \subseteq Agents
        /\ overdue' \subseteq Objects
    BY <1>5, <2>1, NoteAbnormalType DEF FailStalled, push_fail, Kinds
  <2> QED
    BY <1>5, <2>1, <2>2, <2>3 DEF FailStalled, push_fail, TypeOK
<1>6. CASE r \in Runs /\ GracePasses(r)
  BY <1>6, CurrentIsObject DEF GracePasses, TypeOK
<1> QED
  BY <1>1, <1>2, <1>3, <1>4, <1>5, <1>6

LEMMA LoopTypeOK ==
  ASSUME TypeOK, NEW r, NEW a,
         \/ r \in Runs /\ expire_queued(r)
         \/ StartWalk
         \/ EndWalk
         \/ Wake
         \/ a \in Agents /\ LeaveAgent(a)
         \/ a \in Agents /\ OfferHead(a)
  PROVE  TypeOK'
<1> USE DEF objVars, loopVars
<1>1. CASE r \in Runs /\ expire_queued(r)
  <2>1. Current(r) \in Objects
    BY <1>1, CurrentIsObject DEF expire_queued, Expirable
  <2>2. Dequeue(r) \in [Agents -> Seq(Runs)]
    BY <1>1, DequeueType
  <2>3. [obj |-> Current(r), cmd |-> "Fail", step |-> "spawned"] \in SoloTasks
    BY <2>1 DEF SoloTasks
  <2> QED
    BY <1>1, <2>2, <2>3 DEF expire_queued, TypeOK
<1>2. CASE StartWalk
  BY <1>2, ProviderOfRun DEF StartWalk, TypeOK
<1>3. CASE EndWalk
  BY <1>3 DEF EndWalk, TypeOK
<1>4. CASE Wake
  BY <1>4 DEF Wake, TypeOK
<1>5. CASE a \in Agents /\ LeaveAgent(a)
  <2>1. FromFirstOfferable(pending[a]) \in Seq(Runs)
    BY <1>5, FromFirstOfferableIsSeq DEF TypeOK
  <2> QED
    BY <1>5, <2>1 DEF LeaveAgent, TypeOK
<1>6. CASE a \in Agents /\ OfferHead(a)
  <2> DEFINE q == FromFirstOfferable(pending[a])
  <2>1. q \in Seq(Runs)
    BY <1>6, FromFirstOfferableIsSeq DEF TypeOK
  <2>2. q # <<>> /\ IsTracked(Head(q))
    BY <1>6, HeadIsOfferable DEF OfferHead, TypeOK
  <2>3. Current(Head(q)) \in Objects
    BY <2>1, <2>2, CurrentIsObject
  <2> HIDE DEF q
  <2>4. [obj |-> Current(Head(q)), answer |-> "awaited"] \in Offers
    BY <2>3 DEF Offers
  <2>5. /\ pending' = [pending EXCEPT ![a] = q]
        /\ offer' = [obj |-> Current(Head(q)), answer |-> "awaited"]
        /\ at' = a
    BY <1>6 DEF OfferHead, q
  <2> QED
    BY <1>6, <2>1, <2>4, <2>5 DEF OfferHead, TypeOK
<1> QED
  BY <1>1, <1>2, <1>3, <1>4, <1>5, <1>6

LEMMA OfferTypeOK ==
  ASSUME TypeOK,
         \/ ProviderAccepts
         \/ OfferAccepted
         \/ OfferDeclined
         \/ OfferRefused
         \/ OfferUnanswered
  PROVE  TypeOK'
<1> USE DEF objVars
<1> DEFINE o == offer.obj
           p == Provider(o[1])
<1>1. offer # None => /\ offer \in Offers
                      /\ o \in Objects /\ o[1] \in Runs /\ p \in Providers
  BY ProviderOfRun DEF TypeOK, Offers
<1>2. CASE ProviderAccepts
  BY <1>1, <1>2 DEF ProviderAccepts, TypeOK, Offers
<1>3. CASE OfferAccepted
  <2>1. Put(inq, o, "Claim") \in [Objects -> Seq(Commands)]
    BY <1>1, <1>3, PutType DEF OfferAccepted, TypeOK, Commands
  <2>2. Dequeue(o[1]) \in [Agents -> Seq(Runs)]
    BY <1>1, <1>3, DequeueType DEF OfferAccepted
  <2>3. claimed' \subseteq Objects /\ lanes' \in [Lanes -> LaneStates]
    BY <1>1, <1>3, ClaimType DEF OfferAccepted
  <2>4. inFlight' \in [Providers -> Nat]
    BY <1>1, <1>3 DEF OfferAccepted, TypeOK
  <2> QED
    BY <1>3, <2>1, <2>2, <2>3, <2>4 DEF OfferAccepted, TypeOK
<1>4. CASE OfferDeclined
  <2>1. /\ counts' \in [Providers -> [Kinds -> Nat]]
        /\ live' \subseteq Agents
        /\ overdue' \subseteq Objects
    BY <1>1, <1>4, NoteAbnormalType DEF OfferDeclined, Kinds, TypeOK
  <2>2. inFlight' \in [Providers -> Nat]
    <3>1. \/ inFlight' = inFlight
          \/ Limit[p] # Unlimited /\ inFlight' = [inFlight EXCEPT ![p] = Limit[p]]
      BY <1>4 DEF OfferDeclined
    <3>2. Limit[p] # Unlimited => Limit[p] \in Nat
      BY <1>1, <1>4, BrokerAssumption DEF OfferDeclined
    <3> QED
      BY <3>1, <3>2 DEF TypeOK
  <2> QED
    BY <1>4, <2>1, <2>2 DEF OfferDeclined, TypeOK
<1>5. CASE OfferRefused
  <2>1. Dequeue(o[1]) \in [Agents -> Seq(Runs)]
    BY <1>1, <1>5, DequeueType DEF OfferRefused
  <2>2. [obj |-> o, cmd |-> "Fail", step |-> "spawned"] \in SoloTasks
    BY <1>1, <1>5 DEF OfferRefused, SoloTasks
  <2> QED
    BY <1>5, <2>1, <2>2 DEF OfferRefused, TypeOK
<1>6. CASE OfferUnanswered
  <2>1. /\ counts' \in [Providers -> [Kinds -> Nat]]
        /\ live' \subseteq Agents
        /\ overdue' \subseteq Objects
    BY <1>1, <1>6, NoteAbnormalType DEF OfferUnanswered, Kinds
  <2> QED
    BY <1>6, <2>1 DEF OfferUnanswered, TypeOK
<1> QED
  BY <1>2, <1>3, <1>4, <1>5, <1>6

LEMMA ProviderTypeOK ==
  ASSUME TypeOK, NEW o \in Objects, NEW e,
         \/ e \in Reports /\ report_event(o, e)
         \/ e \in Reports /\ accept_late_ack(o, e)
         \/ finish_run(o)
         \/ Abandon(o)
  PROVE  TypeOK'
<1> USE DEF objVars, loopVars
<1> DEFINE t == Current(o[1])
           p == Provider(o[1])
<1>1. o[1] \in Runs /\ p \in Providers /\ (IsTracked(o[1]) => t \in Objects)
  BY ProviderOfRun, CurrentIsObject
<1>2. CASE e \in Reports /\ report_event(o, e)
  <2>1. Put(inq, t, e) \in [Objects -> Seq(Commands)]
    BY <1>1, <1>2, PutType DEF report_event, TypeOK, Commands
  <2> QED
    BY <1>2, <2>1 DEF report_event, TypeOK
<1>3. CASE e \in Reports /\ accept_late_ack(o, e)
  <2>1. t \in Objects
    BY <1>1, <1>3 DEF accept_late_ack
  <2>2. Dequeue(o[1]) \in [Agents -> Seq(Runs)]
    BY <1>1, DequeueType
  <2>3. /\ counts' \in [Providers -> [Kinds -> Nat]]
        /\ live' \subseteq Agents
        /\ overdue' \subseteq Objects
    BY <1>1, <1>3, NoteAbnormalType DEF accept_late_ack, Kinds
  <2>4. claimed' \subseteq Objects /\ lanes' \in [Lanes -> LaneStates]
    BY <2>1, <1>3, ClaimType DEF accept_late_ack
  <2>5. inFlight' \in [Providers -> Nat]
    BY <1>1, <1>3 DEF accept_late_ack, TypeOK
  <2>6. inq' \in [Objects -> Seq(Commands)]
    <3>1. inq[t] \in Seq(Commands) /\ <<"Claim", e>> \in Seq(Commands)
      BY <1>3, <2>1 DEF TypeOK, Commands
    <3>2. inq[t] \o <<"Claim", e>> \in Seq(Commands)
      BY <3>1
    <3> QED
      BY <1>3, <3>2 DEF accept_late_ack, TypeOK
  <2> QED
    BY <1>3, <2>2, <2>3, <2>4, <2>5, <2>6 DEF accept_late_ack, TypeOK
<1>4. CASE finish_run(o)
  <2>1. inq' \in [Objects -> Seq(Commands)]
    BY <1>1, <1>4, PutType DEF finish_run, TypeOK, Commands
  <2> QED
    BY <1>4, <2>1 DEF finish_run, TypeOK
<1>5. CASE Abandon(o)
  BY <1>5 DEF Abandon, TypeOK
<1> QED
  BY <1>2, <1>3, <1>4, <1>5

LEMMA TasksTypeOK ==
  ASSUME TypeOK, NEW l, NEW s,
         \/ l \in Lanes /\ PipelineTakes(l)
         \/ l \in Lanes /\ PipelineGoesOn(l)
         \/ l \in Lanes /\ PipelineEnds(l)
         \/ s \in SoloTasks /\ OneShotStarts(s)
         \/ s \in SoloTasks /\ OneShotEnds(s)
  PROVE  TypeOK'
<1> USE DEF loopVars
<1>1. /\ l \in Lanes => l[1] \in Objects /\ l[1][1] \in Runs
      /\ s \in SoloTasks => s.obj \in Objects /\ s.obj[1] \in Runs
  BY ProviderOfRun DEF Lanes, SoloTasks
<1>2. CASE l \in Lanes /\ PipelineTakes(l)
  <2>1. inq[l[1]] \in Seq(Commands) /\ inq[l[1]] # <<>>
    BY <1>1, <1>2 DEF PipelineTakes, TypeOK
  <2>2. Head(inq[l[1]]) \in Commands /\ Tail(inq[l[1]]) \in Seq(Commands)
    BY <2>1
  <2> QED
    BY <1>1, <1>2, <2>2 DEF PipelineTakes, TypeOK, LaneStates
<1>3. CASE l \in Lanes /\ PipelineGoesOn(l)
  BY <1>3 DEF PipelineGoesOn, TypeOK, LaneStates
<1>4. CASE l \in Lanes /\ PipelineEnds(l)
  <2>1. lanes' \in [Lanes -> LaneStates]
    BY <1>4 DEF PipelineEnds, TypeOK, LaneStates
  <2>2. /\ tracked' \in [Runs -> 0..MaxRounds]
        /\ inFlight' \in [Providers -> Nat]
        /\ workToDo' \in BOOLEAN
    BY <1>1, <1>4, ForgetType DEF PipelineEnds
  <2> QED
    BY <1>1, <1>4, <2>1, <2>2 DEF PipelineEnds, TypeOK
<1>5. CASE s \in SoloTasks /\ OneShotStarts(s)
  <2>1. [s EXCEPT !.step = "handling"] \in SoloTasks
    BY <1>5 DEF SoloTasks
  <2> QED
    BY <1>5, <2>1 DEF OneShotStarts, TypeOK
<1>6. CASE s \in SoloTasks /\ OneShotEnds(s)
  <2>1. /\ tracked' \in [Runs -> 0..MaxRounds]
        /\ inFlight' \in [Providers -> Nat]
        /\ workToDo' \in BOOLEAN
    BY <1>1, <1>6, ForgetType DEF OneShotEnds
  <2> QED
    BY <1>1, <1>6, <2>1 DEF OneShotEnds, TypeOK
<1> QED
  BY <1>2, <1>3, <1>4, <1>5, <1>6

LEMMA NextTypeOK == TypeOK /\ [Next]_vars => TypeOK'
<1> SUFFICES ASSUME TypeOK, [Next]_vars PROVE TypeOK'
  OBVIOUS
<1>1. ASSUME NEW r \in Runs, Submit(r) \/ Resume(r) PROVE TypeOK'
  <2>1. enqueue_run(r)
    BY <1>1 DEF Submit, Resume
  <2> QED
    BY <2>1, CallersTypeOK
<1>2. ASSUME NEW p \in Providers, register_provider(p) \/ Detach(p) PROVE TypeOK'
  BY <1>2, CallersTypeOK
<1>3. ASSUME NEW r \in Runs, request_cancel(r) \/ FailStalled(r) \/ GracePasses(r)
      PROVE  TypeOK'
  BY <1>3, CallersTypeOK
<1>4. CASE LoopStep
  BY <1>4, LoopTypeOK DEF LoopStep
<1>5. CASE ProviderAccepts \/ OfferStep
  BY <1>5, OfferTypeOK DEF OfferStep
<1>6. ASSUME NEW o \in Objects, NEW e \in Reports,
             report_event(o, e) \/ accept_late_ack(o, e)
      PROVE  TypeOK'
  BY <1>6, ProviderTypeOK
<1>7. ASSUME NEW o \in Objects, finish_run(o) \/ Abandon(o) PROVE TypeOK'
  BY <1>7, ProviderTypeOK
<1>8. ASSUME NEW l \in Lanes, PipelineStep(l) PROVE TypeOK'
  BY <1>8, TasksTypeOK DEF PipelineStep
<1>9. ASSUME NEW s \in SoloTasks, OneShotStep(s) PROVE TypeOK'
  BY <1>9, TasksTypeOK DEF OneShotStep
<1>10. CASE UNCHANGED vars
  BY <1>10 DEF vars, objVars, loopVars, TypeOK
<1> QED
  BY <1>1, <1>2, <1>3, <1>4, <1>5, <1>6, <1>7, <1>8, <1>9, <1>10 DEF Next

(* Every state of the broker keeps its types: no queue gets a command from
   outside, no capacity goes below zero (forget), no object outruns its bound. *)
THEOREM TypeCorrect == Spec => []TypeOK
<1>1. Init => TypeOK
  BY InitTypeOK
<1>2. TypeOK /\ [Next]_vars => TypeOK'
  BY NextTypeOK
<1> QED
  BY <1>1, <1>2, PTL DEF Spec

-----------------------------------------------------------------------------
(* The allowance *)

(* The event that spends what a provider is allowed takes every agent of its
   out of service in the same step: _note_abnormal counts and unregisters
   between two awaits, whoever called it. *)
THEOREM AllowanceSpentWithdraws == Spec => AllowanceWithdraws
<1> DEFINE Spends(p, k) == counts[p][k] # counts'[p][k] /\ counts'[p][k] = Tolerance
           Withdraws == \A p \in Providers, k \in Kinds :
                          Spends(p, k) => AgentsOf(p) \cap live' = {}
<1>1. ASSUME TypeOK, [Next]_vars PROVE Withdraws
  <2>1. ASSUME UNCHANGED counts PROVE Withdraws
    BY <2>1
  <2>2. ASSUME NEW p \in Providers, NEW kind \in Kinds, note_abnormal(p, kind)
        PROVE  Withdraws
    <3>1. CASE Tolerance = Unlimited
      BY <2>1, <2>2, <3>1 DEF note_abnormal
    <3>2. CASE Tolerance # Unlimited
      <4> DEFINE n == counts[p][kind] + 1
      <4>1. /\ counts' = [counts EXCEPT ![p][kind] = IF n < Tolerance THEN n ELSE Tolerance]
            /\ live' = live \ (IF n < Tolerance THEN {} ELSE AgentsOf(p) \cap live)
        BY <2>2, <3>2 DEF note_abnormal, unregister_provider
      <4>2. counts \in [Providers -> [Kinds -> Nat]] /\ n \in Nat /\ Tolerance \in Nat
        <5>1. counts \in [Providers -> [Kinds -> Nat]]
          BY <1>1 DEF TypeOK
        <5> QED
          BY <3>2, <5>1, BrokerAssumption
      <4> HIDE DEF n
      <4>3. ASSUME NEW q \in Providers, NEW k \in Kinds, Spends(q, k)
            PROVE  q = p /\ ~ n < Tolerance
        <5>1. counts[q] \in [Kinds -> Nat]
          BY <4>2
        <5>2. q = p /\ k = kind
          BY <4>1, <4>2, <4>3, <5>1
        <5>3. counts'[p][kind] = IF n < Tolerance THEN n ELSE Tolerance
          BY <4>1, <4>2, <5>1, <5>2
        <5> QED
          BY <4>2, <4>3, <5>2, <5>3
      <4>4. ~ n < Tolerance => AgentsOf(p) \cap live' = {}
        BY <4>1
      <4> QED
        BY <4>3, <4>4
    <3> QED
      BY <3>1, <3>2
  <2>3. ASSUME NEW r \in Runs, FailStalled(r) PROVE Withdraws
    BY <2>1, <2>2, <2>3, ProviderOfRun DEF FailStalled, push_fail, Kinds
  <2>4. CASE OfferDeclined \/ OfferUnanswered
    <3>1. offer \in Offers
      BY <1>1, <2>4 DEF OfferDeclined, OfferUnanswered, TypeOK
    <3>2. Provider(offer.obj[1]) \in Providers
      BY <3>1, ProviderOfRun DEF Offers
    <3> QED
      BY <2>1, <2>2, <2>4, <3>2 DEF OfferDeclined, OfferUnanswered, Kinds
  <2>5. ASSUME NEW o \in Objects, NEW e \in Reports, accept_late_ack(o, e) PROVE Withdraws
    BY <2>2, <2>5, ProviderOfRun DEF accept_late_ack, Kinds
  <2>6. ASSUME NEW r \in Runs,
               \/ Submit(r) \/ Resume(r) \/ request_cancel(r) \/ GracePasses(r)
               \/ expire_queued(r)
        PROVE  UNCHANGED counts
    BY <2>6 DEF Submit, Resume, enqueue_run, request_cancel, GracePasses, expire_queued
  <2>7. ASSUME NEW p \in Providers, register_provider(p) \/ Detach(p)
        PROVE  UNCHANGED counts
    BY <2>7 DEF register_provider, Detach
  <2>8. ASSUME NEW a \in Agents, LeaveAgent(a) \/ OfferHead(a) PROVE UNCHANGED counts
    BY <2>8 DEF LeaveAgent, OfferHead
  <2>9. ASSUME NEW o \in Objects, NEW e, report_event(o, e) \/ finish_run(o) \/ Abandon(o)
        PROVE  UNCHANGED counts
    BY <2>9 DEF report_event, finish_run, Abandon
  <2>10. ASSUME NEW l \in Lanes, PipelineStep(l) PROVE UNCHANGED counts
    BY <2>10 DEF PipelineStep, PipelineTakes, PipelineGoesOn, PipelineEnds
  <2>11. ASSUME NEW s \in SoloTasks, OneShotStep(s) PROVE UNCHANGED counts
    BY <2>11 DEF OneShotStep, OneShotStarts, OneShotEnds
  <2>12. ASSUME \/ StartWalk \/ EndWalk \/ Wake \/ ProviderAccepts
                \/ OfferAccepted \/ OfferRefused \/ UNCHANGED vars
         PROVE  UNCHANGED counts
    BY <2>12 DEF StartWalk, EndWalk, Wake, ProviderAccepts, OfferAccepted, OfferRefused,
                 vars
  <2> QED
    BY <1>1, <2>1, <2>3, <2>4, <2>5, <2>6, <2>7, <2>8, <2>9, <2>10, <2>11, <2>12
       DEF Next, LoopStep, OfferStep
<1>2. TypeOK /\ [Next]_vars => [Withdraws]_vars
  BY <1>1
<1> QED
  BY <1>2, TypeCorrect, PTL DEF Spec, AllowanceWithdraws

-----------------------------------------------------------------------------
(* The queues *)

(* What a step may do to the queues: a door appends a run, a run is taken out,
   or the runs in front of the first one worth offering are dropped. *)
QueueMoves ==
  \/ \E r \in Runs : enqueue_run(r)
  \/ UNCHANGED <<pending, round>>
  \/ \E r \in Runs : pending' = Dequeue(r) /\ UNCHANGED round
  \/ \E a \in Agents :
       /\ pending' = [pending EXCEPT ![a] = FromFirstOfferable(pending[a])]
       /\ UNCHANGED round

(* The queue of an agent holds runs that address it and were enqueued. *)
QueuesAreOwn ==
  \A a \in Agents : pending[a] \in Seq({r \in Runs : AgentOf[r] = a /\ round[r] > 0})

LEMMA NextQueueMoves == TypeOK /\ [Next]_vars => QueueMoves
<1> SUFFICES ASSUME TypeOK, [Next]_vars PROVE QueueMoves
  OBVIOUS
<1> USE DEF objVars, loopVars
<1>1. ASSUME NEW r \in Runs, Submit(r) \/ Resume(r) PROVE enqueue_run(r)
  BY <1>1 DEF Submit, Resume
<1>2. ASSUME NEW a \in Agents, LeaveAgent(a) \/ OfferHead(a) PROVE QueueMoves
  BY <1>2 DEF LeaveAgent, OfferHead, QueueMoves
<1>3. CASE OfferAccepted \/ OfferRefused
  <2>1. offer \in Offers
    BY <1>3 DEF OfferAccepted, OfferRefused, TypeOK
  <2>2. offer.obj[1] \in Runs
    BY <2>1, ProviderOfRun DEF Offers
  <2> QED
    BY <1>3, <2>2 DEF OfferAccepted, OfferRefused, QueueMoves
<1>4. ASSUME NEW r \in Runs, expire_queued(r) PROVE QueueMoves
  BY <1>4 DEF expire_queued, QueueMoves
<1>5. ASSUME NEW o \in Objects, NEW e \in Reports, accept_late_ack(o, e) PROVE QueueMoves
  BY <1>5, ProviderOfRun DEF accept_late_ack, QueueMoves
<1>6. ASSUME NEW p \in Providers, register_provider(p) \/ Detach(p)
      PROVE  UNCHANGED <<pending, round>>
  BY <1>6 DEF register_provider, Detach
<1>7. ASSUME NEW r \in Runs, request_cancel(r) \/ FailStalled(r) \/ GracePasses(r)
      PROVE  UNCHANGED <<pending, round>>
  BY <1>7 DEF request_cancel, FailStalled, push_fail, GracePasses
<1>8. ASSUME NEW o \in Objects, NEW e, report_event(o, e) \/ finish_run(o) \/ Abandon(o)
      PROVE  UNCHANGED <<pending, round>>
  BY <1>8 DEF report_event, finish_run, Abandon
<1>9. ASSUME NEW l \in Lanes, PipelineStep(l) PROVE UNCHANGED <<pending, round>>
  BY <1>9 DEF PipelineStep, PipelineTakes, PipelineGoesOn, PipelineEnds
<1>10. ASSUME NEW s \in SoloTasks, OneShotStep(s) PROVE UNCHANGED <<pending, round>>
  BY <1>10 DEF OneShotStep, OneShotStarts, OneShotEnds
<1>11. ASSUME \/ StartWalk \/ EndWalk \/ Wake
              \/ ProviderAccepts \/ OfferDeclined \/ OfferUnanswered
              \/ UNCHANGED vars
       PROVE  UNCHANGED <<pending, round>>
  BY <1>11 DEF StartWalk, EndWalk, Wake, ProviderAccepts, OfferDeclined, OfferUnanswered,
               vars
<1> QED
  BY <1>1, <1>2, <1>3, <1>4, <1>5, <1>6, <1>7, <1>8, <1>9, <1>10, <1>11
     DEF Next, LoopStep, OfferStep, QueueMoves

LEMMA QueueMovesKeepOwn == TypeOK /\ QueuesAreOwn /\ QueueMoves => QueuesAreOwn'
<1> SUFFICES ASSUME TypeOK, QueuesAreOwn, QueueMoves PROVE QueuesAreOwn'
  OBVIOUS
<1> DEFINE Own(a) == {r \in Runs : AgentOf[r] = a /\ round[r] > 0}
<1>0. pending \in [Agents -> Seq(Runs)] /\ \A a \in Agents : pending[a] \in Seq(Own(a))
  BY DEF TypeOK, QueuesAreOwn
<1>1. ASSUME UNCHANGED round, \A a \in Agents : pending'[a] \in Seq(Own(a))
      PROVE  QueuesAreOwn'
  BY <1>1 DEF QueuesAreOwn
<1>2. ASSUME NEW r \in Runs, enqueue_run(r) PROVE QueuesAreOwn'
  <2> DEFINE New(a) == {x \in Runs : AgentOf[x] = a /\ round'[x] > 0}
  <2>1. \A x \in Runs : round[x] > 0 \/ x = r => round'[x] > 0
    BY <1>2, BrokerAssumption DEF enqueue_run, TypeOK
  <2>2. \A a \in Agents : Own(a) \subseteq New(a)
    BY <2>1
  <2>3. AgentOf[r] \in Agents /\ r \in New(AgentOf[r])
    BY <2>1, ProviderOfRun
  <2>4. pending' = [pending EXCEPT ![AgentOf[r]] = Append(pending[AgentOf[r]], r)]
    BY <1>2 DEF enqueue_run
  <2> HIDE DEF Own, New
  <2>5. \A a \in Agents : pending[a] \in Seq(New(a))
    BY <1>0, <2>2, SeqMonotonic
  <2>6. Append(pending[AgentOf[r]], r) \in Seq(New(AgentOf[r]))
    BY <2>3, <2>5
  <2>7. \A a \in Agents : pending'[a] \in Seq(New(a))
    BY <1>0, <2>4, <2>5, <2>6
  <2> QED
    BY <2>7 DEF QueuesAreOwn, New
<1>3. ASSUME NEW a \in Agents, NEW q \in Seq(Own(a)),
             pending' = [pending EXCEPT ![a] = q], UNCHANGED round
      PROVE  QueuesAreOwn'
  <2> HIDE DEF Own
  <2>1. \A b \in Agents : pending'[b] \in Seq(Own(b))
    BY <1>0, <1>3
  <2> QED
    BY <1>1, <1>3, <2>1
<1>4. ASSUME NEW r \in Runs, pending' = Dequeue(r), UNCHANGED round PROVE QueuesAreOwn'
  <2>1. AgentOf[r] \in Agents
    BY ProviderOfRun
  <2> HIDE DEF Own
  <2>2. RemoveFirst(pending[AgentOf[r]], r) \in Seq(Own(AgentOf[r]))
    BY <1>0, <2>1, RemoveFirstIsSeq
  <2> QED
    BY <1>3, <1>4, <2>1, <2>2 DEF Dequeue
<1>5. ASSUME NEW a \in Agents, UNCHANGED round,
             pending' = [pending EXCEPT ![a] = FromFirstOfferable(pending[a])]
      PROVE  QueuesAreOwn'
  <2> HIDE DEF Own
  <2>1. FromFirstOfferable(pending[a]) \in Seq(Own(a))
    BY <1>0, FromFirstOfferableIsSeq
  <2> QED
    BY <1>3, <1>5, <2>1
<1> QED
  BY <1>0, <1>1, <1>2, <1>4, <1>5 DEF QueueMoves

-----------------------------------------------------------------------------
(* The sleep of the dispatch loop *)

(* An offer is out only in the middle of a walk, for a run of the agent that
   is being visited. *)
OfferAtHead ==
  offer # None => loop = "walk" /\ at \in toVisit /\ AgentOf[offer.obj[1]] = at

(* Nothing could be placed with the agent now. *)
Quiet(a) ==
  a \in live /\ has_room(Owner[a]) => \A r \in ToSet(pending[a]) : ~ Offerable(r)

(* What a walk leaves behind it, and the sleep after it, has nothing to place
   unless the event was set in the meantime. *)
NothingMissed ==
  /\ loop = "walk" => \A a \in Agents \ toVisit : workToDo \/ Quiet(a)
  /\ loop = "asleep" => \A a \in Agents : workToDo \/ Quiet(a)

(* A step that brings nothing to place. *)
BringsNoWork ==
  /\ \A a \in Agents : ToSet(pending'[a]) \subseteq ToSet(pending[a])
  /\ live' \subseteq live
  /\ \A p \in Providers : inFlight[p] <= inFlight'[p]
  /\ \A r \in Runs : Offerable(r)' => Offerable(r)

LEMMA QuietLasts ==
  ASSUME TypeOK, TypeOK', BringsNoWork, NEW a \in Agents, Quiet(a)
  PROVE  Quiet(a)'
<1>1. Owner[a] \in Providers
  BY BrokerAssumption
<1>2. has_room(Owner[a])' => has_room(Owner[a])
  <2>1. inFlight[Owner[a]] \in Nat /\ inFlight'[Owner[a]] \in Nat
    BY <1>1 DEF TypeOK
  <2>2. Limit[Owner[a]] # Unlimited => Limit[Owner[a]] \in Nat
    BY <1>1, BrokerAssumption
  <2>3. inFlight[Owner[a]] <= inFlight'[Owner[a]]
    BY <1>1 DEF BringsNoWork
  <2> QED
    BY <2>1, <2>2, <2>3 DEF has_room
<1>3. ToSet(pending'[a]) \subseteq Runs
  BY DEF TypeOK, ToSet
<1>4. ToSet(pending'[a]) \subseteq ToSet(pending[a]) /\ live' \subseteq live
  BY DEF BringsNoWork
<1>5. \A r \in ToSet(pending'[a]) : Offerable(r)' => Offerable(r)
  BY <1>3 DEF BringsNoWork
<1> QED
  BY <1>2, <1>4, <1>5 DEF Quiet

(* forget sets the event whenever it frees a place. *)
LEMMA ForgetTells ==
  ASSUME TypeOK, NEW r \in Runs, forget(r), UNCHANGED <<pending, live, cancelled>>
  PROVE  workToDo' \/ BringsNoWork
<1>1. CASE UNCHANGED inFlight
  <2>1. \A p \in Providers : inFlight[p] <= inFlight'[p]
    BY <1>1 DEF TypeOK
  <2>2. \A x \in Runs : Offerable(x)' => Offerable(x)
    BY DEF forget, TypeOK, Offerable, IsTracked, Current
  <2> QED
    BY <2>1, <2>2 DEF BringsNoWork
<1>2. CASE ~ UNCHANGED inFlight
  BY <1>2 DEF forget
<1> QED
  BY <1>1, <1>2

(* Whatever brings work sets the event: an enqueue, a registration, a place
   that comes back. *)
LEMMA WorkIsTold == TypeOK /\ [Next]_vars => workToDo' \/ BringsNoWork
<1> SUFFICES ASSUME TypeOK, [Next]_vars PROVE workToDo' \/ BringsNoWork
  OBVIOUS
<1> USE DEF objVars, loopVars
<1>0. \A p \in Providers : inFlight[p] \in Nat
  BY DEF TypeOK
<1>1. ASSUME UNCHANGED tracked, cancelled \subseteq cancelled',
             pending' = pending, live' \subseteq live,
             \A p \in Providers : inFlight[p] <= inFlight'[p]
      PROVE  BringsNoWork
  BY <1>1 DEF BringsNoWork, Offerable, IsTracked, Current
<1>2. ASSUME UNCHANGED <<tracked, cancelled, pending, inFlight>>, live' \subseteq live
      PROVE  BringsNoWork
  BY <1>0, <1>1, <1>2
<1>3. ASSUME NEW r \in Runs, UNCHANGED <<tracked, cancelled>>, pending' = Dequeue(r),
             live' \subseteq live, \A p \in Providers : inFlight[p] <= inFlight'[p]
      PROVE  BringsNoWork
  <2>1. ToSet(RemoveFirst(pending[AgentOf[r]], r)) \subseteq ToSet(pending[AgentOf[r]])
    BY RemoveFirstWithin, ProviderOfRun DEF TypeOK
  <2>2. \A a \in Agents : ToSet(pending'[a]) \subseteq ToSet(pending[a])
    BY <1>3, <2>1 DEF Dequeue, TypeOK
  <2> QED
    BY <1>3, <2>2 DEF BringsNoWork, Offerable, IsTracked, Current
<1>4. ASSUME NEW n \in Providers,
             inFlight' = inFlight \/ inFlight' = [inFlight EXCEPT ![n] = @ + 1]
      PROVE  \A p \in Providers : inFlight[p] <= inFlight'[p]
  <2>1. inFlight \in [Providers -> Nat]
    BY DEF TypeOK
  <2>2. \A p \in Providers : inFlight'[p] \in {inFlight[p], inFlight[p] + 1}
    BY <1>4, <2>1
  <2> QED
    BY <1>0, <2>2
<1>5. ASSUME NEW p, NEW k, note_abnormal(p, k) PROVE live' \subseteq live
  BY <1>5 DEF note_abnormal, unregister_provider
<1>6. ASSUME NEW r \in Runs, Submit(r) \/ Resume(r) PROVE workToDo'
  BY <1>6 DEF Submit, Resume, enqueue_run
<1>7. ASSUME NEW p \in Providers, register_provider(p) PROVE workToDo'
  BY <1>7 DEF register_provider
<1>8. ASSUME NEW p \in Providers, Detach(p) PROVE BringsNoWork
  BY <1>2, <1>8 DEF Detach, unregister_provider
<1>9. ASSUME NEW r \in Runs, request_cancel(r) PROVE BringsNoWork
  BY <1>0, <1>1, <1>9 DEF request_cancel
<1>10. ASSUME NEW r \in Runs, FailStalled(r) PROVE BringsNoWork
  BY <1>2, <1>5, <1>10 DEF FailStalled, push_fail
<1>11. ASSUME NEW r \in Runs, GracePasses(r) PROVE BringsNoWork
  BY <1>2, <1>11 DEF GracePasses
<1>12. ASSUME NEW r \in Runs, expire_queued(r) PROVE BringsNoWork
  BY <1>0, <1>3, <1>12 DEF expire_queued
<1>13. ASSUME StartWalk \/ EndWalk \/ Wake \/ ProviderAccepts \/ UNCHANGED vars
       PROVE  BringsNoWork
  BY <1>2, <1>13 DEF StartWalk, EndWalk, Wake, ProviderAccepts, vars
<1>14. ASSUME NEW a \in Agents, LeaveAgent(a) \/ OfferHead(a) PROVE BringsNoWork
  <2>1. ToSet(FromFirstOfferable(pending[a])) \subseteq ToSet(pending[a])
    BY FromFirstOfferableKeeps DEF TypeOK
  <2>2. pending' \in {pending, [pending EXCEPT ![a] = FromFirstOfferable(pending[a])]}
    BY <1>14 DEF LeaveAgent, OfferHead
  <2>3. \A b \in Agents : ToSet(pending'[b]) \subseteq ToSet(pending[b])
    BY <2>1, <2>2 DEF TypeOK
  <2>4. UNCHANGED <<tracked, cancelled, live, inFlight>>
    BY <1>14 DEF LeaveAgent, OfferHead
  <2> QED
    BY <1>0, <2>3, <2>4 DEF BringsNoWork, Offerable, IsTracked, Current
<1>15. CASE OfferStep
  <2>1. offer \in Offers
    BY <1>15 DEF OfferStep, OfferAccepted, OfferDeclined, OfferRefused, OfferUnanswered,
                 TypeOK
  <2>2. offer.obj[1] \in Runs /\ Provider(offer.obj[1]) \in Providers
    BY <2>1, ProviderOfRun DEF Offers
  <2>3. CASE OfferAccepted
    BY <1>3, <1>4, <2>2, <2>3 DEF OfferAccepted
  <2>4. CASE OfferRefused
    BY <1>0, <1>3, <2>2, <2>4 DEF OfferRefused
  <2>5. CASE OfferUnanswered
    BY <1>2, <1>5, <2>5 DEF OfferUnanswered
  <2>6. CASE OfferDeclined
    <3> DEFINE p == Provider(offer.obj[1])
    <3>1. \/ inFlight' = inFlight
          \/ /\ has_room(p) /\ Limit[p] # Unlimited
             /\ inFlight' = [inFlight EXCEPT ![p] = Limit[p]]
      BY <2>6 DEF OfferDeclined
    <3>2. has_room(p) /\ Limit[p] # Unlimited => inFlight[p] < Limit[p] /\ Limit[p] \in Nat
      BY <2>2, BrokerAssumption DEF has_room
    <3> HIDE DEF p
    <3>3. \A x \in Providers : inFlight[x] <= inFlight'[x]
      <4>1. inFlight \in [Providers -> Nat]
        BY DEF TypeOK
      <4>2. ASSUME NEW x \in Providers PROVE inFlight[x] <= inFlight'[x]
        <5>1. CASE inFlight' = inFlight
          BY <1>0, <5>1
        <5>2. CASE inFlight' # inFlight
          BY <1>0, <3>1, <3>2, <4>1, <5>2
        <5> QED
          BY <5>1, <5>2
      <4> QED
        BY <4>2
    <3>4. live' \subseteq live
      BY <1>5, <2>6 DEF OfferDeclined
    <3> QED
      BY <1>1, <2>6, <3>3, <3>4 DEF OfferDeclined
  <2> QED
    BY <1>15, <2>3, <2>4, <2>5, <2>6 DEF OfferStep
<1>16. ASSUME NEW o \in Objects, NEW e, report_event(o, e) \/ finish_run(o) \/ Abandon(o)
       PROVE  BringsNoWork
  BY <1>2, <1>16 DEF report_event, finish_run, Abandon
<1>17. ASSUME NEW o \in Objects, NEW e \in Reports, accept_late_ack(o, e) PROVE BringsNoWork
  BY <1>3, <1>4, <1>5, <1>17, ProviderOfRun DEF accept_late_ack
<1>18. ASSUME NEW l \in Lanes, PipelineStep(l) PROVE workToDo' \/ BringsNoWork
  <2>1. l[1][1] \in Runs
    BY ProviderOfRun DEF Lanes
  <2> QED
    BY <1>2, <1>18, <2>1, ForgetTells
       DEF PipelineStep, PipelineTakes, PipelineGoesOn, PipelineEnds
<1>19. ASSUME NEW s \in SoloTasks, OneShotStep(s) PROVE workToDo' \/ BringsNoWork
  <2>1. s.obj[1] \in Runs
    BY ProviderOfRun DEF SoloTasks
  <2> QED
    BY <1>2, <1>19, <2>1, ForgetTells DEF OneShotStep, OneShotStarts, OneShotEnds
<1> QED
  BY <1>6, <1>7, <1>8, <1>9, <1>10, <1>11, <1>12, <1>13, <1>14, <1>15, <1>16, <1>17,
     <1>18, <1>19 DEF Next, LoopStep

LEMMA NextOfferAtHead == TypeOK /\ QueuesAreOwn /\ OfferAtHead /\ [Next]_vars => OfferAtHead'
<1> SUFFICES ASSUME TypeOK, QueuesAreOwn, OfferAtHead, [Next]_vars PROVE OfferAtHead'
  OBVIOUS
<1> USE DEF objVars, loopVars
<1>1. ASSUME NEW a \in Agents, OfferHead(a) PROVE OfferAtHead'
  <2> DEFINE q == FromFirstOfferable(pending[a])
  <2>1. q \in Seq({r \in Runs : AgentOf[r] = a /\ round[r] > 0}) /\ q # <<>>
    BY <1>1, FromFirstOfferableIsSeq DEF OfferHead, QueuesAreOwn
  <2>2. /\ offer' = [obj |-> Current(Head(q)), answer |-> "awaited"]
        /\ at' = a /\ loop = "walk" /\ a \in toVisit /\ UNCHANGED <<loop, toVisit>>
    BY <1>1 DEF OfferHead, Walking
  <2> HIDE DEF q
  <2>3. AgentOf[Head(q)] = a
    BY <2>1
  <2> QED
    BY <2>2, <2>3 DEF OfferAtHead, Current
<1>2. CASE ProviderAccepts
  <2>1. offer \in Offers /\ offer # None /\ offer' = [offer EXCEPT !.answer = "yes"]
    BY <1>2 DEF ProviderAccepts, TypeOK
  <2>2. offer'.obj = offer.obj
    BY <2>1 DEF Offers
  <2> QED
    BY <1>2, <2>1, <2>2 DEF ProviderAccepts, OfferAtHead
<1>3. CASE OfferStep
  BY <1>3 DEF OfferStep, OfferAccepted, OfferDeclined, OfferRefused, OfferUnanswered,
              OfferAtHead
<1>4. CASE StartWalk \/ EndWalk \/ Wake
  BY <1>4 DEF StartWalk, EndWalk, Wake, OfferAtHead
<1>5. ASSUME NEW a \in Agents, LeaveAgent(a) PROVE OfferAtHead'
  BY <1>5 DEF LeaveAgent, Walking, OfferAtHead
<1>6. ASSUME UNCHANGED <<offer, loop, toVisit, at>> PROVE OfferAtHead'
  BY <1>6 DEF OfferAtHead
<1>7. ASSUME NEW r \in Runs,
             \/ Submit(r) \/ Resume(r) \/ request_cancel(r) \/ FailStalled(r)
             \/ GracePasses(r) \/ expire_queued(r)
      PROVE  UNCHANGED <<offer, loop, toVisit, at>>
  BY <1>7 DEF Submit, Resume, enqueue_run, request_cancel, FailStalled, push_fail,
              GracePasses, expire_queued
<1>8. ASSUME NEW p \in Providers, register_provider(p) \/ Detach(p)
      PROVE  UNCHANGED <<offer, loop, toVisit, at>>
  BY <1>8 DEF register_provider, Detach
<1>9. ASSUME NEW o \in Objects, NEW e,
             report_event(o, e) \/ accept_late_ack(o, e) \/ finish_run(o) \/ Abandon(o)
      PROVE  UNCHANGED <<offer, loop, toVisit, at>>
  BY <1>9 DEF report_event, accept_late_ack, finish_run, Abandon
<1>10. ASSUME NEW l \in Lanes, PipelineStep(l) PROVE UNCHANGED <<offer, loop, toVisit, at>>
  BY <1>10 DEF PipelineStep, PipelineTakes, PipelineGoesOn, PipelineEnds
<1>11. ASSUME NEW s \in SoloTasks, OneShotStep(s) PROVE UNCHANGED <<offer, loop, toVisit, at>>
  BY <1>11 DEF OneShotStep, OneShotStarts, OneShotEnds
<1>12. ASSUME UNCHANGED vars PROVE UNCHANGED <<offer, loop, toVisit, at>>
  BY <1>12 DEF vars
<1> QED
  BY <1>1, <1>2, <1>3, <1>4, <1>5, <1>6, <1>7, <1>8, <1>9, <1>10, <1>11, <1>12
     DEF Next, LoopStep

(* Declining leaves the agent without room, provided a limit was declared. *)
LEMMA DeclinedIsQuiet ==
  ASSUME TypeOK, OfferAtHead, OfferDeclined, \A p \in Providers : Limit[p] # Unlimited,
         NEW a \in Agents, a = at
  PROVE  Quiet(a)'
<1> DEFINE p == Provider(offer.obj[1])
<1>1. offer \in Offers /\ offer # None
  BY DEF OfferDeclined, TypeOK
<1>2. p \in Providers /\ p = Owner[a]
  BY <1>1, ProviderOfRun DEF Offers, OfferAtHead, Provider
<1>3. inFlight' = IF has_room(p) THEN [inFlight EXCEPT ![p] = Limit[p]] ELSE inFlight
  BY <1>2 DEF OfferDeclined
<1> HIDE DEF p
<1>4. CASE has_room(p)
  <2>1. inFlight'[p] = Limit[p] /\ Limit[p] \in Nat
    BY <1>2, <1>3, <1>4, BrokerAssumption DEF TypeOK
  <2>2. ~ (inFlight'[p] < Limit[p])
    BY <2>1
  <2> QED
    BY <1>2, <2>2 DEF Quiet, has_room
<1>5. CASE ~ has_room(p)
  BY <1>2, <1>3, <1>5 DEF Quiet, has_room
<1> QED
  BY <1>4, <1>5

(* A walk visits every agent that has a run queued, and what it leaves it
   leaves with nothing to place. *)
LEMMA NextNothingMissed ==
  ASSUME "unanswered" \notin Behaviours,
         "decline" \in Behaviours => \A p \in Providers : Limit[p] # Unlimited,
         TypeOK, TypeOK', QueuesAreOwn, OfferAtHead, NothingMissed, [Next]_vars
  PROVE  NothingMissed'
<1> USE DEF objVars, loopVars
<1>1. workToDo' \/ BringsNoWork
  BY WorkIsTold
<1>2. CASE workToDo'
  BY <1>2 DEF NothingMissed
<1>3. CASE ~ workToDo'
  <2>1. \A a \in Agents : Quiet(a) => Quiet(a)'
    BY <1>1, <1>3, QuietLasts
  <2>2. ASSUME UNCHANGED <<loop, toVisit>>, workToDo => workToDo' PROVE NothingMissed'
    BY <1>3, <2>1, <2>2 DEF NothingMissed
  <2>3. CASE StartWalk
    <3> SUFFICES ASSUME NEW a \in Agents \ toVisit' PROVE Quiet(a)'
      BY <2>3 DEF StartWalk, NothingMissed
    <3>1. \A r \in Runs : ~ (AgentOf[r] = a /\ round[r] > 0)
      BY <2>3 DEF StartWalk
    <3>2. pending[a] \in Seq({r \in Runs : AgentOf[r] = a /\ round[r] > 0})
      BY DEF QueuesAreOwn
    <3>3. ToSet(pending[a]) = {}
      BY <3>1, <3>2 DEF ToSet
    <3> QED
      BY <2>3, <3>3 DEF StartWalk, Quiet
  <2>4. CASE EndWalk
    BY <1>3, <2>1, <2>4 DEF EndWalk, NothingMissed
  <2>5. CASE Wake
    BY <2>5 DEF Wake, NothingMissed
  <2>6. ASSUME NEW a \in Agents, LeaveAgent(a) PROVE NothingMissed'
    <3>1. Quiet(a)
      <4>1. FromFirstOfferable(pending[a]) = <<>>
              => \A r \in ToSet(pending[a]) : ~ Offerable(r)
        BY NothingOfferable DEF TypeOK
      <4> QED
        BY <2>6, <4>1 DEF LeaveAgent, Quiet
    <3>2. /\ loop = "walk" /\ loop' = "walk" /\ toVisit' = toVisit \ {a}
          /\ UNCHANGED workToDo
      BY <2>6 DEF LeaveAgent, Walking
    <3> QED
      BY <1>3, <2>1, <3>1, <3>2 DEF NothingMissed
  <2>7. CASE OfferDeclined
    <3>1. \A a \in Agents : a = at => Quiet(a)'
      BY <2>7, DeclinedIsQuiet DEF OfferDeclined
    <3>2. /\ loop = "walk" /\ loop' = "walk" /\ toVisit' = toVisit \ {at}
          /\ UNCHANGED workToDo
      BY <2>7 DEF OfferDeclined, OfferAtHead
    <3> QED
      BY <1>3, <2>1, <3>1, <3>2 DEF NothingMissed
  <2>8. CASE OfferUnanswered
    BY <2>8 DEF OfferUnanswered
  <2>9. CASE ProviderAccepts \/ OfferAccepted \/ OfferRefused \/ UNCHANGED vars
    BY <2>2, <2>9 DEF ProviderAccepts, OfferAccepted, OfferRefused, vars
  <2>10. ASSUME NEW a \in Agents, OfferHead(a) PROVE NothingMissed'
    BY <2>2, <2>10 DEF OfferHead
  <2>11. ASSUME NEW r \in Runs,
                \/ Submit(r) \/ Resume(r) \/ request_cancel(r) \/ FailStalled(r)
                \/ GracePasses(r) \/ expire_queued(r)
         PROVE  UNCHANGED <<loop, toVisit>> /\ (workToDo => workToDo')
    BY <2>11 DEF Submit, Resume, enqueue_run, request_cancel, FailStalled, push_fail,
                 GracePasses, expire_queued
  <2>12. ASSUME NEW p \in Providers, register_provider(p) \/ Detach(p)
         PROVE  UNCHANGED <<loop, toVisit>> /\ (workToDo => workToDo')
    BY <2>12 DEF register_provider, Detach
  <2>13. ASSUME NEW o \in Objects, NEW e,
                report_event(o, e) \/ accept_late_ack(o, e) \/ finish_run(o) \/ Abandon(o)
         PROVE  UNCHANGED <<loop, toVisit>> /\ (workToDo => workToDo')
    BY <2>13 DEF report_event, accept_late_ack, finish_run, Abandon
  <2>0. ASSUME NEW r, forget(r) PROVE workToDo => workToDo'
    BY <2>0, Zenon DEF forget
  <2>14. ASSUME NEW l \in Lanes, PipelineStep(l)
         PROVE  UNCHANGED <<loop, toVisit>> /\ (workToDo => workToDo')
    BY <2>0, <2>14 DEF PipelineStep, PipelineTakes, PipelineGoesOn, PipelineEnds
  <2>15. ASSUME NEW s \in SoloTasks, OneShotStep(s)
         PROVE  UNCHANGED <<loop, toVisit>> /\ (workToDo => workToDo')
    BY <2>0, <2>15 DEF OneShotStep, OneShotStarts, OneShotEnds
  <2> QED
    BY <2>2, <2>3, <2>4, <2>5, <2>6, <2>7, <2>8, <2>9, <2>10, <2>11, <2>12, <2>13, <2>14,
       <2>15 DEF Next, LoopStep, OfferStep
<1> QED
  BY <1>2, <1>3

(* No wakeup is lost: run_forever clears its event before it walks the agents,
   and whatever gives one of them something to place while it walks, waits for
   an answer, or is about to sleep sets the event again.  The two cases in
   which the loop itself turns its back on a run it could place are left out:
   an offer that goes unanswered, and a decline by a provider that declared no
   limit; both wait for the next change or the timeout of the wait. *)
THEOREM SleepsOnNoWork ==
  ASSUME "unanswered" \notin Behaviours,
         "decline" \in Behaviours => \A p \in Providers : Limit[p] # Unlimited
  PROVE  Spec => []NoMissedWakeup
<1> DEFINE Inv == TypeOK /\ QueuesAreOwn /\ OfferAtHead /\ NothingMissed
<1>1. Init => Inv
  <2> SUFFICES ASSUME Init PROVE Inv
    OBVIOUS
  <2> QED
    BY InitTypeOK DEF Init, QueuesAreOwn, OfferAtHead, NothingMissed
<1>2. Inv /\ [Next]_vars => Inv'
  BY NextTypeOK, NextQueueMoves, QueueMovesKeepOwn, NextOfferAtHead, NextNothingMissed
<1>3. Inv => NoMissedWakeup
  <2> SUFFICES ASSUME Inv, loop = "asleep", ~ workToDo, NEW a \in live
               PROVE  FromFirstOfferable(pending[a]) = <<>> \/ ~ has_room(Owner[a])
    BY DEF NoMissedWakeup
  <2>1. a \in Agents /\ Quiet(a)
    BY DEF NothingMissed, TypeOK
  <2> QED
    BY <2>1, NothingOfferable DEF Quiet, TypeOK
<1> QED
  BY <1>1, <1>2, <1>3, PTL DEF Spec

=============================================================================
