---------------------------- MODULE RuntimeProofs ----------------------------
(* What a provider's runtime keeps to for any runs, threads, limit and queue *)
(* length: deliver() reads what is in flight while jobs it has accepted wait *)
(* to be turned into tasks.                                                  *)
EXTENDS Runtime, FiniteSetTheorems, SequenceTheorems, TLAPS

-----------------------------------------------------------------------------
(* Sequences *)

(* A sequence has no more elements than its length says. *)
LEMMA FewElements ==
  ASSUME NEW S, NEW s \in Seq(S)
  PROVE  /\ IsFiniteSet(ToSet(s)) /\ ToSet(s) \subseteq S
         /\ Len(s) \in Nat /\ Cardinality(ToSet(s)) <= Len(s)
<1>1. Len(s) \in Nat /\ DOMAIN s = 1 .. Len(s)
  OBVIOUS
<1>2. s \in Surjection(1 .. Len(s), ToSet(s))
  BY <1>1 DEF Surjection, ToSet
<1>3. IsFiniteSet(1 .. Len(s)) /\ Cardinality(1 .. Len(s)) = Len(s)
  BY <1>1, FS_Interval
<1> QED
  BY <1>1, <1>2, <1>3, FS_Surjection DEF ToSet

LEMMA WithoutIsSeq ==
  ASSUME NEW S, NEW s \in Seq(S), NEW r
  PROVE  Without(s, r) \in Seq(S)
<1> DEFINE i == CHOOSE i \in DOMAIN s : s[i] = r
<1>1. CASE r \in ToSet(s)
  <2>1. i \in 1 .. Len(s)
    BY <1>1 DEF ToSet
  <2>2. SubSeq(s, 1, i - 1) \in Seq(S) /\ SubSeq(s, i + 1, Len(s)) \in Seq(S)
    <3> HIDE DEF i
    <3> QED
      BY <2>1, SubSeqProperties
  <2> HIDE DEF i
  <2>3. RemoveAt(s, i) \in Seq(S)
    BY <2>2 DEF RemoveAt
  <2> QED
    BY <1>1, <2>3 DEF Without, i
<1>2. CASE r \notin ToSet(s)
  BY <1>2 DEF Without
<1> QED
  BY <1>1, <1>2

LEMMA SetToSeqIsSeq ==
  ASSUME NEW S, IsFiniteSet(S)
  PROVE  SetToSeq(S) \in Seq(S)
<1>1. Cardinality(S) \in Nat /\ ExistsBijection(1 .. Cardinality(S), S)
  BY FS_CardinalityType
<1>2. PICK f \in Bijection(1 .. Cardinality(S), S) : TRUE
  BY <1>1 DEF ExistsBijection
<1>3. f \in [1 .. Cardinality(S) -> S] /\ IsInjective(f)
  BY <1>2 DEF Bijection, Injection, IsInjective
<1>4. SetToSeq(S) \in [1 .. Cardinality(S) -> S]
  BY <1>3 DEF SetToSeq
<1> QED
  BY <1>1, <1>4

-----------------------------------------------------------------------------
(* Type correctness *)

LEMMA InitTypeOK == Init => RuntimeTypeOK
<1> SUFFICES ASSUME Init PROVE RuntimeTypeOK
  OBVIOUS
<1>1. <<>> \in Seq(Runs) /\ <<>> \in Seq(Items)
  OBVIOUS
<1>2. turns \in [Threads -> Seq(Runs)]
  BY <1>1 DEF Init
<1>3. yielded \in [Runs -> 0 .. MaxEvents]
  BY RuntimeAssumption DEF Init
<1>4. reported \in [Runs -> [events : Nat, ends : Nat]]
  BY DEF Init
<1> QED
  BY <1>1, <1>2, <1>3, <1>4 DEF Init, RuntimeTypeOK

LEMMA EntersTypeOK ==
  ASSUME RuntimeTypeOK, NEW r \in Runs, Enters(r) \/ Leaves(r)
  PROVE  turns' \in [Threads -> Seq(Runs)]
<1> USE RuntimeAssumption DEF RuntimeTypeOK
<1>1. CASE ThreadOf[r] = None
  BY <1>1 DEF Enters, Leaves
<1>2. CASE ThreadOf[r] # None
  <2>1. ThreadOf[r] \in Threads /\ turns[ThreadOf[r]] \in Seq(Runs)
    BY <1>2
  <2>2. /\ Append(turns[ThreadOf[r]], r) \in Seq(Runs)
        /\ Without(turns[ThreadOf[r]], r) \in Seq(Runs)
    BY <2>1, WithoutIsSeq
  <2> QED
    BY <1>2, <2>1, <2>2 DEF Enters, Leaves
<1> QED
  BY <1>1, <1>2

LEMMA EndsTypeOK ==
  ASSUME RuntimeTypeOK, NEW r \in Runs, Ends(r)
  PROVE  inFlight' \subseteq Runs /\ output' \in Seq(Items)
BY DEF RuntimeTypeOK, Ends, Items

LEMMA StopsTypeOK ==
  ASSUME RuntimeTypeOK, NEW r \in Runs, Stops(r)
  PROVE  /\ inFlight' \subseteq Runs /\ output' \in Seq(Items)
         /\ starting' \in Seq(Runs) /\ turns' \in [Threads -> Seq(Runs)]
<1>1. CASE r \in Begun
  BY <1>1, EndsTypeOK, EntersTypeOK DEF Stops, RuntimeTypeOK
<1>2. CASE r \notin Begun
  <2>1. Without(starting, r) \in Seq(Runs)
    BY WithoutIsSeq DEF RuntimeTypeOK
  <2> QED
    BY <1>2, <2>1 DEF Stops, RuntimeTypeOK
<1> QED
  BY <1>1, <1>2

LEMMA NextTypeOK == RuntimeTypeOK /\ [Next]_vars => RuntimeTypeOK'
<1> SUFFICES ASSUME RuntimeTypeOK, [Next]_vars PROVE RuntimeTypeOK'
  OBVIOUS
<1> USE RuntimeAssumption
<1>1. ASSUME NEW r \in Runs, deliver(r) PROVE RuntimeTypeOK'
  BY <1>1 DEF deliver, RuntimeTypeOK
<1>2. ASSUME NEW r \in Runs, Yields(r) PROVE RuntimeTypeOK'
  BY <1>2 DEF Yields, RuntimeTypeOK, Items
<1>3. ASSUME NEW r \in Runs, StreamEnds(r) PROVE RuntimeTypeOK'
  BY <1>3, EndsTypeOK, EntersTypeOK DEF StreamEnds, RuntimeTypeOK
<1>4. ASSUME NEW r \in Runs, cancel(r) PROVE RuntimeTypeOK'
  BY <1>4, StopsTypeOK DEF cancel, RuntimeTypeOK
<1>5. CASE RunJobs
  BY <1>5 DEF RunJobs, RuntimeTypeOK, Queued, ToSet
<1>6. CASE Begins
  <2>1. Head(starting) \in Runs /\ Tail(starting) \in Seq(Runs)
    BY <1>6 DEF Begins, RuntimeTypeOK
  <2> QED
    BY <1>6, <2>1, EntersTypeOK DEF Begins, RuntimeTypeOK
<1>7. CASE ReportNext
  <2>1. Head(output) \in Items /\ Tail(output) \in Seq(Items)
    BY <1>7 DEF ReportNext, RuntimeTypeOK
  <2>2. PICK r \in Runs : r = Head(output)[1]
    BY <2>1 DEF Items
  <2>3. reported \in [Runs -> [events : Nat, ends : Nat]]
    BY DEF RuntimeTypeOK
  <2>4. reported' = IF Head(output)[2] = "event"
                    THEN [reported EXCEPT ![r].events = @ + 1]
                    ELSE [reported EXCEPT ![r].ends = @ + 1]
    BY <1>7, <2>2 DEF ReportNext
  <2>5. reported' \in [Runs -> [events : Nat, ends : Nat]]
    BY <2>3, <2>4
  <2> QED
    BY <1>7, <2>1, <2>5 DEF ReportNext, RuntimeTypeOK
<1>8. CASE start \/ aclose
  BY <1>8 DEF start, aclose, RuntimeTypeOK
<1>9. CASE aclose_cancel_in_flight
  <2>1. Begun \subseteq Runs
    BY DEF Begun, RuntimeTypeOK
  <2>2. IsFiniteSet(Begun \X {"_END"})
    <3>1. IsFiniteSet(Begun) /\ IsFiniteSet({"_END"})
      BY <2>1, FS_Subset, FS_Singleton
    <3> QED
      BY <3>1, FS_Product
  <2>3. SetToSeq(Begun \X {"_END"}) \in Seq(Begun \X {"_END"})
    BY <2>2, SetToSeqIsSeq
  <2>4. SetToSeq(Begun \X {"_END"}) \in Seq(Items)
    BY <2>1, <2>3 DEF Items
  <2>5. output' \in Seq(Items)
    BY <1>9, <2>4 DEF aclose_cancel_in_flight, RuntimeTypeOK
  <2>6. turns' \in [Threads -> Seq(Runs)] /\ starting' \in Seq(Runs)
    BY <1>9 DEF aclose_cancel_in_flight
  <2> QED
    BY <1>9, <2>5, <2>6 DEF aclose_cancel_in_flight, RuntimeTypeOK
<1>10. CASE UNCHANGED vars
  BY <1>10 DEF vars, RuntimeTypeOK
<1> QED
  BY <1>1, <1>2, <1>3, <1>4, <1>5, <1>6, <1>7, <1>8, <1>9, <1>10 DEF Next, TaskStep

(* The runtime's queues, lines and counters hold what they are declared to
   hold, through every cancel, close and restart. *)
THEOREM TypeCorrect == Spec => []RuntimeTypeOK
BY InitTypeOK, NextTypeOK, PTL DEF Spec

-----------------------------------------------------------------------------
(* The limit *)

(* What deliver() lets through: the jobs that wait fit beside what is in
   flight, with one less than a queue's length to spare. *)
RoomForJobs ==
  Limit # Unlimited => Cardinality(inFlight) + Len(jobs) <= Limit + MaxQueued - 1

LimitInv == RuntimeTypeOK /\ RoomForJobs

LEMMA InFlightIsFinite ==
  ASSUME RuntimeTypeOK
  PROVE  IsFiniteSet(inFlight) /\ Cardinality(inFlight) \in Nat /\ Len(jobs) \in Nat
<1>1. IsFiniteSet(inFlight)
  BY RuntimeAssumption, FS_Subset DEF RuntimeTypeOK
<1> QED
  BY <1>1, FS_CardinalityType DEF RuntimeTypeOK

(* Steps that start no task and queue no job. *)
LEMMA ShrinkKeepsRoom ==
  ASSUME LimitInv, RuntimeTypeOK', inFlight' \subseteq inFlight, UNCHANGED jobs
  PROVE  RoomForJobs'
<1>1. Cardinality(inFlight') <= Cardinality(inFlight)
  BY InFlightIsFinite, FS_Subset DEF LimitInv
<1>2. Cardinality(inFlight') \in Nat
  BY InFlightIsFinite, FS_Subset, FS_CardinalityType DEF LimitInv
<1>3. SUFFICES ASSUME Limit # Unlimited
               PROVE  Cardinality(inFlight') + Len(jobs') <= Limit + MaxQueued - 1
  BY DEF RoomForJobs
<1> QED
  BY <1>1, <1>2, <1>3, InFlightIsFinite, RuntimeAssumption DEF LimitInv, RoomForJobs

LEMMA NextLimitInv == LimitInv /\ [Next]_vars => LimitInv'
<1> SUFFICES ASSUME LimitInv, [Next]_vars PROVE RoomForJobs'
  BY NextTypeOK DEF LimitInv
<1>1. ASSUME NEW r \in Runs, deliver(r) PROVE RoomForJobs'
  <2> SUFFICES ASSUME Limit # Unlimited
               PROVE  Cardinality(inFlight') + Len(jobs') <= Limit + MaxQueued - 1
    BY DEF RoomForJobs
  <2>1. Cardinality(inFlight) < Limit /\ Len(jobs) < MaxQueued /\ UNCHANGED inFlight
    BY <1>1 DEF deliver, HasRoom
  <2>2. Len(jobs') = Len(jobs) + 1
    BY <1>1 DEF deliver, LimitInv, RuntimeTypeOK
  <2>3. /\ Cardinality(inFlight) \in Nat /\ Len(jobs) \in Nat
        /\ Limit \in Nat /\ MaxQueued \in Nat
    BY InFlightIsFinite, RuntimeAssumption DEF LimitInv
  <2> QED
    BY <2>1, <2>2, <2>3
<1>2. CASE RunJobs
  <2> SUFFICES ASSUME Limit # Unlimited
               PROVE  Cardinality(inFlight') + Len(jobs') <= Limit + MaxQueued - 1
    BY DEF RoomForJobs
  <2>1. inFlight' = inFlight \cup ToSet(jobs) /\ Len(jobs') = 0
    BY <1>2 DEF RunJobs, Queued
  <2>2. /\ IsFiniteSet(ToSet(jobs)) /\ Cardinality(ToSet(jobs)) <= Len(jobs)
        /\ IsFiniteSet(inFlight) /\ Cardinality(inFlight) \in Nat /\ Len(jobs) \in Nat
    BY FewElements, InFlightIsFinite DEF LimitInv, RuntimeTypeOK
  <2>3. /\ Cardinality(inFlight \cup ToSet(jobs))
             = Cardinality(inFlight) + Cardinality(ToSet(jobs))
                 - Cardinality(inFlight \cap ToSet(jobs))
        /\ Cardinality(ToSet(jobs)) \in Nat
        /\ Cardinality(inFlight \cap ToSet(jobs)) \in Nat
    <3>1. IsFiniteSet(inFlight \cap ToSet(jobs))
      BY <2>2, FS_Subset
    <3> QED
      BY <2>2, <3>1, FS_Union, FS_CardinalityType
  <2> QED
    BY <2>1, <2>2, <2>3, RuntimeAssumption DEF LimitInv, RoomForJobs
<1>3. ASSUME NEW r \in Runs, TaskStep(r) PROVE inFlight' \subseteq inFlight /\ UNCHANGED jobs
  BY <1>3 DEF TaskStep, Yields, StreamEnds, cancel, Stops, Ends
<1>4. ASSUME Begins \/ ReportNext \/ start \/ aclose \/ aclose_cancel_in_flight \/ UNCHANGED vars
      PROVE  inFlight' \subseteq inFlight /\ UNCHANGED jobs
  BY <1>4 DEF Begins, ReportNext, start, aclose, aclose_cancel_in_flight, vars
<1>5. RuntimeTypeOK'
  BY NextTypeOK DEF LimitInv
<1> QED
  BY <1>1, <1>2, <1>3, <1>4, <1>5, ShrinkKeepsRoom DEF Next

(* deliver(): with any limit and any queue, the tasks in flight exceed what was
   declared by less than the queue is long, and so never with a queue of one. *)
THEOREM LimitKept == Spec => []WithinLimit
<1>1. Init => LimitInv
  <2> SUFFICES ASSUME Init PROVE RoomForJobs
    BY InitTypeOK DEF LimitInv
  <2>1. Cardinality(inFlight) = 0 /\ Len(jobs) = 0
    BY FS_EmptySet DEF Init
  <2> QED
    BY <2>1, RuntimeAssumption DEF RoomForJobs
<1>2. LimitInv => WithinLimit
  BY InFlightIsFinite, RuntimeAssumption DEF LimitInv, RoomForJobs, WithinLimit
<1> QED
  BY <1>1, <1>2, NextLimitInv, PTL DEF Spec

-----------------------------------------------------------------------------
(* Occurrences in a sequence *)

Occ(s, x) == {i \in DOMAIN s : s[i] = x}
Count(s, x) == Cardinality(Occ(s, x))

LEMMA CountIsNat ==
  ASSUME NEW S, NEW s \in Seq(S), NEW x
  PROVE  /\ IsFiniteSet(Occ(s, x)) /\ Count(s, x) \in Nat
         /\ Count(s, x) = 0 <=> Occ(s, x) = {}
         /\ Occ(s, x) \subseteq 1 .. Len(s)
<1>1. Occ(s, x) \subseteq 1 .. Len(s) /\ Len(s) \in Nat
  BY DEF Occ
<1>2. IsFiniteSet(1 .. Len(s))
  BY <1>1, FS_Interval
<1>3. IsFiniteSet(Occ(s, x))
  BY <1>1, <1>2, FS_Subset
<1> QED
  BY <1>1, <1>3, FS_CardinalityType, FS_EmptySet DEF Count

LEMMA CountAppend ==
  ASSUME NEW S, NEW s \in Seq(S), NEW e \in S, NEW x
  PROVE  Count(Append(s, e), x) = IF e = x THEN Count(s, x) + 1 ELSE Count(s, x)
<1> DEFINE t == Append(s, e)
<1>1. /\ DOMAIN s = 1 .. Len(s) /\ DOMAIN t = 1 .. (Len(s) + 1) /\ Len(s) \in Nat
      /\ t[Len(s) + 1] = e /\ \A i \in 1 .. Len(s) : t[i] = s[i]
  OBVIOUS
<1> HIDE DEF t
<1>2. CASE e = x
  <2>1. Occ(t, x) = Occ(s, x) \cup {Len(s) + 1}
    BY <1>1, <1>2 DEF Occ
  <2>2. Len(s) + 1 \notin Occ(s, x)
    BY <1>1 DEF Occ
  <2>3. Cardinality(Occ(s, x) \cup {Len(s) + 1}) = Cardinality(Occ(s, x)) + 1
    <3>1. IsFiniteSet(Occ(s, x))
      BY CountIsNat
    <3> HIDE DEF Occ
    <3> QED
      BY <2>2, <3>1, FS_AddElement
  <2> QED
    BY <1>2, <2>1, <2>3 DEF Count, t
<1>3. CASE e # x
  <2>1. Occ(t, x) = Occ(s, x)
    BY <1>1, <1>3 DEF Occ
  <2> QED
    BY <1>3, <2>1 DEF Count, t
<1> QED
  BY <1>2, <1>3

LEMMA CountTail ==
  ASSUME NEW S, NEW s \in Seq(S), s # <<>>, NEW x
  PROVE  Count(s, x) = IF Head(s) = x THEN Count(Tail(s), x) + 1 ELSE Count(Tail(s), x)
<1> DEFINE t == Tail(s)
           A == Occ(s, x)
           B == Occ(t, x)
           f == [i \in B |-> i + 1]
<1>1. /\ DOMAIN s = 1 .. Len(s) /\ Len(s) \in Nat /\ Len(s) > 0 /\ s[1] = Head(s)
      /\ t \in Seq(S) /\ DOMAIN t = 1 .. (Len(s) - 1)
      /\ \A i \in 1 .. (Len(s) - 1) : t[i] = s[i + 1]
  OBVIOUS
<1> HIDE DEF t
<1>2. IsFiniteSet(A) /\ Cardinality(A) \in Nat /\ IsFiniteSet(B) /\ Cardinality(B) \in Nat
  BY <1>1, CountIsNat DEF Count
<1>3. f \in Bijection(B, A \ {1})
  <2>1. \A i \in B : i \in 1 .. (Len(s) - 1) /\ i + 1 \in A \ {1}
    BY <1>1 DEF Occ
  <2>2. \A j \in A \ {1} : j - 1 \in B /\ f[j - 1] = j
    <3> SUFFICES ASSUME NEW j \in A \ {1}
                 PROVE  j - 1 \in B /\ (j - 1) + 1 = j
      OBVIOUS
    <3>1. j \in 2 .. Len(s) /\ s[j] = x
      BY <1>1 DEF Occ
    <3>2. j - 1 \in 1 .. (Len(s) - 1) /\ (j - 1) + 1 = j
      BY <1>1, <3>1
    <3>3. t[j - 1] = x
      BY <1>1, <3>1, <3>2
    <3> QED
      BY <1>1, <3>2, <3>3 DEF Occ
  <2> HIDE DEF A, B
  <2>3. f \in Surjection(B, A \ {1})
    BY <2>1, <2>2 DEF Surjection
  <2>4. f \in Injection(B, A \ {1})
    BY <2>1 DEF Injection, IsInjective
  <2> QED
    BY <2>3, <2>4 DEF Bijection
<1>4. Cardinality(A \ {1}) = Cardinality(B)
  <2> HIDE DEF A, B, f
  <2> QED
    BY <1>2, <1>3, FS_Bijection DEF ExistsBijection
<1>5. 1 \in A <=> Head(s) = x
  BY <1>1 DEF Occ
<1>6. Cardinality(A \ {1}) = IF 1 \in A THEN Cardinality(A) - 1 ELSE Cardinality(A)
  <2> HIDE DEF A
  <2> QED
    BY <1>2, FS_RemoveElement
<1> HIDE DEF A, B
<1>7. Cardinality(A) = IF Head(s) = x THEN Cardinality(B) + 1 ELSE Cardinality(B)
  BY <1>2, <1>4, <1>5, <1>6
<1> QED
  BY <1>7 DEF Count, A, B, t

LEMMA CountConcat ==
  ASSUME NEW S, NEW s \in Seq(S), NEW q \in Seq(S), IsInjective(q), NEW x
  PROVE  Count(s \o q, x) = IF x \in ToSet(q) THEN Count(s, x) + 1 ELSE Count(s, x)
<1> DEFINE t == s \o q
<1>1. /\ DOMAIN s = 1 .. Len(s) /\ Len(s) \in Nat /\ DOMAIN q = 1 .. Len(q) /\ Len(q) \in Nat
      /\ DOMAIN t = 1 .. (Len(s) + Len(q))
      /\ \A i \in 1 .. Len(s) : t[i] = s[i]
      /\ \A i \in 1 .. Len(q) : t[Len(s) + i] = q[i]
  OBVIOUS
<1> HIDE DEF t
<1>2. \A i \in DOMAIN t : i \in 1 .. Len(s) \/ (i - Len(s) \in 1 .. Len(q)
                                                 /\ t[i] = q[i - Len(s)] /\ i > Len(s))
  BY <1>1
<1>3. CASE x \in ToSet(q)
  <2>1. PICK j \in 1 .. Len(q) : q[j] = x
    BY <1>1, <1>3 DEF ToSet
  <2>2. \A i \in 1 .. Len(q) : q[i] = x => i = j
    BY <1>1, <2>1 DEF IsInjective
  <2>3. Occ(t, x) = Occ(s, x) \cup {Len(s) + j}
    <3>1. ASSUME NEW i \in Occ(t, x), i \notin Occ(s, x) PROVE i = Len(s) + j
      <4>1. i \in DOMAIN t /\ t[i] = x
        BY DEF Occ
      <4>2. i \notin 1 .. Len(s)
        BY <1>1, <3>1, <4>1 DEF Occ
      <4>3. i - Len(s) = j /\ i \in Nat
        BY <1>1, <1>2, <2>2, <4>1, <4>2
      <4> QED
        BY <1>1, <4>3
    <3>2. Occ(s, x) \cup {Len(s) + j} \subseteq Occ(t, x)
      BY <1>1, <2>1 DEF Occ
    <3> QED
      BY <3>1, <3>2
  <2>4. Len(s) + j \notin Occ(s, x)
    BY <1>1 DEF Occ
  <2>5. Cardinality(Occ(s, x) \cup {Len(s) + j}) = Cardinality(Occ(s, x)) + 1
    <3>1. IsFiniteSet(Occ(s, x))
      BY CountIsNat
    <3> HIDE DEF Occ
    <3> QED
      BY <2>4, <3>1, FS_AddElement
  <2> QED
    BY <1>3, <2>3, <2>5 DEF Count, t
<1>4. CASE x \notin ToSet(q)
  <2>1. Occ(t, x) = Occ(s, x)
    BY <1>1, <1>2, <1>4 DEF Occ, ToSet
  <2> QED
    BY <1>4, <2>1 DEF Count, t
<1> QED
  BY <1>3, <1>4

(* The sequence that SetToSeq makes of a set holds each element once. *)
LEMMA SetToSeqIsExact ==
  ASSUME NEW S, IsFiniteSet(S)
  PROVE  /\ SetToSeq(S) \in Seq(S) /\ IsInjective(SetToSeq(S))
         /\ ToSet(SetToSeq(S)) = S
<1>1. Cardinality(S) \in Nat /\ ExistsBijection(1 .. Cardinality(S), S)
  BY FS_CardinalityType
<1>2. PICK f \in Bijection(1 .. Cardinality(S), S) : TRUE
  BY <1>1 DEF ExistsBijection
<1>3. f \in [1 .. Cardinality(S) -> S] /\ IsInjective(f)
  BY <1>2 DEF Bijection, Injection, IsInjective
<1> DEFINE g == SetToSeq(S)
<1>4. g \in [1 .. Cardinality(S) -> S] /\ IsInjective(g)
  BY <1>3 DEF SetToSeq
<1> HIDE DEF g
<1>5. g \in Injection(1 .. Cardinality(S), S)
  BY <1>4 DEF Injection, IsInjective
<1>6. Cardinality(1 .. Cardinality(S)) = Cardinality(S)
  BY <1>1, FS_Interval
<1>7. g \in Surjection(1 .. Cardinality(S), S)
  BY <1>5, <1>6, FS_Injection
<1>8. \A y \in S : \E i \in 1 .. Cardinality(S) : g[i] = y
  BY <1>7 DEF Surjection
<1>9. ToSet(g) = S /\ g \in Seq(S)
  BY <1>1, <1>4, <1>8 DEF ToSet
<1> QED
  BY <1>4, <1>9 DEF g

-----------------------------------------------------------------------------
(* The end of a run *)

Event(r) == <<r, "event">>
End(r) == <<r, "_END">>

(* How often funduq was told of the end of r, or is about to be. *)
Told(r) == reported[r].ends + Count(output, End(r))

(* A job that waits is not a task yet, and both were accepted. *)
JobsApart ==
  /\ Queued \cap inFlight = {}
  /\ Queued \cup inFlight \subseteq ToSet(accepted)

(* Every event is on its way or reported, the end of a run is put once, when
   the run has neither a job nor a task, and no event is behind its end. *)
EventsCount == \A r \in Runs : reported[r].events + Count(output, Event(r)) = yielded[r]
EndedOnce ==
  \A r \in Runs : Told(r) # 0 =>
    Told(r) = 1 /\ r \in ToSet(accepted) /\ r \notin Queued \cup inFlight
NoneAfterEnd == \A r \in Runs : reported[r].ends # 0 => Count(output, Event(r)) = 0
NoneBehindEnd ==
  \A r \in Runs : \A i, j \in DOMAIN output :
    output[i] = End(r) /\ output[j] = Event(r) => j < i

EndInv ==
  /\ RuntimeTypeOK
  /\ JobsApart
  /\ EventsCount /\ EndedOnce
  /\ NoneAfterEnd /\ NoneBehindEnd

LEMMA CountsAreNat ==
  ASSUME RuntimeTypeOK, NEW r \in Runs
  PROVE  /\ Count(output, Event(r)) \in Nat /\ Count(output, End(r)) \in Nat
         /\ reported[r].events \in Nat /\ reported[r].ends \in Nat
         /\ Told(r) \in Nat /\ yielded[r] \in Nat
<1>1. Count(output, Event(r)) \in Nat /\ Count(output, End(r)) \in Nat
  BY CountIsNat DEF RuntimeTypeOK
<1>2. reported[r].events \in Nat /\ reported[r].ends \in Nat /\ yielded[r] \in Nat
  BY RuntimeAssumption DEF RuntimeTypeOK
<1> QED
  BY <1>1, <1>2 DEF Told

(* Steps that put nothing in the output. *)
LEMMA QuietKeepsEnds ==
  ASSUME EndInv, RuntimeTypeOK', JobsApart',
         UNCHANGED <<yielded, output, reported>>,
         ToSet(accepted) \subseteq ToSet(accepted)',
         \A r \in (Queued \cup inFlight)' : r \in Queued \cup inFlight \/ r \notin ToSet(accepted)
  PROVE  EndInv'
<1> USE DEF EndInv
<1>1. EventsCount' /\ NoneAfterEnd' /\ NoneBehindEnd'
  BY DEF EventsCount, NoneAfterEnd, NoneBehindEnd
<1>2. EndedOnce'
  BY DEF EndedOnce, Told
<1> QED
  BY <1>1, <1>2

(* An agent yields an event: its run is in flight. *)
LEMMA YieldKeepsEnds ==
  ASSUME EndInv, RuntimeTypeOK', NEW r \in Runs, Yields(r)
  PROVE  EndInv'
<1> USE DEF EndInv
<1>1. /\ r \in inFlight /\ output' = Append(output, Event(r))
      /\ yielded' = [yielded EXCEPT ![r] = @ + 1]
      /\ UNCHANGED <<accepted, jobs, inFlight, reported>>
  BY DEF Yields, Begun, Event
<1>2. output \in Seq(Items) /\ Event(r) \in Items
  BY DEF RuntimeTypeOK, Items, Event
<1>3. \A x \in Runs : Count(output', End(x)) = Count(output, End(x))
  BY <1>1, <1>2, CountAppend DEF Event, End
<1>4. \A x \in Runs : Count(output', Event(x)) = IF x = r THEN Count(output, Event(x)) + 1
                                                 ELSE Count(output, Event(x))
  BY <1>1, <1>2, CountAppend DEF Event
<1>5. Told(r) = 0
  BY <1>1 DEF EndedOnce
<1>6. reported[r].ends = 0 /\ Count(output, End(r)) = 0
  BY <1>5, CountsAreNat DEF Told
<1>7. EventsCount'
  <2> SUFFICES ASSUME NEW x \in Runs
               PROVE  reported[x].events + Count(output', Event(x)) = yielded'[x]
    BY <1>1 DEF EventsCount
  <2>1. reported[x].events + Count(output, Event(x)) = yielded[x]
    BY DEF EventsCount
  <2> QED
    <3>1. yielded'[x] = IF x = r THEN yielded[x] + 1 ELSE yielded[x]
      BY <1>1 DEF RuntimeTypeOK
    <3>2. Count(output, Event(x)) \in Nat /\ reported[x].events \in Nat
      BY CountsAreNat
    <3> QED
      BY <1>4, <2>1, <3>1, <3>2
<1>8. EndedOnce' /\ JobsApart'
  BY <1>1, <1>3 DEF EndedOnce, Told, JobsApart, Queued
<1>9. NoneAfterEnd'
  BY <1>1, <1>4, <1>6 DEF NoneAfterEnd
<1>10. NoneBehindEnd'
  <2>1. /\ DOMAIN output = 1 .. Len(output) /\ Len(output) \in Nat
        /\ DOMAIN output' = 1 .. (Len(output) + 1) /\ output'[Len(output) + 1] = Event(r)
        /\ \A i \in 1 .. Len(output) : output'[i] = output[i]
    BY <1>1, <1>2
  <2>2. \A i \in DOMAIN output : output[i] # End(r)
    BY <1>6, <1>2, CountIsNat DEF Occ
  <2> SUFFICES ASSUME NEW x \in Runs, NEW i \in DOMAIN output', NEW j \in DOMAIN output',
                      output'[i] = End(x), output'[j] = Event(x)
               PROVE  j < i
    BY DEF NoneBehindEnd
  <2>3. i \in 1 .. Len(output) /\ output[i] = End(x)
    BY <2>1 DEF Event, End
  <2>4. x # r
    BY <2>1, <2>2, <2>3
  <2>5. j \in 1 .. Len(output) /\ output[j] = Event(x)
    BY <2>1, <2>4 DEF Event
  <2> QED
    BY <2>1, <2>3, <2>5 DEF NoneBehindEnd
<1> QED
  BY <1>7, <1>8, <1>9, <1>10

(* Tasks end: each puts the end of its run behind what is in the output. *)
LEMMA EndingKeepsEnds ==
  ASSUME EndInv, RuntimeTypeOK', NEW Q \in SUBSET inFlight,
         NEW q \in Seq(Items), IsInjective(q), ToSet(q) = {End(r) : r \in Q},
         output' = output \o q, inFlight' \subseteq inFlight \ Q,
         UNCHANGED <<accepted, jobs, yielded, reported>>
  PROVE  EndInv'
<1> USE DEF EndInv
<1>1. output \in Seq(Items) /\ Q \subseteq Runs
  BY DEF RuntimeTypeOK
<1>2. \A x \in Runs : Event(x) \notin ToSet(q) /\ (End(x) \in ToSet(q) <=> x \in Q)
  BY DEF Event, End
<1>3. \A x \in Runs : Count(output', Event(x)) = Count(output, Event(x))
  BY <1>1, <1>2, CountConcat
<1>4. \A x \in Runs : Count(output', End(x)) = IF x \in Q THEN Count(output, End(x)) + 1
                                               ELSE Count(output, End(x))
  BY <1>1, <1>2, CountConcat
<1>5. EventsCount' /\ NoneAfterEnd' /\ JobsApart'
  BY <1>3 DEF EventsCount, NoneAfterEnd, JobsApart, Queued
<1>6. EndedOnce'
  <2> SUFFICES ASSUME NEW x \in Runs, Told(x)' # 0
               PROVE  Told(x)' = 1 /\ x \in ToSet(accepted) /\ x \notin Queued \cup inFlight'
    BY DEF EndedOnce, Queued
  <2>1. CASE x \in Q
    <3>1. Told(x) = 0
      BY <2>1 DEF EndedOnce
    <3>2. Told(x)' = 1
      BY <1>4, <2>1, <3>1, CountsAreNat DEF Told
    <3> QED
      BY <2>1, <3>2 DEF JobsApart
  <2>2. CASE x \notin Q
    <3>1. Told(x)' = Told(x)
      BY <1>4, <2>2 DEF Told
    <3> QED
      BY <3>1 DEF EndedOnce
  <2> QED
    BY <2>1, <2>2
<1>7. NoneBehindEnd'
  <2>1. /\ DOMAIN output = 1 .. Len(output) /\ Len(output) \in Nat
        /\ DOMAIN q = 1 .. Len(q) /\ Len(q) \in Nat
        /\ DOMAIN output' = 1 .. (Len(output) + Len(q))
        /\ \A i \in 1 .. Len(output) : output'[i] = output[i]
        /\ \A i \in 1 .. Len(q) : output'[Len(output) + i] = q[i]
    BY <1>1
  <2>2. \A i \in DOMAIN output' : \/ i \in 1 .. Len(output)
                                  \/ i > Len(output) /\ output'[i] \in ToSet(q)
    <3> SUFFICES ASSUME NEW i \in DOMAIN output', i \notin 1 .. Len(output)
                 PROVE  i > Len(output) /\ output'[i] \in ToSet(q)
      OBVIOUS
    <3>1. i - Len(output) \in 1 .. Len(q) /\ i = Len(output) + (i - Len(output)) /\ i > Len(output)
      BY <2>1
    <3> QED
      BY <2>1, <3>1 DEF ToSet
  <2> SUFFICES ASSUME NEW x \in Runs, NEW i \in DOMAIN output', NEW j \in DOMAIN output',
                      output'[i] = End(x), output'[j] = Event(x)
               PROVE  j < i
    BY DEF NoneBehindEnd
  <2>3. j \in 1 .. Len(output) /\ output[j] = Event(x)
    BY <1>2, <2>1, <2>2
  <2>4. CASE i \in 1 .. Len(output)
    BY <2>1, <2>3, <2>4 DEF NoneBehindEnd
  <2>5. CASE i > Len(output)
    BY <2>1, <2>3, <2>5
  <2> QED
    BY <2>2, <2>4, <2>5
<1> QED
  BY <1>5, <1>6, <1>7

(* _report_output takes the head of the output. *)
LEMMA ReportKeepsEnds ==
  ASSUME EndInv, RuntimeTypeOK', ReportNext
  PROVE  EndInv'
<1> USE DEF EndInv
<1> DEFINE r == Head(output)[1]
<1>1. /\ output \in Seq(Items) /\ output # <<>> /\ output' = Tail(output)
      /\ UNCHANGED <<accepted, jobs, inFlight, yielded>>
  BY DEF ReportNext, RuntimeTypeOK
<1>2. r \in Runs /\ Head(output) \in {Event(r), End(r)}
  BY <1>1 DEF Items, Event, End
<1>3. reported' = IF Head(output) = Event(r)
                  THEN [reported EXCEPT ![r].events = @ + 1]
                  ELSE [reported EXCEPT ![r].ends = @ + 1]
  BY <1>2 DEF ReportNext, Event, End
<1>4. reported \in [Runs -> [events : Nat, ends : Nat]]
  BY DEF RuntimeTypeOK
<1>5. \A x \in Runs : x # r => reported'[x] = reported[x]
  BY <1>2, <1>3, <1>4
<1> HIDE DEF r
<1>6. \A x \in Runs : x # r => Head(output) \notin {Event(x), End(x)}
  BY <1>2 DEF Event, End
<1>7. \A x \in Runs :
        /\ Count(output, Event(x)) = IF Head(output) = Event(x) THEN Count(output', Event(x)) + 1
                                     ELSE Count(output', Event(x))
        /\ Count(output, End(x)) = IF Head(output) = End(x) THEN Count(output', End(x)) + 1
                                   ELSE Count(output', End(x))
  BY <1>1, CountTail
<1>8. \A x \in Runs :
        /\ Count(output, Event(x)) \in Nat /\ Count(output', Event(x)) \in Nat
        /\ Count(output, End(x)) \in Nat /\ Count(output', End(x)) \in Nat
        /\ reported[x].events \in Nat /\ reported[x].ends \in Nat
  BY <1>1, CountsAreNat, CountIsNat DEF RuntimeTypeOK
<1>9. \A x \in Runs : x # r => /\ Count(output', Event(x)) = Count(output, Event(x))
                               /\ Count(output', End(x)) = Count(output, End(x))
  BY <1>6, <1>7
<1>10. /\ DOMAIN output = 1 .. Len(output) /\ Len(output) \in Nat /\ Len(output) > 0
       /\ DOMAIN output' = 1 .. (Len(output) - 1) /\ output[1] = Head(output)
       /\ \A i \in 1 .. (Len(output) - 1) : output'[i] = output[i + 1]
  BY <1>1
<1>11. NoneBehindEnd'
  <2> SUFFICES ASSUME NEW x \in Runs, NEW i \in DOMAIN output', NEW j \in DOMAIN output',
                      output'[i] = End(x), output'[j] = Event(x)
               PROVE  j < i
    BY DEF NoneBehindEnd
  <2>1. /\ i + 1 \in DOMAIN output /\ output[i + 1] = End(x)
        /\ j + 1 \in DOMAIN output /\ output[j + 1] = Event(x)
    BY <1>10
  <2>2. j + 1 < i + 1
    BY <2>1 DEF NoneBehindEnd
  <2> QED
    BY <1>10, <2>2
<1>12. JobsApart'
  BY <1>1 DEF JobsApart, Queued
<1>13. CASE Head(output) = Event(r)
  <2>1. /\ reported'[r].events = reported[r].events + 1 /\ reported'[r].ends = reported[r].ends
        /\ Head(output) # End(r)
    BY <1>2, <1>3, <1>4, <1>13 DEF Event, End
  <2>2. EventsCount'
    <3> SUFFICES ASSUME NEW x \in Runs
                 PROVE  reported'[x].events + Count(output', Event(x)) = yielded[x]
      BY <1>1 DEF EventsCount
    <3>1. reported[x].events + Count(output, Event(x)) = yielded[x]
      BY DEF EventsCount
    <3>2. CASE x = r
      BY <1>7, <1>8, <1>13, <2>1, <3>1, <3>2
    <3>3. CASE x # r
      BY <1>5, <1>9, <3>1, <3>3
    <3> QED
      BY <3>2, <3>3
  <2>3. \A x \in Runs : Told(x)' = Told(x) /\ reported'[x].ends = reported[x].ends
    BY <1>5, <1>7, <1>9, <2>1 DEF Told
  <2>4. EndedOnce'
    BY <1>1, <2>3 DEF EndedOnce, Queued
  <2>5. NoneAfterEnd'
    <3> SUFFICES ASSUME NEW x \in Runs, reported[x].ends # 0
                 PROVE  Count(output', Event(x)) = 0
      BY <2>3 DEF NoneAfterEnd
    <3>1. Count(output, Event(x)) = 0
      BY DEF NoneAfterEnd
    <3> QED
      BY <1>7, <1>8, <3>1
  <2> QED
    BY <1>11, <1>12, <2>2, <2>4, <2>5
<1>14. CASE Head(output) = End(r)
  <2>1. /\ reported'[r].ends = reported[r].ends + 1 /\ reported'[r].events = reported[r].events
        /\ Head(output) # Event(r)
    BY <1>2, <1>3, <1>4, <1>14 DEF Event, End
  <2>2. EventsCount'
    BY <1>1, <1>5, <1>7, <1>9, <2>1 DEF EventsCount
  <2>3. \A x \in Runs : Told(x)' = Told(x)
    <3> SUFFICES ASSUME NEW x \in Runs
                 PROVE  reported'[x].ends + Count(output', End(x))
                          = reported[x].ends + Count(output, End(x))
      BY DEF Told
    <3>1. CASE x = r
      BY <1>7, <1>8, <1>14, <2>1, <3>1
    <3>2. CASE x # r
      BY <1>5, <1>9, <3>2
    <3> QED
      BY <3>1, <3>2
  <2>4. EndedOnce'
    BY <1>1, <2>3 DEF EndedOnce, Queued
  <2>5. Count(output, Event(r)) = 0
    <3>1. \A j \in DOMAIN output : output[j] # Event(r)
      <4> SUFFICES ASSUME NEW j \in DOMAIN output, output[j] = Event(r) PROVE FALSE
        OBVIOUS
      <4>1. j < 1
        BY <1>2, <1>10, <1>14 DEF NoneBehindEnd
      <4> QED
        BY <1>10, <4>1
    <3>2. Occ(output, Event(r)) = {}
      BY <3>1 DEF Occ
    <3> QED
      BY <1>1, <3>2, CountIsNat
  <2>6. NoneAfterEnd'
    <3> SUFFICES ASSUME NEW x \in Runs, reported'[x].ends # 0
                 PROVE  Count(output', Event(x)) = 0
      BY DEF NoneAfterEnd
    <3>1. Count(output, Event(x)) = 0
      BY <1>5, <2>5 DEF NoneAfterEnd
    <3> QED
      BY <1>7, <1>8, <3>1
  <2> QED
    BY <1>11, <1>12, <2>2, <2>4, <2>6
<1> QED
  BY <1>2, <1>13, <1>14

LEMMA OneEnding ==
  ASSUME EndInv, RuntimeTypeOK', NEW r \in Begun, Ends(r),
         UNCHANGED <<accepted, jobs, yielded, reported>>
  PROVE  EndInv'
<1> DEFINE q == <<End(r)>>
<1>1. r \in Runs /\ r \in inFlight /\ output \in Seq(Items)
  BY DEF Begun, EndInv, RuntimeTypeOK
<1>2. End(r) \in Items
  BY <1>1 DEF End, Items
<1>3. q \in Seq(Items) /\ IsInjective(q) /\ ToSet(q) = {End(x) : x \in {r}}
  <2>1. DOMAIN q = {1} /\ q[1] = End(r) /\ q \in Seq(Items)
    BY <1>2
  <2>2. {End(x) : x \in {r}} = {End(r)}
    OBVIOUS
  <2> HIDE DEF q
  <2> QED
    BY <2>1, <2>2 DEF IsInjective, ToSet
<1>4. output' = output \o q
  BY <1>1, <1>2, AppendIsConcat DEF Ends, End
<1>5. inFlight' \subseteq inFlight \ {r}
  BY DEF Ends
<1> HIDE DEF q
<1> QED
  BY <1>1, <1>3, <1>4, <1>5, EndingKeepsEnds

LEMMA NextEndInv == EndInv /\ [Next]_vars => EndInv'
<1> SUFFICES ASSUME EndInv, [Next]_vars PROVE EndInv'
  OBVIOUS
<1>0. RuntimeTypeOK' /\ RuntimeTypeOK
  BY NextTypeOK DEF EndInv
<1>1. ASSUME NEW r \in Runs, deliver(r) PROVE EndInv'
  <2>1. /\ ToSet(accepted)' = ToSet(accepted) \cup {r}
        /\ Queued' = Queued \cup {r}
    <3>1. accepted \in Seq(Runs) /\ jobs \in Seq(Runs)
      BY <1>0 DEF RuntimeTypeOK
    <3>2. accepted' = Append(accepted, r) /\ jobs' = Append(jobs, r)
      BY <1>1 DEF deliver
    <3>3. \A s \in Seq(Runs) : ToSet(Append(s, r)) = ToSet(s) \cup {r}
      <4> SUFFICES ASSUME NEW s \in Seq(Runs)
                   PROVE  ToSet(Append(s, r)) = ToSet(s) \cup {r}
        OBVIOUS
      <4>1. /\ DOMAIN s = 1 .. Len(s) /\ DOMAIN Append(s, r) = 1 .. (Len(s) + 1)
            /\ Len(s) \in Nat /\ Append(s, r)[Len(s) + 1] = r
            /\ \A i \in 1 .. Len(s) : Append(s, r)[i] = s[i]
        OBVIOUS
      <4> QED
        BY <4>1 DEF ToSet
    <3> QED
      BY <3>1, <3>2, <3>3 DEF Queued
  <2>2. r \notin ToSet(accepted) /\ UNCHANGED <<inFlight, yielded, output, reported>>
    BY <1>1 DEF deliver
  <2>3. JobsApart'
    BY <2>1, <2>2 DEF EndInv, JobsApart
  <2> QED
    BY <1>0, <2>1, <2>2, <2>3, QuietKeepsEnds
<1>2. CASE RunJobs
  <2>1. /\ Queued' = {} /\ inFlight' = inFlight \cup Queued
        /\ UNCHANGED <<accepted, yielded, output, reported>>
    BY <1>2 DEF RunJobs, Queued, ToSet
  <2>2. JobsApart'
    BY <2>1 DEF EndInv, JobsApart
  <2> QED
    BY <1>0, <2>1, <2>2, QuietKeepsEnds
<1>3. ASSUME inFlight' \subseteq inFlight, UNCHANGED <<accepted, jobs, yielded, output, reported>>
      PROVE  EndInv'
  <2>1. JobsApart' /\ Queued' = Queued
    BY <1>3 DEF EndInv, JobsApart, Queued
  <2> QED
    BY <1>0, <1>3, <2>1, QuietKeepsEnds
<1>4. ASSUME NEW r \in Runs, Yields(r) PROVE EndInv'
  BY <1>0, <1>4, YieldKeepsEnds
<1>5. ASSUME NEW r \in Runs, StreamEnds(r) PROVE EndInv'
  BY <1>0, <1>5, OneEnding DEF StreamEnds
<1>6. ASSUME NEW r \in Runs, cancel(r) PROVE EndInv'
  <2>1. UNCHANGED <<accepted, jobs, yielded, reported>>
    BY <1>6 DEF cancel
  <2>2. CASE r \in Begun
    BY <1>0, <1>6, <2>1, <2>2, OneEnding DEF cancel, Stops
  <2>3. CASE r \notin Begun
    BY <1>3, <1>6, <2>1, <2>3 DEF cancel, Stops
  <2> QED
    BY <2>2, <2>3
<1>7. CASE Begins \/ start \/ aclose \/ UNCHANGED vars
  BY <1>3, <1>7 DEF Begins, start, aclose, vars
<1>8. CASE ReportNext
  BY <1>0, <1>8, ReportKeepsEnds
<1>9. CASE aclose_cancel_in_flight
  <2> DEFINE Q == Begun
             E == Begun \X {"_END"}
             q == SetToSeq(E)
  <2>1. Q \subseteq inFlight /\ Q \subseteq Runs
    BY <1>0 DEF Begun, RuntimeTypeOK
  <2>2. IsFiniteSet(E)
    <3>1. IsFiniteSet(Begun) /\ IsFiniteSet({"_END"})
      BY <2>1, RuntimeAssumption, FS_Subset, FS_Singleton
    <3> QED
      BY <3>1, FS_Product
  <2>3. E \subseteq Items /\ E = {End(x) : x \in Q}
    BY <2>1 DEF Items, End
  <2> HIDE DEF E, Q
  <2>4. q \in Seq(E) /\ IsInjective(q) /\ ToSet(q) = E
    BY <2>2, SetToSeqIsExact
  <2>5. output' = output \o q /\ inFlight' = {} /\ UNCHANGED <<accepted, jobs, yielded, reported>>
    BY <1>9 DEF aclose_cancel_in_flight, E
  <2> HIDE DEF q
  <2>6. q \in Seq(Items)
    BY <2>3, <2>4
  <2> QED
    BY <1>0, <2>1, <2>3, <2>4, <2>5, <2>6, EndingKeepsEnds
<1> QED
  BY <1>1, <1>2, <1>4, <1>5, <1>6, <1>7, <1>8, <1>9 DEF Next, TaskStep

LEMMA InitEndInv == Init => EndInv
<1> SUFFICES ASSUME Init PROVE EndInv
  OBVIOUS
<1>1. RuntimeTypeOK
  BY InitTypeOK
<1>2. \A x : Count(output, x) = 0
  <2>1. \A x : Occ(output, x) = {}
    BY DEF Init, Occ
  <2> QED
    BY <2>1, FS_EmptySet DEF Count
<1>3. JobsApart
  BY DEF Init, JobsApart, Queued, ToSet
<1>4. EventsCount /\ EndedOnce /\ NoneAfterEnd
  BY <1>2 DEF Init, EventsCount, EndedOnce, NoneAfterEnd, Told
<1>5. NoneBehindEnd
  BY DEF Init, NoneBehindEnd
<1> QED
  BY <1>1, <1>3, <1>4, <1>5 DEF EndInv

(* What funduq hears of a run is in order and complete: _execute puts the end
   of a run behind its last event and once, and when _report_output has handed
   it on nothing of the run is left to report or to come, through any cancels,
   closes and restarts of the runtime. *)
THEOREM EndIsLast == Spec => []EndComesLast
<1>1. EndInv => EndComesLast
  <2> SUFFICES ASSUME EndInv, NEW r \in Runs, reported[r].ends > 0
               PROVE  /\ reported[r] = [events |-> yielded[r], ends |-> 1]
                      /\ r \notin inFlight
    BY DEF EndComesLast
  <2>1. /\ reported[r].events \in Nat /\ reported[r].ends \in Nat
        /\ Count(output, End(r)) \in Nat /\ Count(output, Event(r)) \in Nat
    BY CountsAreNat DEF EndInv
  <2>2. Told(r) # 0
    BY <2>1 DEF Told
  <2>3. Told(r) = 1 /\ r \notin inFlight
    BY <2>2 DEF EndInv, EndedOnce
  <2>4. reported[r].ends = 1
    BY <2>1, <2>3 DEF Told
  <2>5. Count(output, Event(r)) = 0
    BY <2>4 DEF EndInv, NoneAfterEnd
  <2>6. reported[r].events = yielded[r]
    <3>1. reported[r].events + Count(output, Event(r)) = yielded[r]
      BY DEF EndInv, EventsCount
    <3> QED
      BY <2>1, <2>5, <3>1
  <2>7. reported[r] \in [events : Nat, ends : Nat]
    BY DEF EndInv, RuntimeTypeOK
  <2> QED
    BY <2>3, <2>4, <2>6, <2>7
<1> QED
  BY <1>1, InitEndInv, NextEndInv, PTL DEF Spec

-----------------------------------------------------------------------------
(* The turns of a thread *)

(* x was accepted before y. *)
Before(x, y) ==
  \E i, j \in DOMAIN accepted : i < j /\ accepted[i] = x /\ accepted[j] = y
InOrder(s) == \A i, j \in DOMAIN s : i < j => Before(s[i], s[j])

(* Jobs, new tasks and the lines of the threads are in the order of acceptance;
   what has begun was accepted before what has not, and that before what waits
   to be made a task; a serialized task that has begun is in its thread's line
   until it is over. *)
LinesInOrder ==
  /\ InOrder(jobs) /\ InOrder(starting)
  /\ \A t \in Threads : InOrder(turns[t])
StagesInOrder ==
  /\ \A x \in inFlight, y \in Queued : Before(x, y)
  /\ \A x \in Begun, y \in Starting : Before(x, y)
BegunHaveTurns == \A t \in Threads : ToSet(turns[t]) = {r \in Begun : ThreadOf[r] = t}

TurnInv ==
  /\ RuntimeTypeOK /\ JobsApart
  /\ IsInjective(accepted)
  /\ Starting \subseteq inFlight
  /\ LinesInOrder
  /\ StagesInOrder
  /\ BegunHaveTurns

LEMMA BeforeIsStrict ==
  ASSUME RuntimeTypeOK, IsInjective(accepted), NEW x, NEW y, Before(x, y)
  PROVE  ~ Before(y, x) /\ x # y
<1>1. PICK i, j \in DOMAIN accepted : i < j /\ accepted[i] = x /\ accepted[j] = y
  BY DEF Before
<1>2. DOMAIN accepted \subseteq Nat
  <2>1. accepted \in Seq(Runs)
    BY DEF RuntimeTypeOK
  <2> QED
    BY <2>1
<1>3. \A k \in DOMAIN accepted : (accepted[k] = x => k = i) /\ (accepted[k] = y => k = j)
  BY <1>1 DEF IsInjective
<1>4. x # y
  BY <1>1, <1>2, <1>3
<1>5. ASSUME NEW k \in DOMAIN accepted, NEW m \in DOMAIN accepted,
             k < m, accepted[k] = y, accepted[m] = x
      PROVE  FALSE
  <2>1. k = j /\ m = i
    BY <1>3, <1>5
  <2> QED
    BY <1>1, <1>2, <1>5, <2>1
<1> QED
  BY <1>4, <1>5 DEF Before

LEMMA OrderedIsInjective ==
  ASSUME RuntimeTypeOK, IsInjective(accepted), NEW s \in Seq(Runs), InOrder(s)
  PROVE  IsInjective(s)
<1> SUFFICES ASSUME NEW i \in DOMAIN s, NEW j \in DOMAIN s, s[i] = s[j] PROVE i = j
  BY DEF IsInjective
<1>1. i \in Nat /\ j \in Nat
  OBVIOUS
<1>2. ~ (i < j)
  BY BeforeIsStrict DEF InOrder
<1>3. ~ (j < i)
  BY BeforeIsStrict DEF InOrder
<1> QED
  BY <1>1, <1>2, <1>3

LEMMA RemoveAtShifts ==
  ASSUME NEW S, NEW s \in Seq(S), NEW k \in 1 .. Len(s)
  PROVE  /\ DOMAIN RemoveAt(s, k) = 1 .. (Len(s) - 1)
         /\ \A i \in 1 .. (Len(s) - 1) :
              RemoveAt(s, k)[i] = IF i < k THEN s[i] ELSE s[i + 1]
<1> DEFINE left == SubSeq(s, 1, k - 1)
           right == SubSeq(s, k + 1, Len(s))
           w == RemoveAt(s, k)
<1>1. /\ left \in Seq(S) /\ Len(left) = k - 1
      /\ right \in Seq(S) /\ Len(right) = Len(s) - k
  OBVIOUS
<1>2. \A i \in 1 .. (k - 1) : left[i] = s[i]
  OBVIOUS
<1>3. \A i \in 1 .. (Len(s) - k) : right[i] = s[k + i]
  OBVIOUS
<1>4. w = left \o right
  BY DEF RemoveAt
<1> HIDE DEF left, right, w
<1>5. w \in Seq(S) /\ Len(w) = Len(s) - 1
  BY <1>1, <1>4
<1>6. ASSUME NEW i \in 1 .. (Len(s) - 1), i < k PROVE w[i] = s[i]
  BY <1>1, <1>2, <1>4, <1>6
<1>7. ASSUME NEW i \in 1 .. (Len(s) - 1), ~ (i < k) PROVE w[i] = s[i + 1]
  <2>1. w[i] = right[i - (k - 1)]
    BY <1>1, <1>4, <1>7
  <2>2. right[i - (k - 1)] = s[k + (i - (k - 1))]
    BY <1>3, <1>7
  <2>3. k + (i - (k - 1)) = i + 1
    BY <1>7
  <2> QED
    BY <2>1, <2>2, <2>3
<1> QED
  BY <1>5, <1>6, <1>7 DEF w

(* The elements of s stay in their order when one is taken out. *)
LEMMA WithoutKeepsOrder ==
  ASSUME NEW s \in Seq(Runs), IsInjective(s), InOrder(s), NEW r
  PROVE  ToSet(Without(s, r)) = ToSet(s) \ {r} /\ InOrder(Without(s, r))
<1>1. CASE r \notin ToSet(s)
  BY <1>1 DEF Without
<1>2. CASE r \in ToSet(s)
  <2> DEFINE k == CHOOSE i \in DOMAIN s : s[i] = r
             w == RemoveAt(s, k)
  <2>1. DOMAIN s = 1 .. Len(s) /\ Len(s) \in Nat
    OBVIOUS
  <2>2. k \in 1 .. Len(s) /\ s[k] = r
    BY <1>2, <2>1 DEF ToSet
  <2> HIDE DEF k
  <2>3. /\ DOMAIN w = 1 .. (Len(s) - 1)
        /\ \A i \in 1 .. (Len(s) - 1) : w[i] = IF i < k THEN s[i] ELSE s[i + 1]
    BY <2>1, <2>2, RemoveAtShifts
  <2> HIDE DEF w
  <2>4. ASSUME NEW i \in DOMAIN w PROVE w[i] \in ToSet(s) \ {r}
    <3>1. PICK m \in 1 .. Len(s) : w[i] = s[m] /\ m # k
      <4>1. i \in 1 .. Len(s) /\ i + 1 \in 1 .. Len(s) /\ (i < k => i # k) /\ (~ (i < k) => i + 1 # k)
        BY <2>1, <2>2, <2>3
      <4> QED
        BY <2>3, <4>1
    <3> QED
      BY <2>1, <2>2, <3>1 DEF IsInjective, ToSet
  <2>5. \A x \in ToSet(s) \ {r} : \E i \in DOMAIN w : w[i] = x
    <3> SUFFICES ASSUME NEW m \in 1 .. Len(s), s[m] # r
                 PROVE  \E i \in DOMAIN w : w[i] = s[m]
      BY <2>1 DEF ToSet
    <3>1. CASE m < k
      BY <2>1, <2>2, <2>3, <3>1
    <3>2. CASE m > k
      <4>1. m - 1 \in DOMAIN w /\ ~ (m - 1 < k) /\ (m - 1) + 1 = m
        BY <2>1, <2>2, <2>3, <3>2
      <4> QED
        BY <2>3, <4>1
    <3> QED
      BY <2>2, <3>1, <3>2
  <2>6. InOrder(w)
    <3> SUFFICES ASSUME NEW i \in DOMAIN w, NEW j \in DOMAIN w, i < j
                 PROVE  Before(w[i], w[j])
      BY DEF InOrder
    <3>1. \E a, b \in 1 .. Len(s) : a < b /\ w[i] = s[a] /\ w[j] = s[b]
      BY <2>1, <2>2, <2>3
    <3> QED
      BY <2>1, <3>1 DEF InOrder
  <2>7. ToSet(w) = ToSet(s) \ {r}
    BY <2>4, <2>5 DEF ToSet
  <2> QED
    BY <1>2, <2>6, <2>7 DEF Without, w, k
<1> QED
  BY <1>1, <1>2

(* Where nothing is accepted the order stays as it is, and otherwise grows. *)
LEMMA OrderSame ==
  ASSUME UNCHANGED accepted
  PROVE  /\ \A x, y : Before(x, y)' <=> Before(x, y)
         /\ \A s : InOrder(s)' <=> InOrder(s)
BY DEF Before, InOrder

LEMMA AppendIsLast ==
  ASSUME NEW S, NEW s \in Seq(S), NEW e \in S
  PROVE  /\ Append(s, e) \in Seq(S)
         /\ ToSet(Append(s, e)) = ToSet(s) \cup {e}
         /\ Len(s) \in Nat /\ DOMAIN s = 1 .. Len(s)
         /\ DOMAIN Append(s, e) = 1 .. (Len(s) + 1)
         /\ Append(s, e)[Len(s) + 1] = e
         /\ \A i \in 1 .. Len(s) : Append(s, e)[i] = s[i]
<1>1. /\ Append(s, e) \in Seq(S)
      /\ DOMAIN s = 1 .. Len(s) /\ DOMAIN Append(s, e) = 1 .. (Len(s) + 1)
      /\ Len(s) \in Nat /\ Append(s, e)[Len(s) + 1] = e
      /\ \A i \in 1 .. Len(s) : Append(s, e)[i] = s[i]
  OBVIOUS
<1> QED
  BY <1>1 DEF ToSet

(* A sequence that is in order stays so with a later element at its end. *)
LEMMA AppendInOrder ==
  ASSUME NEW s \in Seq(Runs), NEW r \in Runs, InOrder(s),
         \A x \in ToSet(s) : Before(x, r)
  PROVE  InOrder(Append(s, r))
<1> DEFINE w == Append(s, r)
<1>1. /\ Len(s) \in Nat /\ DOMAIN s = 1 .. Len(s) /\ DOMAIN w = 1 .. (Len(s) + 1)
      /\ w[Len(s) + 1] = r /\ \A i \in 1 .. Len(s) : w[i] = s[i]
  BY AppendIsLast
<1> HIDE DEF w
<1> SUFFICES ASSUME NEW i \in DOMAIN w, NEW j \in DOMAIN w, i < j
             PROVE  Before(w[i], w[j])
  BY DEF InOrder, w
<1>2. i \in 1 .. Len(s) /\ w[i] = s[i]
  BY <1>1
<1>3. CASE j \in 1 .. Len(s)
  BY <1>1, <1>2, <1>3 DEF InOrder
<1>4. CASE j = Len(s) + 1
  BY <1>1, <1>2, <1>4 DEF ToSet
<1> QED
  BY <1>1, <1>3, <1>4

LEMMA TailInOrder ==
  ASSUME NEW s \in Seq(Runs), s # <<>>, InOrder(s)
  PROVE  /\ InOrder(Tail(s)) /\ Head(s) \in ToSet(s)
         /\ ToSet(s) = ToSet(Tail(s)) \cup {Head(s)}
         /\ \A y \in ToSet(Tail(s)) : Before(Head(s), y)
<1> DEFINE w == Tail(s)
<1>1. /\ DOMAIN s = 1 .. Len(s) /\ Len(s) \in Nat /\ Len(s) > 0 /\ s[1] = Head(s)
      /\ DOMAIN w = 1 .. (Len(s) - 1)
      /\ \A i \in 1 .. (Len(s) - 1) : w[i] = s[i + 1]
  OBVIOUS
<1> HIDE DEF w
<1>2. \A i \in DOMAIN w : i + 1 \in DOMAIN s /\ 1 < i + 1 /\ w[i] = s[i + 1]
  BY <1>1
<1>3. InOrder(w)
  <2> SUFFICES ASSUME NEW i \in DOMAIN w, NEW j \in DOMAIN w, i < j
               PROVE  Before(w[i], w[j])
    BY DEF InOrder
  <2>1. i + 1 < j + 1
    BY <1>1
  <2> QED
    BY <1>2, <2>1 DEF InOrder
<1>4. \A y \in ToSet(w) : Before(Head(s), y)
  BY <1>1, <1>2 DEF InOrder, ToSet
<1>5. ToSet(s) = ToSet(w) \cup {Head(s)}
  <2>1. \A i \in DOMAIN s : i = 1 \/ (i - 1 \in DOMAIN w /\ (i - 1) + 1 = i)
    BY <1>1
  <2>2. ToSet(s) \subseteq ToSet(w) \cup {Head(s)}
    BY <1>1, <1>2, <2>1 DEF ToSet
  <2>3. ToSet(w) \cup {Head(s)} \subseteq ToSet(s)
    BY <1>1, <1>2 DEF ToSet
  <2> QED
    BY <2>2, <2>3
<1> QED
  BY <1>3, <1>4, <1>5 DEF w

LEMMA ConcatInOrder ==
  ASSUME NEW s \in Seq(Runs), NEW q \in Seq(Runs), InOrder(s), InOrder(q),
         \A x \in ToSet(s), y \in ToSet(q) : Before(x, y)
  PROVE  InOrder(s \o q) /\ ToSet(s \o q) = ToSet(s) \cup ToSet(q)
<1> DEFINE t == s \o q
<1>1. /\ DOMAIN s = 1 .. Len(s) /\ Len(s) \in Nat /\ DOMAIN q = 1 .. Len(q) /\ Len(q) \in Nat
      /\ DOMAIN t = 1 .. (Len(s) + Len(q))
      /\ \A i \in 1 .. Len(s) : t[i] = s[i]
      /\ \A i \in 1 .. Len(q) : t[Len(s) + i] = q[i]
  OBVIOUS
<1> HIDE DEF t
<1>2. \A i \in DOMAIN t : \/ i \in DOMAIN s /\ t[i] = s[i]
                          \/ i - Len(s) \in DOMAIN q /\ t[i] = q[i - Len(s)] /\ i > Len(s)
  <2> SUFFICES ASSUME NEW i \in DOMAIN t, i \notin 1 .. Len(s)
               PROVE  i - Len(s) \in 1 .. Len(q) /\ t[i] = q[i - Len(s)] /\ i > Len(s)
    BY <1>1
  <2>1. i - Len(s) \in 1 .. Len(q) /\ Len(s) + (i - Len(s)) = i /\ i > Len(s)
    BY <1>1
  <2> QED
    BY <1>1, <2>1
<1>3. InOrder(t)
  <2> SUFFICES ASSUME NEW i \in DOMAIN t, NEW j \in DOMAIN t, i < j
               PROVE  Before(t[i], t[j])
    BY DEF InOrder
  <2>1. CASE i \in DOMAIN s /\ j \in DOMAIN s
    BY <1>1, <2>1 DEF InOrder
  <2>2. CASE i \in DOMAIN s /\ j \notin DOMAIN s
    <3>1. t[i] \in ToSet(s) /\ t[j] \in ToSet(q)
      BY <1>1, <1>2, <2>2 DEF ToSet
    <3> QED
      BY <3>1
  <2>3. CASE i \notin DOMAIN s
    <3>1. j \notin DOMAIN s
      BY <1>1, <2>3
    <3>2. i - Len(s) < j - Len(s)
      BY <1>1
    <3> QED
      BY <1>2, <2>3, <3>1, <3>2 DEF InOrder
  <2> QED
    BY <2>1, <2>2, <2>3
<1>4. ToSet(t) \subseteq ToSet(s) \cup ToSet(q)
  BY <1>2 DEF ToSet
<1>5. ToSet(s) \cup ToSet(q) \subseteq ToSet(t)
  <2>1. \A i \in 1 .. Len(s) : i \in DOMAIN t
    BY <1>1
  <2>2. \A i \in 1 .. Len(q) : Len(s) + i \in DOMAIN t
    BY <1>1
  <2> QED
    BY <1>1, <2>1, <2>2 DEF ToSet
<1> QED
  BY <1>3, <1>4, <1>5 DEF t

(* deliver puts a run behind all that were accepted. *)
LEMMA DeliverKeepsTurns ==
  ASSUME TurnInv, RuntimeTypeOK', NEW r \in Runs, deliver(r)
  PROVE  TurnInv'
<1> USE DEF TurnInv
<1>1. /\ accepted \in Seq(Runs) /\ jobs \in Seq(Runs) /\ r \notin ToSet(accepted)
      /\ accepted' = Append(accepted, r) /\ jobs' = Append(jobs, r)
      /\ UNCHANGED <<starting, inFlight, turns>>
  BY DEF deliver, RuntimeTypeOK
<1>2. /\ Len(accepted) \in Nat /\ DOMAIN accepted = 1 .. Len(accepted)
      /\ DOMAIN accepted' = 1 .. (Len(accepted) + 1)
      /\ accepted'[Len(accepted) + 1] = r
      /\ \A i \in 1 .. Len(accepted) : accepted'[i] = accepted[i]
      /\ ToSet(accepted)' = ToSet(accepted) \cup {r}
      /\ Queued' = Queued \cup {r}
  BY <1>1, AppendIsLast DEF Queued
<1>3. IsInjective(accepted')
  <2> SUFFICES ASSUME NEW i \in DOMAIN accepted', NEW j \in DOMAIN accepted',
                      accepted'[i] = accepted'[j]
               PROVE  i = j
    BY DEF IsInjective
  <2>1. \A k \in 1 .. Len(accepted) : accepted[k] # r
    BY <1>1, <1>2 DEF ToSet
  <2>2. CASE i \in 1 .. Len(accepted)
    BY <1>2, <2>1, <2>2 DEF IsInjective
  <2>3. CASE i = Len(accepted) + 1
    BY <1>2, <2>1, <2>3
  <2> QED
    BY <1>2, <2>2, <2>3
<1>4. ASSUME NEW x, NEW y, Before(x, y) PROVE Before(x, y)'
  <2>1. PICK i, j \in DOMAIN accepted : i < j /\ accepted[i] = x /\ accepted[j] = y
    BY <1>4 DEF Before
  <2> QED
    BY <1>2, <2>1 DEF Before
<1>5. ASSUME NEW x \in ToSet(accepted) PROVE Before(x, r)'
  <2>1. PICK i \in 1 .. Len(accepted) : accepted[i] = x
    BY <1>2 DEF ToSet
  <2>2. i < Len(accepted) + 1 /\ i \in DOMAIN accepted' /\ Len(accepted) + 1 \in DOMAIN accepted'
    BY <1>2
  <2> QED
    BY <1>2, <2>1, <2>2 DEF Before
<1>6. \A s : InOrder(s) => InOrder(s)'
  BY <1>4 DEF InOrder
<1>7. JobsApart' /\ Starting' = Starting /\ Begun' = Begun
  BY <1>1, <1>2 DEF JobsApart, Starting, Begun
<1>8. LinesInOrder'
  <2>1. \A i \in DOMAIN jobs : jobs[i] \in ToSet(accepted)
    BY DEF JobsApart, Queued, ToSet
  <2>2. /\ Len(jobs) \in Nat /\ DOMAIN jobs = 1 .. Len(jobs)
        /\ DOMAIN jobs' = 1 .. (Len(jobs) + 1) /\ jobs'[Len(jobs) + 1] = r
        /\ \A i \in 1 .. Len(jobs) : jobs'[i] = jobs[i]
    BY <1>1, AppendIsLast
  <2>3. InOrder(jobs)'
    <3> SUFFICES ASSUME NEW i \in DOMAIN jobs', NEW j \in DOMAIN jobs', i < j,
                        NEW x, x = jobs'[i], NEW y, y = jobs'[j]
                 PROVE  Before(x, y)'
      BY DEF InOrder, Before
    <3>1. i \in 1 .. Len(jobs)
      BY <2>2
    <3>2. CASE j \in 1 .. Len(jobs)
      <4>1. Before(jobs[i], jobs[j])
        BY <2>2, <3>1, <3>2 DEF LinesInOrder, InOrder
      <4> QED
        BY <1>4, <2>2, <3>1, <3>2, <4>1
    <3>3. CASE j = Len(jobs) + 1
      BY <1>5, <2>1, <2>2, <3>1, <3>3
    <3> QED
      BY <2>2, <3>2, <3>3
  <2>4. InOrder(starting)' /\ \A t \in Threads : InOrder(turns[t])'
    BY <1>1, <1>6 DEF LinesInOrder, InOrder
  <2> QED
    BY <1>1, <2>3, <2>4 DEF LinesInOrder, InOrder
<1>9. StagesInOrder'
  <2>1. \A x \in inFlight, y \in Queued \cup {r} : Before(x, y)'
    BY <1>4, <1>5 DEF StagesInOrder, JobsApart
  <2>2. \A x \in Begun, y \in Starting : Before(x, y)'
    BY <1>4 DEF StagesInOrder
  <2> QED
    BY <1>1, <1>2, <1>7, <2>1, <2>2 DEF StagesInOrder
<1>10. BegunHaveTurns'
  BY <1>1, <1>7 DEF BegunHaveTurns
<1> QED
  BY <1>1, <1>3, <1>7, <1>8, <1>9, <1>10

(* Every job becomes a task, behind those that have yet to begin. *)
LEMMA RunJobsKeepTurns ==
  ASSUME TurnInv, RuntimeTypeOK', RunJobs
  PROVE  TurnInv'
<1> USE DEF TurnInv
<1>1. /\ accepted' = accepted /\ jobs' = <<>> /\ starting' = starting \o jobs
      /\ inFlight' = inFlight \cup Queued /\ UNCHANGED turns
      /\ starting \in Seq(Runs) /\ jobs \in Seq(Runs)
  BY DEF RunJobs, RuntimeTypeOK
<1>2. /\ \A x, y : Before(x, y)' <=> Before(x, y)
      /\ \A s : InOrder(s)' <=> InOrder(s)
  BY <1>1, OrderSame
<1>3. \A x \in ToSet(starting), y \in ToSet(jobs) : Before(x, y)
  BY DEF StagesInOrder, Starting, Queued
<1>4. InOrder(starting \o jobs) /\ ToSet(starting \o jobs) = ToSet(starting) \cup ToSet(jobs)
  BY <1>1, <1>3, ConcatInOrder DEF LinesInOrder
<1>5. Starting' = Starting \cup Queued /\ Queued' = {}
  <2>1. ToSet(<<>>) = {}
    BY DEF ToSet
  <2> QED
    BY <1>1, <1>4, <2>1 DEF Starting, Queued
<1>6. Begun' = Begun
  BY <1>1, <1>5 DEF Begun, JobsApart
<1>7. JobsApart' /\ Starting' \subseteq inFlight'
  BY <1>1, <1>5 DEF JobsApart
<1>8. InOrder(<<>>)
  BY DEF InOrder
<1>9. LinesInOrder'
  <2>1. InOrder(jobs)'
    BY <1>1, <1>8 DEF InOrder
  <2>2. InOrder(starting)'
    BY <1>1, <1>2, <1>4 DEF InOrder, Before
  <2>3. \A t \in Threads : InOrder(turns[t])'
    BY <1>1 DEF LinesInOrder, InOrder, Before
  <2> QED
    BY <2>1, <2>2, <2>3 DEF LinesInOrder
<1>10. StagesInOrder'
  <2>1. Begun \subseteq inFlight
    BY DEF Begun
  <2> QED
    BY <1>2, <1>5, <1>6, <2>1 DEF StagesInOrder
<1>11. BegunHaveTurns'
  BY <1>1, <1>6 DEF BegunHaveTurns
<1> QED
  BY <1>1, <1>7, <1>9, <1>10, <1>11

(* A task begins: it was created before the others, and joins the line of its
   thread behind those that began before it. *)
LEMMA BeginsKeepsTurns ==
  ASSUME TurnInv, RuntimeTypeOK', Begins
  PROVE  TurnInv'
<1> USE DEF TurnInv
<1> DEFINE r == Head(starting)
<1>1. /\ starting \in Seq(Runs) /\ starting # <<>> /\ starting' = Tail(starting)
      /\ UNCHANGED <<accepted, jobs, inFlight>> /\ Enters(r)
  BY DEF Begins, RuntimeTypeOK
<1>2. /\ InOrder(starting') /\ r \in Starting
      /\ Starting = Starting' \cup {r}
      /\ \A y \in Starting' : Before(r, y)
  BY <1>1, TailInOrder DEF LinesInOrder, Starting
<1>3. r \notin Starting'
  BY <1>2, BeforeIsStrict
<1>4. r \in Runs /\ r \in inFlight
  BY <1>1, <1>2
<1> HIDE DEF r
<1>5. Begun' = Begun \cup {r} /\ r \notin Begun
  BY <1>1, <1>2, <1>3, <1>4 DEF Begun
<1>6. /\ \A x, y : Before(x, y)' <=> Before(x, y)
      /\ \A s : InOrder(s)' <=> InOrder(s)
  BY <1>1, OrderSame
<1>7. JobsApart' /\ Queued' = Queued /\ (Starting \subseteq inFlight)'
  BY <1>1, <1>2 DEF JobsApart, Queued
<1>8. StagesInOrder'
  BY <1>1, <1>2, <1>5, <1>6, <1>7 DEF StagesInOrder
<1>9. ASSUME NEW t \in Threads
      PROVE  /\ InOrder(turns'[t])
             /\ ToSet(turns'[t]) = {x \in Begun' : ThreadOf[x] = t}
  <2>1. turns \in [Threads -> Seq(Runs)] /\ turns[t] \in Seq(Runs)
    BY DEF RuntimeTypeOK
  <2>2. ToSet(turns[t]) = {x \in Begun : ThreadOf[x] = t} /\ InOrder(turns[t])
    BY DEF BegunHaveTurns, LinesInOrder
  <2>3. CASE ThreadOf[r] = t
    <3>1. turns'[t] = Append(turns[t], r)
      BY <1>1, <2>1, <2>3, RuntimeAssumption DEF Enters
    <3>2. \A x \in ToSet(turns[t]) : Before(x, r)
      BY <1>2, <2>2 DEF StagesInOrder
    <3>3. InOrder(turns'[t])
      BY <1>4, <2>1, <2>2, <3>1, <3>2, AppendInOrder
    <3>4. ToSet(turns'[t]) = ToSet(turns[t]) \cup {r}
      BY <1>4, <2>1, <3>1, AppendIsLast
    <3> QED
      BY <1>5, <2>2, <2>3, <3>3, <3>4
  <2>4. CASE ThreadOf[r] # t
    <3>1. turns'[t] = turns[t]
      BY <1>1, <2>1, <2>4 DEF Enters
    <3> QED
      BY <1>5, <2>2, <2>4, <3>1
  <2> QED
    BY <2>3, <2>4
<1>10. LinesInOrder' /\ BegunHaveTurns'
  <2>1. InOrder(jobs') /\ InOrder(starting')
    BY <1>1, <1>2 DEF LinesInOrder
  <2> QED
    BY <1>1, <1>9, <2>1 DEF LinesInOrder, BegunHaveTurns, InOrder, Before
<1> QED
  BY <1>1, <1>7, <1>8, <1>10

(* A task ends, or stops where it waits: it leaves the line of its thread. *)
LEMMA LeavingKeepsTurns ==
  ASSUME TurnInv, RuntimeTypeOK', NEW r \in Begun, Leaves(r),
         inFlight' = inFlight \ {r}, UNCHANGED <<accepted, jobs, starting>>
  PROVE  TurnInv'
<1> USE DEF TurnInv
<1>1. r \in Runs /\ r \notin Starting
  BY DEF Begun, RuntimeTypeOK
<1>2. Queued' = Queued /\ Starting' = Starting /\ Begun' = Begun \ {r}
  BY <1>1 DEF Queued, Starting, Begun
<1>3. JobsApart' /\ (Starting \subseteq inFlight)'
  BY <1>1, <1>2 DEF JobsApart
<1>4. StagesInOrder'
  BY <1>2, OrderSame DEF StagesInOrder
<1>5. ASSUME NEW t \in Threads
      PROVE  /\ InOrder(turns'[t])
             /\ ToSet(turns'[t]) = {x \in Begun' : ThreadOf[x] = t}
  <2>1. turns \in [Threads -> Seq(Runs)] /\ turns[t] \in Seq(Runs)
    BY DEF RuntimeTypeOK
  <2>2. ToSet(turns[t]) = {x \in Begun : ThreadOf[x] = t} /\ InOrder(turns[t])
    BY DEF BegunHaveTurns, LinesInOrder
  <2>3. CASE ThreadOf[r] = t
    <3>1. turns'[t] = Without(turns[t], r)
      BY <2>1, <2>3, RuntimeAssumption DEF Leaves
    <3>2. IsInjective(turns[t])
      BY <2>1, <2>2, OrderedIsInjective
    <3>3. InOrder(turns'[t]) /\ ToSet(turns'[t]) = ToSet(turns[t]) \ {r}
      BY <2>1, <2>2, <3>1, <3>2, WithoutKeepsOrder
    <3> QED
      BY <1>2, <2>2, <2>3, <3>3
  <2>4. CASE ThreadOf[r] # t
    <3>1. turns'[t] = turns[t]
      BY <2>1, <2>4 DEF Leaves
    <3> QED
      BY <1>2, <2>2, <2>4, <3>1
  <2> QED
    BY <2>3, <2>4
<1>6. LinesInOrder' /\ BegunHaveTurns'
  <2>1. InOrder(jobs') /\ InOrder(starting')
    BY DEF LinesInOrder
  <2> QED
    BY <1>5, <2>1 DEF LinesInOrder, BegunHaveTurns, InOrder, Before
<1> QED
  BY <1>3, <1>4, <1>6

(* A task that has not begun goes without a trace. *)
LEMMA EarlyStopKeepsTurns ==
  ASSUME TurnInv, RuntimeTypeOK', NEW r \in inFlight \ Begun,
         starting' = Without(starting, r), inFlight' = inFlight \ {r},
         UNCHANGED <<accepted, jobs, turns>>
  PROVE  TurnInv'
<1> USE DEF TurnInv
<1>1. starting \in Seq(Runs) /\ InOrder(starting)
  BY DEF RuntimeTypeOK, LinesInOrder
<1>2. IsInjective(starting)
  BY <1>1, OrderedIsInjective
<1>3. InOrder(starting') /\ Starting' = Starting \ {r}
  BY <1>1, <1>2, WithoutKeepsOrder DEF Starting
<1>4. Queued' = Queued /\ Begun' = Begun
  BY <1>3 DEF Queued, Begun
<1>5. JobsApart' /\ (Starting \subseteq inFlight)'
  BY <1>3, <1>4 DEF JobsApart
<1>6. StagesInOrder'
  BY <1>3, <1>4, OrderSame DEF StagesInOrder
<1>7. LinesInOrder' /\ BegunHaveTurns'
  BY <1>3, <1>4 DEF LinesInOrder, BegunHaveTurns, InOrder, Before
<1> QED
  BY <1>5, <1>6, <1>7

LEMMA NextTurnInv == TurnInv /\ [Next]_vars => TurnInv'
<1> SUFFICES ASSUME TurnInv, [Next]_vars PROVE TurnInv'
  OBVIOUS
<1>0. RuntimeTypeOK'
  BY NextTypeOK DEF TurnInv
<1>1. ASSUME NEW r \in Runs, deliver(r) PROVE TurnInv'
  BY <1>0, <1>1, DeliverKeepsTurns
<1>2. CASE RunJobs
  BY <1>0, <1>2, RunJobsKeepTurns
<1>3. CASE Begins
  BY <1>0, <1>3, BeginsKeepsTurns
<1>4. ASSUME NEW r \in Runs, StreamEnds(r) PROVE TurnInv'
  BY <1>0, <1>4, LeavingKeepsTurns DEF StreamEnds, Ends
<1>5. ASSUME NEW r \in Runs, cancel(r) PROVE TurnInv'
  <2>1. CASE r \in Begun
    BY <1>0, <1>5, <2>1, LeavingKeepsTurns DEF cancel, Stops, Ends
  <2>2. CASE r \notin Begun
    <3>1. r \in inFlight
      BY <1>5, <2>2 DEF cancel
    <3> QED
      BY <1>0, <1>5, <2>2, <3>1, EarlyStopKeepsTurns DEF cancel, Stops
  <2> QED
    BY <2>1, <2>2
<1>6. ASSUME UNCHANGED <<accepted, jobs, starting, inFlight, turns>> PROVE TurnInv'
  <2>1. JobsApart' /\ (Starting \subseteq inFlight)' /\ IsInjective(accepted)'
    BY <1>6 DEF TurnInv, JobsApart, Queued, Starting
  <2>2. LinesInOrder' /\ StagesInOrder' /\ BegunHaveTurns'
    BY <1>6 DEF TurnInv, LinesInOrder, StagesInOrder, BegunHaveTurns, InOrder, Before,
                Begun, Queued, Starting
  <2> QED
    BY <1>0, <2>1, <2>2 DEF TurnInv
<1>7. ASSUME NEW r \in Runs, Yields(r) PROVE TurnInv'
  BY <1>6, <1>7 DEF Yields
<1>8. CASE ReportNext \/ start \/ aclose \/ UNCHANGED vars
  BY <1>6, <1>8 DEF ReportNext, start, aclose, vars
<1>9. CASE aclose_cancel_in_flight
  <2>1. /\ inFlight' = {} /\ starting' = <<>> /\ turns' = [t \in Threads |-> <<>>]
        /\ UNCHANGED <<accepted, jobs>>
    BY <1>9 DEF aclose_cancel_in_flight
  <2>2. Starting' = {} /\ Begun' = {} /\ Queued' = Queued /\ ToSet(<<>>) = {}
    BY <2>1 DEF Starting, Begun, Queued, ToSet
  <2>3. JobsApart' /\ (Starting \subseteq inFlight)' /\ IsInjective(accepted)'
    BY <2>1, <2>2 DEF TurnInv, JobsApart
  <2>4. StagesInOrder' /\ BegunHaveTurns'
    BY <2>1, <2>2 DEF StagesInOrder, BegunHaveTurns
  <2>5. LinesInOrder'
    <3>1. InOrder(jobs')
      BY <2>1 DEF TurnInv, LinesInOrder
    <3> QED
      BY <2>1, <3>1 DEF LinesInOrder, InOrder, Before
  <2> QED
    BY <1>0, <2>3, <2>4, <2>5 DEF TurnInv
<1> QED
  BY <1>1, <1>2, <1>3, <1>4, <1>5, <1>7, <1>8, <1>9 DEF Next, TaskStep

LEMMA InitTurnInv == Init => TurnInv
<1> SUFFICES ASSUME Init PROVE TurnInv
  OBVIOUS
<1>1. RuntimeTypeOK
  BY InitTypeOK
<1>2. ToSet(<<>>) = {} /\ IsInjective(<<>>) /\ InOrder(<<>>)
  BY DEF ToSet, IsInjective, InOrder
<1>3. Queued = {} /\ Starting = {} /\ inFlight = {} /\ Begun = {}
  BY <1>2 DEF Init, Queued, Starting, Begun
<1>4. JobsApart /\ StagesInOrder /\ BegunHaveTurns
  BY <1>2, <1>3 DEF Init, JobsApart, StagesInOrder, BegunHaveTurns
<1>5. LinesInOrder /\ IsInjective(accepted)
  BY <1>2 DEF Init, LinesInOrder
<1> QED
  BY <1>1, <1>3, <1>4, <1>5 DEF TurnInv

(* serialize_per_thread: through cancels of runs that wait, stop or have yet to
   begin, closes and restarts, a run of a thread has the thread's lock only
   when every run of it that deliver() accepted earlier is over: it is neither
   a job that waits, nor a task. *)
THEOREM TurnsAreInOrder == Spec => []TurnsInOrder
<1>1. TurnInv => TurnsInOrder
  <2> SUFFICES ASSUME TurnInv, NEW i \in DOMAIN accepted, NEW j \in DOMAIN accepted,
                      NEW earlier, earlier = accepted[i], NEW later, later = accepted[j],
                      i < j, ThreadOf[earlier] = ThreadOf[later], ThreadOf[later] # None,
                      later \in Begun, HasTurn(later)
               PROVE  Over(earlier)
    BY DEF TurnsInOrder
  <2>1. Before(earlier, later)
    BY DEF Before
  <2>2. ~ Before(later, earlier) /\ earlier # later
    BY <2>1, BeforeIsStrict DEF TurnInv
  <2>3. earlier \notin Queued
    BY <2>2 DEF TurnInv, StagesInOrder, Begun
  <2>4. earlier \notin Starting
    BY <2>2 DEF TurnInv, StagesInOrder
  <2>5. earlier \notin Begun
    <3> DEFINE q == turns[ThreadOf[later]]
    <3>1. later \in Runs /\ ThreadOf[later] \in Threads
      BY RuntimeAssumption DEF TurnInv, Begun, RuntimeTypeOK
    <3>2. q \in Seq(Runs) /\ InOrder(q) /\ ToSet(q) = {x \in Begun : ThreadOf[x] = ThreadOf[later]}
      BY <3>1 DEF TurnInv, RuntimeTypeOK, LinesInOrder, BegunHaveTurns
    <3>3. later = Head(q)
      BY DEF HasTurn
    <3> HIDE DEF q
    <3>4. q # <<>>
      BY <3>2 DEF ToSet
    <3>5. ToSet(q) = ToSet(Tail(q)) \cup {later}
          /\ \A y \in ToSet(Tail(q)) : Before(later, y)
      BY <3>2, <3>3, <3>4, TailInOrder
    <3> QED
      BY <2>2, <3>2, <3>5
  <2>6. earlier \in ToSet(accepted)
    BY DEF ToSet
  <2> QED
    BY <2>3, <2>4, <2>5, <2>6 DEF Over, Begun
<1> QED
  BY <1>1, InitTurnInv, NextTurnInv, PTL DEF Spec

=============================================================================
