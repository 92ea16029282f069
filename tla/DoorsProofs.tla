---------------------------- MODULE DoorsProofs ----------------------------
(* What the doors keep to for any requests, threads, keys, callers and limit, *)
(* with every step of every request interleaved, and each of them able to     *)
(* stop halfway.                                                              *)
EXTENDS Doors, IdentityProofs, FiniteSetTheorems

-----------------------------------------------------------------------------
(* Type correctness *)

Steps == {"idle"} \cup Waiting \cup Ended
WithThread == {"arrived", "ensured", "saw", "counted"}
WithRun == {"saw", "stored", "committed", "streaming"}

Requested == [step : Steps, kind : {"utterance", "answer", "late"}, thread : Threads \cup {None},
              head : Keys \cup {None}, run : Requests \cup {None}, ask : 0 .. MaxAsks]

(* A request under way knows its thread, one with a run knows its run. *)
Knows(m) ==
  /\ m \in Requested
  /\ m.step \in WithThread => m.thread \in Threads
  /\ m.step \in WithRun => m.run \in Requests

RequestsOK == req \in [Requests -> Requested] /\ \A q \in Requests : Knows(req[q])

RowsOK ==
  /\ lock \in [Threads -> Requests \cup {None}]
  /\ threads \in [Threads -> Keys \cup {None, "absent"}]
  /\ status \in [Requests -> Statuses]
  /\ row \in [Requests -> [thread : Threads \cup {None}, head : Keys \cup {None}, late : BOOLEAN]]
  /\ asks \in [Requests -> 0 .. MaxAsks]
  /\ log \in [Requests -> Seq({"prompt", "reply"})]
  /\ folding \subseteq Requests /\ tracked \subseteq Requests

TypeInv == RowsOK /\ RequestsOK

LEMMA TypeInvSuffices == TypeInv => DoorsTypeOK
BY DEF TypeInv, RowsOK, RequestsOK, DoorsTypeOK, Knows, Requested, Steps

LEMMA AtKnows ==
  ASSUME NEW step \in Steps, step \notin WithThread \cup WithRun
  PROVE  Knows(At(step))
BY DoorsAssumption DEF At, Knows, Requested

LEMMA StepKnows ==
  ASSUME NEW m, Knows(m), NEW step \in Steps,
         step \in WithThread => m.thread \in Threads,
         step \in WithRun => m.run \in Requests
  PROVE  Knows([m EXCEPT !.step = step])
BY DEF Knows, Requested

LEMMA RunKnows ==
  ASSUME NEW m, Knows(m), NEW step \in Steps, NEW run \in Requests, NEW ask \in 0 .. MaxAsks,
         step \in WithThread => m.thread \in Threads
  PROVE  Knows([m EXCEPT !.step = step, !.run = run, !.ask = ask])
BY DEF Knows, Requested

LEMMA KindKnows ==
  ASSUME NEW m, Knows(m), NEW kind \in {"utterance", "answer", "late"}
  PROVE  Knows([m EXCEPT !.kind = kind])
BY DEF Knows, Requested

LEMMA OneKnows ==
  ASSUME RequestsOK, NEW q \in Requests, NEW m, Knows(m), req' = [req EXCEPT ![q] = m]
  PROVE  RequestsOK'
BY DEF RequestsOK, Knows

LEMMA EndsKnows ==
  ASSUME RequestsOK, NEW q \in Requests, NEW step \in Ended, Ends(q, step)
  PROVE  RequestsOK'
<1>1. Knows(At(step))
  BY AtKnows DEF Steps, Ended, WithThread, WithRun
<1> QED
  BY <1>1, OneKnows DEF Ends

LEMMA GoesKnows ==
  ASSUME RequestsOK, NEW q \in Requests, NEW step \in Steps,
         step \in WithThread => req[q].thread \in Threads,
         step \in WithRun => req[q].run \in Requests,
         Goes(q, step)
  PROVE  RequestsOK'
<1>1. Knows([req[q] EXCEPT !.step = step])
  BY StepKnows DEF RequestsOK
<1>2. req' = [req EXCEPT ![q] = [req[q] EXCEPT !.step = step]]
  BY DEF Goes
<1> HIDE DEF Goes
<1> QED
  BY <1>1, <1>2, OneKnows

LEMMA InitTypeInv == Init => TypeInv
<1> SUFFICES ASSUME Init PROVE TypeInv
  OBVIOUS
<1>1. RowsOK
  BY DoorsAssumption DEF Init, RowsOK, Statuses
<1>2. Knows(At("idle"))
  BY AtKnows DEF Steps, WithThread, WithRun
<1>3. RequestsOK
  BY <1>2 DEF Init, RequestsOK, Knows
<1> QED
  BY <1>1, <1>3 DEF TypeInv

LEMMA CommitTypeOK ==
  ASSUME TypeInv, NEW q \in Requests, Commit(q)
  PROVE  /\ lock' \in [Threads -> Requests \cup {None}]
         /\ threads' \in [Threads -> Keys \cup {None, "absent"}]
<1>1. req[q].head \in Keys \cup {None}
  BY DEF TypeInv, RequestsOK, Requested
<1> QED
  BY <1>1 DEF TypeInv, RowsOK, Commit, Unlocked

LEMMA UnlockedTypeOK ==
  ASSUME RowsOK, NEW q \in Requests
  PROVE  Unlocked(q) \in [Threads -> Requests \cup {None}]
BY DEF RowsOK, Unlocked

LEMMA NextRowsOK == TypeInv /\ [Next]_vars => RowsOK'
<1> SUFFICES ASSUME TypeInv, [Next]_vars PROVE RowsOK'
  OBVIOUS
<1> USE DEF TypeInv, RowsOK
<1>1. ASSUME NEW q \in Requests, NEW kind \in {"utterance", "answer"}, NEW t \in Threads,
             NEW c \in Callers, NEW r \in Requests \cup {None}, Arrives(q, kind, t, c, r)
      PROVE  RowsOK'
  BY <1>1 DEF Arrives
<1>2. ASSUME NEW q \in Requests, NEW r \in Requests, resubscribe_task(q, r) PROVE RowsOK'
  BY <1>2 DEF resubscribe_task
<1>3. ASSUME NEW q \in Requests, TurnedAway(q) PROVE RowsOK'
  BY <1>3 DEF TurnedAway
<1>4. ASSUME NEW q \in Requests, ensure_thread(q) PROVE RowsOK'
  BY <1>4 DEF ensure_thread
<1>5. ASSUME NEW q \in Requests, Looks(q) PROVE RowsOK'
  BY <1>5, UnlockedTypeOK DEF Looks, Saw, Refused, Snapshot
<1>6. ASSUME NEW q \in Requests, reopen_run(q) PROVE RowsOK'
  BY <1>6, CommitTypeOK DEF reopen_run, Statuses
<1>7. ASSUME NEW q \in Requests, ensure_queue_room(q) PROVE RowsOK'
  BY <1>7, UnlockedTypeOK DEF ensure_queue_room, Refused
<1>8. ASSUME NEW q \in Requests, create_run(q) PROVE RowsOK'
  <2>1. NewRow(q) \in [thread : Threads \cup {None}, head : Keys \cup {None}, late : BOOLEAN]
    BY DEF RequestsOK, Requested, NewRow
  <2> QED
    BY <1>8, <2>1, CommitTypeOK DEF create_run, Statuses
<1>9. ASSUME NEW q \in Requests, StoresMessages(q) PROVE RowsOK'
  <2>1. req[q].run \in Requests
    BY <1>9 DEF StoresMessages, RequestsOK, Knows, WithRun
  <2>2. Append(log[req[q].run], "prompt") \in Seq({"prompt", "reply"})
    BY <2>1
  <2> QED
    BY <1>9, <2>1, <2>2 DEF StoresMessages, Statuses
<1>10. ASSUME NEW q \in Requests, Enqueues(q) PROVE RowsOK'
  BY <1>10 DEF Enqueues, RequestsOK, Knows, WithRun
<1>11. ASSUME NEW q \in Requests, Abandoned(q) PROVE RowsOK'
  BY <1>11, UnlockedTypeOK DEF Abandoned, Refused
<1>12. ASSUME NEW q \in Requests, Leaves(q) PROVE RowsOK'
  BY <1>12 DEF Leaves
<1>13. ASSUME NEW r \in Requests, Claimed(r) PROVE RowsOK'
  BY <1>13 DEF Claimed, Statuses
<1>14. ASSUME NEW r \in Requests, NEW s \in {"completed", "input-required", "failed"}, Settles(r, s)
       PROVE  RowsOK'
  BY <1>14, DoorsAssumption DEF Settles, Statuses
<1>15. ASSUME NEW r \in Requests, Folds(r) PROVE RowsOK'
  <2>1. Append(log[r], "reply") \in Seq({"prompt", "reply"})
    OBVIOUS
  <2> QED
    BY <1>15, <2>1 DEF Folds
<1>16. ASSUME NEW r \in Requests, EndsStream(r) PROVE RowsOK'
  BY <1>16 DEF EndsStream
<1>17. ASSUME NEW r \in Requests, FailsStale(r) PROVE RowsOK'
  BY <1>17 DEF FailsStale, Statuses
<1>18. CASE UNCHANGED vars
  BY <1>18 DEF vars
<1> QED
  BY <1>1, <1>2, <1>3, <1>4, <1>5, <1>6, <1>7, <1>8, <1>9, <1>10, <1>11, <1>12, <1>13, <1>14,
     <1>15, <1>16, <1>17, <1>18 DEF Next, RequestStep, BrokerStep

LEMMA NextRequestsOK == TypeInv /\ [Next]_vars => RequestsOK'
<1> SUFFICES ASSUME TypeInv, [Next]_vars PROVE RequestsOK'
  OBVIOUS
<1> USE DEF TypeInv
<1>0. \A q \in Requests :
        /\ req[q] \in Requested /\ Knows(req[q])
        /\ req[q].step \in WithThread => req[q].thread \in Threads
        /\ req[q].step \in WithRun => req[q].run \in Requests
  BY DEF RequestsOK, Knows
<1>1. ASSUME NEW q \in Requests, NEW kind \in {"utterance", "answer"}, NEW t \in Threads,
             NEW c \in Callers, NEW r \in Requests \cup {None}, Arrives(q, kind, t, c, r)
      PROVE  RequestsOK'
  <2>1. CASE Admits(c.chain, c.delegation)
    <3> DEFINE m == [step |-> "arrived", kind |-> kind, thread |-> t,
                     head |-> EffectiveHead(c.chain, c.delegation), run |-> r, ask |-> 0]
    <3>1. Knows(m)
      BY <2>1, DoorsAssumption DEF Knows, Requested, Steps, Waiting, WithRun
    <3> QED
      BY <1>1, <2>1, <3>1, OneKnows DEF Arrives
  <2>2. CASE ~Admits(c.chain, c.delegation)
    BY <1>1, <2>2, EndsKnows DEF Arrives, Ended
  <2> QED
    BY <2>1, <2>2
<1>2. ASSUME NEW q \in Requests, NEW r \in Requests, resubscribe_task(q, r) PROVE RequestsOK'
  <2>1. Knows(At("answered"))
    BY AtKnows DEF Steps, Ended, WithThread, WithRun
  <2>2. Knows([At("streaming") EXCEPT !.run = r])
    BY DoorsAssumption DEF At, Knows, Requested, Steps, Waiting, WithThread
  <2> QED
    BY <1>2, <2>1, <2>2, OneKnows DEF resubscribe_task
<1>3. ASSUME NEW q \in Requests, TurnedAway(q) PROVE RequestsOK'
  BY <1>3, EndsKnows DEF TurnedAway, Ended
<1>4. ASSUME NEW q \in Requests, ensure_thread(q) PROVE RequestsOK'
  BY <1>0, <1>4, EndsKnows, GoesKnows
     DEF ensure_thread, Ended, Steps, Waiting, WithThread, WithRun
<1>5. ASSUME NEW q \in Requests, Looks(q) PROVE RequestsOK'
  <2>1. req[q].thread \in Threads
    BY <1>0, <1>5 DEF Looks, WithThread
  <2>2. ASSUME NEW r \in Requests, Saw(q, r) PROVE RequestsOK'
    <3> DEFINE m == [req[q] EXCEPT !.step = "saw", !.run = r, !.ask = asks[r]]
    <3>1. Knows(m)
      BY <1>0, <2>1, RunKnows DEF RowsOK, Steps, Waiting
    <3>2. req' = [req EXCEPT ![q] = m]
      BY <2>2 DEF Saw
    <3> HIDE DEF m
    <3> QED
      BY <3>1, <3>2, OneKnows
  <2>3. ASSUME req' = [req EXCEPT ![q].kind = "utterance"] PROVE RequestsOK'
    <3> DEFINE m == [req[q] EXCEPT !.kind = "utterance"]
    <3>1. Knows(m)
      BY <1>0 DEF Knows, Requested
    <3>2. req' = [req EXCEPT ![q] = m]
      BY <2>3
    <3> HIDE DEF m
    <3> QED
      BY <3>1, <3>2, OneKnows
  <2>4. ASSUME Ends(q, "refused") \/ Ends(q, "answered") PROVE RequestsOK'
    BY <2>4, EndsKnows DEF Ended
  <2> QED
    BY <1>5, <2>2, <2>3, <2>4 DEF Looks, Refused, Snapshot, Paused, OnThread
<1>6. ASSUME NEW q \in Requests, reopen_run(q) PROVE RequestsOK'
  <2>0. Knows(req[q]) /\ 0 \in 0 .. MaxAsks /\ "stored" \in Steps /\ "ensured" \in Steps
    BY <1>0, DoorsAssumption DEF Steps, Waiting
  <2>1. req[q].thread \in Threads /\ req[q].run \in Requests
    BY <1>0, <1>6 DEF reopen_run, WithThread, WithRun
  <2>2. ASSUME req' = [req EXCEPT ![q].step = "stored", ![q].ask = 0] PROVE RequestsOK'
    <3> DEFINE m == [req[q] EXCEPT !.step = "stored", !.run = req[q].run, !.ask = 0]
    <3>1. Knows(m)
      BY <2>0, <2>1, RunKnows
    <3>2. req' = [req EXCEPT ![q] = m]
      BY <1>0, <2>2 DEF Requested
    <3> HIDE DEF m
    <3> QED
      BY <3>1, <3>2, OneKnows
  <2>3. ASSUME req' = [req EXCEPT ![q].step = "ensured", ![q].kind = "late", ![q].ask = 0]
        PROVE  RequestsOK'
    <3> DEFINE n == [req[q] EXCEPT !.step = "ensured", !.run = req[q].run, !.ask = 0]
               m == [n EXCEPT !.kind = "late"]
    <3>1. Knows(n)
      BY <2>0, <2>1, RunKnows
    <3>2. n = [req[q] EXCEPT !.step = "ensured", !.ask = 0]
      BY <1>0 DEF Requested
    <3>3. req' = [req EXCEPT ![q] = [[req[q] EXCEPT !.step = "ensured", !.ask = 0] EXCEPT !.kind = "late"]]
      BY <1>0, <2>3 DEF Requested
    <3> HIDE DEF n
    <3>4. Knows(m)
      BY <3>1, KindKnows
    <3>5. req' = [req EXCEPT ![q] = m]
      BY <3>2, <3>3
    <3> HIDE DEF m
    <3> QED
      BY <3>4, <3>5, OneKnows
  <2>4. ASSUME Ends(q, "answered") PROVE RequestsOK'
    BY <2>4, EndsKnows DEF Ended
  <2> QED
    BY <1>6, <2>2, <2>3, <2>4 DEF reopen_run
<1>7. ASSUME NEW q \in Requests, ensure_queue_room(q) PROVE RequestsOK'
  BY <1>0, <1>7, EndsKnows, GoesKnows
     DEF ensure_queue_room, Refused, Ended, Steps, Waiting, WithThread, WithRun
<1>8. ASSUME NEW q \in Requests, create_run(q) PROVE RequestsOK'
  <2>1. Knows([At("stored") EXCEPT !.run = q])
    BY DoorsAssumption DEF At, Knows, Requested, Steps, Waiting, WithThread
  <2> QED
    BY <1>8, <2>1, OneKnows DEF create_run
<1>9. ASSUME NEW q \in Requests, StoresMessages(q) PROVE RequestsOK'
  BY <1>0, <1>9, EndsKnows, GoesKnows
     DEF StoresMessages, Ended, Steps, Waiting, WithThread, WithRun
<1>10. ASSUME NEW q \in Requests, Enqueues(q) PROVE RequestsOK'
  BY <1>0, <1>10, GoesKnows DEF Enqueues, Steps, Waiting, WithThread, WithRun
<1>11. ASSUME NEW q \in Requests, Abandoned(q) PROVE RequestsOK'
  BY <1>11, EndsKnows DEF Abandoned, Refused, Ended
<1>12. ASSUME NEW q \in Requests, Leaves(q) PROVE RequestsOK'
  BY <1>12, EndsKnows DEF Leaves, Ended
<1>13. ASSUME NEW r \in Requests, EndsStream(r) PROVE RequestsOK'
  <2>1. Knows(At("answered")) /\ Knows(At("stranded"))
    BY AtKnows DEF Steps, Waiting, Ended, WithThread, WithRun
  <2> QED
    BY <1>0, <1>13, <2>1 DEF EndsStream, RequestsOK, Knows
<1>14. CASE UNCHANGED req
  BY <1>14 DEF RequestsOK
<1>15. \/ UNCHANGED req
       \/ \E q \in Requests :
            \/ \E kind \in {"utterance", "answer"}, t \in Threads, c \in Callers,
                 r \in Requests \cup {None} : Arrives(q, kind, t, c, r)
            \/ \E r \in Requests : resubscribe_task(q, r)
            \/ TurnedAway(q) \/ RequestStep(q) \/ Abandoned(q) \/ Leaves(q)
            \/ EndsStream(q)
  BY DEF Next, BrokerStep, Claimed, Settles, Folds, FailsStale, vars
<1> QED
  BY <1>1, <1>2, <1>3, <1>4, <1>5, <1>6, <1>7, <1>8, <1>9, <1>10, <1>11, <1>12, <1>13, <1>14,
     <1>15 DEF RequestStep

LEMMA NextTypeInv == TypeInv /\ [Next]_vars => TypeInv'
BY NextRowsOK, NextRequestsOK DEF TypeInv

(* The rows and the requests keep their types, whatever callers present. *)
THEOREM TypeCorrect == Spec => []DoorsTypeOK
BY InitTypeInv, NextTypeInv, TypeInvSuffices, PTL DEF Spec

-----------------------------------------------------------------------------
(* What callers present *)

(* A session key is let in under the head that the resolution of an ask then
   takes it to speak for, whatever keys and certificates there are:
   verify_caller and verify_resolution work it out separately. *)
THEOREM SessionKeysAgree == Spec => []SessionKeyKeepsItsHead
<1>1. SessionKeyKeepsItsHead
  <2> SUFFICES ASSUME NEW r \in Requests, NEW s \in Speakers, row[r].head = s.head
               PROVE  verify_resolution(sign_resolution(s.key, r, "in date"), r,
                                        {row[r].head, Provider}, s.delegation)
    BY DEF SessionKeyKeepsItsHead
  <2>1. PICK chain \in Built, d \in Certificates \cup {None} :
          /\ Admits(chain, d)
          /\ s = [key |-> head(chain), delegation |-> d, head |-> EffectiveHead(chain, d)]
    BY DEF Speakers
  <2>2. chain # None
    BY NoneAssumption
  <2> QED
    BY <2>1, <2>2, SessionKeySpeaks
<1> QED
  BY <1>1, PTL

(* At no time do the doors take a chain that the SDK did not build, or turn
   down one that it built and that is in date, for any set of keys. *)
THEOREM DoorsTakeBuilt == Spec => []DoorsTakeWhatIsBuilt
<1>1. DoorsTakeWhatIsBuilt
  BY OnlyBuiltChainsVerify DEF DoorsTakeWhatIsBuilt
<1> QED
  BY <1>1, PTL
=============================================================================
