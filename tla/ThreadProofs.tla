---------------------------- MODULE ThreadProofs ----------------------------
(* The requests on a thread, step by step against each other: what the lock   *)
(* on the row of a thread is worth, for any number of requests, threads and   *)
(* keys, and any limit.                                                       *)
EXTENDS DoorsProofs

-----------------------------------------------------------------------------
(* What a step does to the requests *)

Others(q) == \A p \in Requests \ {q} : req'[p] = req[p]

(* All that a request knows of its thread stays with it. *)
Keeps(q) == req'[q].thread = req[q].thread /\ req'[q].head = req[q].head

LEMMA GoesEffect ==
  ASSUME RequestsOK, NEW q \in Requests, NEW step, Goes(q, step)
  PROVE  /\ Others(q) /\ Keeps(q)
         /\ req'[q].step = step /\ req'[q].kind = req[q].kind
         /\ req'[q].run = req[q].run /\ req'[q].ask = req[q].ask
BY DEF RequestsOK, Requested, Goes, Others, Keeps

LEMMA EndsEffect ==
  ASSUME RequestsOK, NEW q \in Requests, NEW step, Ends(q, step)
  PROVE  Others(q) /\ req'[q] = At(step) /\ req'[q].step = step
BY DEF RequestsOK, Ends, At, Others

LEMMA ArrivesEffect ==
  ASSUME RequestsOK, NEW q \in Requests, NEW kind, NEW t, NEW c, NEW r, Arrives(q, kind, t, c, r)
  PROVE  /\ Others(q)
         /\ \/ req'[q].step = "refused" /\ req'[q].kind = "utterance"
            \/ req'[q].step = "arrived" /\ req'[q].kind = kind
         /\ DoorOf[q] = "start_run" => req'[q].kind = "utterance"
<1>1. CASE Ends(q, "refused")
  <2>1. Others(q) /\ req'[q] = At("refused")
    BY <1>1, EndsEffect
  <2> QED
    BY <2>1 DEF At, Arrives
<1>2. CASE ~Ends(q, "refused")
  BY <1>2 DEF RequestsOK, Arrives, Others
<1> QED
  BY <1>1, <1>2

LEMMA SawEffect ==
  ASSUME RequestsOK, NEW q \in Requests, NEW r, Saw(q, r)
  PROVE  /\ Others(q) /\ Keeps(q)
         /\ req'[q].step = "saw" /\ req'[q].kind = req[q].kind
         /\ req'[q].run = r /\ req'[q].ask = asks[r]
BY DEF RequestsOK, Requested, Saw, Others, Keeps

LEMMA UtteranceEffect ==
  ASSUME RequestsOK, NEW q \in Requests, req' = [req EXCEPT ![q].kind = "utterance"]
  PROVE  /\ Others(q) /\ Keeps(q)
         /\ req'[q].step = req[q].step /\ req'[q].kind = "utterance"
         /\ req'[q].run = req[q].run
BY DEF RequestsOK, Requested, Others, Keeps

LEMMA ReopensEffect ==
  ASSUME RequestsOK, NEW q \in Requests, req' = [req EXCEPT ![q].step = "stored", ![q].ask = 0]
  PROVE  /\ Others(q) /\ Keeps(q)
         /\ req'[q].step = "stored" /\ req'[q].kind = req[q].kind
         /\ req'[q].run = req[q].run
BY DEF RequestsOK, Requested, Others, Keeps

LEMMA LateEffect ==
  ASSUME RequestsOK, NEW q \in Requests,
         req' = [req EXCEPT ![q].step = "ensured", ![q].kind = "late", ![q].ask = 0]
  PROVE  /\ Others(q) /\ Keeps(q)
         /\ req'[q].step = "ensured" /\ req'[q].kind = "late"
         /\ req'[q].run = req[q].run
BY DEF RequestsOK, Requested, Others, Keeps

LEMMA CreateEffect ==
  ASSUME RequestsOK, NEW q \in Requests, create_run(q)
  PROVE  /\ Others(q)
         /\ req'[q].step = "stored" /\ req'[q].run = q /\ req'[q].kind = "utterance"
BY DEF RequestsOK, create_run, At, Others

LEMMA ResubscribeEffect ==
  ASSUME RequestsOK, NEW q \in Requests, NEW r, resubscribe_task(q, r)
  PROVE  /\ Others(q)
         /\ req'[q].step \in {"streaming", "answered"} /\ req'[q].kind = "utterance"
BY DEF RequestsOK, resubscribe_task, At, Others

LEMMA EndsStreamEffect ==
  ASSUME RequestsOK, NEW r, EndsStream(r)
  PROVE  \A p \in Requests :
           \/ req'[p] = req[p]
           \/ req'[p].step \in {"answered", "stranded"} /\ req'[p].kind = "utterance"
BY DEF RequestsOK, EndsStream, At

Early == {"idle", "arrived", "ensured", "saw", "counted"}
Loading == {"stored", "committed"}

(* Who is writing to a thread. *)
Holding == {"ensured", "saw", "counted"}

(* How a request comes to where it has not written its row yet. *)
GoesOn(p) ==
  \/ req'[p] = req[p]
  \/ /\ req'[p].step = "arrived" /\ req'[p].kind \in {"utterance", "answer"}
     /\ DoorOf[p] = "start_run" => req'[p].kind = "utterance"
  \/ /\ Keeps(p)
     /\ \/ ensure_thread(p) /\ req[p].step = "arrived" /\ req'[p].step = "ensured" /\ req'[p].kind = req[p].kind
        \/ Looks(p) /\ req[p].step = "ensured" /\ req'[p].step = "saw" /\ req'[p].kind = req[p].kind
        \/ Looks(p) /\ req[p].step = "ensured" /\ req'[p].step = "ensured" /\ req'[p].kind = "utterance"
        \/ reopen_run(p) /\ req[p].step = "saw" /\ req'[p].step = "ensured" /\ req'[p].kind = "late"
        \/ /\ ensure_queue_room(p) /\ req[p].step = "ensured" /\ req'[p].step = "counted"
           /\ req'[p].kind = req[p].kind

LEMMA EarlySteps ==
  ASSUME TypeInv, [Next]_vars, NEW p \in Requests, req'[p].step \in Early \ {"idle"}
  PROVE  GoesOn(p)
<1>0. RequestsOK
  BY DEF TypeInv
<1>1. ASSUME NEW q \in Requests, NEW kind \in {"utterance", "answer"}, NEW t \in Threads,
             NEW c \in Callers, NEW r \in Requests \cup {None}, Arrives(q, kind, t, c, r)
      PROVE  GoesOn(p)
  BY <1>0, <1>1, ArrivesEffect DEF Others, Early, GoesOn
<1>2. ASSUME NEW q \in Requests, NEW r \in Requests, resubscribe_task(q, r) PROVE req'[p] = req[p]
  BY <1>0, <1>2, ResubscribeEffect DEF Others, Early
<1>3. ASSUME NEW q \in Requests, NEW step \in Ended, Ends(q, step) PROVE req'[p] = req[p]
  BY <1>0, <1>3, EndsEffect DEF Others, Ended, Early
<1>4. ASSUME NEW q \in Requests, NEW step \in {"committed", "streaming"}, Goes(q, step)
      PROVE  req'[p] = req[p]
  BY <1>0, <1>4, GoesEffect DEF Others, Early
<1>5. ASSUME NEW q \in Requests, ensure_thread(q) PROVE GoesOn(p)
  <2>1. CASE Ends(q, "refused")
    BY <1>3, <2>1 DEF Ended, GoesOn
  <2>2. CASE Goes(q, "ensured")
    BY <1>0, <1>5, <2>2, GoesEffect DEF ensure_thread, Others, GoesOn
  <2> QED
    BY <1>5, <2>1, <2>2 DEF ensure_thread
<1>6. ASSUME NEW q \in Requests, Looks(q) PROVE GoesOn(p)
  <2>1. req[q].step = "ensured"
    BY <1>6 DEF Looks
  <2>2. ASSUME NEW r, Saw(q, r) PROVE GoesOn(p)
    BY <1>0, <1>6, <2>1, <2>2, SawEffect DEF Others, GoesOn
  <2>3. ASSUME req' = [req EXCEPT ![q].kind = "utterance"] PROVE GoesOn(p)
    BY <1>0, <1>6, <2>1, <2>3, UtteranceEffect DEF Others, GoesOn
  <2>4. ASSUME Refused(q) \/ Snapshot(q) PROVE req'[p] = req[p]
    BY <1>3, <2>4 DEF Refused, Snapshot, Ended
  <2> QED
    BY <1>6, <2>2, <2>3, <2>4 DEF Looks, GoesOn
<1>7. ASSUME NEW q \in Requests, reopen_run(q) PROVE GoesOn(p)
  <2>0. req[q].step = "saw"
    BY <1>7 DEF reopen_run
  <2>1. ASSUME req' = [req EXCEPT ![q].step = "stored", ![q].ask = 0] PROVE req'[p] = req[p]
    BY <1>0, <2>1, ReopensEffect DEF Others, Early
  <2>2. ASSUME req' = [req EXCEPT ![q].step = "ensured", ![q].kind = "late", ![q].ask = 0]
        PROVE  GoesOn(p)
    BY <1>0, <1>7, <2>0, <2>2, LateEffect DEF Others, GoesOn
  <2>3. ASSUME Ends(q, "answered") PROVE req'[p] = req[p]
    BY <1>3, <2>3 DEF Ended
  <2> QED
    BY <1>7, <2>1, <2>2, <2>3 DEF reopen_run, GoesOn
<1>8. ASSUME NEW q \in Requests, ensure_queue_room(q) PROVE GoesOn(p)
  <2>1. CASE Ends(q, "refused")
    BY <1>3, <2>1 DEF Ended, GoesOn
  <2>2. CASE Goes(q, "counted")
    BY <1>0, <1>8, <2>2, GoesEffect DEF ensure_queue_room, Others, GoesOn
  <2> QED
    BY <1>8, <2>1, <2>2 DEF ensure_queue_room, Refused
<1>9. ASSUME NEW q \in Requests, create_run(q) PROVE req'[p] = req[p]
  BY <1>0, <1>9, CreateEffect DEF Others, Early
<1>10. ASSUME NEW r, EndsStream(r) PROVE req'[p] = req[p]
  BY <1>0, <1>10, EndsStreamEffect DEF Early
<1>11. \/ UNCHANGED req
       \/ \E q \in Requests :
            \/ \E kind \in {"utterance", "answer"}, t \in Threads, c \in Callers,
                 r \in Requests \cup {None} : Arrives(q, kind, t, c, r)
            \/ \E r \in Requests : resubscribe_task(q, r)
            \/ \E step \in Ended : Ends(q, step)
            \/ \E step \in {"committed", "streaming"} : Goes(q, step)
            \/ ensure_thread(q) \/ Looks(q) \/ reopen_run(q) \/ ensure_queue_room(q)
            \/ create_run(q) \/ EndsStream(q)
  BY DEF Next, RequestStep, BrokerStep, TurnedAway, StoresMessages, Enqueues, Abandoned,
         Refused, Leaves, Claimed, Settles, Folds, FailsStale, vars, Ended
<1> QED
  BY <1>1, <1>2, <1>3, <1>4, <1>5, <1>6, <1>7, <1>8, <1>9, <1>10, <1>11 DEF GoesOn

-----------------------------------------------------------------------------
(* Sessions *)

(* A request has no row until it has created it.  Who is writing to a thread
   holds the lock on its row, unless its answer has come too late, and what it
   saw there stays as it was. *)
Session(q) ==
  /\ req[q].step \in Early => status[q] = "none"
  /\ req[q].step \in Loading => status[req[q].run] # "none"
  /\ req[q].step \in Holding => req[q].kind = "late" \/ lock[req[q].thread] = q
  /\ req[q].step = "saw" => /\ req[q].kind = "answer"
                            /\ row[req[q].run].thread = req[q].thread
                            /\ status[req[q].run] \in {"input-required", "failed"}
                            /\ asks[req[q].run] = req[q].ask

Sessions == \A q \in Requests : Session(q)

LEMMA InitSessions == Init => Sessions
BY DEF Init, Sessions, Session, Early, Loading, Holding, At

(* A step leaves alone the sessions of those it does not move, if it lets go of
   no lock of theirs and the rows they have looked at stay as they were. *)
LEMMA OtherSession ==
  ASSUME TypeInv, NEW p \in Requests, Session(p), req'[p] = req[p],
         p \in {r \in Requests : status[r] = "none"} => status'[p] = "none",
         \A r \in Requests : status[r] # "none" => status'[r] # "none",
         \A t \in Threads : lock[t] = p => lock'[t] = p,
         req[p].step = "saw" =>
           LET r == req[p].run
           IN /\ row'[r].thread = row[r].thread /\ asks'[r] = asks[r]
              /\ status'[r] \in {"input-required", "failed"}
  PROVE  Session(p)'
<1>1. /\ req[p].step \in Holding => req[p].thread \in Threads
      /\ req[p].step \in Loading \cup {"saw"} => req[p].run \in Requests
  BY DEF TypeInv, RequestsOK, Knows, WithThread, WithRun, Holding, Loading
<1> QED
  BY <1>1 DEF Session, Early

LEMMA OtherSessions ==
  ASSUME TypeInv, Sessions, NEW q \in Requests, Others(q),
         lock' \in {lock, Unlocked(q)}, UNCHANGED <<status, row, asks>>
  PROVE  \A p \in Requests \ {q} : Session(p)'
<1> SUFFICES ASSUME NEW p \in Requests \ {q} PROVE Session(p)'
  OBVIOUS
<1>1. \A t \in Threads : lock[t] = p => lock'[t] = p
  BY DEF Unlocked
<1> QED
  BY <1>1, OtherSession DEF Sessions, Session, Others

(* The status of a run that is there moves on. *)
Moves(r) ==
  /\ status[r] \notin {"none", "failed"} /\ status'[r] # "none"
  /\ status[r] = "input-required" => status'[r] = "failed"
  /\ \A o \in Requests : o # r => status'[o] = status[o]
  /\ \A o \in Requests : asks'[o] = asks[o] \/ (o = r /\ status[r] = "running")
  /\ UNCHANGED <<lock, row, req>>

LEMMA NextSessions == TypeInv /\ Sessions /\ [Next]_vars => Sessions'
<1> SUFFICES ASSUME TypeInv, Sessions, [Next]_vars PROVE Sessions'
  OBVIOUS
<1>0. /\ RequestsOK
      /\ \A q \in Requests :
           /\ Session(q)
           /\ req[q].step \in WithThread => req[q].thread \in Threads
           /\ req[q].step \in WithRun => req[q].run \in Requests
      /\ status \in [Requests -> Statuses] /\ lock \in [Threads -> Requests \cup {None}]
  BY DEF TypeInv, RowsOK, RequestsOK, Knows, Sessions
<1>1. ASSUME NEW q \in Requests, NEW kind \in {"utterance", "answer"}, NEW t \in Threads,
             NEW c \in Callers, NEW r \in Requests \cup {None}, Arrives(q, kind, t, c, r)
      PROVE  Sessions'
  <2>1. Others(q) /\ req'[q].step \in {"refused", "arrived"}
    BY <1>0, <1>1, ArrivesEffect
  <2>2. Session(q)'
    BY <1>0, <1>1, <2>1 DEF Arrives, Session, Early, Loading, Holding
  <2> QED
    BY <1>1, <2>1, <2>2, OtherSessions DEF Arrives, Sessions
<1>2. ASSUME NEW q \in Requests, NEW r \in Requests, resubscribe_task(q, r) PROVE Sessions'
  <2>1. Others(q) /\ req'[q].step \in {"streaming", "answered"}
    BY <1>0, <1>2, ResubscribeEffect
  <2>2. Session(q)'
    BY <2>1 DEF Session, Early, Loading, Holding
  <2> QED
    BY <1>2, <2>1, <2>2, OtherSessions DEF resubscribe_task, Sessions
<1>3. ASSUME NEW q \in Requests, NEW step \in Ended, Ends(q, step),
             lock' \in {lock, Unlocked(q)}, UNCHANGED <<status, row, asks>>
      PROVE  Sessions'
  <2>1. Others(q) /\ req'[q].step = step
    BY <1>0, <1>3, EndsEffect
  <2>2. Session(q)'
    BY <1>3, <2>1 DEF Session, Early, Loading, Holding, Ended
  <2> QED
    BY <1>3, <2>1, <2>2, OtherSessions DEF Sessions
<1>4. ASSUME NEW q \in Requests, ensure_thread(q) PROVE Sessions'
  <2>1. CASE Ends(q, "refused") /\ UNCHANGED lock
    BY <1>3, <1>4, <2>1 DEF ensure_thread, Ended
  <2>2. CASE Goes(q, "ensured") /\ lock[req[q].thread] = None /\ lock' = [lock EXCEPT ![req[q].thread] = q]
    <3>1. Others(q) /\ Keeps(q) /\ req'[q].step = "ensured"
      BY <1>0, <2>2, GoesEffect
    <3>2. \A p \in Requests, t \in Threads : lock[t] = p => lock'[t] = p
      BY <1>0, <2>2, DoorsAssumption
    <3>3. Session(q)'
      BY <1>0, <1>4, <2>2, <3>1
         DEF ensure_thread, Session, Early, Loading, Holding, Keeps, WithThread
    <3>4. ASSUME NEW p \in Requests \ {q} PROVE Session(p)'
      BY <1>0, <1>4, <3>1, <3>2, OtherSession DEF ensure_thread, Session, Others
    <3> QED
      BY <3>3, <3>4 DEF Sessions
  <2> QED
    BY <1>4, <2>1, <2>2 DEF ensure_thread
<1>5. ASSUME NEW q \in Requests, Looks(q) PROVE Sessions'
  <2>1. ASSUME NEW r \in Paused(req[q].thread), Saw(q, r) PROVE Sessions'
    <3>1. Others(q) /\ Keeps(q) /\ req'[q].step = "saw" /\ req'[q].kind = req[q].kind
          /\ req'[q].run = r /\ req'[q].ask = asks[r]
      BY <1>0, <2>1, SawEffect
    <3>2. UNCHANGED <<lock, status, row, asks>>
      BY <1>5, <2>1 DEF Looks, Saw
    <3>3. Session(q)'
      BY <1>0, <1>5, <3>1, <3>2
         DEF Looks, Session, Early, Loading, Holding, Keeps, Paused, OnThread
    <3> QED
      BY <3>1, <3>2, <3>3, OtherSessions DEF Sessions
  <2>2. ASSUME req' = [req EXCEPT ![q].kind = "utterance"], UNCHANGED lock PROVE Sessions'
    <3>1. Others(q) /\ Keeps(q) /\ req'[q].step = req[q].step /\ req'[q].kind = "utterance"
      BY <1>0, <2>2, UtteranceEffect
    <3>2. Session(q)'
      BY <1>0, <1>5, <2>2, <3>1 DEF Looks, Session, Early, Loading, Holding, Keeps
    <3> QED
      BY <1>5, <2>2, <3>1, <3>2, OtherSessions DEF Looks, Sessions
  <2>3. ASSUME Refused(q) \/ Snapshot(q) PROVE Sessions'
    BY <1>3, <1>5, <2>3 DEF Looks, Refused, Snapshot, Ended
  <2> QED
    BY <1>5, <2>1, <2>2, <2>3 DEF Looks
<1>6. ASSUME NEW q \in Requests, reopen_run(q) PROVE Sessions'
  <2>1. /\ req[q].step = "saw" /\ req[q].run \in Requests /\ req[q].thread \in Threads
        /\ lock' = Unlocked(q) /\ UNCHANGED <<row, asks>>
    BY <1>0, <1>6 DEF reopen_run, Commit, WithRun, WithThread
  <2>2. ASSUME NEW p \in Requests \ {q}, Others(q) PROVE Session(p)'
    <3>1. req'[p] = req[p]
      BY <2>2 DEF Others
    <3>2. \A t \in Threads : lock[t] = p => lock'[t] = p
      BY <2>1 DEF Unlocked
    <3>3. \A r \in Requests : status[r] # "none" => status'[r] # "none"
      BY <1>0, <1>6 DEF reopen_run
    <3>4. status[p] = "none" => status'[p] = "none"
      BY <1>0, <1>6, <2>1 DEF reopen_run
    <3>5. ASSUME req[p].step = "saw"
          PROVE  /\ req[p].run \in Requests
                 /\ status'[req[p].run] \in {"input-required", "failed"}
      <4>1. req[p].run \in Requests /\ req[p].thread \in Threads
        BY <1>0, <3>5 DEF WithRun, WithThread
      <4>2. req[p].run # req[q].run
        BY <1>0, <2>1, <3>5 DEF Session, Holding
      <4> QED
        BY <1>0, <1>6, <3>5, <4>1, <4>2 DEF reopen_run, Session
    <3> QED
      BY <1>0, <2>1, <3>1, <3>2, <3>3, <3>4, <3>5, OtherSession
  <2>3. ASSUME req' = [req EXCEPT ![q].step = "stored", ![q].ask = 0],
               status' = [status EXCEPT ![req[q].run] = "queued"]
        PROVE  Sessions'
    <3>1. Others(q) /\ req'[q].step = "stored" /\ req'[q].run = req[q].run
      BY <1>0, <2>3, ReopensEffect
    <3>2. Session(q)'
      BY <1>0, <2>1, <2>3, <3>1 DEF Session, Early, Loading, Holding
    <3> QED
      BY <2>2, <3>1, <3>2 DEF Sessions
  <2>4. ASSUME req' = [req EXCEPT ![q].step = "ensured", ![q].kind = "late", ![q].ask = 0],
               UNCHANGED status
        PROVE  Sessions'
    <3>1. Others(q) /\ req'[q].step = "ensured" /\ req'[q].kind = "late"
      BY <1>0, <2>4, LateEffect
    <3>2. Session(q)'
      BY <1>0, <2>1, <2>4, <3>1 DEF Session, Early, Loading, Holding
    <3> QED
      BY <2>2, <3>1, <3>2 DEF Sessions
  <2>5. ASSUME Ends(q, "answered"), UNCHANGED status PROVE Sessions'
    BY <1>3, <2>1, <2>5 DEF Ended
  <2> QED
    BY <1>6, <2>3, <2>4, <2>5 DEF reopen_run
<1>7. ASSUME NEW q \in Requests, ensure_queue_room(q) PROVE Sessions'
  <2>1. CASE Refused(q)
    BY <1>3, <1>7, <2>1 DEF ensure_queue_room, Refused, Ended
  <2>2. CASE Goes(q, "counted") /\ UNCHANGED lock
    <3>1. Others(q) /\ Keeps(q) /\ req'[q].step = "counted" /\ req'[q].kind = req[q].kind
      BY <1>0, <2>2, GoesEffect
    <3>2. Session(q)'
      BY <1>0, <1>7, <2>2, <3>1 DEF ensure_queue_room, Session, Early, Loading, Holding, Keeps
    <3> QED
      BY <1>7, <2>2, <3>1, <3>2, OtherSessions DEF ensure_queue_room, Sessions
  <2> QED
    BY <1>7, <2>1, <2>2 DEF ensure_queue_room
<1>8. ASSUME NEW q \in Requests, create_run(q) PROVE Sessions'
  <2>1. /\ Others(q) /\ req'[q].step = "stored" /\ req'[q].run = q
    BY <1>0, <1>8, CreateEffect
  <2>2. /\ req[q].step = "counted" /\ status[q] = "none" /\ lock' = Unlocked(q)
        /\ status' = [status EXCEPT ![q] = "queued"] /\ UNCHANGED asks
        /\ \A r \in Requests \ {q} : row'[r] = row[r]
    BY <1>0, <1>8 DEF create_run, Commit, Session, Early, TypeInv, RowsOK
  <2>3. Session(q)'
    BY <1>0, <2>1, <2>2 DEF Session, Early, Loading, Holding
  <2>4. ASSUME NEW p \in Requests \ {q} PROVE Session(p)'
    <3>1. \A t \in Threads : lock[t] = p => lock'[t] = p
      BY <2>2 DEF Unlocked
    <3>2. req[p].step = "saw" => req[p].run \in Requests \ {q}
      BY <1>0, <2>2 DEF Session, WithRun
    <3> QED
      BY <1>0, <2>1, <2>2, <3>1, <3>2, OtherSession DEF Session, Others
  <2> QED
    BY <2>3, <2>4 DEF Sessions
<1>9. ASSUME NEW q \in Requests, StoresMessages(q) PROVE Sessions'
  <2>1. /\ req[q].step = "stored" /\ req[q].run \in Requests /\ status[req[q].run] # "none"
        /\ UNCHANGED <<lock, row, asks>>
        /\ status' \in {status, [status EXCEPT ![req[q].run] = "failed"]}
    BY <1>0, <1>9 DEF StoresMessages, WithRun, Session, Loading
  <2>2. /\ Others(q)
        /\ \/ req'[q].step = "answered"
           \/ req'[q].step = "committed" /\ req'[q].run = req[q].run
    BY <1>0, <1>9, GoesEffect, EndsEffect DEF StoresMessages
  <2>3. Session(q)'
    BY <1>0, <2>1, <2>2 DEF Session, Early, Loading, Holding
  <2>4. ASSUME NEW p \in Requests \ {q} PROVE Session(p)'
    <3>1. status[p] = "none" => status'[p] = "none"
      BY <1>0, <2>1
    <3>2. req[p].step = "saw" => status'[req[p].run] \in {"input-required", "failed"}
      BY <1>0, <2>1 DEF Session, WithRun
    <3> QED
      BY <1>0, <2>1, <2>2, <3>1, <3>2, OtherSession DEF Others
  <2> QED
    BY <2>3, <2>4 DEF Sessions
<1>10. ASSUME NEW q \in Requests, Enqueues(q) PROVE Sessions'
  <2>1. Others(q) /\ req'[q].step = "streaming"
    BY <1>0, <1>10, GoesEffect DEF Enqueues
  <2>2. Session(q)'
    BY <2>1 DEF Session, Early, Loading, Holding
  <2> QED
    BY <1>10, <2>1, <2>2, OtherSessions DEF Enqueues, Sessions
<1>11. ASSUME NEW q \in Requests, TurnedAway(q) \/ Abandoned(q) \/ Leaves(q) PROVE Sessions'
  BY <1>3, <1>11 DEF TurnedAway, Abandoned, Refused, Leaves, Ended
<1>12. ASSUME NEW r \in Requests, Moves(r) PROVE Sessions'
  <2> SUFFICES ASSUME NEW p \in Requests PROVE Session(p)'
    BY DEF Sessions
  <2>1. /\ status[p] = "none" => status'[p] = "none"
        /\ \A o \in Requests : status[o] # "none" => status'[o] # "none"
        /\ UNCHANGED lock /\ UNCHANGED row /\ UNCHANGED req
    BY <1>0, <1>12 DEF Moves
  <2>2. req[p].step = "saw" => /\ status'[req[p].run] \in {"input-required", "failed"}
                               /\ asks'[req[p].run] = asks[req[p].run]
    BY <1>0, <1>12 DEF Moves, Session, WithRun
  <2> QED
    BY <1>0, <2>1, <2>2, OtherSession
<1>13. ASSUME NEW r \in Requests, Claimed(r) PROVE Sessions'
  <2>1. Moves(r)
    BY <1>0, <1>13 DEF Claimed, Moves
  <2> QED
    BY <1>12, <2>1
<1>14. ASSUME NEW r \in Requests, NEW s \in {"completed", "input-required", "failed"}, Settles(r, s)
       PROVE  Sessions'
  <2>1. Moves(r)
    BY <1>0, <1>14 DEF Settles, Moves, TypeInv, RowsOK
  <2> QED
    BY <1>12, <2>1
<1>15. ASSUME NEW r \in Requests, FailsStale(r) PROVE Sessions'
  <2>1. Moves(r)
    BY <1>0, <1>15 DEF FailsStale, Moves
  <2> QED
    BY <1>12, <2>1
<1>16. ASSUME NEW r \in Requests, EndsStream(r) PROVE Sessions'
  <2> SUFFICES ASSUME NEW p \in Requests PROVE Session(p)'
    BY DEF Sessions
  <2>1. UNCHANGED <<lock, status, row, asks>>
    BY <1>16 DEF EndsStream
  <2>2. CASE req'[p] = req[p]
    BY <1>0, <2>1, <2>2 DEF Session
  <2>3. CASE req'[p].step \in {"answered", "stranded"}
    BY <2>3 DEF Session, Early, Loading, Holding
  <2> QED
    BY <1>0, <1>16, <2>2, <2>3, EndsStreamEffect
<1>17. ASSUME UNCHANGED <<lock, status, row, asks, req>> PROVE Sessions'
  BY <1>17 DEF Sessions, Session
<1>18. ASSUME NEW r \in Requests, Folds(r) PROVE Sessions'
  BY <1>17, <1>18 DEF Folds
<1>19. CASE UNCHANGED vars
  BY <1>17, <1>19 DEF vars
<1> QED
  BY <1>1, <1>2, <1>4, <1>5, <1>6, <1>7, <1>8, <1>9, <1>10, <1>11, <1>13, <1>14, <1>15, <1>16,
     <1>18, <1>19 DEF Next, RequestStep, BrokerStep

(* An answer reopens the run at the question it was checked against: between
   the two, no other request of the thread gets to answer, for any number of
   them, and no round to ask anew. *)
THEOREM AnswersMeetTheirAsks == Spec => []AnswerMeetsItsAsk
<1>1. Sessions => AnswerMeetsItsAsk
  BY DEF Sessions, Session, AnswerMeetsItsAsk
<1> QED
  BY <1>1, InitTypeInv, NextTypeInv, InitSessions, NextSessions, PTL DEF Spec

-----------------------------------------------------------------------------
(* The queue of a thread *)

Utterances(t) == {r \in OnThread(t, "queued") : asks[r] = 0 /\ ~row[r].late}

(* A paused run has asked.  Who has counted holds the lock, so that there is
   still room. *)
Counted(q) ==
  req[q].step = "counted" /\ req[q].kind # "late" => Cardinality(Utterances(req[q].thread)) < QueueLimit

Room ==
  /\ QueueWithinLimit
  /\ \A r \in Requests : status[r] = "input-required" => asks[r] > 0
  /\ \A q \in Requests : Counted(q)

LEMMA UtterancesFinite ==
  ASSUME NEW t
  PROVE  IsFiniteSet(Utterances(t)) /\ Cardinality(Utterances(t)) \in Nat
<1>1. Utterances(t) \subseteq Requests
  BY DEF Utterances, OnThread
<1> QED
  BY <1>1, FS_Subset, FS_CardinalityType, DoorsAssumption

LEMMA FewerUtterances ==
  ASSUME NEW t, Utterances(t)' \subseteq Utterances(t)
  PROVE  Cardinality(Utterances(t)') \in Nat /\ Cardinality(Utterances(t)') <= Cardinality(Utterances(t))
BY UtterancesFinite, FS_Subset, FS_CardinalityType

LEMMA WithinLimit ==
  QueueWithinLimit <=> \A t \in Threads : Cardinality(Utterances(t)) <= QueueLimit
BY DEF QueueWithinLimit, Utterances

LEMMA InitRoom == Init => Room
<1> SUFFICES ASSUME Init PROVE Room
  OBVIOUS
<1>1. \A t \in Threads : Utterances(t) = {}
  BY DEF Init, Utterances, OnThread
<1>2. QueueWithinLimit
  BY <1>1, FS_EmptySet, WithinLimit, DoorsAssumption
<1> QED
  BY <1>2 DEF Init, Room, Counted, At

(* No step but a creation adds to the utterances waiting: what is reopened has
   asked. *)
Dwindles ==
  \A r \in Requests :
    /\ row'[r] = row[r] /\ asks'[r] \in Nat /\ asks[r] <= asks'[r]
    /\ status'[r] = "queued" => status[r] = "queued" \/ asks[r] > 0
    /\ status'[r] = "input-required" => status[r] = "input-required" \/ asks'[r] > 0

LEMMA RowsDwindle ==
  ASSUME TypeInv, Room, [Next]_vars, \A q \in Requests : ~create_run(q)
  PROVE  Dwindles
<1>0. asks \in [Requests -> Nat] /\ status \in [Requests -> Statuses]
      /\ \A r \in Requests : status[r] = "input-required" => asks[r] > 0
  BY DoorsAssumption DEF TypeInv, RowsOK, Room
<1>1. CASE UNCHANGED <<row, status, asks>>
  BY <1>0, <1>1 DEF Dwindles
<1>2. ASSUME NEW q \in Requests, reopen_run(q) PROVE Dwindles
  BY <1>0, <1>2 DEF reopen_run, Dwindles
<1>3. ASSUME NEW q \in Requests, StoresMessages(q) PROVE Dwindles
  BY <1>0, <1>3 DEF StoresMessages, Dwindles
<1>4. ASSUME NEW r \in Requests, Claimed(r) \/ FailsStale(r) PROVE Dwindles
  BY <1>0, <1>4 DEF Claimed, FailsStale, Dwindles
<1>5. ASSUME NEW r \in Requests, NEW s \in {"completed", "input-required", "failed"}, Settles(r, s)
      PROVE  Dwindles
  BY <1>0, <1>5 DEF Settles, Dwindles
<1>6. \/ UNCHANGED <<row, status, asks>>
      \/ \E q \in Requests : reopen_run(q) \/ StoresMessages(q) \/ Claimed(q) \/ FailsStale(q)
      \/ \E r \in Requests, s \in {"completed", "input-required", "failed"} : Settles(r, s)
  BY DEF Next, RequestStep, BrokerStep, Arrives, resubscribe_task, TurnedAway, ensure_thread, Looks,
         ensure_queue_room, Enqueues, Abandoned, Leaves, Folds, EndsStream, vars
<1> QED
  BY <1>1, <1>2, <1>3, <1>4, <1>5, <1>6

LEMMA UtterancesDwindle ==
  ASSUME Dwindles, TypeInv, NEW t
  PROVE  Utterances(t)' \subseteq Utterances(t)
BY DoorsAssumption DEF Dwindles, TypeInv, RowsOK, Utterances, OnThread

LEMMA NextRoom == TypeInv /\ Sessions /\ Room /\ [Next]_vars => Room'
<1> SUFFICES ASSUME TypeInv, Sessions, Room, [Next]_vars PROVE Room'
  OBVIOUS
<1>0. /\ \A q \in Requests : req[q].step \in WithThread => req[q].thread \in Threads
      /\ \A t \in Threads : Cardinality(Utterances(t)) <= QueueLimit
      /\ \A q \in Requests : Counted(q) /\ Session(q)
      /\ \A r \in Requests : status[r] = "input-required" => asks[r] > 0
      /\ \A t : Cardinality(Utterances(t)) \in Nat /\ IsFiniteSet(Utterances(t))
      /\ QueueLimit \in Nat
  BY UtterancesFinite, DoorsAssumption
     DEF TypeInv, RequestsOK, Knows, Room, QueueWithinLimit, Utterances, Sessions
<1>1. CASE \A q \in Requests : ~create_run(q)
  <2>1. Dwindles
    BY <1>1, RowsDwindle
  <2>2. \A t : /\ Cardinality(Utterances(t)') \in Nat
               /\ Cardinality(Utterances(t)') <= Cardinality(Utterances(t))
    BY <2>1, UtterancesDwindle, FewerUtterances
  <2>3. \A t \in Threads : Cardinality(Utterances(t)') <= QueueLimit
    BY <1>0, <2>2
  <2>4. QueueWithinLimit'
    BY <2>3 DEF QueueWithinLimit, Utterances
  <2>5. ASSUME NEW q \in Requests, req'[q] = req[q] PROVE Counted(q)'
    BY <1>0, <2>2, <2>5 DEF Counted, WithThread
  <2>6. ASSUME NEW q \in Requests, ensure_queue_room(q), req'[q].step = "counted" PROVE Counted(q)'
    <3> DEFINE t == req[q].thread
    <3>1. /\ t \in Threads /\ HasQueueRoom(t) /\ req'[q].thread = t
      BY <1>0, <2>6, GoesEffect, EndsEffect
         DEF ensure_queue_room, Refused, TypeInv, Keeps, WithThread
    <3>2. /\ Utterances(t) \subseteq OnThread(t, "queued")
          /\ OnThread(t, "queued") \subseteq Requests
      BY DEF Utterances, OnThread
    <3>3. Cardinality(Utterances(t)) < QueueLimit
      BY <1>0, <3>1, <3>2, FS_Subset, FS_CardinalityType, DoorsAssumption DEF HasQueueRoom
    <3> QED
      BY <1>0, <2>2, <3>1, <3>3 DEF Counted
  <2>7. \A r \in Requests : status'[r] = "input-required" => asks'[r] > 0
    BY <1>0, <2>1, DoorsAssumption DEF Dwindles, TypeInv, RowsOK
  <2>8. \A q \in Requests : Counted(q)'
    <3> SUFFICES ASSUME NEW q \in Requests PROVE Counted(q)'
      OBVIOUS
    <3>1. CASE req'[q].step = "counted"
      BY <2>5, <2>6, <3>1, EarlySteps DEF GoesOn, Early
    <3>2. CASE req'[q].step # "counted"
      BY <3>2 DEF Counted
    <3> QED
      BY <3>1, <3>2
  <2> QED
    BY <2>4, <2>7, <2>8 DEF Room
<1>2. ASSUME NEW q \in Requests, create_run(q) PROVE Room'
  <2>0. PICK t \in Threads, late \in BOOLEAN : t = req[q].thread /\ late = (req[q].kind = "late")
    BY <1>0, <1>2 DEF create_run, WithThread
  <2>1. /\ req[q].step = "counted" /\ t \in Threads /\ UNCHANGED asks
        /\ status' = [status EXCEPT ![q] = "queued"] /\ row' = [row EXCEPT ![q] = NewRow(q)]
        /\ late \/ lock[t] = q
    BY <1>0, <1>2, <2>0 DEF create_run, Session, Holding
  <2>2. row'[q].thread = t /\ row'[q].late = late
    BY <2>0, <2>1 DEF NewRow, TypeInv, RowsOK
  <2>3. \A o : o # t \/ late => Utterances(o)' \subseteq Utterances(o)
    BY <2>1, <2>2 DEF Utterances, OnThread, TypeInv, RowsOK
  <2>4. \A o : o # t \/ late => /\ Cardinality(Utterances(o)') \in Nat
                               /\ Cardinality(Utterances(o)') <= Cardinality(Utterances(o))
    BY <2>3, FewerUtterances
  <2>5. ~late => Cardinality(Utterances(t)') <= QueueLimit
    <3> SUFFICES ASSUME ~late PROVE Cardinality(Utterances(t)') <= QueueLimit
      OBVIOUS
    <3>1. Cardinality(Utterances(t)) < QueueLimit
      BY <1>0, <2>0, <2>1 DEF Counted
    <3>2. Utterances(t)' \subseteq Utterances(t) \cup {q}
      BY <2>1 DEF Utterances, OnThread, TypeInv, RowsOK
    <3>3. /\ IsFiniteSet(Utterances(t) \cup {q})
          /\ Cardinality(Utterances(t) \cup {q}) <= Cardinality(Utterances(t)) + 1
          /\ Cardinality(Utterances(t) \cup {q}) \in Nat
      <4> DEFINE U == Utterances(t)
      <4>1. IsFiniteSet(U) /\ Cardinality(U) \in Nat
        BY <1>0
      <4> HIDE DEF U
      <4>2. /\ IsFiniteSet(U \cup {q}) /\ Cardinality(U \cup {q}) \in Nat
            /\ Cardinality(U \cup {q}) = IF q \in U THEN Cardinality(U) ELSE Cardinality(U) + 1
        BY <4>1, FS_AddElement, FS_CardinalityType
      <4>3. Cardinality(U \cup {q}) <= Cardinality(U) + 1
        BY <4>1, <4>2
      <4> QED
        BY <4>2, <4>3 DEF U
    <3>4. /\ Cardinality(Utterances(t)') \in Nat
          /\ Cardinality(Utterances(t)') <= Cardinality(Utterances(t) \cup {q})
      BY <3>2, <3>3, FS_Subset, FS_CardinalityType
    <3> QED
      BY <1>0, <3>1, <3>3, <3>4
  <2>6. \A o \in Threads : Cardinality(Utterances(o)') <= QueueLimit
    BY <1>0, <2>4, <2>5
  <2>7. QueueWithinLimit'
    BY <2>6 DEF QueueWithinLimit, Utterances
  <2>8. ASSUME NEW p \in Requests PROVE Counted(p)'
    <3>1. CASE ~(req'[p].step = "counted" /\ req'[p].kind # "late")
      BY <3>1 DEF Counted
    <3>2. CASE req'[p].step = "counted" /\ req'[p].kind # "late"
      <4>1. p # q /\ req'[p] = req[p]
        BY <1>2, <3>2, CreateEffect DEF TypeInv, Others
      <4>2. req[p].thread # t \/ late
        BY <1>0, <2>1, <3>2, <4>1 DEF Session, Holding
      <4>3. req[p].thread \in Threads /\ Cardinality(Utterances(req[p].thread)) < QueueLimit
        BY <1>0, <3>2, <4>1 DEF Counted, WithThread
      <4>4. PICK o \in Threads : o = req[p].thread
        BY <4>3
      <4>5. Cardinality(Utterances(o)') < QueueLimit
        BY <1>0, <2>4, <4>2, <4>3, <4>4
      <4> QED
        BY <4>1, <4>4, <4>5 DEF Counted
    <3> QED
      BY <3>1, <3>2
  <2>9. \A r \in Requests : status'[r] = "input-required" => asks'[r] > 0
    BY <1>0, <2>1 DEF TypeInv, RowsOK
  <2> QED
    BY <2>7, <2>8, <2>9 DEF Room
<1> QED
  BY <1>1, <1>2

(* Of the runs waiting on a thread, those that were never an answer stay within
   the limit: the count of ensure_queue_room is still good when create_run adds
   to it, however many requests crowd the thread. *)
THEOREM QueuesStayWithinLimit == Spec => []QueueWithinLimit
<1>1. Room => QueueWithinLimit
  BY DEF Room
<1> QED
  BY <1>1, InitTypeInv, NextTypeInv, InitSessions, NextSessions, InitRoom, NextRoom, PTL DEF Spec

-----------------------------------------------------------------------------
(* The members of a thread *)

(* A row is on a thread that is there, and a member's. *)
MemberRow(r) ==
  LET t == row[r].thread
  IN t \in Threads => threads[t] # "absent" /\ (threads[t] # None => row[r].head \in {threads[t], Provider})

(* Who is writing to a thread is creating it, or may write to it. *)
Member(q) ==
  /\ req[q].step = "arrived" => req[q].kind # "late"
  /\ req[q].step \in Holding =>
       LET t == req[q].thread
       IN IF threads[t] = "absent" THEN req[q].kind # "late" ELSE MayWrite(q, t)

Members == (\A r \in Requests : MemberRow(r)) /\ (\A q \in Requests : Member(q))

LEMMA InitMembers == Init => Members
BY DoorsAssumption DEF Init, Members, MemberRow, Member, At, Holding

(* Threads and rows are written in the steps that commit, and bind a thread
   that is not there to the head of whoever holds it. *)
LEMMA OnlyCommitsBind ==
  ASSUME TypeInv, [Next]_vars
  PROVE  \/ UNCHANGED <<threads, row>>
         \/ \E q \in Requests :
              /\ Commit(q)
              /\ \/ create_run(q)
                 \/ reopen_run(q) /\ UNCHANGED row
<1>1. UNCHANGED <<threads, row>> \/ \E q \in Requests : create_run(q) \/ reopen_run(q)
  <2>1. ASSUME NEW q \in Requests, RequestStep(q)
        PROVE  UNCHANGED <<threads, row>> \/ create_run(q) \/ reopen_run(q)
    BY <2>1 DEF RequestStep, ensure_thread, Looks, ensure_queue_room, StoresMessages, Enqueues
  <2>2. ASSUME NEW q \in Requests,
               \/ \E kind \in {"utterance", "answer"}, t \in Threads, c \in Callers,
                    r \in Requests \cup {None} : Arrives(q, kind, t, c, r)
               \/ \E r \in Requests : resubscribe_task(q, r)
               \/ TurnedAway(q) \/ Abandoned(q) \/ Leaves(q)
        PROVE  UNCHANGED <<threads, row>>
    BY <2>2 DEF Arrives, resubscribe_task, TurnedAway, Abandoned, Leaves
  <2>3. ASSUME NEW r \in Requests, BrokerStep(r) \/ FailsStale(r)
        PROVE  UNCHANGED <<threads, row>>
    BY <2>3 DEF BrokerStep, Claimed, Settles, Folds, EndsStream, FailsStale
  <2> QED
    BY <2>1, <2>2, <2>3 DEF Next, vars
<1>2. \A q \in Requests : create_run(q) => Commit(q)
  BY DEF create_run
<1>3. \A q \in Requests : reopen_run(q) => Commit(q) /\ UNCHANGED row
  BY DEF reopen_run
<1> QED
  BY <1>1, <1>2, <1>3

LEMMA CommitBinds ==
  ASSUME TypeInv, NEW q \in Requests, Commit(q), NEW t \in Threads
  PROVE  threads'[t] = IF lock[t] = q /\ threads[t] = "absent" THEN req[q].head ELSE threads[t]
BY DEF TypeInv, RowsOK, Commit

LEMMA NextMembers == TypeInv /\ Sessions /\ Members /\ [Next]_vars => Members'
<1> SUFFICES ASSUME TypeInv, Sessions, Members, [Next]_vars PROVE Members'
  OBVIOUS
<1>0. /\ \A q \in Requests :
           /\ Member(q) /\ Session(q)
           /\ req[q].step \in WithThread => req[q].thread \in Threads
           /\ req[q].step \in WithRun => req[q].run \in Requests
           /\ req[q].head \in Keys \cup {None}
      /\ \A r \in Requests : MemberRow(r)
      /\ row \in [Requests -> [thread : Threads \cup {None}, head : Keys \cup {None}, late : BOOLEAN]]
      /\ "absent" \notin Keys \cup {None} /\ None \notin Threads
      /\ Holding \subseteq WithThread
  BY DoorsAssumption
     DEF TypeInv, RowsOK, RequestsOK, Requested, Knows, Members, Sessions, Holding, WithThread
<1>1. ASSUME NEW t \in Threads, threads[t] # "absent" PROVE threads'[t] = threads[t]
  BY <1>1, OnlyCommitsBind, CommitBinds
<1>2. ASSUME NEW q \in Requests, req[q].step \in Holding, req[q].kind # "late"
      PROVE  /\ req[q].thread \in Threads
             /\ \/ threads'[req[q].thread] = threads[req[q].thread]
                \/ Commit(q) /\ threads[req[q].thread] = "absent"
                   /\ threads'[req[q].thread] = req[q].head
  <2>1. req[q].thread \in Threads /\ lock[req[q].thread] = q
    BY <1>0, <1>2 DEF Session
  <2> QED
    BY <2>1, OnlyCommitsBind, CommitBinds
<1>3. ASSUME NEW q \in Requests, req[q].step \in Holding
      PROVE  LET t == req[q].thread
             IN /\ t \in Threads
                /\ \/ threads'[t] = "absent" /\ threads[t] = "absent" /\ req[q].kind # "late"
                   \/ threads'[t] # "absent" /\ (threads'[t] \in {None, req[q].head} \/ req[q].head = Provider)
  BY <1>0, <1>1, <1>2, <1>3 DEF Member, MayWrite
<1>4. ASSUME NEW r \in Requests PROVE MemberRow(r)'
  <2>1. CASE row'[r] = row[r]
    BY <1>0, <1>1, <2>1 DEF MemberRow
  <2>2. ASSUME NEW q \in Requests, Commit(q), create_run(q), row'[r] # row[r] PROVE MemberRow(r)'
    <3>1. /\ q = r /\ req[q].step \in Holding
          /\ row'[r].thread = req[q].thread /\ row'[r].head = req[q].head
      BY <1>0, <2>2 DEF create_run, NewRow, Holding
    <3>2. threads'[req[q].thread] # "absent"
      BY <1>0, <1>2, <1>3, <2>2, <3>1, CommitBinds DEF Session
    <3> QED
      BY <1>3, <3>1, <3>2 DEF MemberRow
  <2> QED
    BY <2>1, <2>2, OnlyCommitsBind
<1>5. ASSUME NEW q \in Requests PROVE Member(q)'
  <2>1. ASSUME req'[q].step = "arrived" PROVE req'[q].kind # "late"
    BY <1>0, <2>1, EarlySteps DEF Member, GoesOn, Early
  <2>2. ASSUME req'[q].step \in Holding
        PROVE  LET t == req'[q].thread
               IN IF threads'[t] = "absent" THEN req'[q].kind # "late"
                  ELSE threads'[t] \in {None, req'[q].head} \/ req'[q].head = Provider
    <3>1. CASE req'[q] = req[q]
      BY <1>3, <2>2, <3>1
    <3>2. CASE /\ Keeps(q) /\ req[q].step \in Holding
               /\ req'[q].kind \in {req[q].kind, "utterance"}
      BY <1>3, <3>2 DEF Keeps
    <3>3. CASE /\ Keeps(q) /\ ensure_thread(q) /\ req[q].step = "arrived" /\ req'[q].kind = req[q].kind
      <4>1. UNCHANGED threads
        BY <3>3 DEF ensure_thread
      <4>2. threads[req[q].thread] = "absent" \/ MayWrite(q, req[q].thread)
        BY <2>2, <3>3, EndsEffect DEF ensure_thread, TypeInv, Holding
      <4> QED
        BY <1>0, <3>3, <4>1, <4>2 DEF Member, MayWrite, Keeps
    <3>4. CASE Keeps(q) /\ reopen_run(q) /\ req[q].step = "saw"
      <4>1. req[q].run \in Requests /\ row[req[q].run].thread = req[q].thread /\ req[q].thread \in Threads
        BY <1>0, <3>4 DEF Session, WithRun, WithThread
      <4>2. threads[req[q].thread] # "absent"
        BY <1>0, <4>1 DEF MemberRow
      <4>3. threads'[req[q].thread] # "absent" /\ threads'[req[q].thread] = threads[req[q].thread]
        BY <1>1, <4>1, <4>2
      <4> QED
        BY <1>3, <3>4, <4>3 DEF Keeps, Holding
    <3> QED
      BY <2>2, <3>1, <3>2, <3>3, <3>4, EarlySteps DEF GoesOn, Early, Holding
  <2> QED
    BY <2>1, <2>2 DEF Member, MayWrite
<1> QED
  BY <1>4, <1>5 DEF Members

(* A thread is bound to a head at birth and never again, and no run comes to be
   on a bound thread that is not a member's: membership, checked when a request
   takes hold of the thread, is still good when its row is written. *)
THEOREM ThreadsKeepTheirMembers == Spec => ThreadKeepsItsMembers
<1>1. TypeInv /\ Members /\ Members' /\ [Next]_vars =>
        [\A t \in Threads :
           /\ threads[t] # "absent" => threads'[t] = threads[t]
           /\ \A r \in Requests :
                row'[r].thread = t /\ threads'[t] # None => row'[r].head \in {threads'[t], Provider}]_vars
  <2> SUFFICES ASSUME TypeInv, Members', [Next]_vars, NEW t \in Threads
               PROVE  /\ threads[t] # "absent" => threads'[t] = threads[t]
                      /\ \A r \in Requests :
                           row'[r].thread = t /\ threads'[t] # None
                             => row'[r].head \in {threads'[t], Provider}
    OBVIOUS
  <2>1. threads[t] # "absent" => threads'[t] = threads[t]
    BY OnlyCommitsBind, CommitBinds
  <2>2. \A r \in Requests : MemberRow(r)'
    BY DEF Members
  <2> QED
    BY <2>1, <2>2 DEF MemberRow
<1> QED
  BY <1>1, InitTypeInv, NextTypeInv, InitSessions, NextSessions, InitMembers, NextMembers, PTL
  DEF Spec, ThreadKeepsItsMembers

-----------------------------------------------------------------------------
(* Prompts and replies *)

EndsIn(turns, side) == turns # <<>> /\ turns[Len(turns)] = side

Alternates(turns) == \A i \in 2 .. Len(turns) : turns[i] # turns[i - 1]

(* Nothing is kept of a run that is not there.  Of one that the broker tracks
   the prompt is kept, and its reply is not until it has been folded in; when
   it pauses, the next thing said to it is an answer. *)
TurnRow(r) ==
  /\ status[r] = "none" => log[r] = <<>> /\ r \notin tracked
  /\ r \in folding => r \in tracked /\ status[r] \in {"completed", "input-required", "failed"}
  /\ status[r] = "input-required" /\ r \notin folding => ~EndsIn(log[r], "prompt")
  /\ r \in tracked /\ (status[r] \in {"queued", "running"} \/ r \in folding) => ~EndsIn(log[r], "reply")
  /\ r \in tracked /\ DoorOf[r] # "start_run" => log[r] # <<>>
  /\ Alternates(log[r])
  /\ log[r] # <<>> /\ DoorOf[r] # "start_run" => log[r][1] = "prompt"

(* A run is loaded by one request, which has it to itself until it is enqueued. *)
TurnReq(q) ==
  /\ DoorOf[q] = "start_run" /\ req[q].step \in Early \ {"idle"} => req[q].kind # "answer"
  /\ req[q].step = "saw" => req[q].run \notin tracked
  /\ req[q].step \in Loading => status[req[q].run] = "queued" /\ req[q].run \notin tracked
  /\ req[q].step = "stored" => ~EndsIn(log[req[q].run], "prompt")
  /\ req[q].step = "stored" /\ DoorOf[q] = "start_run" => req[q].run = q /\ log[q] = <<>>
  /\ req[q].step = "committed" => EndsIn(log[req[q].run], "prompt")

LoadsAlone ==
  \A p, q \in Requests :
    req[p].step \in Loading /\ req[q].step \in Loading /\ req[p].run = req[q].run => p = q

Turns == (\A r \in Requests : TurnRow(r)) /\ (\A q \in Requests : TurnReq(q)) /\ LoadsAlone

LEMMA AppendTurn ==
  ASSUME NEW turns \in Seq({"prompt", "reply"}), NEW side \in {"prompt", "reply"},
         Alternates(turns), ~EndsIn(turns, side)
  PROVE  LET longer == Append(turns, side)
         IN /\ longer # <<>> /\ EndsIn(longer, side) /\ Alternates(longer)
            /\ \A other \in {"prompt", "reply"} \ {side} : ~EndsIn(longer, other)
            /\ longer[1] = IF turns = <<>> THEN side ELSE turns[1]
<1> DEFINE longer == Append(turns, side)
<1>1. /\ Len(turns) \in Nat /\ Len(longer) = Len(turns) + 1 /\ longer # <<>>
      /\ longer[Len(turns) + 1] = side
      /\ \A i \in 1 .. Len(turns) : longer[i] = turns[i]
      /\ turns = <<>> <=> Len(turns) = 0
  OBVIOUS
<1> HIDE DEF longer
<1>2. EndsIn(longer, side) /\ \A other \in {"prompt", "reply"} \ {side} : ~EndsIn(longer, other)
  BY <1>1 DEF EndsIn
<1>3. longer[1] = IF turns = <<>> THEN side ELSE turns[1]
  BY <1>1
<1>4. ASSUME NEW i \in 2 .. Len(longer) PROVE longer[i] # longer[i - 1]
  <2>1. CASE i \in 2 .. Len(turns)
    BY <1>1, <2>1 DEF Alternates
  <2>2. CASE i = Len(turns) + 1
    <3>1. Len(turns) # 0 /\ i - 1 \in 1 .. Len(turns) /\ i - 1 = Len(turns)
      BY <1>1, <2>2
    <3> QED
      BY <1>1, <2>2, <3>1 DEF EndsIn
  <2> QED
    BY <1>1, <2>1, <2>2
<1> QED
  BY <1>1, <1>2, <1>3, <1>4 DEF Alternates, longer

LEMMA InitTurns == Init => Turns
BY DEF Init, Turns, TurnRow, TurnReq, LoadsAlone, Loading, EndsIn, Alternates, At

(* How a request comes to load a run. *)
Loads(p) ==
  \/ req'[p] = req[p]
  \/ StoresMessages(p) /\ req[p].step = "stored" /\ req'[p].step = "committed" /\ req'[p].run = req[p].run
  \/ /\ reopen_run(p) /\ req[p].step = "saw" /\ status[req[p].run] = "input-required"
     /\ req'[p].step = "stored" /\ req'[p].run = req[p].run
  \/ create_run(p) /\ req[p].step = "counted" /\ req'[p].step = "stored" /\ req'[p].run = p

LEMMA LoadingSteps ==
  ASSUME TypeInv, [Next]_vars, NEW p \in Requests, req'[p].step \in Loading
  PROVE  Loads(p)
<1>0. RequestsOK
  BY DEF TypeInv
<1>1. ASSUME NEW q \in Requests, NEW kind \in {"utterance", "answer"}, NEW t \in Threads,
             NEW c \in Callers, NEW r \in Requests \cup {None}, Arrives(q, kind, t, c, r)
      PROVE  req'[p] = req[p]
  BY <1>0, <1>1, ArrivesEffect DEF Others, Loading
<1>2. ASSUME NEW q \in Requests, NEW r \in Requests, resubscribe_task(q, r) PROVE req'[p] = req[p]
  BY <1>0, <1>2, ResubscribeEffect DEF Others, Loading
<1>3. ASSUME NEW q \in Requests, NEW step \in Ended, Ends(q, step) PROVE req'[p] = req[p]
  BY <1>0, <1>3, EndsEffect DEF Others, Ended, Loading
<1>4. ASSUME NEW q \in Requests, NEW step \in {"ensured", "counted", "streaming"}, Goes(q, step)
      PROVE  req'[p] = req[p]
  BY <1>0, <1>4, GoesEffect DEF Others, Loading
<1>5. ASSUME NEW q \in Requests, Looks(q) PROVE req'[p] = req[p]
  <2>1. ASSUME NEW r, Saw(q, r) PROVE req'[p] = req[p]
    BY <1>0, <2>1, SawEffect DEF Others, Loading
  <2>2. ASSUME req' = [req EXCEPT ![q].kind = "utterance"], req[q].step = "ensured" PROVE req'[p] = req[p]
    BY <1>0, <2>2, UtteranceEffect DEF Others, Loading
  <2> QED
    BY <1>3, <1>5, <2>1, <2>2 DEF Looks, Refused, Snapshot, Ended
<1>6. ASSUME NEW q \in Requests, reopen_run(q) PROVE Loads(p)
  <2>1. ASSUME req' = [req EXCEPT ![q].step = "stored", ![q].ask = 0],
               status[req[q].run] = "input-required"
        PROVE  Loads(p)
    BY <1>0, <1>6, <2>1, ReopensEffect DEF reopen_run, Others, Loads
  <2>2. ASSUME req' = [req EXCEPT ![q].step = "ensured", ![q].kind = "late", ![q].ask = 0]
        PROVE  req'[p] = req[p]
    BY <1>0, <2>2, LateEffect DEF Others, Loading
  <2> QED
    BY <1>3, <1>6, <2>1, <2>2 DEF reopen_run, Ended, Loads
<1>7. ASSUME NEW q \in Requests, create_run(q) PROVE Loads(p)
  BY <1>0, <1>7, CreateEffect DEF create_run, Others, Loads
<1>8. ASSUME NEW q \in Requests, StoresMessages(q) PROVE Loads(p)
  <2>1. CASE Goes(q, "committed")
    BY <1>0, <1>8, <2>1, GoesEffect DEF StoresMessages, Others, Loads
  <2> QED
    BY <1>3, <1>8, <2>1 DEF StoresMessages, Ended, Loads
<1>9. ASSUME NEW r, EndsStream(r) PROVE req'[p] = req[p]
  BY <1>0, <1>9, EndsStreamEffect DEF Loading
<1>10. \/ UNCHANGED req
       \/ \E q \in Requests :
            \/ \E kind \in {"utterance", "answer"}, t \in Threads, c \in Callers,
                 r \in Requests \cup {None} : Arrives(q, kind, t, c, r)
            \/ \E r \in Requests : resubscribe_task(q, r)
            \/ \E step \in Ended : Ends(q, step)
            \/ \E step \in {"ensured", "counted", "streaming"} : Goes(q, step)
            \/ Looks(q) \/ reopen_run(q) \/ create_run(q) \/ StoresMessages(q) \/ EndsStream(q)
  BY DEF Next, RequestStep, BrokerStep, TurnedAway, ensure_thread, ensure_queue_room, Enqueues,
         Abandoned, Refused, Leaves, Claimed, Settles, Folds, FailsStale, vars, Ended
<1> QED
  BY <1>1, <1>2, <1>3, <1>4, <1>5, <1>6, <1>7, <1>8, <1>9, <1>10 DEF Loads

LEMMA NextLoadsAlone ==
  ASSUME TypeInv, Sessions, Turns, [Next]_vars
  PROVE  LoadsAlone'
<1> SUFFICES ASSUME NEW p \in Requests, NEW q \in Requests, req'[p].step \in Loading,
                    req'[q].step \in Loading, req'[p].run = req'[q].run
             PROVE  p = q
  BY DEF LoadsAlone
<1>1. Loads(p) /\ Loads(q)
  BY LoadingSteps
<1>2. ASSUME NEW o \in {p, q}, Loads(o), req'[o].step \in Loading
      PROVE  \/ req[o].step \in Loading /\ req[o].run = req'[o].run /\ status[req[o].run] = "queued"
             \/ /\ req[o].step = "saw" /\ status[req[o].run] = "input-required" /\ req'[o].run = req[o].run
                /\ lock[row[req[o].run].thread] = o
             \/ req'[o].run = o /\ status[o] = "none"
  BY <1>2 DEF Loads, Loading, Turns, TurnReq, Sessions, Session, Early, Holding
<1> QED
  BY <1>1, <1>2 DEF Turns, LoadsAlone

LEMMA SameRow ==
  ASSUME NEW r \in Requests, TurnRow(r), log'[r] = log[r], status'[r] = status[r],
         r \in tracked' <=> r \in tracked, r \in folding' <=> r \in folding
  PROVE  TurnRow(r)'
BY DEF TurnRow

LEMMA NextTurnRows ==
  ASSUME TypeInv, Sessions, Turns, [Next]_vars, NEW o \in Requests
  PROVE  TurnRow(o)'
<1>0. /\ \A q \in Requests :
           /\ Session(q) /\ TurnReq(q) /\ TurnRow(q)
           /\ req[q].step \in WithRun => req[q].run \in Requests
      /\ status \in [Requests -> Statuses] /\ log \in [Requests -> Seq({"prompt", "reply"})]
  BY DEF TypeInv, RowsOK, RequestsOK, Knows, Turns, Sessions
<1>1. CASE UNCHANGED <<status, log, folding, tracked>>
  BY <1>0, <1>1, SameRow
<1>2. ASSUME NEW q \in Requests, reopen_run(q) PROVE TurnRow(o)'
  <2>1. /\ req[q].step = "saw" /\ req[q].run \in Requests /\ req[q].run \notin tracked
        /\ UNCHANGED <<log, folding, tracked>>
    BY <1>0, <1>2 DEF reopen_run, WithRun, TurnReq
  <2>2. CASE o = req[q].run /\ status'[o] = "queued" /\ status[o] = "input-required"
    BY <1>0, <2>1, <2>2 DEF TurnRow
  <2>3. CASE status'[o] = status[o]
    BY <1>0, <2>1, <2>3, SameRow
  <2> QED
    BY <1>0, <1>2, <2>1, <2>2, <2>3 DEF reopen_run
<1>3. ASSUME NEW q \in Requests, create_run(q) PROVE TurnRow(o)'
  <2>1. status[q] = "none" /\ status' = [status EXCEPT ![q] = "queued"] /\ UNCHANGED <<log, folding, tracked>>
    BY <1>0, <1>3 DEF create_run, Session, Early
  <2>2. CASE o = q
    BY <1>0, <2>1, <2>2 DEF TurnRow
  <2>3. CASE o # q
    BY <1>0, <2>1, <2>3, SameRow
  <2> QED
    BY <2>2, <2>3
<1>4. ASSUME NEW q \in Requests, StoresMessages(q) PROVE TurnRow(o)'
  <2>1. PICK r \in Requests : r = req[q].run
    BY <1>0, <1>4 DEF StoresMessages, WithRun
  <2>2. /\ req[q].step = "stored" /\ status[r] = "queued" /\ r \notin tracked
        /\ ~EndsIn(log[r], "prompt")
        /\ log' = [log EXCEPT ![r] = Append(log[r], "prompt")] /\ UNCHANGED <<folding, tracked>>
        /\ status' \in {status, [status EXCEPT ![r] = "failed"]}
    BY <1>0, <1>4, <2>1 DEF StoresMessages, TurnReq, Loading
  <2>3. CASE o = r
    <3>1. /\ log'[r] # <<>> /\ Alternates(log'[r])
          /\ log'[r][1] = IF log[r] = <<>> THEN "prompt" ELSE log[r][1]
      BY <1>0, <2>2, AppendTurn DEF TurnRow
    <3>2. status'[r] \in {"queued", "failed"} /\ r \notin folding
      BY <1>0, <2>2 DEF TurnRow
    <3> QED
      BY <1>0, <2>2, <2>3, <3>1, <3>2 DEF TurnRow
  <2>4. CASE o # r
    BY <1>0, <2>2, <2>4, SameRow
  <2> QED
    BY <2>3, <2>4
<1>5. ASSUME NEW q \in Requests, Enqueues(q) PROVE TurnRow(o)'
  <2>1. /\ req[q].run \in Requests /\ status[req[q].run] = "queued" /\ req[q].run \notin tracked
        /\ tracked' = tracked \cup {req[q].run} /\ UNCHANGED <<status, log, folding>>
    BY <1>0, <1>5 DEF Enqueues, WithRun, TurnReq, Loading
  <2>2. CASE o = req[q].run
    <3>1. CASE DoorOf[q] = "start_run"
      BY <1>0, <1>5, <2>1, <2>2, <3>1 DEF Enqueues, TurnReq, TurnRow, EndsIn
    <3>2. CASE DoorOf[q] # "start_run"
      BY <1>0, <1>5, <2>1, <2>2, <3>2 DEF Enqueues, TurnReq, TurnRow, EndsIn
    <3> QED
      BY <3>1, <3>2
  <2>3. CASE o # req[q].run
    BY <1>0, <2>1, <2>3, SameRow
  <2> QED
    BY <2>2, <2>3
<1>6. ASSUME NEW r \in Requests, Claimed(r) PROVE TurnRow(o)'
  BY <1>0, <1>6, SameRow DEF Claimed, TurnRow
<1>7. ASSUME NEW r \in Requests, NEW s \in {"completed", "input-required", "failed"}, Settles(r, s)
      PROVE  TurnRow(o)'
  <2>1. /\ r \in tracked /\ r \notin folding /\ status[r] \in {"queued", "running"}
        /\ status' = [status EXCEPT ![r] = s] /\ UNCHANGED <<log, tracked>>
        /\ folding' = IF s = "failed" THEN folding ELSE folding \cup {r}
    BY <1>0, <1>7 DEF Settles, TurnRow
  <2>2. CASE o = r
    BY <1>0, <2>1, <2>2 DEF TurnRow
  <2>3. CASE o # r
    BY <1>0, <2>1, <2>3, SameRow
  <2> QED
    BY <2>2, <2>3
<1>8. ASSUME NEW r \in Requests, Folds(r) PROVE TurnRow(o)'
  <2>1. /\ r \in folding /\ folding' = folding \ {r} /\ UNCHANGED <<status, tracked>>
        /\ log' = [log EXCEPT ![r] = Append(log[r], "reply")]
    BY <1>8 DEF Folds
  <2>2. /\ r \in tracked /\ status[r] \in {"completed", "input-required", "failed"}
        /\ ~EndsIn(log[r], "reply") /\ Alternates(log[r])
    BY <1>0, <2>1 DEF TurnRow
  <2>3. CASE o = r
    <3>1. /\ log'[r] # <<>> /\ Alternates(log'[r]) /\ ~EndsIn(log'[r], "prompt")
          /\ log'[r][1] = IF log[r] = <<>> THEN "reply" ELSE log[r][1]
      BY <1>0, <2>1, <2>2, AppendTurn
    <3> QED
      BY <1>0, <2>1, <2>2, <2>3, <3>1 DEF TurnRow
  <2>4. CASE o # r
    BY <1>0, <2>1, <2>4, SameRow
  <2> QED
    BY <2>3, <2>4
<1>9. ASSUME NEW r \in Requests, EndsStream(r) PROVE TurnRow(o)'
  BY <1>0, <1>9, SameRow DEF EndsStream, TurnRow
<1>10. ASSUME NEW r \in Requests, FailsStale(r) PROVE TurnRow(o)'
  BY <1>0, <1>10, SameRow DEF FailsStale, TurnRow
<1>11. \/ UNCHANGED <<status, log, folding, tracked>>
       \/ \E q \in Requests :
            \/ reopen_run(q) \/ create_run(q) \/ StoresMessages(q) \/ Enqueues(q)
            \/ Claimed(q) \/ Folds(q) \/ EndsStream(q) \/ FailsStale(q)
            \/ \E s \in {"completed", "input-required", "failed"} : Settles(q, s)
  BY DEF Next, RequestStep, BrokerStep, Arrives, resubscribe_task, TurnedAway, ensure_thread, Looks,
         ensure_queue_room, Abandoned, Leaves, vars
<1> QED
  BY <1>1, <1>2, <1>3, <1>4, <1>5, <1>6, <1>7, <1>8, <1>9, <1>10, <1>11

(* What is loaded is nobody else's to touch. *)
LEMMA LoadedRowStays ==
  ASSUME TypeInv, Sessions, Turns, [Next]_vars, NEW p \in Requests, req[p].step \in Loading,
         req'[p] = req[p]
  PROVE  LET r == req[p].run
         IN status'[r] = status[r] /\ log'[r] = log[r] /\ r \notin tracked'
<1>0. /\ \A q \in Requests :
           /\ Session(q) /\ TurnReq(q) /\ TurnRow(q)
           /\ req[q].step \in WithRun => req[q].run \in Requests
      /\ status \in [Requests -> Statuses] /\ log \in [Requests -> Seq({"prompt", "reply"})]
      /\ RequestsOK
  BY DEF TypeInv, RowsOK, RequestsOK, Knows, Turns, Sessions
<1>1. PICK r \in Requests : r = req[p].run
  BY <1>0 DEF Loading, WithRun
<1>2. status[r] = "queued" /\ r \notin tracked /\ r \notin folding
  BY <1>0, <1>1 DEF TurnReq, TurnRow
<1> SUFFICES status'[r] = status[r] /\ log'[r] = log[r] /\ r \notin tracked'
  BY <1>1
<1>3. ASSUME NEW q \in Requests, reopen_run(q) \/ create_run(q)
      PROVE  status'[r] = status[r] /\ log'[r] = log[r] /\ r \notin tracked'
  BY <1>0, <1>2, <1>3 DEF reopen_run, create_run, Session, Early
<1>4. ASSUME NEW q \in Requests, StoresMessages(q) \/ Enqueues(q)
      PROVE  status'[r] = status[r] /\ log'[r] = log[r] /\ r \notin tracked'
  <2>1. req[q].step \in Loading /\ req[q].run \in Requests
    BY <1>0, <1>4 DEF StoresMessages, Enqueues, Loading, WithRun
  <2>2. req'[q] # req[q]
    BY <1>0, <1>4, GoesEffect, EndsEffect DEF StoresMessages, Enqueues
  <2>3. req[q].run # r
    BY <1>1, <2>1, <2>2 DEF Turns, LoadsAlone
  <2> QED
    BY <1>0, <1>2, <1>4, <2>1, <2>3 DEF StoresMessages, Enqueues
<1>5. ASSUME NEW o \in Requests, Claimed(o) \/ Folds(o) \/ EndsStream(o) \/ FailsStale(o)
      PROVE  status'[r] = status[r] /\ log'[r] = log[r] /\ r \notin tracked'
  BY <1>0, <1>2, <1>5 DEF Claimed, Folds, EndsStream, FailsStale
<1>6. ASSUME NEW o \in Requests, NEW s \in {"completed", "input-required", "failed"}, Settles(o, s)
      PROVE  status'[r] = status[r] /\ log'[r] = log[r] /\ r \notin tracked'
  BY <1>0, <1>2, <1>6 DEF Settles
<1>7. CASE UNCHANGED <<status, log, tracked>>
  BY <1>2, <1>7
<1>8. \/ UNCHANGED <<status, log, tracked>>
      \/ \E q \in Requests :
           \/ reopen_run(q) \/ create_run(q) \/ StoresMessages(q) \/ Enqueues(q)
           \/ Claimed(q) \/ Folds(q) \/ EndsStream(q) \/ FailsStale(q)
           \/ \E s \in {"completed", "input-required", "failed"} : Settles(q, s)
  BY DEF Next, RequestStep, BrokerStep, Arrives, resubscribe_task, TurnedAway, ensure_thread, Looks,
         ensure_queue_room, Abandoned, Leaves, vars
<1> QED
  BY <1>3, <1>4, <1>5, <1>6, <1>7, <1>8

LEMMA NextTurnReqs ==
  ASSUME TypeInv, Sessions, Turns, [Next]_vars, NEW p \in Requests
  PROVE  TurnReq(p)'
<1>0. /\ \A q \in Requests :
           /\ Session(q) /\ TurnReq(q) /\ TurnRow(q)
           /\ req[q].step \in WithRun => req[q].run \in Requests
      /\ status \in [Requests -> Statuses] /\ log \in [Requests -> Seq({"prompt", "reply"})]
      /\ RequestsOK
  BY DEF TypeInv, RowsOK, RequestsOK, Knows, Turns, Sessions
<1>1. ASSUME NEW r, r \in tracked', r \notin tracked PROVE r \in Requests /\ status[r] = "queued"
  <2>1. tracked' \subseteq tracked \/ \E q \in Requests : Enqueues(q)
    <3>1. \A o \in Requests : EndsStream(o) => tracked' \subseteq tracked
      BY DEF EndsStream
    <3>2. \A o \in Requests : reopen_run(o) \/ create_run(o) \/ StoresMessages(o) => UNCHANGED tracked
      BY DEF reopen_run, create_run, StoresMessages
    <3>3. \A o \in Requests, s \in {"completed", "input-required", "failed"} : Settles(o, s) => UNCHANGED tracked
      BY DEF Settles
    <3>4. \/ UNCHANGED tracked
          \/ \E q \in Requests :
               \/ Enqueues(q) \/ EndsStream(q) \/ reopen_run(q) \/ create_run(q) \/ StoresMessages(q)
               \/ \E s \in {"completed", "input-required", "failed"} : Settles(q, s)
      BY DEF Next, RequestStep, BrokerStep, Arrives, resubscribe_task, TurnedAway, ensure_thread, Looks,
             ensure_queue_room, Abandoned, Leaves, Claimed, Folds, FailsStale, vars
    <3> QED
      BY <3>1, <3>2, <3>3, <3>4
  <2>2. PICK q \in Requests : Enqueues(q) /\ r = req[q].run
    BY <1>1, <2>1 DEF Enqueues
  <2> QED
    BY <1>0, <2>2 DEF Enqueues, TurnReq, Loading, WithRun
<1>2. CASE req'[p].step \in Early \ {"idle"}
  <2>1. GoesOn(p)
    BY <1>2, EarlySteps
  <2>2. DoorOf[p] = "start_run" => req'[p].kind # "answer"
    BY <1>0, <1>2, <2>1 DEF GoesOn, TurnReq, Session, Early
  <2>3. ASSUME req'[p].step = "saw" PROVE req'[p].run \notin tracked'
    <3>1. CASE req'[p] = req[p]
      <4>1. req[p].run \notin tracked /\ status[req[p].run] # "queued"
        BY <1>0, <2>3, <3>1 DEF TurnReq, Session
      <4> QED
        BY <1>1, <3>1, <4>1
    <3>2. CASE Looks(p)
      <4>1. ASSUME NEW r, Saw(p, r), r \in Paused(req[p].thread) PROVE req'[p].run \notin tracked
        BY <1>0, <4>1, SawEffect DEF Paused
      <4>2. ~Refused(p) /\ ~Snapshot(p)
        BY <1>0, <2>3, EndsEffect DEF Refused, Snapshot
      <4>3. req' # [req EXCEPT ![p].kind = "utterance"]
        BY <1>0, <2>3, <3>2, UtteranceEffect DEF Looks
      <4> QED
        BY <3>2, <4>1, <4>2, <4>3 DEF Looks
    <3> QED
      BY <2>1, <2>3, <3>1, <3>2 DEF GoesOn
  <2> QED
    BY <1>2, <2>2, <2>3 DEF TurnReq, Early, Loading
<1>3. CASE req'[p].step \in Loading
  <2>1. Loads(p)
    BY <1>3, LoadingSteps
  <2>2. CASE req'[p] = req[p]
    BY <1>0, <1>3, <2>2, LoadedRowStays DEF TurnReq, Early, Loading, WithRun
  <2>3. CASE StoresMessages(p) /\ req'[p].step = "committed" /\ req'[p].run = req[p].run
    <3>1. PICK r \in Requests : r = req[p].run
      BY <1>0, <2>3 DEF StoresMessages, WithRun
    <3>2. /\ status[r] = "queued" /\ r \notin tracked /\ ~EndsIn(log[r], "prompt") /\ Alternates(log[r])
          /\ log'[r] = Append(log[r], "prompt") /\ UNCHANGED <<status, tracked>>
      <4>1. ~Ends(p, "answered")
        BY <1>0, <2>3, EndsEffect
      <4> QED
        BY <1>0, <2>3, <3>1, <4>1 DEF StoresMessages, TurnReq, TurnRow, Loading
    <3>3. EndsIn(log'[r], "prompt")
      BY <1>0, <3>2, AppendTurn
    <3> QED
      BY <2>3, <3>1, <3>2, <3>3 DEF TurnReq, Early, Loading
  <2>4. CASE /\ reopen_run(p) /\ status[req[p].run] = "input-required"
             /\ req'[p].step = "stored" /\ req'[p].run = req[p].run
    <3>1. PICK r \in Requests : r = req[p].run
      BY <1>0, <2>4 DEF reopen_run, WithRun
    <3>2. /\ r \notin tracked /\ r \notin folding /\ ~EndsIn(log[r], "prompt")
          /\ DoorOf[p] # "start_run" /\ UNCHANGED <<log, tracked>> /\ status'[r] = "queued"
      BY <1>0, <2>4, <3>1 DEF reopen_run, TurnReq, TurnRow, Session, Early
    <3> QED
      BY <2>4, <3>1, <3>2 DEF TurnReq, Early, Loading
  <2>5. CASE create_run(p) /\ req'[p].step = "stored" /\ req'[p].run = p
    <3>1. /\ log[p] = <<>> /\ p \notin tracked /\ UNCHANGED <<log, tracked>> /\ status'[p] = "queued"
      BY <1>0, <2>5 DEF create_run, Session, TurnRow, Early
    <3> QED
      BY <2>5, <3>1 DEF TurnReq, Early, Loading, EndsIn
  <2> QED
    BY <2>1, <2>2, <2>3, <2>4, <2>5 DEF Loads
<1>4. CASE req'[p].step \notin (Early \ {"idle"}) \cup Loading
  BY <1>4 DEF TurnReq, Early, Loading
<1> QED
  BY <1>2, <1>3, <1>4

LEMMA NextTurns == TypeInv /\ Sessions /\ Turns /\ [Next]_vars => Turns'
BY NextTurnRows, NextTurnReqs, NextLoadsAlone DEF Turns

(* What a thread keeps of a run are prompts and replies in turn, from the first
   prompt on, however often the run pauses and is answered: the reply is stored
   before the stream ends, and no answer is taken before. *)
THEOREM TurnsTakeTurns == Spec => []TurnsAlternate
<1>1. Turns => TurnsAlternate
  BY DEF Turns, TurnRow, Alternates, TurnsAlternate
<1> QED
  BY <1>1, InitTypeInv, NextTypeInv, InitSessions, NextSessions, InitTurns, NextTurns, PTL DEF Spec
=============================================================================
