------------------------ MODULE TurnControllerProofs ------------------------
(***************************************************************************)
(* Proofs about TurnController: its invariant, that turns come one by one  *)
(* and own the session, and that an interrupt holds the queue.             *)
(***************************************************************************)
EXTENDS TurnController, TLAPS

\* The tasks differ from one another and from None.
LEMMA TaskFacts ==
    /\ \A t \in Turns : Run(t) \in Tasks /\ Settle(t) \in Tasks
    /\ \A q \in Slots : QueueTask(q) \in Tasks
    /\ \A t, u \in Turns :
         Run(t) # Settle(u) /\ (t # u => Run(t) # Run(u) /\ Settle(t) # Settle(u))
    /\ \A t \in Turns, q \in Slots : QueueTask(q) \notin {Run(t), Settle(t)}
    /\ None \notin Tasks /\ None \notin Turns /\ Other \notin Turns /\ None # Other
    /\ Turns = Items \cup Starts /\ Items \cap Starts = {}
  BY TurnAssumption DEF Turns, Tasks, Run, Settle, QueueTask

\* The queue without the item at k ...
LEMMA Removed ==
    ASSUME NEW s \in Seq(Items), NEW k \in DOMAIN s
    PROVE  /\ RemoveAt(s, k) \in Seq(Items)
           /\ Len(RemoveAt(s, k)) = Len(s) - 1
           /\ \A j \in DOMAIN RemoveAt(s, k) :
                RemoveAt(s, k)[j] = IF j < k THEN s[j] ELSE s[j + 1]
<1> DEFINE front == SubSeq(s, 1, k - 1)
           back == SubSeq(s, k + 1, Len(s))
<1>1. /\ front \in Seq(Items) /\ Len(front) = k - 1
      /\ \A j \in 1..(k - 1) : front[j] = s[j]
  OBVIOUS
<1>2. /\ back \in Seq(Items) /\ Len(back) = Len(s) - k
      /\ \A j \in 1..(Len(s) - k) : back[j] = s[k + j]
  OBVIOUS
<1> HIDE DEF front, back
<1>3. /\ front \o back \in Seq(Items) /\ Len(front \o back) = Len(s) - 1
      /\ \A j \in 1..(Len(s) - 1) :
           (front \o back)[j] = IF j < k THEN s[j] ELSE s[j + 1]
  <2>1. front \o back \in Seq(Items) /\ Len(front \o back) = Len(s) - 1
    BY <1>1, <1>2
  <2>2. ASSUME NEW j \in 1..(Len(s) - 1)
        PROVE  (front \o back)[j] = IF j < k THEN s[j] ELSE s[j + 1]
    <3>1. CASE j < k
      BY <1>1, <1>2, <3>1
    <3>2. CASE ~ j < k
      <4>1. (front \o back)[j] = back[j - Len(front)] /\ j - Len(front) \in 1..(Len(s) - k)
        BY <1>1, <1>2, <3>2
      <4> QED
        BY SMTT(30), <1>1, <1>2, <3>2, <4>1
    <3> QED
      BY <3>1, <3>2
  <2> QED
    BY <2>1, <2>2
<1>4. RemoveAt(s, k) = front \o back
  BY DEF RemoveAt, front, back
<1>5. DOMAIN (front \o back) = 1..(Len(s) - 1)
  BY <1>3
<1> QED
  BY <1>3, <1>4, <1>5

\* ... without its head ...
LEMMA Popping ==
    ASSUME NEW s \in Seq(Items), s # <<>>
    PROVE  /\ Head(s) \in Items /\ Head(s) = s[1] /\ 1 \in DOMAIN s
           /\ Tail(s) \in Seq(Items) /\ Len(Tail(s)) = Len(s) - 1
           /\ \A j \in DOMAIN Tail(s) : Tail(s)[j] = s[j + 1] /\ j + 1 \in DOMAIN s
  OBVIOUS

\* ... and with one more at its end.
LEMMA Appended ==
    ASSUME NEW s \in Seq(Items), NEW i \in Items
    PROVE  /\ Append(s, i) \in Seq(Items) /\ Append(s, i) # <<>>
           /\ Len(Append(s, i)) = Len(s) + 1
           /\ \A j \in DOMAIN Append(s, i) :
                Append(s, i)[j] = IF j \in DOMAIN s THEN s[j] ELSE i
           /\ \A j \in DOMAIN Append(s, i) : j \notin DOMAIN s => j = Len(s) + 1
  OBVIOUS

\* At first there is nothing but drivers to come.
LEMMA InitInv == Init => TurnInv
<1> SUFFICES ASSUME Init PROVE TurnInv
  OBVIOUS
<1>1. \A t \in Turns : pc[Run(t)] = "new" /\ pc[Settle(t)] = "new"
  BY TaskFacts DEF Init, Run, Settle
<1>2. \A p \in Tasks : pc[p] \in {"new", "done"}
  BY DEF Init
<1>3. TypeOK
  <2>1. pc \in [Tasks -> Labels]
    BY DEF Init, Labels
  <2>2. queue \in Seq(Items) /\ Len(queue) <= MaxItems
    BY TurnAssumption DEF Init
  <2> QED
    BY <2>1, <2>2, TurnAssumption DEF Init, TypeOK
<1>4. ItemsWait /\ ActiveRuns /\ Reserved /\ StartPending
  BY <1>1 DEF Init, ItemsWait, ActiveRuns, Reserved, StartPending, Working, Ending
<1>5. LockHeld
  BY <1>2 DEF LockHeld, Locked
<1>6. PromotionHeld
  BY <1>1, TaskFacts DEF PromotionHeld
<1> QED
  BY <1>3, <1>4, <1>5, <1>6 DEF Init, TurnInv, OtherReserved, HoldBacked, HoldsBack,
                                EndsFailed, Locked

\* Behind an interrupt nothing can be promoted: the queue is paused, the task of the
\* interrupted turn is active, or its reservation stays.
LEMMA HeldBack ==
    ASSUME TurnInv, NEW u \in held, ~ EndsFailed(u),
           NEW p \in Tasks, pc[p] \in {"terminal", "emitting", "injecting"},
           pc[p] = "terminal" => \E t \in Turns \ stopped : p \in {Run(t), Settle(t)}
    PROVE  ~ Promotable(p)
  BY TaskFacts DEF TurnInv, TypeOK, HoldBacked, HoldsBack, Promotable, Ending

\* A promotion by the task that has the lock, or takes it after its turn's end.
LEMMA PromoteNextInv ==
    ASSUME TurnInv, NEW p \in Tasks, pc[p] \in {"terminal", "emitting", "injecting"},
           lock \in {None, p},
           pc[p] = "terminal" => \E t \in Turns \ stopped : p \in {Run(t), Settle(t)},
           PromoteNext(p), UNCHANGED <<paused, stopped, busy, history>>
    PROVE  TurnInv'
<1>1. CASE ~ Promotable(p) /\ Return(p) /\ UNCHANGED <<queue, activeTurn, execution>>
  BY <1>1, TaskFacts
     DEF Return, history, TurnInv, TypeOK, ItemsWait, ActiveRuns, Reserved,
         LockHeld, PromotionHeld, StartPending, OtherReserved, HoldBacked, HoldsBack,
         EndsFailed, Labels,
         Working, Ending, Locked
<1>2. CASE /\ Promotable(p) /\ queue' = Tail(queue) /\ lock' = p
           /\ pc' = [pc EXCEPT ![p] = "popping", ![Run(Head(queue))] = "void"]
           /\ UNCHANGED turnVars
  <2>1. TypeOK'
    <3>1. queue' \in Seq(Items) /\ Len(queue') <= MaxItems
      BY <1>2, TurnAssumption DEF Promotable, TurnInv, TypeOK
    <3>2. pc' \in [Tasks -> Labels]
      BY <1>2 DEF TurnInv, TypeOK, Labels, Locked
    <3>3. paused' \in BOOLEAN /\ held' \subseteq Turns
      BY <1>2 DEF history, TurnInv, TypeOK
    <3> QED
      BY <1>2, <3>1, <3>2, <3>3 DEF turnVars, history, TurnInv, TypeOK
  <2>2. ItemsWait'
    <3>1. queue # <<>> /\ queue \in Seq(Items) /\ queue' = Tail(queue)
      BY <1>2 DEF Promotable, TurnInv, TypeOK
    <3>2. \A t \in Turns : t # Head(queue) /\ Run(t) # p => pc'[Run(t)] = pc[Run(t)]
      BY <1>2, <3>1, Popping, TaskFacts DEF TurnInv, TypeOK
    <3> QED
      BY <3>1, <3>2, Popping, TaskFacts DEF TurnInv, ItemsWait
  <2>3. ActiveRuns'
    BY <1>2, TaskFacts DEF Promotable, TurnInv, TypeOK, ActiveRuns, Working, Ending
  <2>4. Reserved'
    BY <1>2, TaskFacts DEF Promotable, TurnInv, TypeOK, Reserved, Working
  <2>5. LockHeld'
    BY <1>2, TaskFacts DEF TurnInv, TypeOK, LockHeld, Locked
  <2>6. PromotionHeld'
    BY <1>2, TaskFacts DEF TurnInv, TypeOK, PromotionHeld
  <2>7. StartPending'
    BY <1>2, TaskFacts DEF turnVars, TurnInv, TypeOK, StartPending
  <2>8. OtherReserved'
    BY <1>2, TaskFacts DEF Promotable, TurnInv, OtherReserved
  <2>9. HoldBacked'
    <3> SUFFICES ASSUME NEW u \in held', ~ EndsFailed(u)' PROVE FALSE
      BY DEF HoldBacked
    <3>1. u \in held /\ u \in Turns /\ stopped' = stopped
      BY <1>2 DEF history, TurnInv, TypeOK
    <3>2. Head(queue) \in Turns /\ pc[Run(Head(queue))] = "new"
      BY <1>2, Popping, TaskFacts DEF Promotable, TurnInv, TypeOK, ItemsWait
    <3>3. pc \in [Tasks -> Labels] /\ Run(u) \in Tasks
      BY <3>1, TaskFacts DEF TurnInv, TypeOK
    <3>4. ~ EndsFailed(u)
      BY <1>2, <3>1, <3>2, <3>3, TaskFacts DEF EndsFailed, Locked
    <3> QED
      BY <1>2, <3>1, <3>4, HeldBack
  <2> QED
    BY <2>1, <2>2, <2>3, <2>4, <2>5, <2>6, <2>7, <2>8, <2>9 DEF TurnInv
<1>3. CASE /\ Promotable(p) /\ queue' = Tail(queue) /\ lock' = p
           /\ activeTurn' = Head(queue) /\ execution' = Head(queue)
           /\ pc' = [pc EXCEPT ![p] = "promoting", ![Run(Head(queue))] = "prepared"]
           /\ UNCHANGED activeTask
  <2>1. TypeOK'
    <3>1. queue' \in Seq(Items) /\ Len(queue') <= MaxItems
      BY <1>3, TurnAssumption DEF Promotable, TurnInv, TypeOK
    <3>2. pc' \in [Tasks -> Labels]
      BY <1>3 DEF TurnInv, TypeOK, Labels, Locked
    <3>3. paused' \in BOOLEAN /\ held' \subseteq Turns
      BY <1>3 DEF history, TurnInv, TypeOK
    <3> QED
      BY <1>3, TaskFacts, <3>1, <3>2, <3>3 DEF Promotable, history, TurnInv, TypeOK
  <2>2. ItemsWait'
    <3>1. queue # <<>> /\ queue \in Seq(Items) /\ queue' = Tail(queue)
      BY <1>3 DEF Promotable, TurnInv, TypeOK
    <3>2. \A t \in Turns : t # Head(queue) /\ Run(t) # p => pc'[Run(t)] = pc[Run(t)]
      BY <1>3, <3>1, Popping, TaskFacts DEF TurnInv, TypeOK
    <3> QED
      BY <3>1, <3>2, Popping, TaskFacts DEF TurnInv, ItemsWait
  <2>3. ActiveRuns'
    BY <1>3, TaskFacts DEF TurnInv, TypeOK, ActiveRuns, Working, Ending
  <2>4. Reserved'
    BY <1>3, TaskFacts DEF Promotable, TurnInv, TypeOK, Reserved, Working
  <2>5. LockHeld'
    BY <1>3, TaskFacts DEF TurnInv, TypeOK, LockHeld, Locked
  <2>6. PromotionHeld'
    BY <1>3 DEF Promotable, TurnInv, TypeOK, PromotionHeld
  <2>7. StartPending'
    BY <1>3, TaskFacts DEF Promotable, TurnInv, TypeOK, StartPending
  <2>8. OtherReserved'
    BY <1>3, TaskFacts DEF Promotable, TurnInv, OtherReserved
  <2>9. HoldBacked'
    <3> SUFFICES ASSUME NEW u \in held', ~ EndsFailed(u)' PROVE FALSE
      BY DEF HoldBacked
    <3>1. u \in held /\ u \in Turns /\ stopped' = stopped
      BY <1>3 DEF history, TurnInv, TypeOK
    <3>2. Head(queue) \in Turns /\ pc[Run(Head(queue))] = "new"
      BY <1>3, Popping, TaskFacts DEF Promotable, TurnInv, TypeOK, ItemsWait
    <3>3. pc \in [Tasks -> Labels] /\ Run(u) \in Tasks
      BY <3>1, TaskFacts DEF TurnInv, TypeOK
    <3>4. ~ EndsFailed(u)
      BY <1>3, <3>1, <3>2, <3>3, TaskFacts DEF EndsFailed, Locked
    <3> QED
      BY <1>3, <3>1, <3>4, HeldBack
  <2> QED
    BY <2>1, <2>2, <2>3, <2>4, <2>5, <2>6, <2>7, <2>8, <2>9 DEF TurnInv
<1> QED
  BY <1>1, <1>2, <1>3 DEF PromoteNext

\* The promoted turn starts, or was cancelled.
LEMMA PromotedInv ==
    ASSUME TurnInv, NEW p \in Tasks, Promoted(p)
    PROVE  TurnInv'
  BY TaskFacts
     DEF Promoted, Return, history, TurnInv, TypeOK, ItemsWait, ActiveRuns,
         Reserved, LockHeld, PromotionHeld, StartPending, OtherReserved, HoldBacked,
         HoldsBack, EndsFailed,
         Labels, Working, Ending, Locked

\* The queue update is published.
LEMMA PoppedInv ==
    ASSUME TurnInv, NEW p \in Tasks, Popped(p)
    PROVE  TurnInv'
  BY DEF Popped, Goto, queueVars, turnVars, history, TurnInv, TypeOK, ItemsWait,
         ActiveRuns, Reserved, LockHeld, PromotionHeld, StartPending, OtherReserved,
         HoldBacked, HoldsBack, EndsFailed, Labels, Working, Ending, Locked

\* The context is injected.
LEMMA InjectedInv ==
    ASSUME TurnInv, NEW p \in Tasks, Injected(p)
    PROVE  TurnInv'
  BY PromoteNextInv DEF Injected, TurnInv, LockHeld, Locked

\* The pause is published.
LEMMA PausedInv ==
    ASSUME TurnInv, NEW p \in Tasks, Paused(p)
    PROVE  TurnInv'
  BY DEF Paused, Return, history, TurnInv, TypeOK, ItemsWait, ActiveRuns, Reserved,
         LockHeld, PromotionHeld, StartPending, OtherReserved, HoldBacked, HoldsBack,
         EndsFailed, Labels,
         Working, Ending, Locked

\* An item is accepted.
LEMMA EnqueueInv ==
    ASSUME TurnInv, NEW q \in Slots, NEW i \in Items, Enqueue(q, i)
    PROVE  TurnInv'
<1>1. TypeOK'
  <2>1. queue' \in Seq(Items) /\ Len(queue') <= MaxItems
    BY TurnAssumption DEF Enqueue, TurnInv, TypeOK
  <2>2. pc' \in [Tasks -> Labels]
    BY DEF Enqueue, Respond, Goto, TurnInv, TypeOK, Labels
  <2>3. paused' \in BOOLEAN /\ held' \subseteq Turns
    BY DEF Enqueue, history, TurnInv, TypeOK
  <2> QED
    BY <2>1, <2>2, <2>3 DEF Enqueue, turnVars, history, TurnInv, TypeOK
<1>2. ItemsWait'
  <2>1. \A j \in DOMAIN queue : queue[j] \in Items /\ queue[j] # i
    BY DEF Enqueue, Range, TurnInv, TypeOK
  <2>2. \A t \in Turns : pc'[Run(t)] = pc[Run(t)]
    BY TaskFacts DEF Enqueue, Respond, Goto
  <2>3. pc[Run(i)] = "new" /\ queue' = Append(queue, i) /\ queue \in Seq(Items)
    BY DEF Enqueue, TurnInv, TypeOK
  <2> QED
    BY <2>1, <2>2, <2>3, TaskFacts, Appended DEF TurnInv, ItemsWait
<1>3. ActiveRuns'
  BY TaskFacts DEF Enqueue, Respond, Goto, turnVars, TurnInv, ActiveRuns
<1>4. Reserved'
  BY TaskFacts DEF Enqueue, Respond, Goto, turnVars, TurnInv, Reserved
<1>5. LockHeld'
  BY DEF Enqueue, Respond, Goto, TurnInv, LockHeld, Locked
<1>6. PromotionHeld'
  BY DEF Enqueue, Respond, Goto, turnVars, TurnInv, PromotionHeld
<1>7. StartPending'
  BY DEF Enqueue, Respond, Goto, turnVars, TurnInv, StartPending
<1>8. OtherReserved'
  BY DEF Enqueue, turnVars, TurnInv, OtherReserved
<1>9. HoldBacked'
  <2>1. queue' # <<>>
    BY Appended DEF Enqueue, TurnInv, TypeOK
  <2> QED
    BY <2>1, TaskFacts
       DEF Enqueue, Respond, Goto, turnVars, history, TurnInv, TypeOK, HoldBacked,
           HoldsBack, EndsFailed, Locked
<1> QED
  BY <1>1, <1>2, <1>3, <1>4, <1>5, <1>6, <1>7, <1>8, <1>9 DEF TurnInv

\* An item is replaced.
LEMMA ReplaceInv ==
    ASSUME TurnInv, NEW q \in Slots, Replace(q)
    PROVE  TurnInv'
  BY TaskFacts
     DEF Replace, Respond, Goto, queueVars, turnVars, history, TurnInv, TypeOK,
         ItemsWait, ActiveRuns, Reserved, LockHeld, PromotionHeld, StartPending,
         OtherReserved, HoldBacked, HoldsBack, EndsFailed, Labels, Locked

\* An item is removed.
LEMMA RemoveItemInv ==
    ASSUME TurnInv, NEW q \in Slots, NEW i \in Items, RemoveItem(q, i)
    PROVE  TurnInv'
<1>1. TypeOK'
  <2>1. queue' \in Seq(Items) /\ Len(queue') <= MaxItems
    BY Removed, TurnAssumption DEF RemoveItem, TurnInv, TypeOK
  <2>2. pc' \in [Tasks -> Labels]
    BY DEF RemoveItem, TurnInv, TypeOK, Labels
  <2>3. paused' \in BOOLEAN /\ held' \subseteq Turns
    BY DEF RemoveItem, TurnInv, TypeOK
  <2> QED
    BY <2>1, <2>2, <2>3 DEF RemoveItem, turnVars, TurnInv, TypeOK
<1>2. ItemsWait'
  <2> PICK k \in DOMAIN queue : queue[k] = i /\ queue' = RemoveAt(queue, k)
    BY DEF RemoveItem
  <2>1. \A j \in DOMAIN queue' : \E l \in DOMAIN queue \ {k} :
          l = (IF j < k THEN j ELSE j + 1) /\ queue'[j] = queue[l]
    <3> queue \in Seq(Items)
      BY DEF TurnInv, TypeOK
    <3> QED
      BY Removed
  <2>2. \A t \in Turns \ {i} : pc'[Run(t)] = pc[Run(t)]
    BY TaskFacts DEF RemoveItem, TurnInv, TypeOK
  <2>3. \A l \in DOMAIN queue \ {k} : queue[l] \in Turns \ {i}
    BY TaskFacts DEF TurnInv, TypeOK, ItemsWait
  <2>4. ASSUME NEW j \in DOMAIN queue' PROVE pc'[Run(queue'[j])] = "new"
    BY <2>1, <2>2, <2>3 DEF TurnInv, ItemsWait
  <2>5. ASSUME NEW j \in DOMAIN queue', NEW m \in DOMAIN queue', queue'[j] = queue'[m]
        PROVE  j = m
    <3>1. PICK a \in DOMAIN queue \ {k} :
            a = (IF j < k THEN j ELSE j + 1) /\ queue'[j] = queue[a]
      BY <2>1
    <3>2. PICK b \in DOMAIN queue \ {k} :
            b = (IF m < k THEN m ELSE m + 1) /\ queue'[m] = queue[b]
      BY <2>1
    <3>3. a = b
      BY <2>5, <3>1, <3>2 DEF TurnInv, ItemsWait
    <3>4. /\ queue \in Seq(Items) /\ k \in DOMAIN queue
          /\ queue' \in Seq(Items) /\ j \in DOMAIN queue' /\ m \in DOMAIN queue'
      BY Removed DEF TurnInv, TypeOK
    <3>5. j \in Int /\ m \in Int /\ k \in Int
      BY <3>4
    <3> QED
      BY <3>1, <3>2, <3>3, <3>5
  <2> QED
    BY <2>4, <2>5 DEF ItemsWait
<1>3. ActiveRuns'
  BY TaskFacts DEF RemoveItem, turnVars, TurnInv, TypeOK, ActiveRuns, Working, Ending
<1>4. Reserved'
  BY TaskFacts DEF RemoveItem, turnVars, TurnInv, TypeOK, Reserved, Working
<1>5. LockHeld'
  BY DEF RemoveItem, TurnInv, TypeOK, LockHeld, Locked
<1>6. PromotionHeld'
  <2>1. pc[Run(i)] = "new"
    BY DEF RemoveItem, TurnInv, ItemsWait
  <2> QED
    BY <2>1, TaskFacts DEF RemoveItem, turnVars, TurnInv, TypeOK, PromotionHeld
<1>7. StartPending'
  BY TaskFacts DEF RemoveItem, turnVars, TurnInv, TypeOK, StartPending
<1>8. OtherReserved'
  BY DEF RemoveItem, turnVars, TurnInv, OtherReserved
<1>9. HoldBacked'
  <2>1. pc[Run(i)] = "new"
    BY DEF RemoveItem, TurnInv, ItemsWait
  <2> QED
    BY <2>1, TaskFacts DEF RemoveItem, turnVars, TurnInv, TypeOK, HoldBacked,
                           HoldsBack, EndsFailed, Locked, Ending
<1> QED
  BY <1>1, <1>2, <1>3, <1>4, <1>5, <1>6, <1>7, <1>8, <1>9 DEF TurnInv

\* The queue is resumed.
LEMMA ResumeInv ==
    ASSUME TurnInv, NEW q \in Slots, Resume(q)
    PROVE  TurnInv'
<1>1. TypeOK'
  BY DEF Resume, Respond, Goto, turnVars, TurnInv, TypeOK, Labels
<1>2. ItemsWait'
  BY DEF Resume, Respond, Goto, TurnInv, ItemsWait
<1>3. ActiveRuns'
  BY TaskFacts DEF Resume, Respond, Goto, turnVars, TurnInv, ActiveRuns
<1>4. Reserved'
  BY TaskFacts DEF Resume, Respond, Goto, turnVars, TurnInv, Reserved
<1>5. LockHeld'
  BY DEF Resume, Respond, Goto, TurnInv, LockHeld, Locked
<1>6. PromotionHeld'
  BY DEF Resume, Respond, Goto, turnVars, TurnInv, PromotionHeld
<1>7. StartPending'
  BY DEF Resume, Respond, Goto, turnVars, TurnInv, StartPending
<1>8. OtherReserved'
  BY DEF Resume, turnVars, TurnInv, OtherReserved
<1>9. HoldBacked'
  BY DEF Resume, HoldBacked, HoldsBack, EndsFailed, Locked
<1> QED
  BY <1>1, <1>2, <1>3, <1>4, <1>5, <1>6, <1>7, <1>8, <1>9 DEF TurnInv

\* The response is sent or lost.
LEMMA RespondedInv ==
    ASSUME TurnInv, NEW q \in Slots, Responded(q)
    PROVE  TurnInv'
  BY TaskFacts
     DEF Responded, Goto, queueVars, turnVars, history, TurnInv, TypeOK, ItemsWait,
         ActiveRuns, Reserved, LockHeld, PromotionHeld, StartPending, OtherReserved,
         HoldBacked, HoldsBack, EndsFailed, Labels, Locked

\* A queue task gets the lock.
LEMMA TakeLockInv ==
    ASSUME TurnInv, NEW q \in Slots, TakeLock(q)
    PROVE  TurnInv'
  BY TaskFacts
     DEF TakeLock, Goto, turnVars, history, TurnInv, TypeOK, ItemsWait, ActiveRuns,
         Reserved, LockHeld, PromotionHeld, StartPending, OtherReserved, HoldBacked,
         HoldsBack, EndsFailed,
         Labels, Locked

\* A queue task promotes.
LEMMA EmittedInv ==
    ASSUME TurnInv, NEW q \in Slots, Emitted(q)
    PROVE  TurnInv'
  BY PromoteNextInv, TaskFacts DEF Emitted, TurnInv, LockHeld, Locked

\* A turn is started by a client.
LEMMA StartInv ==
    ASSUME TurnInv, NEW t \in Starts, Start(t)
    PROVE  TurnInv'
  BY TaskFacts
     DEF Start, Startable, queueVars, history, TurnInv, TypeOK, ItemsWait,
         ActiveRuns, Reserved, LockHeld, PromotionHeld, StartPending, OtherReserved,
         HoldBacked, HoldsBack, EndsFailed, Labels, Working, Ending, Locked

\* Its driver is created.
LEMMA StartActionInv ==
    ASSUME TurnInv, NEW t \in Starts, StartAction(t)
    PROVE  TurnInv'
  BY TaskFacts
     DEF StartAction, Goto, queueVars, history, TurnInv, TypeOK, ItemsWait,
         ActiveRuns, Reserved, LockHeld, PromotionHeld, StartPending, OtherReserved,
         HoldBacked, HoldsBack, EndsFailed, Labels, Locked

\* The start is aborted.
LEMMA AbortInv ==
    ASSUME TurnInv, NEW t \in Starts, Abort(t)
    PROVE  TurnInv'
<1>1. /\ TypeOK' /\ ItemsWait' /\ ActiveRuns' /\ Reserved' /\ LockHeld'
      /\ PromotionHeld' /\ StartPending' /\ OtherReserved'
  BY TaskFacts
     DEF Abort, Goto, queueVars, history, TurnInv, TypeOK, ItemsWait, ActiveRuns,
         Reserved, LockHeld, PromotionHeld, StartPending, OtherReserved, Labels,
         Working, Ending, Locked
<1>2. HoldBacked'
  <2> SUFFICES ASSUME NEW u \in held', ~ EndsFailed(u)' PROVE HoldsBack(u)'
    BY DEF HoldBacked
  <2>1. u \in Turns /\ HoldsBack(u)
    BY TaskFacts DEF Abort, Goto, history, TurnInv, TypeOK, HoldBacked, EndsFailed,
                     Locked
  <2>2. /\ pc[Run(t)] = "prepared" /\ activeTask = None /\ execution = t
        /\ activeTask' = None /\ pc' = [pc EXCEPT ![Run(t)] = "void"]
        /\ queue' = queue /\ paused' = paused
    BY TaskFacts DEF Abort, Goto, queueVars, TurnInv, StartPending, Reserved
  <2>3. HoldsBack(u) /\ paused
    BY <2>1, <2>2, TaskFacts DEF HoldsBack
  <2> QED
    BY <2>2, <2>3 DEF HoldsBack
<1> QED
  BY <1>1, <1>2 DEF TurnInv

\* A due loop starts its turn.
LEMMA FireLoopInv ==
    ASSUME TurnInv, NEW t \in Starts, FireLoop(t)
    PROVE  TurnInv'
  BY TaskFacts
     DEF FireLoop, Startable, queueVars, history, TurnInv, TypeOK, ItemsWait,
         ActiveRuns, Reserved, LockHeld, PromotionHeld, StartPending, OtherReserved,
         HoldBacked, HoldsBack, EndsFailed, Labels, Locked

\* The driver takes its first step.
LEMMA BeginInv ==
    ASSUME TurnInv, NEW t \in Turns, Begin(t)
    PROVE  TurnInv'
  BY TaskFacts
     DEF Begin, Goto, queueVars, turnVars, history, TurnInv, TypeOK, ItemsWait,
         ActiveRuns, Reserved, LockHeld, PromotionHeld, StartPending, OtherReserved,
         HoldBacked, HoldsBack, EndsFailed, Labels, Working, Ending, Locked

\* The phase ends.
LEMMA PhaseEndsInv ==
    ASSUME TurnInv, NEW t \in Turns, PhaseEnds(t)
    PROVE  TurnInv'
  BY TaskFacts
     DEF PhaseEnds, Goto, queueVars, turnVars, history, TurnInv, TypeOK, ItemsWait,
         ActiveRuns, Reserved, LockHeld, PromotionHeld, StartPending, OtherReserved,
         HoldBacked, HoldsBack, EndsFailed, Labels, Working, Locked

\* Finalizing fails.
LEMMA FinalizeFailsInv ==
    ASSUME TurnInv, NEW t \in Turns, FinalizeFails(t)
    PROVE  TurnInv'
<1>1. /\ TypeOK' /\ ItemsWait' /\ ActiveRuns' /\ Reserved' /\ LockHeld'
      /\ PromotionHeld' /\ StartPending' /\ OtherReserved'
  BY TaskFacts
     DEF FinalizeFails, Goto, queueVars, turnVars, history, TurnInv, TypeOK, ItemsWait,
         ActiveRuns, Reserved, LockHeld, PromotionHeld, StartPending, OtherReserved,
         Labels, Working, Locked
<1>2. HoldBacked'
  <2> SUFFICES ASSUME NEW u \in held', ~ EndsFailed(u)' PROVE HoldsBack(u)'
    BY DEF HoldBacked
  <2>1. u \in Turns /\ u # t /\ HoldsBack(u)
    BY TaskFacts DEF FinalizeFails, Goto, history, TurnInv, TypeOK, HoldBacked,
                     EndsFailed, Locked
  <2> QED
    BY <2>1, TaskFacts
       DEF FinalizeFails, Goto, queueVars, turnVars, TurnInv, TypeOK, HoldsBack
<1> QED
  BY <1>1, <1>2 DEF TurnInv

\* The failed turn is recorded.
LEMMA RecoveredInv ==
    ASSUME TurnInv, NEW t \in Turns, Recovered(t)
    PROVE  TurnInv'
  BY TaskFacts
     DEF Recovered, Goto, queueVars, history, TurnInv, TypeOK, ItemsWait,
         ActiveRuns, Reserved, LockHeld, PromotionHeld, StartPending, OtherReserved,
         HoldBacked, HoldsBack, EndsFailed, Labels, Ending, Locked

\* The turn is recorded.
LEMMA FinalizedInv ==
    ASSUME TurnInv, NEW t \in Turns, Finalized(t)
    PROVE  TurnInv'
  BY TaskFacts
     DEF Finalized, Goto, queueVars, turnVars, history, TurnInv, TypeOK, ItemsWait,
         ActiveRuns, Reserved, LockHeld, PromotionHeld, StartPending, OtherReserved,
         HoldBacked, HoldsBack, EndsFailed, Labels, Ending, Locked

\* Its statistics are published.
LEMMA RecordedInv ==
    ASSUME TurnInv, NEW t \in Turns, Recorded(t)
    PROVE  TurnInv'
  BY TaskFacts
     DEF Recorded, Goto, queueVars, history, TurnInv, TypeOK, ItemsWait, ActiveRuns,
         Reserved, LockHeld, PromotionHeld, StartPending, OtherReserved, HoldBacked,
         HoldsBack, EndsFailed,
         Labels, Ending, Locked

\* The status is idle.
LEMMA AnnouncedInv ==
    ASSUME TurnInv, NEW t \in Turns, Announced(t)
    PROVE  TurnInv'
  BY TaskFacts
     DEF Announced, Goto, queueVars, history, TurnInv, TypeOK, ItemsWait,
         ActiveRuns, Reserved, LockHeld, PromotionHeld, StartPending, OtherReserved,
         HoldBacked, HoldsBack, EndsFailed, Labels, Working, Ending, Locked

\* The completion is published.
LEMMA PublishedInv ==
    ASSUME TurnInv, NEW t \in Turns, Published(t)
    PROVE  TurnInv'
  BY TaskFacts
     DEF Published, Goto, queueVars, history, TurnInv, TypeOK, ItemsWait,
         ActiveRuns, Reserved, LockHeld, PromotionHeld, StartPending, OtherReserved,
         HoldBacked, HoldsBack, EndsFailed, Labels, Working, Locked

\* The completion of a turn that never ran is published.
LEMMA SettledInv ==
    ASSUME TurnInv, NEW t \in Turns, Settled(t)
    PROVE  TurnInv'
  BY TaskFacts
     DEF Settled, Goto, queueVars, history, TurnInv, TypeOK, ItemsWait, ActiveRuns,
         Reserved, LockHeld, PromotionHeld, StartPending, OtherReserved, HoldBacked,
         HoldsBack, EndsFailed,
         Labels, Locked

\* The driver or the settlement of a turn that is over pauses the queue, returns or
\* promotes.
LEMMA AfterTurnTerminalInv ==
    ASSUME TurnInv, NEW t \in Turns, NEW p \in {Run(t), Settle(t)},
    AfterTurnTerminal(p, t)
    PROVE  TurnInv'
<1>1. p \in Tasks
  BY TaskFacts
<1>2. CASE t \notin stopped
  BY <1>1, <1>2, PromoteNextInv DEF AfterTurnTerminal
<1>3. CASE t \in stopped
  <2>1. TypeOK'
    <3>1. queue' \in Seq(Items) /\ Len(queue') <= MaxItems
      BY <1>3 DEF AfterTurnTerminal, TurnInv, TypeOK
    <3>2. pc' \in [Tasks -> Labels]
      BY <1>1, <1>3 DEF AfterTurnTerminal, Return, TurnInv, TypeOK, Labels, Locked
    <3>3. paused' \in BOOLEAN /\ held' \subseteq Turns
      BY <1>1, <1>3 DEF AfterTurnTerminal, history, TurnInv, TypeOK
    <3> QED
      BY <1>1, <1>3, <3>1, <3>2, <3>3
         DEF AfterTurnTerminal, Return, turnVars, history, TurnInv, TypeOK
  <2>2. ItemsWait'
    BY <1>1, <1>3, TaskFacts DEF AfterTurnTerminal, Return, TurnInv, TypeOK, ItemsWait
  <2>3. ActiveRuns'
    BY <1>1, <1>3, TaskFacts
       DEF AfterTurnTerminal, Return, turnVars, TurnInv, TypeOK, ActiveRuns,
           Working, Ending
  <2>4. Reserved'
    BY <1>1, <1>3, TaskFacts
       DEF AfterTurnTerminal, Return, turnVars, TurnInv, TypeOK, Reserved, Working
  <2>5. LockHeld'
    BY <1>1, <1>3, TaskFacts
       DEF AfterTurnTerminal, Return, TurnInv, TypeOK, LockHeld, Locked
  <2>6. PromotionHeld'
    BY <1>1, <1>3, TaskFacts
       DEF AfterTurnTerminal, Return, TurnInv, TypeOK, PromotionHeld
  <2>7. StartPending'
    BY <1>1, <1>3, TaskFacts
       DEF AfterTurnTerminal, Return, turnVars, TurnInv, TypeOK, StartPending
  <2>8. OtherReserved'
    BY <1>1, <1>3 DEF AfterTurnTerminal, turnVars, TurnInv, OtherReserved
  <2>9. HoldBacked'
    <3> SUFFICES ASSUME NEW u \in held', ~ EndsFailed(u)' PROVE HoldsBack(u)'
      BY DEF HoldBacked
    <3>1. u \in held /\ u \in Turns /\ HoldsBack(u)
      BY <1>1, <1>3, TaskFacts
         DEF AfterTurnTerminal, Return, history, TurnInv, TypeOK, HoldBacked,
             EndsFailed, Locked
    <3>2. queue # <<>> /\ paused'
      BY <1>1, <1>3, <3>1 DEF AfterTurnTerminal, HoldsBack
    <3> QED
      BY <1>3, <3>2 DEF AfterTurnTerminal, turnVars, HoldsBack
  <2> QED
    BY <2>1, <2>2, <2>3, <2>4, <2>5, <2>6, <2>7, <2>8, <2>9 DEF TurnInv
<1> QED
  BY <1>2, <1>3

\* An interrupt cancels the driver, settles a turn that never ran, or cancels the
\* task that is promoting the turn.
LEMMA InterruptInv ==
    ASSUME TurnInv, NEW t \in Turns, Interrupt(t)
    PROVE  TurnInv'
<1> USE TaskFacts DEF Interrupt, Interruptible, SettleUnstarted, turnVars
<1>1. CASE pc[Run(t)] \in {"working", "finalizing"}
  <2>1. /\ TypeOK' /\ ItemsWait' /\ ActiveRuns' /\ Reserved' /\ LockHeld'
        /\ PromotionHeld' /\ StartPending' /\ OtherReserved'
    BY <1>1
       DEF TurnInv, TypeOK, ItemsWait, ActiveRuns, Reserved, LockHeld, PromotionHeld,
           StartPending, OtherReserved, Labels, Working, Locked
  <2>2. HoldBacked'
    <3> SUFFICES ASSUME NEW u \in held', ~ EndsFailed(u)' PROVE HoldsBack(u)'
      BY DEF HoldBacked
    <3>1. CASE u = t
      BY <1>1, <3>1 DEF TurnInv, TypeOK, ActiveRuns, HoldBacked, HoldsBack, EndsFailed,
                        Locked, Working
    <3>2. CASE u # t
      <4>1. u \in Turns /\ HoldsBack(u)
        BY <1>1, <3>2 DEF TurnInv, TypeOK, HoldBacked, EndsFailed, Locked
      <4> QED
        BY <1>1, <3>2, <4>1 DEF TurnInv, TypeOK, HoldsBack
    <3> QED
      BY <3>1, <3>2
  <2> QED
    BY <2>1, <2>2 DEF TurnInv
<1>2. CASE pc[Run(t)] = "recovering"
  <2>1. /\ TypeOK' /\ ItemsWait' /\ ActiveRuns' /\ Reserved' /\ LockHeld'
        /\ PromotionHeld' /\ StartPending' /\ OtherReserved'
    BY <1>2
       DEF TurnInv, TypeOK, ItemsWait, ActiveRuns, Reserved, LockHeld, PromotionHeld,
           StartPending, OtherReserved, Labels
  <2>2. HoldBacked'
    <3> SUFFICES ASSUME NEW u \in held', ~ EndsFailed(u)' PROVE HoldsBack(u)'
      BY DEF HoldBacked
    <3>1. CASE u = t
      BY <1>2, <3>1
         DEF TurnInv, TypeOK, ActiveRuns, HoldBacked, HoldsBack, EndsFailed, Locked,
             Working
    <3>2. CASE u # t
      <4>1. u \in Turns /\ HoldsBack(u)
        BY <1>2, <3>2 DEF TurnInv, TypeOK, HoldBacked, EndsFailed, Locked
      <4> QED
        BY <1>2, <4>1 DEF HoldsBack
    <3> QED
      BY <3>1, <3>2
  <2> QED
    BY <2>1, <2>2 DEF TurnInv
<1>3. CASE pc[Run(t)] = "created"
  <2>1. /\ TypeOK' /\ ItemsWait' /\ ActiveRuns' /\ Reserved' /\ LockHeld'
        /\ PromotionHeld' /\ StartPending' /\ OtherReserved'
    BY <1>3
       DEF TurnInv, TypeOK, ItemsWait, ActiveRuns, Reserved, LockHeld, PromotionHeld,
           StartPending, OtherReserved, Labels, Working,
           Ending, Locked
  <2>2. HoldBacked'
    <3> SUFFICES ASSUME NEW u \in held', ~ EndsFailed(u)' PROVE HoldsBack(u)'
      BY DEF HoldBacked
    <3>1. CASE u = t
      BY <1>3, <3>1 DEF TurnInv, TypeOK, Reserved, HoldBacked, HoldsBack, EndsFailed,
                        Locked
    <3>2. CASE u # t
      <4>1. u \in Turns /\ HoldsBack(u)
        BY <1>3, <3>2 DEF TurnInv, TypeOK, HoldBacked, EndsFailed, Locked
      <4> QED
        BY <1>3, <3>2, <4>1
           DEF TurnInv, TypeOK, ActiveRuns, Reserved, HoldsBack, Working, Ending
    <3> QED
      BY <3>1, <3>2
  <2> QED
    BY <2>1, <2>2 DEF TurnInv
<1>4. CASE pc[Run(t)] = "prepared" /\ activeTask = None
  <2>1. /\ TypeOK' /\ ItemsWait' /\ ActiveRuns' /\ Reserved' /\ LockHeld'
        /\ PromotionHeld' /\ StartPending' /\ OtherReserved'
    BY <1>4
       DEF TurnInv, TypeOK, ItemsWait, ActiveRuns, Reserved, LockHeld, PromotionHeld,
           StartPending, OtherReserved, Labels, Working,
           Ending, Locked
  <2>2. HoldBacked'
    <3> SUFFICES ASSUME NEW u \in held', ~ EndsFailed(u)' PROVE HoldsBack(u)'
      BY DEF HoldBacked
    <3>1. CASE u = t
      BY <1>4, <3>1 DEF TurnInv, TypeOK, Reserved, HoldBacked, HoldsBack, EndsFailed,
                        Locked
    <3>2. CASE u # t
      <4>1. u \in Turns /\ HoldsBack(u)
        BY <1>4, <3>2 DEF TurnInv, TypeOK, HoldBacked, EndsFailed, Locked
      <4> QED
        BY <1>4, <3>2, <4>1
           DEF TurnInv, TypeOK, ActiveRuns, Reserved, HoldsBack, Working, Ending
    <3> QED
      BY <3>1, <3>2
  <2> QED
    BY <2>1, <2>2 DEF TurnInv
<1>5. CASE pc[Run(t)] = "prepared" /\ activeTask # None
  <2>1. TypeOK'
    BY <1>5 DEF TurnInv, TypeOK, Labels
  <2>2. ItemsWait'
    BY <1>5 DEF TurnInv, TypeOK, ItemsWait, PromotionHeld, StartPending
  <2>3. ActiveRuns'
    BY <1>5 DEF TurnInv, TypeOK, ActiveRuns, Working, Ending
  <2>4. Reserved'
    BY <1>5 DEF TurnInv, TypeOK, Reserved, Working
  <2>5. LockHeld'
    BY <1>5 DEF TurnInv, TypeOK, LockHeld, PromotionHeld, StartPending, Locked
  <2>6. PromotionHeld'
    BY <1>5 DEF TurnInv, TypeOK, Reserved, PromotionHeld
  <2>7. StartPending'
    BY <1>5 DEF StartPending
  <2>8. OtherReserved'
    BY <1>5 DEF TurnInv, OtherReserved
  <2>9. HoldBacked'
    <3> SUFFICES ASSUME NEW u \in held', ~ EndsFailed(u)' PROVE HoldsBack(u)'
      BY DEF HoldBacked
    <3>1. CASE u = t
      <4>1. queue # <<>>
        BY <1>5, <3>1 DEF TurnInv, TypeOK, HoldBacked, HoldsBack, EndsFailed, Locked
      <4>2. execution = t /\ pc'[Run(t)] = "void" /\ pc'[Settle(t)] # "settling"
        BY <1>5 DEF TurnInv, TypeOK, ActiveRuns, Reserved, PromotionHeld, StartPending
      <4> QED
        BY <1>5, <3>1, <4>1, <4>2 DEF HoldsBack
    <3>2. CASE u # t
      <4>1. u \in Turns /\ HoldsBack(u)
        BY <1>5, <3>2 DEF TurnInv, TypeOK, PromotionHeld, HoldBacked, EndsFailed, Locked
      <4>2. execution = t /\ execution' = t /\ pc[activeTask] = "promoting"
        BY <1>5 DEF TurnInv, Reserved, PromotionHeld, StartPending
      <4>3. queue # <<>> /\ paused
        BY <3>2, <4>1, <4>2 DEF HoldsBack, Ending
      <4> QED
        BY <1>5, <4>3 DEF HoldsBack
    <3> QED
      BY <3>1, <3>2
  <2> QED
    BY <2>1, <2>2, <2>3, <2>4, <2>5, <2>6, <2>7, <2>8, <2>9 DEF TurnInv
<1> QED
  BY <1>1, <1>2, <1>3, <1>4, <1>5

\* Another operation begins.
LEMMA BeginOtherInv ==
    ASSUME TurnInv, BeginOther
    PROVE  TurnInv'
  BY TaskFacts
     DEF BeginOther, queueVars, history, TurnInv, TypeOK, ItemsWait, ActiveRuns,
         Reserved, LockHeld, PromotionHeld, StartPending, OtherReserved, HoldBacked,
         HoldsBack, EndsFailed, Locked

\* It ends.
LEMMA EndOtherInv ==
    ASSUME TurnInv, EndOther
    PROVE  TurnInv'
<1>1. TypeOK'
  BY DEF EndOther, queueVars, history, TurnInv, TypeOK
<1>2. ItemsWait'
  BY DEF EndOther, queueVars, TurnInv, ItemsWait
<1>3. ActiveRuns'
  BY DEF EndOther, TurnInv, ActiveRuns
<1>4. Reserved'
  BY TaskFacts DEF EndOther, TurnInv, Reserved
<1>5. LockHeld'
  BY DEF EndOther, queueVars, TurnInv, LockHeld
<1>6. PromotionHeld'
  BY DEF EndOther, queueVars, TurnInv, PromotionHeld
<1>7. StartPending'
  BY DEF EndOther, TurnInv, StartPending
<1>8. OtherReserved'
  BY DEF EndOther, OtherReserved
<1>9. HoldBacked'
  <2> SUFFICES ASSUME NEW u \in held', ~ EndsFailed(u)' PROVE HoldsBack(u)'
    BY DEF HoldBacked
  <2>1. u \in Turns /\ HoldsBack(u)
    BY DEF EndOther, history, TurnInv, TypeOK, HoldBacked, EndsFailed, Locked
  <2> QED
    BY <2>1, TaskFacts DEF EndOther, queueVars, HoldsBack
<1> QED
  BY <1>1, <1>2, <1>3, <1>4, <1>5, <1>6, <1>7, <1>8, <1>9 DEF TurnInv

\* The session is reset, its tasks cancelled.
LEMMA ResetInv ==
    ASSUME TurnInv, Reset
    PROVE  TurnInv'
<1>1. TypeOK'
  <2>1. queue' \in Seq(Items) /\ Len(queue') <= MaxItems
    BY TurnAssumption DEF Reset, TurnInv, TypeOK
  <2>2. pc' \in [Tasks -> Labels]
    BY DEF Reset, Labels
  <2>3. paused' \in BOOLEAN /\ held' \subseteq Turns
    BY TaskFacts DEF Reset, TurnInv, TypeOK
  <2> QED
    BY TaskFacts, <2>1, <2>2, <2>3 DEF Reset, TurnInv, TypeOK
<1>2. ItemsWait'
  BY DEF Reset, ItemsWait
<1>3. ActiveRuns'
  BY TaskFacts DEF Reset, ActiveRuns, Working, Ending
<1>4. Reserved'
  BY TaskFacts DEF Reset, Reserved, Working
<1>5. LockHeld'
  BY DEF Reset, LockHeld, Locked
<1>6. PromotionHeld'
  BY TaskFacts DEF Reset, PromotionHeld
<1>7. StartPending'
  BY DEF Reset, StartPending
<1>8. OtherReserved'
  BY DEF Reset, TurnInv, OtherReserved
<1>9. HoldBacked'
  BY DEF Reset, HoldBacked, HoldsBack, EndsFailed, Locked
<1> QED
  BY <1>1, <1>2, <1>3, <1>4, <1>5, <1>6, <1>7, <1>8, <1>9 DEF TurnInv

\* Every step preserves the invariant.
LEMMA NextInv == TurnInv /\ [Next]_vars => TurnInv'
<1> SUFFICES ASSUME TurnInv, [Next]_vars PROVE TurnInv'
  OBVIOUS
<1>1. CASE Request
  BY <1>1, TaskFacts, EnqueueInv, ReplaceInv, RemoveItemInv, ResumeInv, StartInv,
     FireLoopInv, AbortInv, InterruptInv
     DEF Request
<1>2. ASSUME NEW p \in Tasks, TaskStep(p) PROVE TurnInv'
  BY <1>2, PromotedInv, PoppedInv, InjectedInv, PausedInv DEF TaskStep
<1>3. ASSUME NEW t \in Turns, TurnStep(t) \/ LockStep(t) \/ FinalizeFails(t) PROVE TurnInv'
  BY <1>3, BeginInv, PhaseEndsInv, FinalizedInv, RecoveredInv, RecordedInv,
     AnnouncedInv, PublishedInv, SettledInv, AfterTurnTerminalInv, FinalizeFailsInv
     DEF TurnStep, LockStep
<1>4. ASSUME NEW q \in Slots, Responded(q) \/ TakeLock(q) \/ Emitted(q) PROVE TurnInv'
  BY <1>4, RespondedInv, TakeLockInv, EmittedInv
<1>5. CASE UNCHANGED vars
  BY <1>5
     DEF vars, TurnInv, TypeOK, ItemsWait, ActiveRuns, Reserved, LockHeld,
         PromotionHeld, StartPending, OtherReserved, HoldBacked, HoldsBack, EndsFailed,
         Locked
<1> QED
  BY <1>1, <1>2, <1>3, <1>4, <1>5, StartActionInv, BeginOtherInv, EndOtherInv,
     ResetInv
     DEF Next

\* The labels of a turn's tasks agree with _active_task, the reservation, the queue
\* lock and the pause, for any number of items, starts and queue tasks.
THEOREM Invariance == Spec => []TurnInv
  BY InitInv, NextInv, PTL DEF Spec

\* Turns come one by one (_promote_next, TurnStartAction, _run_turn): both would be
\* the active task.
THEOREM Sequential == Spec => []OneByOne
<1>1. TurnInv => OneByOne
  BY TaskFacts DEF TurnInv, ActiveRuns, OneByOne, UnderWay
<1> QED
  BY <1>1, Invariance, PTL

\* What works on the session has its reservation (SessionExecution).
THEOREM Owned == Spec => []ExecutionOwned
<1>1. TurnInv => ExecutionOwned
  BY DEF TurnInv, Reserved, OtherReserved, ExecutionOwned
<1> QED
  BY <1>1, Invariance, PTL

\* Only a promotion takes an item out of the queue to start it.
LEMMA HeldStep ==
    ASSUME TurnInv, NEW u \in held, ~ EndsFailed(u), [Next]_vars
    PROVE  ~ PromotionBegins
<1> DEFINE Goal == ~ PromotionBegins
<1> USE DEF PromotionBegins
<1>a. pc \in [Tasks -> Labels]
  BY TaskFacts DEF TurnInv, TypeOK
<1>b. ASSUME NEW p \in Tasks, pc[p] \in {"terminal", "emitting", "injecting"},
             pc[p] = "terminal" => \E t \in Turns \ stopped : p \in {Run(t), Settle(t)},
             PromoteNext(p)
      PROVE  Goal
  BY <1>a, <1>b, HeldBack DEF PromoteNext, Return
<1>1. ASSUME NEW q \in Slots,
             \/ Replace(q) \/ Resume(q) \/ Responded(q) \/ TakeLock(q)
             \/ \E j \in Items : Enqueue(q, j) \/ RemoveItem(q, j)
      PROVE  Goal
  BY <1>a, <1>1
     DEF Replace, Resume, Responded, TakeLock, Enqueue, RemoveItem, Respond, Goto
<1>2. ASSUME NEW t \in Starts, Start(t) \/ FireLoop(t) \/ Abort(t) \/ StartAction(t)
      PROVE  Goal
  BY <1>a, <1>2, TaskFacts DEF Start, FireLoop, Abort, StartAction, Goto
<1>3. ASSUME NEW t \in Turns, Interrupt(t) PROVE Goal
  BY <1>a, <1>3 DEF Interrupt, SettleUnstarted
<1>4. ASSUME NEW p \in Tasks, Promoted(p) \/ Popped(p) \/ Paused(p) PROVE Goal
  BY <1>a, <1>4 DEF Promoted, Popped, Paused, Goto, Return
<1>5. ASSUME NEW p \in Tasks, Injected(p) PROVE Goal
  BY <1>b, <1>5 DEF Injected
<1>6. ASSUME NEW q \in Slots, Emitted(q) PROVE Goal
  BY <1>b, <1>6, TaskFacts DEF Emitted
<1>7. ASSUME NEW t \in Turns, TurnStep(t) \/ FinalizeFails(t) PROVE Goal
  BY <1>a, <1>7
     DEF TurnStep, FinalizeFails, Begin, PhaseEnds, Finalized, Recovered, Recorded,
         Announced, Published, Settled, Goto
<1>8. ASSUME NEW t \in Turns, NEW p \in {Run(t), Settle(t)}, AfterTurnTerminal(p, t)
      PROVE  Goal
  <2>1. p \in Tasks
    BY TaskFacts
  <2>2. CASE t \notin stopped
    BY <1>b, <1>8, <2>1, <2>2 DEF AfterTurnTerminal
  <2>3. CASE t \in stopped
    BY <1>a, <1>8, <2>1, <2>3 DEF AfterTurnTerminal, Return
  <2> QED
    BY <2>2, <2>3
<1>9. CASE BeginOther \/ EndOther \/ Reset \/ UNCHANGED vars
  BY <1>a, <1>9 DEF BeginOther, EndOther, Reset, vars
<1> QED
  BY <1>1, <1>2, <1>3, <1>4, <1>5, <1>6, <1>7, <1>8, <1>9
     DEF Next, Request, TaskStep, LockStep

\* After an interrupt no waiting item is promoted before a resume, unless the turn
\* was published as failed: its finalization raised after the interrupt, or was
\* being recovered at the time (_run_turn, _after_turn_terminal,
\* _after_queue_mutation).
THEOREM Holds == Spec => InterruptHolds
<1> DEFINE A == (\E t \in held \cap held' : ~ EndsFailed(t)) => ~ PromotionBegins
<1>1. TurnInv /\ [Next]_vars => A
  BY HeldStep
<1>2. TurnInv /\ [Next]_vars => [A]_vars
  BY <1>1
<1> HIDE DEF A
<1>3. Spec => [][A]_vars
  BY <1>2, Invariance, PTL DEF Spec
<1> QED
  BY <1>3 DEF InterruptHolds, A

\* What is published is no longer the active turn, and a turn that is settled never
\* ran.
Retired ==
    \A t \in Turns :
        /\ pc[Run(t)] \in {"announcing", "publishing"} => activeTurn # t
        /\ pc[Settle(t)] = "settling" => activeTurn # t /\ pc[Run(t)] = "void"

\* The invariant with the tasks that will finish each turn.
BackedInv == TurnInv /\ TurnBacked /\ Retired

\* Each step keeps what finishes a turn, as long as no turn is interrupted while it
\* is being promoted.
LEMMA BackedStep ==
    ASSUME ~ Snapshots, BackedInv, [Next]_vars
    PROVE  TurnBacked' /\ Retired'
<1> DEFINE Goal == TurnBacked' /\ Retired'
<1> USE TaskFacts DEF BackedInv, TurnInv, TypeOK, ItemsWait, ActiveRuns, Reserved,
                      TurnBacked,
        Retired, Working, Ending
<1>a. ASSUME NEW p \in Tasks, pc[p] \in {"terminal", "emitting", "injecting"}, PromoteNext(p)
      PROVE  Goal
  <2>1. CASE ~ Promotable(p) /\ Return(p) /\ UNCHANGED <<queue, activeTurn, execution>>
    BY <1>a, <2>1 DEF Return
  <2>2. CASE /\ Promotable(p) /\ pc' = [pc EXCEPT ![p] = "popping", ![Run(Head(queue))] = "void"]
             /\ UNCHANGED turnVars
    BY <1>a, <2>2, Popping DEF Promotable, turnVars
  <2>3. CASE /\ Promotable(p) /\ activeTurn' = Head(queue) /\ execution' = Head(queue)
             /\ pc' = [pc EXCEPT ![p] = "promoting", ![Run(Head(queue))] = "prepared"]
    BY <1>a, <2>3, Popping DEF Promotable
  <2> QED
    BY <1>a, <2>1, <2>2, <2>3 DEF PromoteNext
<1>1. ASSUME NEW q \in Slots,
             \/ Replace(q) \/ Resume(q) \/ Responded(q) \/ TakeLock(q)
             \/ \E j \in Items : Enqueue(q, j)
      PROVE  Goal
  BY <1>1 DEF Replace, Resume, Responded, TakeLock, Enqueue, Respond, Goto, turnVars
<1>2. ASSUME NEW q \in Slots, NEW j \in Items, RemoveItem(q, j) PROVE Goal
  BY <1>2 DEF RemoveItem, turnVars
<1>3. ASSUME NEW t \in Starts, Start(t) \/ FireLoop(t) PROVE Goal
  BY <1>3 DEF Start, FireLoop, Startable
<1>4. ASSUME NEW t \in Starts, Abort(t) \/ StartAction(t) PROVE Goal
  BY <1>4 DEF Abort, StartAction, Goto
<1>5. ASSUME NEW t \in Turns, Interrupt(t) PROVE Goal
  <2>1. pc[Run(t)] = "prepared" => activeTask = None
    BY <1>5 DEF Interrupt, Interruptible, StartPending
  <2> QED
    BY <1>5, <2>1 DEF Interrupt, SettleUnstarted, turnVars
<1>6. ASSUME NEW p \in Tasks, Promoted(p) \/ Popped(p) \/ Paused(p) PROVE Goal
  BY <1>6 DEF Promoted, Popped, Paused, Goto, Return, turnVars
<1>7. ASSUME NEW p \in Tasks, Injected(p) PROVE Goal
  BY <1>a, <1>7 DEF Injected
<1>8. ASSUME NEW q \in Slots, Emitted(q) PROVE Goal
  BY <1>a, <1>8 DEF Emitted
<1>9. ASSUME NEW t \in Turns, TurnStep(t) \/ FinalizeFails(t) PROVE Goal
  BY <1>9
     DEF TurnStep, FinalizeFails, Begin, PhaseEnds, Finalized, Recovered, Recorded,
         Announced, Published, Settled, Goto, turnVars
<1>10. ASSUME NEW t \in Turns, NEW p \in {Run(t), Settle(t)}, AfterTurnTerminal(p, t)
       PROVE  Goal
  <2>1. p \in Tasks
    OBVIOUS
  <2>2. CASE t \notin stopped
    BY <1>a, <1>10, <2>1, <2>2 DEF AfterTurnTerminal
  <2>3. CASE t \in stopped
    BY <1>10, <2>1, <2>3 DEF AfterTurnTerminal, Return, turnVars
  <2> QED
    BY <2>2, <2>3
<1>11. CASE BeginOther \/ EndOther \/ UNCHANGED vars
  BY <1>11 DEF BeginOther, EndOther, vars
<1>12. CASE Reset
  BY <1>12 DEF Reset, OtherReserved
<1> QED
  BY <1>1, <1>2, <1>3, <1>4, <1>5, <1>6, <1>7, <1>8, <1>9, <1>10, <1>11, <1>12
     DEF Next, Request, TaskStep, LockStep

\* Unless clients can interrupt a turn that is being promoted, a turn that has the
\* session has a task or a pending start that finishes it
\* (_settle_unstarted_cancellation, TurnStartAction.abort, _run_turn): the session
\* does not stay busy.
THEOREM Backed ==
    ASSUME ~ Snapshots
    PROVE  Spec => []TurnBacked
<1>1. Init => BackedInv
  <2>1. ASSUME Init PROVE \A t \in Turns : pc[Settle(t)] = "new" /\ pc[Run(t)] = "new"
    BY <2>1, TaskFacts DEF Init, Run, Settle
  <2> QED
    BY <2>1, InitInv, TaskFacts DEF Init, BackedInv, TurnBacked, Retired
<1>2. BackedInv /\ [Next]_vars => BackedInv'
  BY NextInv, BackedStep DEF BackedInv
<1>3. BackedInv => TurnBacked
  BY DEF BackedInv
<1> QED
  BY <1>1, <1>2, <1>3, PTL DEF Spec
=============================================================================
