--------------------------- MODULE TurnController ---------------------------
(***************************************************************************)
(* Turns of one session and the queue of accepted turns                    *)
(* (chartreux/app_server/_turns.py, _turn_queue.py, _execution.py).        *)
(*                                                                         *)
(* A turn is driven by a task of its own, which at its end promotes the    *)
(* next queued item or pauses the queue.  Every change of the queue spawns *)
(* a task that promotes, too.  They meet at the queue lock, at the         *)
(* session's execution reservation and at _active_task.  Each notification *)
(* is an await, at which the other tasks and the clients go on.            *)
(***************************************************************************)
EXTENDS Naturals, FiniteSets, SequencesExt

CONSTANTS
    Items,          \* queue items; a promoted item is also the turn's identity
    Contexts,       \* the items that hold context only and start no turn
    Starts,         \* turns started by turn/start or by the loop scheduler
    Slots,          \* queue tasks that may exist at a time
    MaxItems,       \* TURN_QUEUE_MAX_ITEMS
    Others,         \* are there shell commands and lifecycle operations?
    LostResponses,  \* may the response to a request be lost?
    Snapshots,      \* do clients learn of turns before turn/started?
    Other,          \* the reservation of a shell or lifecycle operation
    None

Turns == Items \cup Starts

ASSUME TurnAssumption ==
    /\ Contexts \subseteq Items
    /\ Items \cap Starts = {}
    /\ None \notin Turns /\ Other \notin Turns /\ None # Other
    /\ \A x \in Turns \cup Slots : None \notin {<<"run", x>>, <<"settle", x>>, <<"queue", x>>}
    /\ MaxItems \in Nat \ {0}
    /\ {Others, LostResponses, Snapshots} \subseteq BOOLEAN

VARIABLES
    queue,      \* TurnQueue._items
    paused,     \* TurnQueue._paused
    lock,       \* the task that has _queue_lock
    activeTurn, \* _active_turn
    activeTask, \* _active_task
    execution,  \* SessionExecution._active
    pc,         \* where each task is
    stopped,    \* turns whose driver has status INTERRUPTED
    busy,       \* a shell or lifecycle operation is under way
    held,       \* history: the turns behind whose interrupt items wait
    asked       \* history: turns whose interruption was accepted

vars == <<queue, paused, lock, activeTurn, activeTask, execution, pc, stopped,
          busy, held, asked>>

\* The tasks: a turn's driver (_run_turn), the settlement of a turn that was
\* cancelled before it ran, and those spawned by queue requests.
Run(t) == <<"run", t>>
Settle(t) == <<"settle", t>>
QueueTask(q) == <<"queue", q>>
Tasks == {Run(t) : t \in Turns} \cup {Settle(t) : t \in Turns}
           \cup {QueueTask(q) : q \in Slots}

\* A driver is prepared when start has returned its action, and void when that
\* action was resolved without running; then come the awaits of _run_turn.
Working == {"working", "finalizing", "recovering"}
Ending == {"recording", "announcing", "publishing"}
Locked == {"emitting", "pausing", "promoting", "popping", "injecting"}
Labels == {"new", "prepared", "void", "created", "settling", "responding",
           "waiting", "terminal", "done"} \cup Working \cup Ending \cup Locked

Init ==
    /\ queue = <<>> /\ paused = FALSE /\ lock = None
    /\ activeTurn = None /\ activeTask = None /\ execution = None
    /\ pc = [p \in Tasks |-> IF p[1] = "queue" THEN "done" ELSE "new"]
    /\ stopped = {} /\ busy = FALSE /\ held = {} /\ asked = {}

Goto(p, from, to) == pc[p] = from /\ pc' = [pc EXCEPT ![p] = to]

queueVars == <<queue, paused, lock>>
turnVars == <<activeTurn, activeTask, execution>>
history == <<held, asked>>

-----------------------------------------------------------------------------
(* Promotion, by a task that has the queue lock. *)

\* Defect: the task of the turn that is ending is not looked at.
PromotableEarly(p) ==
    /\ activeTurn = None /\ execution = None
    /\ queue # <<>> /\ ~ paused

\* Defect: the driver of the turn that has ended is in its own way.
PromotableIdle(p) ==
    /\ activeTurn = None /\ execution = None /\ activeTask = None
    /\ queue # <<>> /\ ~ paused

\* the conditions of _promote_next
Promotable(p) ==
    /\ activeTurn = None /\ execution = None
    /\ activeTask \in {None, p}
    /\ queue # <<>> /\ ~ paused

\* Task p returns, which releases the lock, and is no longer the active task.
Return(p) ==
    /\ lock' = None
    /\ activeTask' = IF activeTask = p THEN None ELSE activeTask
    /\ pc' = [pc EXCEPT ![p] = "done"]

\* _promote_next, up to its first await
PromoteNext(p) ==
    \/ /\ ~ Promotable(p)
       /\ Return(p)
       /\ UNCHANGED <<queue, activeTurn, execution>>
    \/ /\ Promotable(p) /\ Head(queue) \in Contexts
       /\ queue' = Tail(queue)
       /\ lock' = p
       /\ pc' = [pc EXCEPT ![p] = "popping", ![Run(Head(queue))] = "void"]
       /\ UNCHANGED turnVars
    \/ /\ Promotable(p) /\ Head(queue) \notin Contexts
       /\ queue' = Tail(queue)
       /\ lock' = p
       /\ activeTurn' = Head(queue)
       /\ execution' = Head(queue)
       /\ pc' = [pc EXCEPT ![p] = "promoting", ![Run(Head(queue))] = "prepared"]
       /\ UNCHANGED activeTask

\* Task p has published the queue update: the prepared turn starts, unless it
\* was cancelled meanwhile.
Promoted(p) ==
    /\ pc[p] = "promoting"
    /\ \/ \E t \in Items :
            /\ pc[Run(t)] = "prepared"
            /\ lock' = None
            /\ activeTask' = Run(t)
            /\ pc' = [pc EXCEPT ![Run(t)] = "created", ![p] = "done"]
       \/ /\ \A t \in Items : pc[Run(t)] # "prepared"
          /\ Return(p)
    /\ UNCHANGED <<queue, paused, activeTurn, execution, stopped, busy,
                   history>>

\* An item of context only: the queue update is published ...
Popped(p) ==
    /\ Goto(p, "popping", "injecting")
    /\ UNCHANGED <<queueVars, turnVars, stopped, busy, history>>

\* ... the context injected, and the next item looked at.
Injected(p) ==
    /\ pc[p] = "injecting"
    /\ PromoteNext(p)
    /\ UNCHANGED <<paused, stopped, busy, history>>

-----------------------------------------------------------------------------
(* Requests to the queue, and the tasks they spawn after the response. *)

Respond(q) == Goto(QueueTask(q), "done", "responding")

\* Defect: one item too many.
EnqueueBeyond(q, i) ==
    /\ pc[Run(i)] = "new" /\ i \notin Range(queue)
    /\ Len(queue) <= MaxItems
    /\ queue' = Append(queue, i)
    /\ Respond(q)
    /\ UNCHANGED <<paused, lock, turnVars, stopped, busy, history>>

\* enqueue; a retry of an accepted request changes nothing and spawns nothing
Enqueue(q, i) ==
    /\ pc[Run(i)] = "new" /\ i \notin Range(queue)
    /\ Len(queue) < MaxItems
    /\ queue' = Append(queue, i)
    /\ Respond(q)
    /\ UNCHANGED <<paused, lock, turnVars, stopped, busy, history>>

\* replace_queued_turn: what the item says changes, not its place
Replace(q) ==
    /\ queue # <<>>
    /\ Respond(q)
    /\ UNCHANGED <<queueVars, turnVars, stopped, busy, history>>

\* remove_queued_turn; an emptied queue is not paused
RemoveItem(q, i) ==
    /\ \E k \in DOMAIN queue : queue[k] = i /\ queue' = RemoveAt(queue, k)
    /\ paused' = (paused /\ queue' # <<>>)
    /\ held' = IF queue' = <<>> THEN {} ELSE held
    /\ pc' = [pc EXCEPT ![QueueTask(q)] = "responding", ![Run(i)] = "void"]
    /\ pc[QueueTask(q)] = "done"
    /\ UNCHANGED <<lock, turnVars, stopped, busy, asked>>

\* resume_queue
Resume(q) ==
    /\ paused \/ queue # <<>>
    /\ paused' = FALSE
    /\ held' = {}
    /\ Respond(q)
    /\ UNCHANGED <<queue, lock, turnVars, stopped, busy, asked>>

\* The response is sent and the task spawned; without a response it is not.
Responded(q) ==
    /\ \/ Goto(QueueTask(q), "responding", "waiting")
       \/ LostResponses /\ Goto(QueueTask(q), "responding", "done")
    /\ UNCHANGED <<queueVars, turnVars, stopped, busy, history>>

\* _after_queue_mutation: the lock, the queue update ...
TakeLock(q) ==
    /\ Goto(QueueTask(q), "waiting", "emitting")
    /\ lock = None
    /\ lock' = QueueTask(q)
    /\ UNCHANGED <<queue, paused, turnVars, stopped, busy, history>>

\* ... and the promotion
Emitted(q) ==
    /\ pc[QueueTask(q)] = "emitting"
    /\ PromoteNext(QueueTask(q))
    /\ UNCHANGED <<paused, stopped, busy, history>>

-----------------------------------------------------------------------------
(* A turn, from start to the end of its driver. *)

Startable(t) ==
    /\ pc[Run(t)] = "new"
    /\ activeTask = None /\ execution = None
    /\ queue = <<>>

\* turn/start
Start(t) ==
    /\ Startable(t)
    /\ activeTurn' = t
    /\ execution' = t
    /\ pc' = [pc EXCEPT ![Run(t)] = "prepared"]
    /\ UNCHANGED <<queueVars, activeTask, stopped, busy, history>>

\* TurnStartAction.__call__, after the response
StartAction(t) ==
    /\ Goto(Run(t), "prepared", "created")
    /\ activeTask' = Run(t)
    /\ UNCHANGED <<queueVars, activeTurn, execution, stopped, busy, history>>

\* TurnStartAction.abort, when the response could not be sent
Abort(t) ==
    /\ LostResponses
    /\ Goto(Run(t), "prepared", "void")
    /\ activeTurn' = None
    /\ execution' = None
    /\ UNCHANGED <<queueVars, activeTask, stopped, busy, history>>

\* _run_scheduler: a due loop starts its turn at once
FireLoop(t) ==
    /\ Startable(t)
    /\ activeTurn' = t
    /\ execution' = t
    /\ activeTask' = Run(t)
    /\ pc' = [pc EXCEPT ![Run(t)] = "created"]
    /\ UNCHANGED <<queueVars, stopped, busy, history>>

\* _run_turn takes its first step, which announces turn/started
Begin(t) ==
    /\ Goto(Run(t), "created", "working")
    /\ UNCHANGED <<queueVars, turnVars, stopped, busy, history>>

\* _run_turn_phase returns: the turn is completed or has failed
PhaseEnds(t) ==
    /\ Goto(Run(t), "working", "finalizing")
    /\ UNCHANGED <<queueVars, turnVars, stopped, busy, history>>

\* _finalize_turn fails before it has recorded the turn, which then counts as
\* failed, interrupted or not
FinalizeFails(t) ==
    /\ Goto(Run(t), "finalizing", "recovering")
    /\ stopped' = stopped \ {t}
    /\ UNCHANGED <<queueVars, turnVars, busy, history>>

\* _recover_failed_operation records the turn
Recovered(t) ==
    /\ Goto(Run(t), "recovering", "publishing")
    /\ activeTurn' = None
    /\ UNCHANGED <<queueVars, activeTask, execution, stopped, busy, history>>

\* _finalize_turn: the turn is recorded, ...
Finalized(t) ==
    /\ Goto(Run(t), "finalizing", "recording")
    /\ UNCHANGED <<queueVars, turnVars, stopped, busy, history>>

\* ... the statistics published, ...
Recorded(t) ==
    /\ Goto(Run(t), "recording", "announcing")
    /\ activeTurn' = None
    /\ UNCHANGED <<queueVars, activeTask, execution, stopped, busy, history>>

\* ... the status idle, and the reservation given up
Announced(t) ==
    /\ Goto(Run(t), "announcing", "publishing")
    /\ execution' = None
    /\ UNCHANGED <<queueVars, activeTurn, activeTask, stopped, busy, history>>

\* Defect: the reservation is given up whoever has it.
PublishedUnchecked(t) ==
    /\ Goto(Run(t), "publishing", "terminal")
    /\ execution' = None
    /\ UNCHANGED <<queueVars, activeTurn, activeTask, stopped, busy, history>>

\* Defect: the reservation is given up by _finalize_turn alone.
PublishedUnfinished(t) ==
    /\ Goto(Run(t), "publishing", "terminal")
    /\ UNCHANGED <<queueVars, turnVars, stopped, busy, history>>

\* turn/completed is published
Published(t) ==
    /\ Goto(Run(t), "publishing", "terminal")
    /\ execution' = IF execution = t THEN None ELSE execution
    /\ UNCHANGED <<queueVars, activeTurn, activeTask, stopped, busy, history>>

\* the settlement of a turn that never ran publishes it, too
Settled(t) ==
    /\ Goto(Settle(t), "settling", "terminal")
    /\ execution' = IF execution = t THEN None ELSE execution
    /\ UNCHANGED <<queueVars, activeTurn, activeTask, stopped, busy, history>>

\* _after_turn_terminal, by the driver or the settlement of t
AfterTurnTerminal(p, t) ==
    /\ pc[p] = "terminal"
    /\ lock = None
    /\ \/ /\ t \in stopped /\ queue # <<>> /\ ~ paused
          /\ paused' = TRUE
          /\ lock' = p
          /\ pc' = [pc EXCEPT ![p] = "pausing"]
          /\ UNCHANGED <<queue, turnVars>>
       \/ /\ t \in stopped /\ (queue = <<>> \/ paused)
          /\ Return(p)
          /\ UNCHANGED <<queue, paused, activeTurn, execution>>
       \/ /\ t \notin stopped
          /\ PromoteNext(p)
          /\ UNCHANGED paused
    /\ UNCHANGED <<stopped, busy, history>>

\* the queue update of a pause is published
Paused(p) ==
    /\ pc[p] = "pausing"
    /\ Return(p)
    /\ UNCHANGED <<queue, paused, activeTurn, execution, stopped, busy,
                   history>>

-----------------------------------------------------------------------------
(* turn/interrupt *)

\* The turns a client can name, that are active and not recorded.
Interruptible(t) ==
    /\ activeTurn = t
    /\ pc[Run(t)] \in {"prepared", "created"} \cup Working
    /\ t \in Starts \/ pc[Run(t)] \in Working \/ Snapshots

\* Defect: the settlement is not the active task.
SettleAside(t) ==
    /\ activeTurn' = None
    /\ activeTask' = None
    /\ pc' = [pc EXCEPT ![Run(t)] = "void", ![Settle(t)] = "settling"]
    /\ stopped' = stopped \cup {t}

\* Defect: the turn is dropped, its end published by nobody.
SettleDropped(t) ==
    /\ activeTurn' = None
    /\ activeTask' = None
    /\ pc' = [pc EXCEPT ![Run(t)] = "void"]
    /\ stopped' = stopped \cup {t}

\* _settle_unstarted_cancellation
SettleUnstarted(t) ==
    /\ activeTurn' = None
    /\ activeTask' = Settle(t)
    /\ pc' = [pc EXCEPT ![Run(t)] = "void", ![Settle(t)] = "settling"]
    /\ stopped' = stopped \cup {t}

Interrupt(t) ==
    /\ Interruptible(t)
    /\ asked' = asked \cup {t}
    /\ held' = IF queue = <<>> THEN held ELSE held \cup {t}
    /\ \/ \* the driver is cancelled
          /\ pc[Run(t)] \in {"working", "finalizing"}
          /\ pc' = [pc EXCEPT ![Run(t)] = IF @ = "working" THEN "finalizing"
                                          ELSE "recovering"]
          /\ stopped' = stopped \cup {t}
          /\ UNCHANGED <<lock, turnVars>>
       \/ \* its recovery is not
          /\ pc[Run(t)] = "recovering"
          /\ UNCHANGED <<lock, turnVars, pc, stopped>>
       \/ \* the driver has not taken its first step
          /\ pc[Run(t)] = "created"
          /\ SettleUnstarted(t)
          /\ UNCHANGED <<lock, execution>>
       \/ \* the start is pending, with no task: TurnStartAction.cancel
          /\ pc[Run(t)] = "prepared" /\ activeTask = None
          /\ SettleUnstarted(t)
          /\ execution' = None
          /\ UNCHANGED lock
       \/ \* the active task is the driver of the previous turn, promoting this
          \* one: its cancellation calls abort, which does nothing while there
          \* is an active task
          /\ pc[Run(t)] = "prepared" /\ activeTask # None
          /\ lock' = None
          /\ activeTask' = None
          /\ pc' = [pc EXCEPT ![Run(t)] = "void", ![activeTask] = "done"]
          /\ UNCHANGED <<activeTurn, execution, stopped>>
    /\ UNCHANGED <<queue, paused, busy>>

-----------------------------------------------------------------------------
(* Shell commands and lifecycle operations of the session. *)

\* SessionExecution.begin
BeginOther ==
    /\ Others
    /\ execution = None
    /\ execution' = Other
    /\ busy' = TRUE
    /\ UNCHANGED <<queueVars, activeTurn, activeTask, pc, stopped, history>>

\* SessionExecution.finish
EndOther ==
    /\ busy
    /\ execution' = IF execution = Other THEN None ELSE execution
    /\ busy' = FALSE
    /\ UNCHANGED <<queueVars, activeTurn, activeTask, pc, stopped, history>>

\* reset, within compaction, rewind or clear: the tasks are cancelled and joined
Reset ==
    /\ busy
    /\ queue' = <<>> /\ paused' = FALSE /\ lock' = None
    /\ activeTurn' = None /\ activeTask' = None
    /\ pc' = [p \in Tasks |->
                IF \E i \in Range(queue) : p = Run(i) THEN "void"
                ELSE IF pc[p] \in {"new", "void", "responding"} THEN pc[p]
                ELSE "done"]
    /\ held' = {}
    /\ UNCHANGED <<execution, stopped, busy, asked>>

-----------------------------------------------------------------------------

\* the steps of the tasks, which the event loop runs when they are ready
TaskStep(p) == Promoted(p) \/ Popped(p) \/ Injected(p) \/ Paused(p)
TurnStep(t) ==
    \/ Begin(t) \/ PhaseEnds(t) \/ Finalized(t) \/ Recovered(t) \/ Recorded(t)
    \/ Announced(t) \/ Published(t) \/ Settled(t)
LockStep(t) == AfterTurnTerminal(Run(t), t) \/ AfterTurnTerminal(Settle(t), t)

Request ==
    \/ \E q \in Slots :
         \/ Replace(q) \/ Resume(q)
         \/ \E i \in Items : Enqueue(q, i) \/ RemoveItem(q, i)
    \/ \E t \in Starts : Start(t) \/ FireLoop(t) \/ Abort(t)
    \/ \E t \in Turns : Interrupt(t)

Next ==
    \/ Request
    \/ \E p \in Tasks : TaskStep(p)
    \/ \E t \in Turns : TurnStep(t) \/ LockStep(t) \/ FinalizeFails(t)
    \/ \E t \in Starts : StartAction(t)
    \/ \E q \in Slots : Responded(q) \/ TakeLock(q) \/ Emitted(q)
    \/ BeginOther \/ EndOther \/ Reset

Spec == Init /\ [][Next]_vars

\* Tasks that are ready run, the queue lock is served in turn (asyncio.Lock is
\* first in first out), responses are sent, operations end.
FairSpec ==
    /\ Spec
    /\ \A p \in Tasks : WF_vars(TaskStep(p))
    /\ \A t \in Turns : WF_vars(TurnStep(t)) /\ SF_vars(LockStep(t))
    /\ \A t \in Starts : WF_vars(StartAction(t))
    /\ \A q \in Slots :
         WF_vars(Responded(q)) /\ SF_vars(TakeLock(q)) /\ WF_vars(Emitted(q))
    /\ WF_vars(EndOther)

-----------------------------------------------------------------------------
(* Properties. *)

\* The state is of the types the code gives it, the queue within its limit.
TypeOK ==
    /\ queue \in Seq(Items) /\ Len(queue) <= MaxItems
    /\ paused \in BOOLEAN
    /\ lock \in Tasks \cup {None}
    /\ activeTurn \in Turns \cup {None}
    /\ activeTask \in Tasks \cup {None}
    /\ execution \in Turns \cup {Other, None}
    /\ pc \in [Tasks -> Labels]
    /\ stopped \subseteq Turns /\ held \subseteq Turns /\ asked \subseteq Turns
    /\ busy \in BOOLEAN

\* An item waits once, and has not been promoted before.
ItemsWait ==
    \A j \in DOMAIN queue :
        /\ pc[Run(queue[j])] = "new"
        /\ \A k \in DOMAIN queue : queue[j] = queue[k] => j = k

\* What runs of a turn is the active task.
ActiveRuns ==
    \A t \in Turns :
        /\ pc[Run(t)] \in {"created"} \cup Working \cup Ending => activeTask = Run(t)
        /\ pc[Settle(t)] = "settling" => activeTask = Settle(t)

\* A turn keeps the reservation from its start to the idle status.
Reserved ==
    \A t \in Turns :
        pc[Run(t)] \in {"prepared", "created", "recording", "announcing"} \cup Working
            => execution = t

\* The task between two awaits of a promotion has the lock.
LockHeld == \A p \in Tasks : pc[p] \in Locked => lock = p

\* A promoted turn is prepared while its promoter, which may be the active task,
\* publishes the queue update.
PromotionHeld ==
    \A i \in Items : pc[Run(i)] = "prepared" =>
        /\ lock \in Tasks /\ pc[lock] = "promoting"
        /\ activeTask \in {None, lock}

\* A start that is pending has no task beside it.
StartPending == \A t \in Starts : pc[Run(t)] = "prepared" => activeTask = None

\* An operation of the session has the reservation.
OtherReserved == busy => execution = Other

\* A turn that failed, although its interruption was accepted: before that, while
\* its recovery was under way, or after that, in its finalization.
EndsFailed(t) ==
    /\ t \notin stopped
    /\ pc[Run(t)] \in {"recovering", "publishing", "terminal", "done"} \cup Locked

\* The items behind the interrupted turn t are in a paused queue, or t stands in
\* the way of their promotion: its task is active until it pauses the queue, or
\* there is none to take the reservation back.
HoldsBack(t) ==
    /\ queue # <<>>
    /\ \/ paused
       \/ /\ t \in stopped /\ activeTask = Run(t)
          /\ pc[Run(t)] \in Ending \cup {"finalizing", "recovering", "terminal"}
       \/ /\ t \in stopped /\ activeTask = Settle(t)
          /\ pc[Settle(t)] \in {"settling", "terminal"}
       \/ execution = t /\ pc[Run(t)] = "void" /\ pc[Settle(t)] # "settling"

\* Items wait until a resume behind an interrupted turn that has not failed.
HoldBacked == \A t \in held : EndsFailed(t) \/ HoldsBack(t)

\* The state is well typed, and what a turn's labels say of its driver agrees
\* with _active_task, with the reservation and with the queue lock.
TurnInv ==
    /\ TypeOK /\ ItemsWait /\ ActiveRuns /\ Reserved /\ LockHeld
    /\ PromotionHeld /\ StartPending /\ OtherReserved /\ HoldBacked

\* A turn is under way between its turn/started and its turn/completed.
UnderWay(t) ==
    \/ pc[Run(t)] \in {"created"} \cup Working \cup Ending
    \/ pc[Settle(t)] = "settling"

\* Turns come one by one: turn/completed of a turn is published before the next
\* one runs, whoever promotes or starts it.
OneByOne == \A t, u \in Turns : UnderWay(t) /\ UnderWay(u) => t = u

\* What works on the session has its reservation: the agent loop never runs
\* beside another turn, a shell command or a lifecycle operation.
ExecutionOwned ==
    /\ \A t \in Turns : pc[Run(t)] \in Working => execution = t
    /\ busy => execution = Other

\* A turn that has the reservation, or is the active turn, has a task or a
\* pending start that will finish it: the session does not stay busy.
TurnBacked ==
    \A t \in Turns : execution = t \/ activeTurn = t =>
        \/ pc[Run(t)] \in {"prepared", "created"} \cup Working \cup Ending
        \/ pc[Settle(t)] = "settling"

\* After an interrupt no waiting item, turn or context, is promoted before a
\* resume, although tasks that promote are on their way.  The exception is the
\* code's: an interrupted turn whose finalization raises, and one that is
\* interrupted while a failed finalization is being recovered, end as failed,
\* and a failed turn promotes the next item (_run_turn, _after_turn_terminal).
PromotionBegins ==
    \E p \in Tasks : pc[p] # pc'[p] /\ pc'[p] \in {"promoting", "popping"}
InterruptHolds ==
    [][(\E t \in held \cap held' : ~ EndsFailed(t)) => ~ PromotionBegins]_vars

Completed(t) ==
    \/ pc[Run(t)] \in {"terminal", "pausing", "promoting", "popping",
                       "injecting", "done"}
    \/ pc[Settle(t)] \in {"terminal", "pausing", "done"}

\* An accepted interrupt ends the turn: its completion is published.
InterruptSettles == \A t \in Turns : t \in asked ~> Completed(t)

\* A queue that is not paused is drained.
QueueDrains == (queue # <<>> /\ ~ paused) ~> (queue = <<>> \/ paused)
=============================================================================
