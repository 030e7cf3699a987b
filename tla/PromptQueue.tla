----------------------------- MODULE PromptQueue -----------------------------
(***************************************************************************)
(* The way of a prompt that is written while a turn runs                   *)
(* (chartreux/cli/textual_ui/message_queue.py, app_server/_turn_queue.py,  *)
(* app_server/_turns.py: enqueue, steer and the promotion of queued turns).*)
(*                                                                         *)
(* The interface folds waiting prompts into one block, which is one item   *)
(* of the server's queue, by replacing that item.  When a turn ends the    *)
(* first item becomes the next turn, whatever the interface is about to    *)
(* ask.  The user takes prompts out again, or steers them into the running *)
(* turn: the interface first removes the item and then delivers the block  *)
(* under a receipt, and what the server answers decides whether the block  *)
(* may go back to the queue.  One operation of the interface runs at a     *)
(* time, but it learns of turns at any time.                               *)
(***************************************************************************)
EXTENDS Naturals, Sequences

CONSTANTS
    Prompts,     \* what the user writes
    MaxTurns,    \* turns that ever start
    MaxSteers,   \* steering deliveries that are made
    None

ASSUME QueueAssumption == MaxTurns \in Nat /\ MaxSteers \in Nat /\ None \notin Prompts

VARIABLES
    \* the server
    items,      \* _items
    fresh,      \* the next item's id
    paused,     \* _paused
    keys,       \* _idempotency: key of an enqueue -> id of its item
    turn,       \* _active_turn, 0 without one
    lastTurn,
    promoted,   \* items that became turns
    receipts,   \* _steer_receipts: key of a delivery -> turn and state
    expired,    \* turns whose receipts may be gone: _steer_replay_floor and
                \* _steer_evidence_lost
    \* the interface
    blocks,     \* _merged, _restored and _optimistic
    unresolved, \* _unresolved_steering
    steers,     \* deliveries made
    known,      \* items it knows to have started
    op,         \* the operation that holds _lock
    \* history
    fate,       \* what the user was told of each prompt
    delivered   \* how often the model was given it

queue == <<items, fresh, paused, keys>>
turns == <<turn, lastTurn, promoted>>
steering == <<receipts, expired>>
client == <<blocks, unresolved, steers>>
history == <<fate, delivered>>
vars == <<queue, turns, steering, client, known, op, history>>

\* An operation, the request it waits for and the answer.  The prompt is the one
\* it adds or drops, the block the one it changes, the content what it sends.
Idle == [do |-> "idle", pc |-> "none", prompt |-> None, block |-> None,
         content |-> {}, delivery |-> None, answer |-> "none", item |-> 0]
Ask(do, prompt, block, content) ==
    [Idle EXCEPT !.do = do, !.pc = "sent", !.prompt = prompt, !.block = block,
                 !.content = content]
Answer(what) == op' = [op EXCEPT !.pc = "answered", !.answer = what]
AnswerItem(id) ==
    op' = [op EXCEPT !.pc = "answered", !.answer = "ok", !.item = id]
Waits(do) == op.pc = "sent" /\ op.do \in do
Got(do, what) == op.pc = "answered" /\ op.do \in do /\ op.answer = what

Init ==
    /\ items = <<>> /\ fresh = 1 /\ paused = FALSE /\ keys = <<>>
    /\ turn = 0 /\ lastTurn = 0 /\ promoted = {}
    /\ receipts = <<>> /\ expired = {}
    /\ blocks = {} /\ unresolved = {} /\ steers = 0 /\ known = {} /\ op = Idle
    /\ fate = [p \in Prompts |-> "new"] /\ delivered = [p \in Prompts |-> 0]

Give(ps) == delivered' = [p \in Prompts |-> delivered[p] + IF p \in ps THEN 1 ELSE 0]
Fate(ps, what) == fate' = [p \in Prompts |-> IF p \in ps THEN what ELSE fate[p]]

-----------------------------------------------------------------------------
(* The server: turns *)

\* _promote_next
Promote ==
    /\ turn = 0 /\ lastTurn < MaxTurns /\ ~paused /\ items # <<>>
    /\ turn' = lastTurn + 1 /\ lastTurn' = lastTurn + 1
    /\ items' = Tail(items)
    /\ promoted' = promoted \cup {Head(items).id}
    /\ Give(Head(items).prompts)
    /\ UNCHANGED <<fresh, paused, keys, steering, client, known, op, fate>>

\* An interrupted turn pauses what is queued behind it.
TurnEnds(interrupted) ==
    /\ turn # 0
    /\ turn' = 0
    /\ paused' = (paused \/ (interrupted /\ items # <<>>))
    /\ UNCHANGED <<items, fresh, keys, lastTurn, promoted, steering, client, known,
                   op, history>>

Resume ==
    /\ paused /\ op = Idle
    /\ paused' = FALSE
    /\ UNCHANGED <<items, fresh, keys, turns, steering, client, known, op, history>>

-----------------------------------------------------------------------------
(* The server: the queue *)

\* Policy, a full queue or the input itself may refuse an enqueue or replacement.
Refuse ==
    /\ Waits({"create", "optimistic", "requeue", "append", "drop"})
    /\ Answer("error")
    /\ UNCHANGED <<queue, turns, steering, client, known, history>>

\* Defect: a block goes back to the queue under its first key.
KeyOfBlock(o) ==
    IF o.do = "requeue" THEN o.block.entry
    ELSE IF o.content = {o.prompt} THEN o.prompt ELSE None

\* A prompt that starts a block is the key of its item; a later item for the same
\* block gets a key of its own.
Key(o) == IF o.do # "requeue" /\ o.content = {o.prompt} THEN o.prompt ELSE None

Enqueue ==
    LET key == Key(op) IN
    /\ Waits({"create", "optimistic", "requeue"})
    /\ IF key \in DOMAIN keys
       THEN AnswerItem(keys[key]) /\ UNCHANGED <<items, fresh, keys>>
       ELSE /\ items' = Append(items, [id |-> fresh, prompts |-> op.content])
            /\ keys' = [k \in DOMAIN keys \cup ({key} \ {None}) |->
                          IF k = key THEN fresh ELSE keys[k]]
            /\ fresh' = fresh + 1
            /\ AnswerItem(fresh)
    /\ UNCHANGED <<paused, turns, steering, client, known, history>>

Queued(id) == \E i \in DOMAIN items : items[i].id = id

\* The items, with other prompts in the item of this id.
Rewritten(id, ps) ==
    [i \in DOMAIN items |->
        IF items[i].id = id THEN [items[i] EXCEPT !.prompts = ps] ELSE items[i]]

\* A replacement keeps the item's place and frees the key of what it replaces.
Replace ==
    LET id == op.block.item IN
    /\ Waits({"append", "drop"})
    /\ IF Queued(id)
       THEN /\ items' = Rewritten(id, op.content)
            /\ keys' = [k \in {k \in DOMAIN keys : keys[k] # id} |-> keys[k]]
            /\ Answer("ok")
       ELSE Answer("gone") /\ UNCHANGED <<items, keys>>
    /\ UNCHANGED <<fresh, paused, turns, steering, client, known, history>>

\* The items without the one at place n.
Without(n) == [i \in 1..(Len(items) - 1) |-> IF i < n THEN items[i] ELSE items[i + 1]]

\* The key of a removed item stays in use.  The interface reads the session
\* again before it trusts the answer.
Remove ==
    LET id == op.block.item IN
    /\ Waits({"pop", "take"})
    /\ \/ /\ \E n \in DOMAIN items : items[n].id = id /\ items' = Without(n)
          /\ Answer("ok")
       \/ ~Queued(id) /\ Answer("gone") /\ UNCHANGED items
    /\ paused' = (paused /\ items' # <<>>)
    /\ UNCHANGED <<fresh, keys, turns, steering, client, known, history>>

-----------------------------------------------------------------------------
(* The server: steering *)

\* Defect: an unknown key proves that nothing was committed.
VerdictAlways(t) == "rejected"

\* steer_committed: without the receipt, only a turn that lost none proves that
\* nothing was committed.
Verdict(t) == IF t \in expired THEN "unknown" ELSE "rejected"

\* steer: a known receipt is replayed, else the turn must still run.
Steer ==
    LET d == op.delivery IN
    /\ Waits({"steer"})
    /\ \/ d.key \in DOMAIN receipts /\ op' = [op EXCEPT !.pc = "joined"]
          /\ UNCHANGED receipts
       \/ /\ d.key \notin DOMAIN receipts /\ turn = d.turn
          /\ receipts' = [k \in DOMAIN receipts \cup {d.key} |->
                            IF k # d.key THEN receipts[k]
                            ELSE [turn |-> d.turn, prompts |-> d.prompts,
                                  state |-> "running"]]
          /\ op' = [op EXCEPT !.pc = "joined"]
       \/ /\ d.key \notin DOMAIN receipts /\ (turn # d.turn \/ d.strict)
          /\ Answer(Verdict(d.turn)) /\ UNCHANGED receipts
    /\ UNCHANGED <<queue, turns, expired, client, known, history>>

\* _run_steer checks the turn again where it commits; a delivery that wants a
\* turn that only waits may find it working.
SteerRuns(k) ==
    LET r == receipts[k] IN
    /\ k \in DOMAIN receipts /\ r.state = "running"
    /\ \/ /\ turn = r.turn
          /\ receipts' = [receipts EXCEPT ![k].state = "committed"]
          /\ Give(r.prompts)
       \/ /\ receipts' = [receipts EXCEPT ![k].state = "rejected"]
          /\ UNCHANGED delivered
    /\ UNCHANGED <<queue, turns, expired, client, known, op, fate>>

\* What is committed may still fail to be saved or announced.
SteerAnswered ==
    /\ op.pc = "joined"
    /\ op.delivery.key \in DOMAIN receipts
    /\ \/ receipts[op.delivery.key].state = "committed"
          /\ (Answer("ok") \/ Answer("unknown"))
       \/ receipts[op.delivery.key].state = "rejected" /\ Answer("rejected")
    /\ UNCHANGED <<queue, turns, steering, client, known, history>>

\* Receipts of turns that are over are evicted when there are many.
Prune(k) ==
    /\ k \in DOMAIN receipts
    /\ receipts[k].state # "running" /\ receipts[k].turn # turn
    /\ op.pc = "joined" => op.delivery.key # k
    /\ receipts' = [j \in DOMAIN receipts \ {k} |-> receipts[j]]
    /\ expired' = expired \cup {receipts[k].turn}
    /\ UNCHANGED <<queue, turns, client, known, op, history>>

-----------------------------------------------------------------------------
(* The interface: new prompts *)

Merged == {b \in blocks : b.role = "merged"}
Started(b) == b.item # 0 /\ b.item \in known
Block(ps, entry, item, role) ==
    [prompts |-> ps, entry |-> entry, item |-> item, role |-> role]

\* The prompt starts a block, or joins one that has no item.
Create(p, bs) ==
    LET kept == {b \in bs : b.role = "merged"}
        b == IF kept = {} THEN Block({p}, p, 0, "merged") ELSE CHOOSE k \in kept : TRUE
    IN /\ blocks' = bs \cup {b}
       /\ op' = Ask("create", p, b, b.prompts \cup {p})

\* enqueue_prompt; a prompt sent to an idle session is a block of its own.
Submit(p) ==
    LET bs == {b \in blocks : ~Started(b) \/ b.role # "merged"} IN
    /\ op = Idle /\ fate[p] = "new"
    /\ Fate({p}, "held")
    /\ \/ /\ blocks = {} /\ unresolved = {}
          /\ op' = Ask("optimistic", p, Block({p}, p, 0, "optimistic"), {p})
          /\ UNCHANGED blocks
       \/ /\ \A b \in Merged : Started(b) \/ b.item = 0
          /\ Create(p, bs)
       \/ \E b \in Merged :
            /\ ~Started(b) /\ b.item # 0
            /\ op' = Ask("append", p, b, b.prompts \cup {p})
            /\ UNCHANGED blocks
    /\ UNCHANGED <<queue, turns, steering, unresolved, steers, known, delivered>>

\* The block gets its item, unless that has started by now.
Created ==
    LET b == [op.block EXCEPT !.prompts = op.content, !.item = op.item] IN
    /\ Got({"create", "optimistic", "requeue"}, "ok")
    /\ blocks' = (blocks \ {op.block}) \cup (IF Started(b) THEN {} ELSE {b})
    /\ op' = Idle
    /\ UNCHANGED <<queue, turns, steering, unresolved, steers, known, history>>

\* A refused prompt is given back to the user; a block that was there stays.
CreateRefused ==
    /\ Got({"create", "optimistic"}, "error")
    /\ blocks' = IF op.block.prompts = {op.prompt} THEN blocks \ {op.block} ELSE blocks
    /\ Fate({op.prompt}, "refused")
    /\ op' = Idle
    /\ UNCHANGED <<queue, turns, steering, unresolved, steers, known, delivered>>

Appended ==
    /\ Got({"append"}, "ok")
    /\ blocks' = (blocks \ {op.block}) \cup {[op.block EXCEPT !.prompts = op.content]}
    /\ op' = Idle
    /\ UNCHANGED <<queue, turns, steering, unresolved, steers, known, history>>

AppendRefused ==
    /\ Got({"append"}, "error")
    /\ Fate({op.prompt}, "refused")
    /\ op' = Idle
    /\ UNCHANGED <<queue, turns, steering, client, known, delivered>>

\* The block has started without the prompt, which starts another one.
AppendMissed ==
    /\ Got({"append"}, "gone")
    /\ Create(op.prompt, blocks \ {op.block})
    /\ UNCHANGED <<queue, turns, steering, unresolved, steers, known, history>>

-----------------------------------------------------------------------------
(* The interface: prompts taken out again *)

\* pop_at: a block with one prompt leaves the queue, a larger one is replaced.
Pop(p) ==
    /\ op = Idle
    /\ \E b \in blocks :
         /\ p \in b.prompts /\ b.role # "optimistic" /\ ~Started(b)
         /\ \/ /\ b.item = 0
               /\ blocks' = IF b.prompts = {p} THEN blocks \ {b}
                            ELSE (blocks \ {b}) \cup {[b EXCEPT !.prompts = @ \ {p}]}
               /\ Fate({p}, "dropped")
               /\ UNCHANGED op
            \/ /\ b.item # 0
               /\ op' = IF b.prompts = {p} THEN Ask("pop", p, b, {})
                        ELSE Ask("drop", p, b, b.prompts \ {p})
               /\ UNCHANGED <<blocks, fate>>
    /\ UNCHANGED <<queue, turns, steering, unresolved, steers, known, delivered>>

\* A delivery can only be discarded as a whole, and may have been seen.
Discard ==
    /\ op = Idle
    /\ \E d \in unresolved :
         unresolved' = unresolved \ {d} /\ Fate(d.prompts, "discarded")
    /\ UNCHANGED <<queue, turns, steering, blocks, steers, known, op, delivered>>

Popped ==
    /\ Got({"pop", "drop"}, "ok")
    /\ blocks' = (blocks \ {op.block}) \cup
                 (IF op.do = "pop" THEN {}
                  ELSE {[op.block EXCEPT !.prompts = op.content]})
    /\ Fate({op.prompt}, "dropped")
    /\ op' = Idle
    /\ UNCHANGED <<queue, turns, steering, unresolved, steers, known, delivered>>

\* Too late, or refused: the prompt stays what it was.
PopMissed ==
    /\ op.pc = "answered" /\ op.do \in {"pop", "drop"} /\ op.answer # "ok"
    /\ blocks' = IF op.do = "drop" /\ op.answer = "gone" THEN blocks \ {op.block}
                 ELSE blocks
    /\ op' = Idle
    /\ UNCHANGED <<queue, turns, steering, unresolved, steers, known, history>>

-----------------------------------------------------------------------------
(* The interface: steering *)

Deliver(d) ==
    /\ unresolved' = unresolved \cup {d}
    /\ op' = [Idle EXCEPT !.do = "steer", !.pc = "sent", !.delivery = d]

\* The interface may not know yet that the turn is over.
Recent == {t \in {lastTurn, lastTurn - 1} : t > 0}
Delivery(ps, entry, t, strict) ==
    [prompts |-> ps, entry |-> entry, turn |-> t, key |-> steers + 1,
     strict |-> strict]

\* steer_prepared: only this prompt, and only into a turn that waits
SteerPrepared(p) ==
    /\ op = Idle /\ fate[p] = "new" /\ steers < MaxSteers
    /\ Fate({p}, "held")
    /\ steers' = steers + 1
    /\ \E t \in Recent : Deliver(Delivery({p}, p, t, TRUE))
    /\ UNCHANGED <<queue, turns, steering, blocks, known, delivered>>

\* steer_pending: the block leaves the queue first.
SteerPending ==
    /\ op = Idle /\ steers < MaxSteers /\ unresolved = {} /\ Recent # {}
    /\ \E b \in Merged :
         b.item # 0 /\ ~Started(b) /\ op' = Ask("take", None, b, {})
    /\ UNCHANGED <<queue, turns, steering, client, known, history>>

Taken ==
    /\ Got({"take"}, "ok")
    /\ blocks' = blocks \ {op.block}
    /\ steers' = steers + 1
    /\ \E t \in Recent :
         Deliver(Delivery(op.block.prompts, op.block.entry, t, FALSE))
    /\ UNCHANGED <<queue, turns, steering, known, history>>

\* It has become a turn, which the interface knows by now.
TakeMissed ==
    /\ Got({"take"}, "gone")
    /\ known' = promoted
    /\ blocks' = {b \in blocks : b # op.block \/ b.item \notin promoted}
    /\ op' = Idle
    /\ UNCHANGED <<queue, turns, steering, unresolved, steers, history>>

RetrySteering ==
    /\ op = Idle
    /\ \E d \in unresolved : Deliver(d)
    /\ UNCHANGED <<queue, turns, steering, blocks, steers, known, history>>

Steered ==
    /\ Got({"steer"}, "ok")
    /\ unresolved' = unresolved \ {op.delivery}
    /\ op' = Idle
    /\ UNCHANGED <<queue, turns, steering, blocks, steers, known, history>>

\* Only a rejection that is certain puts the block back.
SteerRejected ==
    LET d == op.delivery
        role == IF d.strict \/ Merged # {} THEN "restored" ELSE "merged"
        b == Block(d.prompts, d.entry, 0, role)
    IN /\ Got({"steer"}, "rejected")
       /\ unresolved' = unresolved \ {d}
       /\ blocks' = blocks \cup {b}
       /\ op' = Ask("requeue", None, b, d.prompts)
       /\ UNCHANGED <<queue, turns, steering, steers, known, history>>

\* The answer is no proof, or there is none.
SteerUnconfirmed ==
    /\ op.do = "steer"
    /\ op.pc = "answered" => op.answer = "unknown"
    /\ op' = Idle
    /\ UNCHANGED <<queue, turns, steering, client, known, history>>

\* The block stays with the interface, without an item.
RequeueRefused ==
    /\ Got({"requeue"}, "error")
    /\ op' = Idle
    /\ UNCHANGED <<queue, turns, steering, client, known, history>>

-----------------------------------------------------------------------------
(* The interface: events *)

Learn(id) ==
    /\ id \in promoted \ known
    /\ known' = known \cup {id}
    /\ UNCHANGED <<queue, turns, steering, client, op, history>>

\* turn_started, once the lock is free
Settle ==
    /\ op = Idle
    /\ \E b \in blocks : Started(b) /\ blocks' = blocks \ {b}
    /\ UNCHANGED <<queue, turns, steering, unresolved, steers, known, op, history>>

\* The session is reset: the queue and all receipts are gone, and with them the
\* proof of what was not committed.  The interface forgets what is queued, but
\* keeps its unconfirmed deliveries.
Reset ==
    /\ op = Idle /\ expired # 1..MaxTurns
    /\ items' = <<>> /\ paused' = FALSE /\ keys' = <<>> /\ turn' = 0
    /\ receipts' = <<>> /\ expired' = 1..MaxTurns
    /\ blocks' = {}
    /\ Fate({p \in Prompts : fate[p] = "held" /\ \A d \in unresolved : p \notin d.prompts},
            "cleared")
    /\ UNCHANGED <<fresh, lastTurn, promoted, unresolved, steers, known, op, delivered>>

Next ==
    \/ Promote \/ Resume
    \/ \E interrupted \in BOOLEAN : TurnEnds(interrupted)
    \/ Refuse \/ Enqueue \/ Replace \/ Remove
    \/ Steer \/ SteerAnswered
    \/ \E k \in 1..MaxSteers : SteerRuns(k)
    \/ \E k \in 1..MaxSteers : Prune(k)
    \/ \E p \in Prompts : Submit(p)
    \/ \E p \in Prompts : Pop(p)
    \/ \E p \in Prompts : SteerPrepared(p)
    \/ Created \/ CreateRefused \/ Appended \/ AppendRefused \/ AppendMissed
    \/ Discard \/ Popped \/ PopMissed
    \/ SteerPending \/ Taken \/ TakeMissed \/ RetrySteering
    \/ Steered \/ SteerRejected \/ SteerUnconfirmed \/ RequeueRefused
    \/ \E id \in 1..fresh : Learn(id)
    \/ Settle \/ Reset

Spec == Init /\ [][Next]_vars

-----------------------------------------------------------------------------
(* Properties *)

\* However requests, turns and unconfirmed deliveries cross, the model is given
\* no prompt twice, be it in two turns, as steering and as a turn, or by the
\* retry of a delivery, and never one that the user was told is refused or out of
\* the queue (steer_pending, steer_committed, pop_at).
DeliveredOnce ==
    \A p \in Prompts :
        delivered[p] <= IF fate[p] \in {"refused", "dropped"} THEN 0 ELSE 1

\* A prompt the interface has accepted was given to the model, or waits where it
\* still can be: in an item of the server, in a delivery that is retried, or in a
\* block without an item, which the next prompt sends along or the user takes
\* out.  A block whose item no longer exists holds nothing
\* (_enqueue_merged, _reenqueue_after_failed_steer).
Waiting(p) ==
    \/ \E i \in DOMAIN items : p \in items[i].prompts
    \/ \E d \in unresolved : p \in d.prompts
    \/ \E b \in blocks : b.item = 0 /\ p \in b.prompts
    \/ op.do # "idle" /\ p = op.prompt
    \/ op.do \notin {"idle", "steer"} /\ p \in op.block.prompts
NothingLost ==
    \A p \in Prompts : fate[p] = "held" => delivered[p] > 0 \/ Waiting(p)
=============================================================================
