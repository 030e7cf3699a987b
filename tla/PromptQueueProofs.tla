------------------------- MODULE PromptQueueProofs -------------------------
(***************************************************************************)
(* Proofs about PromptQueue: whatever the prompts and the bounds, the      *)
(* model is given no prompt twice (DeliveredOnce) and no accepted prompt   *)
(* is lost between the interface and the server (NothingLost).             *)
(*                                                                         *)
(* Neither is inductive.  The invariant QueueInv says where a prompt may   *)
(* be, an item of the server, a block of the interface that has no item, a *)
(* delivery, a running receipt or the request under way, that it is in one *)
(* of them at most, and that none was given to the model while it waits.   *)
(* For that, a block must say what its item has (BlocksBacked) except      *)
(* between the server's answer and its own update, and a rejected delivery *)
(* must be one that cannot be committed any more (Open, ReceiptsTrue).     *)
(*                                                                         *)
(* There is one lemma per action.  Each first says what the action does to *)
(* the request and to the places of a prompt, then takes the conjuncts of  *)
(* QueueInv in turn.                                                       *)
(***************************************************************************)
EXTENDS PromptQueue, SequenceTheorems, TLAPS

\* What the variables hold: items, blocks, deliveries, the request under way and the
\* receipts of steering.
Item == [id : Nat, prompts : SUBSET Prompts]
Roles == {"merged", "restored", "optimistic"}
Blocks == [prompts : SUBSET Prompts, entry : Prompts, item : Nat, role : Roles]
Deliveries == [prompts : SUBSET Prompts, entry : Prompts, turn : Nat, key : Nat,
               strict : BOOLEAN]
Fates == {"new", "held", "refused", "dropped", "discarded", "cleared"}
Operations ==
    [do : {"idle", "create", "optimistic", "requeue", "append", "drop", "pop", "take",
           "steer"},
     pc : {"none", "sent", "joined", "answered"},
     prompt : Prompts \cup {None}, block : Blocks \cup {None},
     content : SUBSET Prompts, delivery : Deliveries \cup {None},
     answer : {"none", "ok", "gone", "error", "rejected", "unknown"}, item : Nat]
Receipts ==
    [turn : Nat, prompts : SUBSET Prompts, state : {"running", "committed", "rejected"}]

TypeOK ==
    /\ items \in Seq(Item)
    /\ fresh \in Nat /\ paused \in BOOLEAN
    /\ turn \in Nat /\ lastTurn \in Nat /\ promoted \subseteq Nat
    /\ DOMAIN receipts \subseteq Nat /\ receipts \in [DOMAIN receipts -> Receipts]
    /\ expired \subseteq Nat
    /\ blocks \subseteq Blocks /\ unresolved \subseteq Deliveries
    /\ steers \in Nat /\ known \subseteq promoted
    /\ fate \in [Prompts -> Fates] /\ delivered \in [Prompts -> Nat]
    /\ op \in Operations

\* The operation under way has an answer: it was done.
Done == op.pc = "answered" /\ op.answer = "ok"

\* What an operation is about, and which answers it gets.
OpShape ==
    /\ op.do = "idle" => op = Idle
    /\ op.do # "idle" => op.pc # "none"
    /\ op.pc = "joined" => op.do = "steer"
    /\ op.pc = "answered" /\ op.do = "take" => op.answer \in {"ok", "gone"}
    /\ op.do \in {"create", "requeue", "append", "drop", "pop", "take"} =>
          op.block \in blocks
    /\ op.do = "create" =>
          /\ op.block.item = 0 /\ op.block.role = "merged" /\ op.prompt \in Prompts
          /\ op.content = op.block.prompts \cup {op.prompt}
          /\ op.prompt \in op.block.prompts => op.block.prompts = {op.prompt}
    /\ op.do = "optimistic" =>
          /\ op.block \in Blocks \ blocks /\ op.block.item = 0
          /\ op.block.role = "optimistic" /\ op.prompt \in Prompts
          /\ op.content = {op.prompt} /\ op.block.prompts = {op.prompt}
    /\ op.do = "requeue" => op.block.item = 0 /\ op.content = op.block.prompts
    /\ op.do = "append" =>
          /\ op.block.item # 0 /\ op.block.role = "merged" /\ op.prompt \in Prompts
          /\ op.content = op.block.prompts \cup {op.prompt}
          /\ op.prompt \notin op.block.prompts
    /\ op.do = "drop" =>
          /\ op.block.item # 0 /\ op.prompt \in op.block.prompts
          /\ op.content = op.block.prompts \ {op.prompt}
    /\ op.do = "pop" => op.block.item # 0 /\ op.block.prompts = {op.prompt}
    /\ op.do = "take" => op.block.item # 0 /\ op.block.role = "merged"
    /\ op.do = "steer" =>
          /\ op.delivery \in unresolved
          /\ op.pc = "joined" => op.delivery.key \in DOMAIN receipts

\* The items, whatever their places.
Entries == Range(items)
Apart(s) == \A i, j \in DOMAIN s : s[i].id = s[j].id => i = j

\* The server's items have ids of their own, and are not those that became turns.
ItemsApart ==
    /\ fresh > 0 /\ Apart(items)
    /\ \A e \in Entries : e.id \in 1..(fresh - 1) /\ e.id \notin promoted
    /\ \A id \in promoted : id < fresh

\* New prompts join one block, and each block has an item of its own.
BlocksApart ==
    /\ \A b, c \in blocks : b.role = "merged" /\ c.role = "merged" => b = c
    /\ \A b, c \in blocks : b.item = c.item /\ b.item # 0 => b = c
    /\ \A b \in blocks : b.item < fresh
    /\ op.do \in {"create", "optimistic", "requeue"} /\ Done =>
          /\ op.item \in 1..(fresh - 1)
          /\ \A b \in blocks : b.item # op.item

\* The item of this id has these prompts, or had them when it became a turn.
Backs(id, ps) ==
    \/ \E e \in Entries : e.id = id /\ e.prompts = ps
    \/ id \in promoted /\ \A p \in ps : delivered[p] > 0

\* The operation has done this to the item of b, and the block does not say so yet.
Changed(b) == op.do \in {"append", "drop"} /\ Done /\ op.block = b
Removed(b) == op.do \in {"pop", "take"} /\ Done /\ op.block = b

\* But for that a block says what its item has.
BlocksBacked ==
    /\ \A b \in blocks : b.item # 0 =>
          /\ Removed(b) => b.item \notin promoted /\ \A e \in Entries : e.id # b.item
          /\ Changed(b) => Backs(b.item, op.content)
          /\ ~Removed(b) /\ ~Changed(b) => Backs(b.item, b.prompts)
    /\ op.do \in {"create", "optimistic", "requeue"} /\ Done =>
          Backs(op.item, op.content)

\* No key was used that a prompt has yet to use.
KeysSpent ==
    /\ DOMAIN keys \subseteq Prompts
    /\ \A p \in DOMAIN keys :
          /\ fate[p] # "new"
          /\ op.do = "append" => op.prompt # p
          /\ op.do \in {"create", "optimistic"} /\ op.pc # "answered" => op.prompt # p

\* Deliveries have keys of their own, and a receipt is that of its delivery.
DeliveriesApart ==
    /\ lastTurn <= MaxTurns /\ turn \in {0, lastTurn}
    /\ \A d \in unresolved : d.key \in 1..steers /\ d.turn \in 1..lastTurn
    /\ \A d, e \in unresolved : d.key = e.key => d = e
    /\ \A k \in DOMAIN receipts : k \in 1..steers /\ receipts[k].turn \in 1..lastTurn
    /\ \A d \in unresolved : d.key \in DOMAIN receipts =>
          receipts[d.key].prompts = d.prompts /\ receipts[d.key].turn = d.turn

Rejected(d) ==
    op.do = "steer" /\ op.pc = "answered" /\ op.answer = "rejected" /\ op.delivery = d

\* What was committed was delivered, and a rejection is known to be one.
ReceiptsTrue ==
    /\ \A k \in DOMAIN receipts : receipts[k].state = "committed" =>
          \A p \in receipts[k].prompts : delivered[p] > 0
    /\ op.do = "steer" /\ Done => \A p \in op.delivery.prompts : delivered[p] > 0
    /\ \A d \in unresolved : Rejected(d) /\ d.key \in DOMAIN receipts =>
          receipts[d.key].state = "rejected"

\* Where a prompt may be: in an item, in a block that has none and gets none, in a
\* delivery or a receipt, or with the operation under way.
InItem(p) == \E e \in Entries : p \in e.prompts
Unqueued(b) == b.item = 0 /\ ~(op.do \in {"create", "requeue"} /\ Done /\ op.block = b)
InBlock(p) == \E b \in blocks : Unqueued(b) /\ p \in b.prompts
InDelivery(p) == \E d \in unresolved : p \in d.prompts
InReceipt(p) ==
    \E k \in DOMAIN receipts :
        receipts[k].state = "running" /\ p \in receipts[k].prompts
InOp(p) ==
    \/ op.do = "create" /\ ~Done /\ p = op.prompt /\ p \notin op.block.prompts
    \/ op.do = "append" /\ ~Done /\ p = op.prompt
    \/ op.do = "optimistic" /\ ~Done /\ p = op.prompt
    \/ op.do = "take" /\ Done /\ p \in op.block.prompts
    \/ op.do \in {"pop", "drop"} /\ Done /\ p = op.prompt

\* A delivery that the server may yet commit or reject.
Open(d) ==
    \/ d.key \in DOMAIN receipts /\ receipts[d.key].state # "committed"
    \/ d.key \notin DOMAIN receipts /\ (d.turn \notin expired \/ d.turn = turn)
    \/ Rejected(d)
Undecided(p) ==
    \/ InReceipt(p)
    \/ \E d \in unresolved : Open(d) /\ p \in d.prompts

\* No two items, blocks or deliveries share a prompt ...
ItemsDisjoint == \A e, f \in Entries : e.prompts \cap f.prompts # {} => e = f
BlocksDisjoint ==
    \A b, c \in blocks :
        Unqueued(b) /\ Unqueued(c) /\ b.prompts \cap c.prompts # {} => b = c
DeliveriesDisjoint ==
    /\ \A d, e \in unresolved : d.prompts \cap e.prompts # {} => d = e
    /\ \A k \in DOMAIN receipts : receipts[k].state = "running" =>
          /\ \A j \in DOMAIN receipts :
                /\ receipts[j].state = "running"
                /\ receipts[k].prompts \cap receipts[j].prompts # {}
                => k = j
          /\ \A d \in unresolved :
                receipts[k].prompts \cap d.prompts # {} => k = d.key

\* ... nor an item and a block, and so on.
PlacesApart ==
    \A p \in Prompts :
        /\ InItem(p) => ~InBlock(p) /\ ~InDelivery(p) /\ ~InReceipt(p) /\ ~InOp(p)
        /\ InBlock(p) => ~InDelivery(p) /\ ~InReceipt(p) /\ ~InOp(p)
        /\ InOp(p) => ~InDelivery(p) /\ ~InReceipt(p)

\* What waits somewhere was not given to the model, ...
PlacesFresh ==
    \A p \in Prompts :
        /\ InItem(p) \/ InBlock(p) \/ Undecided(p) \/ InOp(p) => delivered[p] = 0
        /\ InItem(p) \/ InBlock(p) \/ InDelivery(p) \/ InOp(p) => fate[p] = "held"
        /\ InReceipt(p) => fate[p] \in {"held", "discarded"}

\* ... and what was accepted was given to it or waits somewhere.
PromptsHeld ==
    \A p \in Prompts : fate[p] = "held" =>
        delivered[p] > 0 \/ InItem(p) \/ InBlock(p) \/ InDelivery(p) \/ InOp(p)

\* DeliveredOnce, and nothing is delivered before the user wrote it.
GivenOnce ==
    \A p \in Prompts :
        delivered[p] <= IF fate[p] \in {"new", "refused", "dropped"} THEN 0 ELSE 1

\* Where every prompt is, from when it is written until the model has it.
QueueInv ==
    /\ TypeOK /\ OpShape /\ ItemsApart /\ BlocksApart /\ BlocksBacked /\ KeysSpent
    /\ DeliveriesApart /\ ReceiptsTrue /\ ItemsDisjoint /\ BlocksDisjoint
    /\ DeliveriesDisjoint /\ PlacesApart /\ PlacesFresh /\ PromptsHeld /\ GivenOnce


-----------------------------------------------------------------------------

\* A promotion takes the first item, and only that one (TurnQueue.pop_next).
LEMMA TailItems ==
    ASSUME NEW s \in Seq(Item), s # <<>>, Apart(s)
    PROVE  /\ Head(s) \in Range(s)
           /\ Tail(s) \in Seq(Item) /\ Apart(Tail(s))
           /\ Range(Tail(s)) = Range(s) \ {Head(s)}
<1>1. /\ Len(s) \in Nat /\ DOMAIN s = 1..Len(s) /\ Len(s) > 0 /\ Head(s) = s[1]
      /\ Tail(s) \in Seq(Item) /\ DOMAIN Tail(s) = 1..(Len(s) - 1)
      /\ \A i \in 1..(Len(s) - 1) : Tail(s)[i] = s[i + 1]
  BY HeadTailProperties, LenProperties, EmptySeq
<1>2. Apart(Tail(s))
  BY <1>1 DEF Apart
<1>3. \A i \in 1..(Len(s) - 1) : Tail(s)[i] # Head(s)
  BY <1>1 DEF Apart
<1>4. Head(s) \in Range(s)
  BY <1>1 DEF Range
<1>5. Range(Tail(s)) \subseteq Range(s) \ {Head(s)}
  BY <1>1, <1>3 DEF Range
<1>6. ASSUME NEW i \in 1..Len(s), i # 1
      PROVE  s[i] \in Range(Tail(s))
  <2>1. i - 1 \in 1..(Len(s) - 1) /\ s[i] = Tail(s)[i - 1]
    BY <1>1, <1>6
  <2> QED
    BY <1>1, <2>1 DEF Range
<1>7. Range(s) \ {Head(s)} \subseteq Range(Tail(s))
  BY <1>1, <1>6 DEF Range
<1> QED
  BY <1>1, <1>2, <1>4, <1>5, <1>7

\* An enqueue adds one item, and the others stay (TurnQueue.enqueue).
LEMMA AppendItems ==
    ASSUME NEW s \in Seq(Item), NEW e \in Item, Apart(s),
           \A f \in Range(s) : f.id # e.id
    PROVE  /\ Append(s, e) \in Seq(Item) /\ Apart(Append(s, e))
           /\ Range(Append(s, e)) = Range(s) \cup {e}
<1>1. /\ Len(s) \in Nat /\ DOMAIN s = 1..Len(s)
      /\ Append(s, e) \in Seq(Item) /\ DOMAIN Append(s, e) = 1..(Len(s) + 1)
      /\ \A i \in 1..Len(s) : Append(s, e)[i] = s[i]
      /\ Append(s, e)[Len(s) + 1] = e
  BY AppendProperties, LenProperties
<1>2. \A i \in 1..(Len(s) + 1) : i \in 1..Len(s) \/ i = Len(s) + 1
  BY <1>1
<1>3. Apart(Append(s, e))
  BY <1>1, <1>2 DEF Apart, Range
<1>4. Range(Append(s, e)) = Range(s) \cup {e}
  BY <1>1, <1>2 DEF Range
<1> QED
  BY <1>1, <1>3, <1>4

\* A replacement changes what the item of its id says, and nothing else
\* (TurnQueue.replace).
LEMMA RewrittenItems ==
    ASSUME items \in Seq(Item), Apart(items), NEW id, NEW ps \in SUBSET Prompts
    PROVE  /\ Rewritten(id, ps) \in Seq(Item) /\ Apart(Rewritten(id, ps))
           /\ \A f : f \in Range(Rewritten(id, ps)) <=>
                 \/ f \in Range(items) /\ f.id # id
                 \/ \E e \in Range(items) : e.id = id /\ f = [e EXCEPT !.prompts = ps]
<1> DEFINE t == Rewritten(id, ps)
<1>1. Len(items) \in Nat /\ DOMAIN items = 1..Len(items)
      /\ items \in [1..Len(items) -> Item]
  BY LenProperties
<1>2. /\ t \in [1..Len(items) -> Item]
      /\ \A i \in 1..Len(items) :
            t[i] = IF items[i].id = id THEN [items[i] EXCEPT !.prompts = ps] ELSE items[i]
  BY <1>1 DEF Item, Rewritten
<1> HIDE DEF t
<1>3. t \in Seq(Item)
  BY <1>1, <1>2, SeqDef
<1>4. \A i \in 1..Len(items) : t[i].id = items[i].id
  BY <1>1, <1>2 DEF Item
<1>5. Apart(t)
  BY <1>1, <1>2, <1>4 DEF Apart
<1>6. \A f : f \in Range(t) <=>
                 \/ f \in Range(items) /\ f.id # id
                 \/ \E e \in Range(items) : e.id = id /\ f = [e EXCEPT !.prompts = ps]
  BY <1>1, <1>2, <1>4 DEF Range
<1> QED
  BY <1>3, <1>5, <1>6 DEF t

\* A removal takes one item out, and the others keep their order and their ids
\* (TurnQueue.remove).
LEMMA WithoutItems ==
    ASSUME items \in Seq(Item), NEW n \in DOMAIN items, Apart(items)
    PROVE  /\ Without(n) \in Seq(Item) /\ Apart(Without(n))
           /\ Range(Without(n)) = Range(items) \ {items[n]}
<1>1. Len(items) \in Nat /\ DOMAIN items = 1..Len(items) /\ items \in [1..Len(items) -> Item]
  BY LenProperties
<1>2. /\ Without(n) \in [1..(Len(items) - 1) -> Item] /\ Len(items) - 1 \in Nat
      /\ \A i \in 1..(Len(items) - 1) :
            Without(n)[i] = IF i < n THEN items[i] ELSE items[i + 1]
  BY <1>1 DEF Without
<1>3. Without(n) \in Seq(Item)
  BY <1>2, SeqDef
<1>4. ASSUME NEW i \in 1..(Len(items) - 1), NEW j \in 1..(Len(items) - 1),
             Without(n)[i].id = Without(n)[j].id
      PROVE  i = j
  <2>1. (IF i < n THEN i ELSE i + 1) = (IF j < n THEN j ELSE j + 1)
    BY SMTT(30), <1>1, <1>2, <1>4 DEF Apart
  <2> QED
    BY <1>1, <2>1
<1>5. \A i \in 1..(Len(items) - 1) : Without(n)[i] # items[n]
  BY <1>1, <1>2 DEF Apart
<1>6. Range(Without(n)) \subseteq Range(items) \ {items[n]}
  BY <1>1, <1>2, <1>5 DEF Range
<1>7. ASSUME NEW i \in 1..Len(items), i # n
      PROVE  items[i] \in Range(Without(n))
  <2>1. CASE i < n
    BY <1>1, <1>2, <2>1 DEF Range
  <2>2. CASE i > n
    <3>1. i - 1 \in 1..(Len(items) - 1) /\ Without(n)[i - 1] = items[i]
      BY <1>1, <1>2, <2>2
    <3> QED
      BY <1>2, <3>1 DEF Range
  <2> QED
    BY <1>1, <1>7, <2>1, <2>2
<1>8. Range(items) \ {items[n]} \subseteq Range(Without(n))
  BY <1>1, <1>7 DEF Range
<1> QED
  BY <1>2, <1>3, <1>4, <1>6, <1>8 DEF Apart
\* What an id says of an item.
LEMMA EntryFacts ==
    ASSUME TypeOK, ItemsApart
    PROVE  /\ Entries \subseteq Item
           /\ \A e, f \in Entries : e.id = f.id => e = f
           /\ \A id : Queued(id) <=> \E e \in Entries : e.id = id
           /\ items = <<>> <=> Entries = {}
<1>1. items \in Seq(Item) /\ DOMAIN items = 1..Len(items) /\ Len(items) \in Nat
  BY LenProperties DEF TypeOK
<1>2. \A i \in DOMAIN items : items[i] \in Item
  BY <1>1, ElementOfSeq
<1>3. items = <<>> <=> Entries = {}
  BY <1>1, EmptySeq DEF Entries, Range
<1>4. Entries \subseteq Item
  BY <1>2 DEF Entries, Range
<1> QED
  BY <1>1, <1>3, <1>4 DEF ItemsApart, Apart, Queued, Entries, Range

\* Create uses the block that new prompts join, if there is one.
LEMMA CreateFacts ==
    ASSUME NEW p, NEW bs, Create(p, bs)
    PROVE  \E b :
              /\ blocks' = bs \cup {b} /\ op' = Ask("create", p, b, b.prompts \cup {p})
              /\ \/ b \in bs /\ b.role = "merged"
                 \/ b = Block({p}, p, 0, "merged") /\ \A c \in bs : c.role # "merged"
<1> DEFINE kept == {b \in bs : b.role = "merged"}
           b == IF kept = {} THEN Block({p}, p, 0, "merged")
                ELSE CHOOSE k \in kept : TRUE
<1>1. b \in kept \/ (kept = {} /\ b = Block({p}, p, 0, "merged"))
  OBVIOUS
<1>2. blocks' = bs \cup {b} /\ op' = Ask("create", p, b, b.prompts \cup {p})
  BY DEF Create
<1> QED
  BY <1>1, <1>2

\* A prompt that is undecided is in a delivery or in a receipt.
LEMMA UndecidedPlaces ==
    \A p : Undecided(p) => InReceipt(p) \/ InDelivery(p)
  BY DEF Undecided, InDelivery

\* A conjunct stays true when nothing that it reads changes.
LEMMA Kept ==
    ASSUME QueueInv
    PROVE  /\ UNCHANGED <<op, blocks, unresolved, receipts>> => OpShape'
           /\ UNCHANGED <<items, fresh, promoted>> => ItemsApart'
           /\ UNCHANGED <<blocks, op, fresh>> => BlocksApart'
           /\ UNCHANGED <<blocks, op, items, promoted, delivered>> => BlocksBacked'
           /\ UNCHANGED <<keys, fate, op>> => KeysSpent'
           /\ UNCHANGED <<lastTurn, turn, unresolved, steers, receipts>> => DeliveriesApart'
           /\ UNCHANGED <<receipts, delivered, op, unresolved>> => ReceiptsTrue'
           /\ UNCHANGED <<items>> => ItemsDisjoint'
           /\ UNCHANGED <<blocks, op>> => BlocksDisjoint'
           /\ UNCHANGED <<unresolved, receipts>> => DeliveriesDisjoint'
           /\ UNCHANGED <<fate, delivered>> => GivenOnce'
<1>1. UNCHANGED <<op, blocks, unresolved, receipts>> => OpShape'
  BY DEF QueueInv, OpShape, Idle
<1>2. UNCHANGED <<items, fresh, promoted>> => ItemsApart'
  BY DEF QueueInv, ItemsApart, Apart, Entries
<1>3. UNCHANGED <<blocks, op, fresh>> => BlocksApart'
  BY DEF QueueInv, BlocksApart, Done
<1>4. UNCHANGED <<blocks, op, items, promoted, delivered>> => BlocksBacked'
  BY DEF QueueInv, BlocksBacked, Removed, Changed, Done, Backs, Entries
<1>5. UNCHANGED <<keys, fate, op>> => KeysSpent'
  BY DEF QueueInv, KeysSpent
<1>6. UNCHANGED <<lastTurn, turn, unresolved, steers, receipts>> => DeliveriesApart'
  BY DEF QueueInv, DeliveriesApart
<1>7. UNCHANGED <<receipts, delivered, op, unresolved>> => ReceiptsTrue'
  BY DEF QueueInv, ReceiptsTrue, Rejected, Done
<1>8. UNCHANGED <<items>> => ItemsDisjoint'
  BY DEF QueueInv, ItemsDisjoint, Entries
<1>9. UNCHANGED <<blocks, op>> => BlocksDisjoint'
  BY DEF QueueInv, BlocksDisjoint, Unqueued, Done
<1>10. UNCHANGED <<unresolved, receipts>> => DeliveriesDisjoint'
  BY DEF QueueInv, DeliveriesDisjoint
<1>11. UNCHANGED <<fate, delivered>> => GivenOnce'
  BY DEF QueueInv, GivenOnce
<1> QED
  BY <1>1, <1>2, <1>3, <1>4, <1>5, <1>6, <1>7, <1>8, <1>9, <1>10, <1>11

\* So does where a prompt is.
LEMMA PlacesKept ==
    \A q : /\ UNCHANGED items => (InItem(q)' <=> InItem(q))
           /\ UNCHANGED <<blocks, op>> => (InBlock(q)' <=> InBlock(q))
           /\ UNCHANGED unresolved => (InDelivery(q)' <=> InDelivery(q))
           /\ UNCHANGED receipts => (InReceipt(q)' <=> InReceipt(q))
           /\ UNCHANGED op => (InOp(q)' <=> InOp(q))
<1>1. UNCHANGED items => \A q : InItem(q)' <=> InItem(q)
  BY DEF InItem, Entries
<1>2. UNCHANGED <<blocks, op>> => \A q : InBlock(q)' <=> InBlock(q)
  BY DEF InBlock, Unqueued, Done
<1>3. UNCHANGED unresolved => \A q : InDelivery(q)' <=> InDelivery(q)
  BY DEF InDelivery
<1>4. UNCHANGED receipts => \A q : InReceipt(q)' <=> InReceipt(q)
  BY DEF InReceipt
<1>5. UNCHANGED op => \A q : InOp(q)' <=> InOp(q)
  BY DEF InOp, Done
<1> QED
  BY <1>1, <1>2, <1>3, <1>4, <1>5


-----------------------------------------------------------------------------
(* The server *)

\* Nothing that the places depend on changes: a turn ends (TurnEnds), the queue is
\* resumed, the interface learns what has started, or nothing happens.
LEMMA Quiet ==
    ASSUME QueueInv, UNCHANGED <<items, fresh, keys, promoted, receipts, expired, unresolved, blocks,
                     steers, lastTurn, op, fate, delivered>>,
           known' \in SUBSET promoted, paused' \in BOOLEAN, turn' \in {0, turn}
    PROVE  QueueInv'
<1>0. /\ TypeOK /\ OpShape /\ ItemsApart /\ BlocksApart /\ BlocksBacked /\ KeysSpent
      /\ DeliveriesApart /\ ReceiptsTrue /\ ItemsDisjoint /\ BlocksDisjoint
      /\ DeliveriesDisjoint /\ PlacesApart /\ PlacesFresh /\ PromptsHeld /\ GivenOnce
  BY DEF QueueInv
<1>1. Entries' = Entries
  BY DEF Entries
<1>2. \A q \in Prompts :
         /\ (InItem(q)' <=> InItem(q))
         /\ (InBlock(q)' <=> InBlock(q))
         /\ (InDelivery(q)' <=> InDelivery(q))
         /\ (InReceipt(q)' <=> InReceipt(q))
         /\ (InOp(q)' <=> InOp(q))
  BY PlacesKept
<1>3. \A d \in unresolved' : Open(d)' => d \in unresolved /\ Open(d)
  BY <1>0 DEF Open, Rejected, DeliveriesApart
<1>4. \A q \in Prompts : Undecided(q)' => Undecided(q)
  BY <1>0, <1>2, <1>3 DEF Undecided
<1>5. /\ OpShape' /\ ItemsApart' /\ BlocksApart' /\ BlocksBacked'
      /\ KeysSpent' /\ ReceiptsTrue' /\ ItemsDisjoint' /\ BlocksDisjoint'
      /\ DeliveriesDisjoint' /\ GivenOnce'
  BY Kept
<1>6. TypeOK'
  BY <1>0 DEF TypeOK
<1>7. DeliveriesApart'
  BY <1>0 DEF DeliveriesApart
<1>8. PlacesApart'
  BY <1>0, <1>2 DEF PlacesApart
<1>9. PlacesFresh'
  BY <1>0, <1>2, <1>4, UndecidedPlaces DEF PlacesFresh
<1>10. PromptsHeld'
  BY <1>0, <1>2 DEF PromptsHeld
<1> QED
  BY <1>5, <1>6, <1>7, <1>8, <1>9, <1>10 DEF QueueInv

\* _promote_next: the first item becomes a turn, and its prompts are the model's.
LEMMA PromoteStep ==
    ASSUME QueueInv, Promote
    PROVE  QueueInv'
<1>0. /\ TypeOK /\ OpShape /\ ItemsApart /\ BlocksApart /\ BlocksBacked /\ KeysSpent
      /\ DeliveriesApart /\ ReceiptsTrue /\ ItemsDisjoint /\ BlocksDisjoint
      /\ DeliveriesDisjoint /\ PlacesApart /\ PlacesFresh /\ PromptsHeld /\ GivenOnce
  BY DEF QueueInv
<1>1. /\ turn = 0 /\ lastTurn < MaxTurns /\ items # <<>> /\ items' = Tail(items)
      /\ turn' = lastTurn + 1 /\ lastTurn' = lastTurn + 1
      /\ promoted' = promoted \cup {Head(items).id}
      /\ delivered' = [q \in Prompts |->
                         delivered[q] + IF q \in Head(items).prompts THEN 1 ELSE 0]
      /\ UNCHANGED <<fresh, paused, keys, receipts, expired, blocks, unresolved,
                     steers, known, op, fate>>
  BY <1>0 DEF Promote, Give, queue, turns, steering, client, history
<1>2. /\ Head(items) \in Entries /\ Entries' = Entries \ {Head(items)}
      /\ items' \in Seq(Item) /\ Apart(items')
  BY <1>0, <1>1, TailItems DEF TypeOK, ItemsApart, Entries
<1>3. /\ delivered' \in [Prompts -> Nat]
      /\ \A q \in Prompts :
            /\ delivered'[q] = delivered[q] + IF q \in Head(items).prompts THEN 1 ELSE 0
            /\ delivered[q] > 0 => delivered'[q] > 0
  BY <1>0, <1>1 DEF TypeOK
<1>4. /\ Head(items).id \in Nat
      /\ \A q \in Prompts : q \in Head(items).prompts => InItem(q)
  BY <1>0, <1>2, EntryFacts DEF Item, InItem
<1>5. \A q \in Prompts : InItem(q)' <=> InItem(q) /\ q \notin Head(items).prompts
  BY <1>0, <1>2 DEF InItem, ItemsDisjoint
<1>6. \A q \in Prompts :
         /\ (InBlock(q)' <=> InBlock(q))
         /\ (InDelivery(q)' <=> InDelivery(q))
         /\ (InReceipt(q)' <=> InReceipt(q))
         /\ (InOp(q)' <=> InOp(q))
  BY <1>1, PlacesKept
<1>7. \A d \in unresolved' : Open(d)' => d \in unresolved /\ Open(d)
  BY <1>0, <1>1
     DEF Open, Rejected, DeliveriesApart, ReceiptsTrue, TypeOK, Deliveries,
         Receipts, Operations, OpShape, Done, Idle
<1>8. \A q \in Prompts : Undecided(q)' => Undecided(q)
  BY <1>0, <1>1, <1>4, <1>6, <1>7 DEF Undecided
<1>9. \A id \in Nat, ps \in SUBSET Prompts : Backs(id, ps) => Backs(id, ps)'
  BY <1>0, <1>1, <1>2, <1>3, <1>4 DEF Backs, TypeOK
<1>10. /\ OpShape' /\ BlocksApart' /\ KeysSpent' /\ BlocksDisjoint'
       /\ DeliveriesDisjoint'
  BY <1>1, Kept
<1>11. TypeOK'
  BY <1>0, <1>1, <1>2, <1>3, <1>4 DEF TypeOK
<1>12. ItemsApart'
  BY SMTT(30), <1>0, <1>1, <1>2, <1>4, EntryFacts DEF ItemsApart, TypeOK
<1>13. BlocksBacked'
  BY SMTT(30), <1>0, <1>1, <1>2, <1>3, <1>9, EntryFacts
     DEF BlocksBacked, Changed, Removed, BlocksApart, ItemsApart, OpShape, Done,
         Idle, TypeOK, Blocks, Operations, Item
<1>14. DeliveriesApart'
  <2>1. \A t : t \in 1..lastTurn => t \in 1..lastTurn'
    BY <1>0, <1>1 DEF TypeOK
  <2>2. lastTurn' <= MaxTurns
    BY <1>0, <1>1, QueueAssumption DEF TypeOK
  <2> QED
    BY <1>0, <1>1, <2>1, <2>2 DEF DeliveriesApart
<1>15. ReceiptsTrue'
  BY <1>0, <1>1, <1>3 DEF ReceiptsTrue, Rejected, Done, TypeOK, Receipts, OpShape, Deliveries
<1>16. ItemsDisjoint'
  BY <1>0, <1>1, <1>2, <1>4 DEF ItemsDisjoint
<1>17. PlacesApart'
  BY <1>0, <1>1, <1>4, <1>5, <1>6 DEF PlacesApart
<1>18. PlacesFresh'
  BY <1>0, <1>1, <1>3, <1>4, <1>5, <1>6, <1>8, UndecidedPlaces
     DEF PlacesFresh, PlacesApart
<1>19. PromptsHeld'
  BY <1>0, <1>1, <1>3, <1>4, <1>5, <1>6 DEF PromptsHeld, PlacesFresh
<1>20. GivenOnce'
  BY <1>0, <1>1, <1>3, <1>4, <1>5, <1>6 DEF GivenOnce, PlacesFresh, TypeOK
<1> QED
  BY <1>10, <1>11, <1>12, <1>13, <1>14, <1>15, <1>16, <1>17, <1>18, <1>19, <1>20
     DEF QueueInv

\* The server refuses an enqueue or a replacement.
LEMMA RefuseStep ==
    ASSUME QueueInv, Refuse
    PROVE  QueueInv'
<1>0. /\ TypeOK /\ OpShape /\ ItemsApart /\ BlocksApart /\ BlocksBacked /\ KeysSpent
      /\ DeliveriesApart /\ ReceiptsTrue /\ ItemsDisjoint /\ BlocksDisjoint
      /\ DeliveriesDisjoint /\ PlacesApart /\ PlacesFresh /\ PromptsHeld /\ GivenOnce
  BY DEF QueueInv
<1>1. /\ op.pc = "sent"
      /\ op.do \in {"create", "optimistic", "requeue", "append", "drop"}
      /\ op' = [op EXCEPT !.pc = "answered", !.answer = "error"]
      /\ UNCHANGED <<items, fresh, paused, keys, turn, lastTurn, promoted,
                     receipts, expired, blocks, unresolved, steers, known, fate,
                     delivered>>
  BY <1>0 DEF Refuse, Waits, Answer, queue, turns, steering, client, history
<1>2. Entries' = Entries
  BY <1>1 DEF Entries
<1>3. /\ op' \in Operations /\ op'.do = op.do /\ op'.pc = "answered" /\ op'.answer = "error"
      /\ op'.prompt = op.prompt /\ op'.block = op.block /\ op'.content = op.content
      /\ op'.delivery = op.delivery
  BY <1>0, <1>1 DEF TypeOK, Operations
<1>4. \A b : b \in blocks' /\ Unqueued(b)' <=> b \in blocks /\ Unqueued(b)
  BY <1>0, <1>1, <1>3 DEF Unqueued, Done
<1>5. \A q \in Prompts :
         /\ (InItem(q)' <=> InItem(q))
         /\ (InBlock(q)' <=> InBlock(q))
         /\ (InDelivery(q)' <=> InDelivery(q))
         /\ (InReceipt(q)' <=> InReceipt(q))
         /\ (InOp(q)' <=> InOp(q))
  <2>1. \A q \in Prompts : InBlock(q)' <=> InBlock(q)
    BY <1>4 DEF InBlock
  <2>2. \A q \in Prompts : InOp(q)' <=> InOp(q)
    BY <1>0, <1>1, <1>3 DEF InOp, Done
  <2> QED
    BY <1>1, PlacesKept, <2>1, <2>2
<1>6. \A d \in unresolved' : Open(d)' => d \in unresolved /\ Open(d)
  BY <1>0, <1>1, <1>3 DEF Open, Rejected
<1>7. \A q \in Prompts : Undecided(q)' => Undecided(q)
  BY <1>0, <1>1, <1>5, <1>6 DEF Undecided
<1>8. \A id \in Nat, ps \in SUBSET Prompts : Backs(id, ps) => Backs(id, ps)'
  BY <1>0, <1>1, <1>2 DEF Backs
<1>9. /\ ItemsApart' /\ DeliveriesApart' /\ ItemsDisjoint' /\ DeliveriesDisjoint'
      /\ GivenOnce'
  BY <1>1, Kept
<1>10. TypeOK'
  BY <1>0, <1>1, <1>2, <1>3 DEF TypeOK
<1>11. OpShape'
  BY <1>0, <1>1, <1>3 DEF OpShape, Idle
<1>12. BlocksApart'
  BY <1>0, <1>1, <1>3 DEF BlocksApart, Done
<1>13. BlocksBacked'
  BY <1>0, <1>1, <1>2, <1>3, <1>8
     DEF BlocksBacked, Changed, Removed, Done, OpShape, TypeOK, Blocks
<1>14. KeysSpent'
  BY <1>0, <1>1, <1>3 DEF KeysSpent
<1>15. ReceiptsTrue'
  BY <1>0, <1>1, <1>3 DEF ReceiptsTrue, Rejected, Done
<1>16. BlocksDisjoint'
  BY <1>0, <1>4 DEF BlocksDisjoint, PlacesApart, InBlock
<1>17. PlacesApart'
  BY <1>0, <1>1, <1>5 DEF PlacesApart
<1>18. PlacesFresh'
  BY <1>0, <1>1, <1>5, <1>7, UndecidedPlaces DEF PlacesFresh
<1>19. PromptsHeld'
  BY <1>0, <1>1, <1>5 DEF PromptsHeld
<1> QED
  BY <1>9, <1>10, <1>11, <1>12, <1>13, <1>14, <1>15, <1>16, <1>17, <1>18, <1>19
     DEF QueueInv

\* enqueue: the item takes the prompts of the block, and the block is not yet told.
\* Its key was not used before (Key), so no older item answers for it.
LEMMA EnqueueStep ==
    ASSUME QueueInv, Enqueue
    PROVE  QueueInv'
<1>0. /\ TypeOK /\ OpShape /\ ItemsApart /\ BlocksApart /\ BlocksBacked /\ KeysSpent
      /\ DeliveriesApart /\ ReceiptsTrue /\ ItemsDisjoint /\ BlocksDisjoint
      /\ DeliveriesDisjoint /\ PlacesApart /\ PlacesFresh /\ PromptsHeld /\ GivenOnce
  BY DEF QueueInv
<1>1. Key(op) \notin DOMAIN keys
  BY <1>0, QueueAssumption DEF Enqueue, Key, KeysSpent, Waits, OpShape
<1>2. [id |-> fresh, prompts |-> op.content] \in Item
  BY <1>0 DEF TypeOK, Item, Operations
<1>3. \A e \in Entries : e.id # fresh
  BY <1>0, EntryFacts DEF ItemsApart, TypeOK, Item
<1>4. /\ op.pc = "sent" /\ op.do \in {"create", "optimistic", "requeue"}
      /\ items' = Append(items, [id |-> fresh, prompts |-> op.content])
      /\ fresh' = fresh + 1 /\ DOMAIN keys' = DOMAIN keys \cup ({Key(op)} \ {None})
      /\ op' = [op EXCEPT !.pc = "answered", !.answer = "ok", !.item = fresh]
      /\ UNCHANGED <<paused, turn, lastTurn, promoted, receipts, expired, blocks, unresolved,
                     steers, known, fate, delivered>>
  BY <1>1 DEF Enqueue, Waits, AnswerItem, turns, steering, client, history
<1>5. /\ items' \in Seq(Item) /\ Apart(items')
      /\ \E n \in Item :
            n.id = fresh /\ n.prompts = op.content /\ Entries' = Entries \cup {n}
  <2> DEFINE n == [id |-> fresh, prompts |-> op.content]
  <2>1. n.id = fresh /\ n.prompts = op.content
    OBVIOUS
  <2>2. n \in Item /\ items' = Append(items, n)
    BY <1>2, <1>4
  <2> HIDE DEF n
  <2> QED
    BY <1>0, <1>3, <2>1, <2>2, AppendItems DEF TypeOK, ItemsApart, Entries
<1>6. /\ \A q \in Prompts : q \in op.content <=>
            (op.do \in {"create", "requeue"} /\ q \in op.block.prompts) \/ InOp(q)
      /\ op.do \in {"create", "requeue"} => op.block \in blocks /\ Unqueued(op.block)
  BY <1>0, <1>4 DEF InOp, Unqueued, OpShape, Done
<1>7. \A q \in Prompts : q \in op.content => (InBlock(q) \/ InOp(q)) /\ ~InItem(q)
  BY <1>0, <1>6 DEF InBlock, PlacesApart
<1>8. Key(op) = None \/ (Key(op) \in Prompts /\ fate[Key(op)] = "held")
  BY <1>0, <1>4, <1>7 DEF Key, PlacesFresh, OpShape
<1>9. /\ op' \in Operations /\ op'.do = op.do /\ op'.pc = "answered" /\ op'.answer = "ok"
      /\ op'.prompt = op.prompt /\ op'.block = op.block /\ op'.content = op.content
      /\ op'.delivery = op.delivery /\ op'.item = fresh
  BY <1>0, <1>4 DEF TypeOK, Operations
<1>10. \A b : b \in blocks' /\ Unqueued(b)' <=>
          b \in blocks /\ Unqueued(b) /\ ~(op.do \in {"create", "requeue"} /\ b = op.block)
  BY <1>0, <1>4, <1>9 DEF Unqueued, Done
<1>11. \A q \in Prompts : InItem(q)' <=> InItem(q) \/ q \in op.content
  BY <1>5 DEF InItem
<1>12. \A q \in Prompts : InBlock(q)' <=>
          InBlock(q) /\ ~(op.do \in {"create", "requeue"} /\ q \in op.block.prompts)
  BY <1>0, <1>4, <1>6, <1>10 DEF InBlock, BlocksDisjoint
<1>13. \A q \in Prompts : ~InOp(q)'
  BY <1>0, <1>4, <1>6, <1>7, <1>9 DEF InOp, Done
<1>14. \A q \in Prompts :
         /\ (InDelivery(q)' <=> InDelivery(q))
         /\ (InReceipt(q)' <=> InReceipt(q))
  BY <1>4, PlacesKept
<1>15. \A d \in unresolved' : Open(d)' => d \in unresolved /\ Open(d)
  BY <1>0, <1>4, <1>9 DEF Open, Rejected
<1>16. \A q \in Prompts : Undecided(q)' => Undecided(q)
  BY <1>0, <1>4, <1>6, <1>7, <1>14, <1>15 DEF Undecided
<1>17. \A id \in Nat, ps \in SUBSET Prompts : Backs(id, ps) => Backs(id, ps)'
  BY <1>0, <1>4, <1>5, <1>6, <1>7 DEF Backs
<1>18. DeliveriesApart' /\ DeliveriesDisjoint' /\ GivenOnce'
  BY <1>4, Kept
<1>19. TypeOK'
  BY <1>0, <1>4, <1>5, <1>9 DEF TypeOK
<1>20. OpShape'
  BY <1>0, <1>4, <1>9 DEF OpShape, Idle
<1>21. ItemsApart'
  BY <1>0, <1>4, <1>5 DEF ItemsApart, TypeOK, Item
<1>22. BlocksApart'
  BY <1>0, <1>4, <1>9
     DEF BlocksApart, ItemsApart, OpShape, Done, Idle, TypeOK, Blocks
<1>23. BlocksBacked'
  <2>1. Backs(op.item, op.content)'
    BY <1>4, <1>5, <1>9 DEF Backs
  <2> QED
    BY <1>0, <1>4, <1>9, <1>17, <2>1 DEF BlocksBacked, Changed, Removed, OpShape, Done, TypeOK, Blocks
<1>24. KeysSpent'
  BY <1>0, <1>4, <1>8, <1>9 DEF KeysSpent, OpShape
<1>25. ReceiptsTrue'
  BY <1>0, <1>4, <1>9 DEF ReceiptsTrue, Rejected, Done
<1>26. ItemsDisjoint'
  BY <1>0, <1>5, <1>7, EntryFacts DEF ItemsDisjoint, InItem, Item
<1>27. BlocksDisjoint'
  BY <1>0, <1>6, <1>7, <1>10 DEF BlocksDisjoint, PlacesApart, InBlock
<1>28. PlacesApart'
  BY <1>0, <1>4, <1>6, <1>7, <1>11, <1>12, <1>13, <1>14 DEF PlacesApart
<1>29. PlacesFresh'
  BY <1>0, <1>4, <1>6, <1>7, <1>11, <1>12, <1>13, <1>14, <1>16, UndecidedPlaces
     DEF PlacesFresh
<1>30. PromptsHeld'
  BY <1>0, <1>4, <1>6, <1>7, <1>11, <1>12, <1>13, <1>14 DEF PromptsHeld
<1> QED
  BY <1>18, <1>19, <1>20, <1>21, <1>22, <1>23, <1>24, <1>25, <1>26, <1>27, <1>28,
     <1>29, <1>30
     DEF QueueInv

\* replace: the item gets other prompts, unless it has become a turn.
LEMMA ReplaceStep ==
    ASSUME QueueInv, Replace
    PROVE  QueueInv'
<1>0. /\ TypeOK /\ OpShape /\ ItemsApart /\ BlocksApart /\ BlocksBacked /\ KeysSpent
      /\ DeliveriesApart /\ ReceiptsTrue /\ ItemsDisjoint /\ BlocksDisjoint
      /\ DeliveriesDisjoint /\ PlacesApart /\ PlacesFresh /\ PromptsHeld /\ GivenOnce
  BY DEF QueueInv
<1>1. Queued(op.block.item) <=> \E e \in Entries : e.id = op.block.item
  BY <1>0, EntryFacts
<1>2. /\ op.pc = "sent" /\ op.do \in {"append", "drop"}
      /\ op' = [op EXCEPT !.pc = "answered",
                          !.answer = IF Queued(op.block.item) THEN "ok" ELSE "gone"]
      /\ DOMAIN keys' \subseteq DOMAIN keys
      /\ Queued(op.block.item) =>
            items' = Rewritten(op.block.item, op.content)
      /\ ~Queued(op.block.item) => items' = items /\ keys' = keys
      /\ UNCHANGED <<fresh, paused, turn, lastTurn, promoted, receipts, expired, blocks,
                     unresolved, steers, known, fate, delivered>>
  BY DEF Replace, Waits, Answer, turns, steering, client, history
<1>3. Queued(op.block.item) =>
          \E e \in Entries : e.id = op.block.item /\ e.prompts = op.block.prompts
  BY <1>0, <1>1, <1>2 DEF BlocksBacked, Backs, Removed, Changed, ItemsApart, OpShape, Done
<1>4. ASSUME Queued(op.block.item)
      PROVE  /\ items' \in Seq(Item) /\ Apart(items')
             /\ \E e \in Entries, n \in Item :
                   /\ e.id = op.block.item /\ e.prompts = op.block.prompts
                   /\ n.id = op.block.item /\ n.prompts = op.content
                   /\ Entries' = (Entries \ {e}) \cup {n}
  <2>1. op.content \in SUBSET Prompts
    BY <1>0 DEF TypeOK, Operations
  <2>2. /\ items' \in Seq(Item) /\ Apart(items')
        /\ \A f : f \in Entries' <=>
              \/ f \in Entries /\ f.id # op.block.item
              \/ \E e \in Entries :
                    e.id = op.block.item /\ f = [e EXCEPT !.prompts = op.content]
    <3>1. items \in Seq(Item) /\ Apart(items)
      BY <1>0 DEF TypeOK, ItemsApart
    <3> QED
      BY <1>2, <1>4, <2>1, <3>1, RewrittenItems DEF Entries
  <2>3. PICK e \in Entries : e.id = op.block.item /\ e.prompts = op.block.prompts
    BY <1>4, <1>3
  <2> DEFINE n == [e EXCEPT !.prompts = op.content]
  <2>4. \A f \in Entries : f.id = op.block.item => f = e
    BY <1>0, <2>3, EntryFacts
  <2>5. n \in Item /\ n.id = op.block.item /\ n.prompts = op.content
    BY <1>0, <2>1, <2>3, EntryFacts DEF Item
  <2>6. \A f : f \in Entries' <=> f = n \/ (f \in Entries /\ f # e)
    BY <2>2, <2>3, <2>4
  <2> HIDE DEF n
  <2> QED
    BY <2>2, <2>3, <2>5, <2>6
<1>5. ~Queued(op.block.item) =>
          items' = items /\ items' \in Seq(Item) /\ Apart(items') /\ Entries' = Entries
  BY <1>0, <1>2 DEF Entries, TypeOK, ItemsApart
<1>6. /\ op.prompt \in Prompts
      /\ op.do = "append" => InOp(op.prompt) /\ ~InItem(op.prompt)
      /\ Queued(op.block.item) /\ op.do = "drop" => InItem(op.prompt)
  <2>1. op.prompt \in Prompts /\ (op.do = "append" => InOp(op.prompt))
    BY <1>0, <1>2 DEF OpShape, InOp, Done, TypeOK, Operations, Blocks
  <2>2. op.do = "append" => ~InItem(op.prompt)
    BY <1>0, <2>1 DEF PlacesApart
  <2>3. Queued(op.block.item) /\ op.do = "drop" => InItem(op.prompt)
    BY <1>0, <1>3 DEF OpShape, InItem
  <2> QED
    BY <2>1, <2>2, <2>3
<1>7. /\ op' \in Operations /\ op'.do = op.do /\ op'.pc = "answered"
      /\ op'.answer = IF Queued(op.block.item) THEN "ok" ELSE "gone"
      /\ op'.prompt = op.prompt /\ op'.block = op.block /\ op'.content = op.content
      /\ op'.delivery = op.delivery
  BY <1>0, <1>2 DEF TypeOK, Operations
<1>8. \A b : b \in blocks' /\ Unqueued(b)' <=> b \in blocks /\ Unqueued(b)
  BY <1>0, <1>2, <1>7 DEF Unqueued, Done
<1>9. \A q \in Prompts : InItem(q)' <=>
          \/ InItem(q) /\ ~(Queued(op.block.item) /\ op.do = "drop" /\ q = op.prompt)
          \/ Queued(op.block.item) /\ op.do = "append" /\ q = op.prompt
  <2>1. CASE ~Queued(op.block.item)
    BY <1>5, <2>1 DEF InItem
  <2>2. CASE Queued(op.block.item)
    <3>1. PICK e \in Entries, n \in Item :
              /\ e.id = op.block.item /\ e.prompts = op.block.prompts
              /\ n.id = op.block.item /\ n.prompts = op.content
              /\ Entries' = (Entries \ {e}) \cup {n}
      BY <1>4, <2>2
    <3>2. /\ op.do = "append" => op.content = e.prompts \cup {op.prompt}
          /\ op.do = "drop" => op.content = e.prompts \ {op.prompt} /\ op.prompt \in e.prompts
          /\ op.do \in {"append", "drop"}
      BY <1>0, <1>2, <3>1 DEF OpShape
    <3>3. \A q \in Prompts :
              InItem(q)' <=> q \in op.content \/ \E f \in Entries : f # e /\ q \in f.prompts
      BY <3>1 DEF InItem
    <3>4. \A q \in Prompts, f \in Entries : q \in e.prompts /\ q \in f.prompts => f = e
      BY <1>0, <3>1 DEF ItemsDisjoint
    <3>5. \A q \in Prompts :
              InItem(q) <=> q \in e.prompts \/ \E f \in Entries : f # e /\ q \in f.prompts
      BY <3>1 DEF InItem
    <3>6. CASE op.do = "append"
      BY <2>2, <3>2, <3>3, <3>5, <3>6
    <3>7. CASE op.do = "drop"
      <4>1. \A f \in Entries : op.prompt \in f.prompts => f = e
        BY <1>6, <3>2, <3>4, <3>7
      <4> QED
        BY <2>2, <3>2, <3>3, <3>5, <3>7, <4>1
    <3> QED
      BY <3>2, <3>6, <3>7
  <2> QED
    BY <2>1, <2>2
<1>10. \A q \in Prompts : 
         /\ InOp(q)' <=>
               \/ op.do = "append" /\ q = op.prompt /\ ~Queued(op.block.item)
               \/ op.do = "drop" /\ q = op.prompt /\ Queued(op.block.item)
         /\ InOp(q) <=> op.do = "append" /\ q = op.prompt
  BY <1>0, <1>2, <1>6, <1>7 DEF InOp, Done
<1>11. \A q \in Prompts :
         /\ (InBlock(q)' <=> InBlock(q))
         /\ (InDelivery(q)' <=> InDelivery(q))
         /\ (InReceipt(q)' <=> InReceipt(q))
  <2>1. \A q \in Prompts : InBlock(q)' <=> InBlock(q)
    BY <1>8 DEF InBlock
  <2> QED
    BY <1>2, PlacesKept, <2>1
<1>12. \A d \in unresolved' : Open(d)' => d \in unresolved /\ Open(d)
  BY <1>0, <1>2, <1>7 DEF Open, Rejected
<1>13. \A q \in Prompts : Undecided(q)' => Undecided(q)
  BY <1>0, <1>2, <1>6, <1>11, <1>12 DEF Undecided
<1>14. \A id \in Nat, ps \in SUBSET Prompts :
          Backs(id, ps) /\ ~(Queued(op.block.item) /\ id = op.block.item) => Backs(id, ps)'
  BY <1>0, <1>2, <1>4, <1>5, <1>6 DEF Backs
<1>15. DeliveriesApart' /\ DeliveriesDisjoint' /\ GivenOnce'
  BY <1>2, Kept
<1>16. TypeOK'
  BY <1>0, <1>2, <1>4, <1>5, <1>7 DEF TypeOK
<1>17. OpShape'
  BY <1>0, <1>2, <1>7 DEF OpShape, Idle
<1>18. ItemsApart'
  BY <1>0, <1>2, <1>4, <1>5 DEF ItemsApart
<1>19. BlocksApart'
  BY <1>0, <1>2, <1>7 DEF BlocksApart, Done
<1>20. BlocksBacked'
  <2>1. ASSUME NEW b \in blocks, b.item # 0
        PROVE  /\ b.item \in Nat /\ b.prompts \in SUBSET Prompts /\ Backs(b.item, b.prompts)
               /\ b # op.block => b.item # op.block.item
    BY <1>0, <1>2, <2>1
       DEF BlocksBacked, Changed, Removed, Done, TypeOK, Blocks, BlocksApart, OpShape
  <2>2. ASSUME NEW b \in blocks, b.item # 0,
               ~Queued(op.block.item) \/ b # op.block
        PROVE  Backs(b.item, b.prompts)'
    BY <1>14, <2>1, <2>2
  <2>3. CASE Queued(op.block.item)
    <3>1. Backs(op.block.item, op.content)'
      BY <1>4, <1>7, <2>3 DEF Backs
    <3> QED
      BY <1>2, <1>7, <2>2, <2>3, <3>1 DEF BlocksBacked, Changed, Removed, Done
  <2>4. CASE ~Queued(op.block.item)
    BY <1>2, <1>7, <2>2, <2>4 DEF BlocksBacked, Changed, Removed, Done
  <2> QED
    BY <2>3, <2>4
<1>21. KeysSpent'
  BY <1>0, <1>2, <1>7 DEF KeysSpent
<1>22. ReceiptsTrue'
  BY <1>0, <1>2, <1>7 DEF ReceiptsTrue, Rejected, Done
<1>23. ItemsDisjoint'
  <2>1. CASE ~Queued(op.block.item)
    BY <1>0, <1>5, <2>1 DEF ItemsDisjoint
  <2>2. CASE Queued(op.block.item)
    <3>1. PICK e \in Entries, n \in Item :
              /\ e.id = op.block.item /\ e.prompts = op.block.prompts
              /\ n.id = op.block.item /\ n.prompts = op.content
              /\ Entries' = (Entries \ {e}) \cup {n}
      BY <1>4, <2>2
    <3>2. \/ op.content \subseteq op.block.prompts
          \/ op.content = op.block.prompts \cup {op.prompt} /\ ~InItem(op.prompt)
      BY <1>0, <1>2, <1>6 DEF OpShape
    <3>3. \A f \in Entries : f # e => f.prompts \cap op.content = {}
      BY <1>0, <3>1, <3>2 DEF ItemsDisjoint, InItem
    <3> QED
      BY <1>0, <3>1, <3>3 DEF ItemsDisjoint
  <2> QED
    BY <2>1, <2>2
<1>24. BlocksDisjoint'
  BY <1>0, <1>6, <1>8 DEF BlocksDisjoint, PlacesApart, InBlock
<1>25. PlacesApart'
  BY <1>0, <1>2, <1>6, <1>9, <1>10, <1>11 DEF PlacesApart
<1>26. PlacesFresh'
  BY <1>0, <1>2, <1>6, <1>9, <1>10, <1>11, <1>13, UndecidedPlaces DEF PlacesFresh
<1>27. PromptsHeld'
  BY <1>0, <1>2, <1>6, <1>9, <1>10, <1>11 DEF PromptsHeld
<1> QED
  BY <1>15, <1>16, <1>17, <1>18, <1>19, <1>20, <1>21, <1>22, <1>23, <1>24, <1>25,
     <1>26, <1>27
     DEF QueueInv

\* remove: the item leaves the queue, unless it has become a turn.
LEMMA RemoveStep ==
    ASSUME QueueInv, Remove
    PROVE  QueueInv'
<1>0. /\ TypeOK /\ OpShape /\ ItemsApart /\ BlocksApart /\ BlocksBacked /\ KeysSpent
      /\ DeliveriesApart /\ ReceiptsTrue /\ ItemsDisjoint /\ BlocksDisjoint
      /\ DeliveriesDisjoint /\ PlacesApart /\ PlacesFresh /\ PromptsHeld /\ GivenOnce
  BY DEF QueueInv
<1>1. Queued(op.block.item) <=> \E e \in Entries : e.id = op.block.item
  BY <1>0, EntryFacts
<1>2. /\ op.pc = "sent" /\ op.do \in {"pop", "take"}
      /\ op' = [op EXCEPT !.pc = "answered",
                          !.answer = IF Queued(op.block.item) THEN "ok" ELSE "gone"]
      /\ Queued(op.block.item) =>
            \E n \in DOMAIN items : items[n].id = op.block.item /\ items' = Without(n)
      /\ ~Queued(op.block.item) => items' = items
      /\ paused' \in BOOLEAN
      /\ UNCHANGED <<fresh, keys, turn, lastTurn, promoted, receipts, expired, blocks,
                     unresolved, steers, known, fate, delivered>>
  BY <1>0 DEF Remove, Waits, Answer, Queued, TypeOK, turns, steering, client, history
<1>3. Queued(op.block.item) =>
          \E e \in Entries : e.id = op.block.item /\ e.prompts = op.block.prompts
  BY <1>0, <1>1, <1>2 DEF BlocksBacked, Backs, Removed, Changed, ItemsApart, OpShape, Done
<1>4. ASSUME Queued(op.block.item)
      PROVE  /\ items' \in Seq(Item) /\ Apart(items')
             /\ \E e \in Entries :
                   /\ e.id = op.block.item /\ e.prompts = op.block.prompts
                   /\ Entries' = Entries \ {e}
  <2>1. PICK n \in DOMAIN items : items[n].id = op.block.item /\ items' = Without(n)
    BY <1>2, <1>4
  <2>2. items' \in Seq(Item) /\ Apart(items') /\ Entries' = Entries \ {items[n]}
    BY <1>0, <2>1, WithoutItems DEF TypeOK, ItemsApart, Entries
  <2>3. items[n] \in Entries
    BY <2>1 DEF Entries, Range
  <2>4. items[n].prompts = op.block.prompts
    BY <1>0, <1>3, <1>4, <2>1, <2>3, EntryFacts
  <2> QED
    BY <2>1, <2>2, <2>3, <2>4
<1>5. ~Queued(op.block.item) =>
          items' = items /\ items' \in Seq(Item) /\ Apart(items') /\ Entries' = Entries
  BY <1>0, <1>2 DEF Entries, TypeOK, ItemsApart
<1>6. Queued(op.block.item) => \A q \in op.block.prompts : InItem(q)
  BY <1>0, <1>3 DEF InItem
<1>7. /\ op' \in Operations /\ op'.do = op.do /\ op'.pc = "answered"
      /\ op'.answer = IF Queued(op.block.item) THEN "ok" ELSE "gone"
      /\ op'.prompt = op.prompt /\ op'.block = op.block /\ op'.content = op.content
      /\ op'.delivery = op.delivery
  BY <1>0, <1>2 DEF TypeOK, Operations
<1>8. \A b : b \in blocks' /\ Unqueued(b)' <=> b \in blocks /\ Unqueued(b)
  BY <1>0, <1>2, <1>7 DEF Unqueued, Done
<1>9. \A q \in Prompts : InItem(q)' <=>
          InItem(q) /\ ~(Queued(op.block.item) /\ q \in op.block.prompts)
  <2>1. CASE ~Queued(op.block.item)
    BY <1>5, <2>1 DEF InItem
  <2>2. CASE Queued(op.block.item)
    <3>1. PICK e \in Entries :
              e.id = op.block.item /\ e.prompts = op.block.prompts /\ Entries' = Entries \ {e}
      BY <1>4, <2>2
    <3>2. \A q \in Prompts, f \in Entries : q \in e.prompts /\ q \in f.prompts => f = e
      BY <1>0, <3>1 DEF ItemsDisjoint
    <3> QED
      BY <2>2, <3>1, <3>2 DEF InItem
  <2> QED
    BY <2>1, <2>2
<1>10. \A q \in Prompts : 
         /\ InOp(q)' <=> Queued(op.block.item) /\ q \in op.block.prompts
         /\ ~InOp(q)
  BY <1>0, <1>2, <1>6, <1>7 DEF InOp, Done, OpShape
<1>11. \A q \in Prompts :
         /\ (InBlock(q)' <=> InBlock(q))
         /\ (InDelivery(q)' <=> InDelivery(q))
         /\ (InReceipt(q)' <=> InReceipt(q))
  <2>1. \A q \in Prompts : InBlock(q)' <=> InBlock(q)
    BY <1>8 DEF InBlock
  <2> QED
    BY <1>2, PlacesKept, <2>1
<1>12. \A d \in unresolved' : Open(d)' => d \in unresolved /\ Open(d)
  BY <1>0, <1>2, <1>7 DEF Open, Rejected
<1>13. \A q \in Prompts : Undecided(q)' => Undecided(q)
  BY <1>0, <1>2, <1>6, <1>11, <1>12 DEF Undecided
<1>14. \A id \in Nat, ps \in SUBSET Prompts :
          Backs(id, ps) /\ ~(Queued(op.block.item) /\ id = op.block.item) => Backs(id, ps)'
  BY <1>0, <1>2, <1>4, <1>5, <1>6 DEF Backs
<1>15. DeliveriesApart' /\ DeliveriesDisjoint' /\ GivenOnce'
  BY <1>2, Kept
<1>16. TypeOK'
  BY <1>0, <1>2, <1>4, <1>5, <1>7 DEF TypeOK
<1>17. OpShape'
  BY <1>0, <1>2, <1>7 DEF OpShape, Idle
<1>18. ItemsApart'
  BY <1>0, <1>2, <1>4, <1>5 DEF ItemsApart
<1>19. BlocksApart'
  BY <1>0, <1>2, <1>7 DEF BlocksApart, Done
<1>20. BlocksBacked'
  <2>1. ASSUME NEW b \in blocks, b.item # 0
        PROVE  /\ b.item \in Nat /\ b.prompts \in SUBSET Prompts /\ Backs(b.item, b.prompts)
               /\ b # op.block => b.item # op.block.item
    BY <1>0, <1>2, <2>1
       DEF BlocksBacked, Changed, Removed, Done, TypeOK, Blocks, BlocksApart, OpShape
  <2>2. ASSUME NEW b \in blocks, b.item # 0,
               ~Queued(op.block.item) \/ b # op.block
        PROVE  Backs(b.item, b.prompts)'
    BY <1>14, <2>1, <2>2
  <2>3. CASE Queued(op.block.item)
    <3>1. op.block.item \notin promoted /\ \A f \in Entries' : f.id # op.block.item
      BY <1>0, <1>4, <2>3, EntryFacts DEF ItemsApart
    <3> QED
      BY <1>2, <1>7, <2>2, <2>3, <3>1 DEF BlocksBacked, Changed, Removed, Done
  <2>4. CASE ~Queued(op.block.item)
    BY <1>2, <1>7, <2>2, <2>4 DEF BlocksBacked, Changed, Removed, Done
  <2> QED
    BY <2>3, <2>4
<1>21. KeysSpent'
  BY <1>0, <1>2, <1>7 DEF KeysSpent
<1>22. ReceiptsTrue'
  BY <1>0, <1>2, <1>7 DEF ReceiptsTrue, Rejected, Done
<1>23. ItemsDisjoint'
  BY <1>0, <1>2, <1>4, <1>5, <1>6 DEF ItemsDisjoint
<1>24. BlocksDisjoint'
  BY <1>0, <1>6, <1>8 DEF BlocksDisjoint, PlacesApart, InBlock
<1>25. PlacesApart'
  BY <1>0, <1>2, <1>6, <1>9, <1>10, <1>11 DEF PlacesApart
<1>26. PlacesFresh'
  BY <1>0, <1>2, <1>6, <1>9, <1>10, <1>11, <1>13, UndecidedPlaces DEF PlacesFresh
<1>27. PromptsHeld'
  BY <1>0, <1>2, <1>6, <1>9, <1>10, <1>11 DEF PromptsHeld
<1> QED
  BY <1>15, <1>16, <1>17, <1>18, <1>19, <1>20, <1>21, <1>22, <1>23, <1>24, <1>25,
     <1>26, <1>27
     DEF QueueInv

\* steer: the receipt is replayed or made, or the verdict is given: rejected only if
\* nothing can be committed under the key any more.
LEMMA SteerStep ==
    ASSUME QueueInv, Steer
    PROVE  QueueInv'
<1>0. /\ TypeOK /\ OpShape /\ ItemsApart /\ BlocksApart /\ BlocksBacked /\ KeysSpent
      /\ DeliveriesApart /\ ReceiptsTrue /\ ItemsDisjoint /\ BlocksDisjoint
      /\ DeliveriesDisjoint /\ PlacesApart /\ PlacesFresh /\ PromptsHeld /\ GivenOnce
  BY DEF QueueInv
<1>1. /\ op.pc = "sent" /\ op.do = "steer"
      /\ \/ /\ op.delivery.key \in DOMAIN receipts /\ receipts' = receipts
            /\ op' = [op EXCEPT !.pc = "joined"]
         \/ /\ op.delivery.key \notin DOMAIN receipts /\ turn = op.delivery.turn
            /\ op' = [op EXCEPT !.pc = "joined"]
            /\ receipts' = [k \in DOMAIN receipts \cup {op.delivery.key} |->
                              IF k # op.delivery.key THEN receipts[k]
                              ELSE [turn |-> op.delivery.turn,
                                    prompts |-> op.delivery.prompts, state |-> "running"]]
         \/ /\ op.delivery.key \notin DOMAIN receipts /\ receipts' = receipts
            /\ \E v \in {"unknown", "rejected"} :
                  /\ op' = [op EXCEPT !.pc = "answered", !.answer = v]
                  /\ v = "rejected" => op.delivery.turn \notin expired
      /\ UNCHANGED <<items, fresh, paused, keys, turn, lastTurn, promoted,
                     expired, blocks, unresolved, steers, known, fate,
                     delivered>>
  BY <1>0 DEF Steer, Verdict, Waits, Answer, queue, turns, steering, client, history
<1>2. Entries' = Entries
  BY <1>1 DEF Entries
<1>3. op.delivery \in unresolved /\ op.delivery \in Deliveries
  BY <1>0, <1>1 DEF OpShape, TypeOK
<1>4. /\ DOMAIN receipts \subseteq DOMAIN receipts' /\ receipts' \in [DOMAIN receipts' -> Receipts]
      /\ DOMAIN receipts' \subseteq DOMAIN receipts \cup {op.delivery.key}
      /\ \A k \in DOMAIN receipts : receipts'[k] = receipts[k]
      /\ \A k \in DOMAIN receipts' : k \notin DOMAIN receipts =>
            /\ k = op.delivery.key /\ turn = op.delivery.turn
            /\ receipts'[k].turn = op.delivery.turn
            /\ receipts'[k].prompts = op.delivery.prompts /\ receipts'[k].state = "running" 
  <2> DEFINE r == [turn |-> op.delivery.turn, prompts |-> op.delivery.prompts,
                   state |-> "running"]
  <2>1. r \in Receipts
    BY <1>3 DEF Receipts, Deliveries
  <2>2. /\ r.turn = op.delivery.turn
        /\ r.prompts = op.delivery.prompts /\ r.state = "running"
    OBVIOUS
  <2>3. \/ receipts' = receipts
        \/ /\ op.delivery.key \notin DOMAIN receipts /\ turn = op.delivery.turn
           /\ receipts' = [k \in DOMAIN receipts \cup {op.delivery.key} |->
                             IF k # op.delivery.key THEN receipts[k] ELSE r]
    BY <1>1
  <2>4. receipts \in [DOMAIN receipts -> Receipts]
    BY <1>0 DEF TypeOK
  <2> HIDE DEF r
  <2> QED
    BY <2>1, <2>2, <2>3, <2>4
<1>5. \A q \in op.delivery.prompts : InDelivery(q)
  BY <1>3 DEF InDelivery
<1>6. /\ op' \in Operations /\ op'.do = "steer" /\ op'.delivery = op.delivery
      /\ \/ op'.pc = "joined" /\ op.delivery.key \in DOMAIN receipts'
         \/ /\ op'.pc = "answered" /\ op'.answer \in {"unknown", "rejected"}
            /\ op.delivery.key \notin DOMAIN receipts'
            /\ op'.answer = "rejected" => op.delivery.turn \notin expired
  <2>1. op \in Operations /\ op.delivery \in unresolved
    BY <1>0, <1>3 DEF TypeOK
  <2>2. CASE op' = [op EXCEPT !.pc = "joined"]
    <3>1. /\ op' \in Operations /\ op'.do = op.do /\ op'.delivery = op.delivery
          /\ op'.pc = "joined"
      BY <2>1, <2>2 DEF Operations
    <3>2. op.delivery.key \notin DOMAIN receipts' => op'.pc = "answered"
      <4>1. op.delivery.key \in DOMAIN receipts => op.delivery.key \in DOMAIN receipts'
        BY <1>4
      <4>2. ASSUME NEW v \in {"unknown", "rejected"},
                   op' = [op EXCEPT !.pc = "answered", !.answer = v]
            PROVE  op'.pc = "answered"
        BY <2>1, <4>2 DEF Operations
      <4> QED
        BY <1>1, <4>1, <4>2
    <3> QED
      BY <1>1, <3>1, <3>2
  <2>3. ASSUME NEW v \in {"unknown", "rejected"},
               op' = [op EXCEPT !.pc = "answered", !.answer = v]
        PROVE  /\ op' \in Operations /\ op'.do = op.do /\ op'.delivery = op.delivery
               /\ op'.pc = "answered" /\ op'.answer = v
    BY <2>1, <2>3 DEF Operations
  <2> QED
    BY <1>1, <2>2, <2>3
<1>7. \A b : b \in blocks' /\ Unqueued(b)' <=> b \in blocks /\ Unqueued(b)
  BY <1>0, <1>1, <1>3, <1>6 DEF Unqueued, Done
<1>8. \A q \in Prompts : 
         /\ InReceipt(q) => InReceipt(q)'
         /\ InReceipt(q)' => \/ InReceipt(q)
                             \/ q \in op.delivery.prompts /\ Open(op.delivery)
  BY <1>3, <1>4 DEF InReceipt, Open
<1>9. \A q \in Prompts :
         /\ (InItem(q)' <=> InItem(q))
         /\ (InBlock(q)' <=> InBlock(q))
         /\ (InDelivery(q)' <=> InDelivery(q))
         /\ (InOp(q)' <=> InOp(q))
  <2>1. \A q \in Prompts : InBlock(q)' <=> InBlock(q)
    BY <1>7 DEF InBlock
  <2>2. \A q \in Prompts : InOp(q)' <=> InOp(q)
    BY <1>0, <1>1, <1>3, <1>6 DEF InOp, Done
  <2> QED
    BY <1>1, PlacesKept, <2>1, <2>2
<1>10. \A d \in unresolved' : Open(d)' => d \in unresolved /\ Open(d)
  BY <1>0, <1>1, <1>3, <1>4, <1>6 DEF Open, Rejected, DeliveriesApart
<1>11. \A q \in Prompts : Undecided(q)' => Undecided(q)
  BY <1>0, <1>1, <1>3, <1>5, <1>8, <1>9, <1>10, <1>3 DEF Undecided
<1>12. \A id \in Nat, ps \in SUBSET Prompts : Backs(id, ps) => Backs(id, ps)'
  BY <1>0, <1>1, <1>2, <1>3, <1>5 DEF Backs
<1>13. ItemsApart' /\ ItemsDisjoint' /\ GivenOnce'
  BY <1>1, Kept
<1>14. TypeOK'
  BY <1>0, <1>1, <1>3, <1>4, <1>6 DEF TypeOK, Deliveries
<1>15. OpShape'
  BY <1>0, <1>1, <1>3, <1>6 DEF OpShape, Idle
<1>16. BlocksApart'
  BY <1>0, <1>1, <1>3, <1>6 DEF BlocksApart, Done
<1>17. BlocksBacked'
  BY <1>0, <1>1, <1>2, <1>3, <1>6, <1>12
     DEF BlocksBacked, Changed, Removed, Done, OpShape, TypeOK, Blocks
<1>18. KeysSpent'
  BY <1>0, <1>1, <1>3, <1>6 DEF KeysSpent
<1>19. DeliveriesApart'
  BY <1>0, <1>1, <1>3, <1>4 DEF DeliveriesApart
<1>20. ReceiptsTrue'
  BY <1>0, <1>1, <1>3, <1>4, <1>6 DEF ReceiptsTrue, Rejected, Done
<1>21. BlocksDisjoint'
  BY <1>0, <1>5, <1>7 DEF BlocksDisjoint, PlacesApart, InBlock
<1>22. DeliveriesDisjoint'
  <2>1. \A d \in unresolved : d.prompts \cap op.delivery.prompts # {} => d = op.delivery
    BY <1>0, <1>3 DEF DeliveriesDisjoint
  <2>2. op.delivery.key \notin DOMAIN receipts =>
          \A k \in DOMAIN receipts : receipts[k].state = "running" =>
              receipts[k].prompts \cap op.delivery.prompts = {}
    BY <1>0, <1>3 DEF DeliveriesDisjoint
  <2> QED
    BY <1>0, <1>1, <1>3, <1>4, <2>1, <2>2 DEF DeliveriesDisjoint
<1>23. PlacesApart'
  BY <1>0, <1>1, <1>3, <1>5, <1>8, <1>9 DEF PlacesApart
<1>24. PlacesFresh'
  BY <1>0, <1>1, <1>3, <1>5, <1>8, <1>9, <1>11, UndecidedPlaces DEF PlacesFresh
<1>25. PromptsHeld'
  BY <1>0, <1>1, <1>3, <1>5, <1>8, <1>9 DEF PromptsHeld
<1> QED
  BY <1>13, <1>14, <1>15, <1>16, <1>17, <1>18, <1>19, <1>20, <1>21, <1>22, <1>23,
     <1>24, <1>25
     DEF QueueInv

\* _run_steer: what was undecided is committed or rejected.
LEMMA SteerRunsStep ==
    ASSUME QueueInv, NEW k \in 1..MaxSteers, SteerRuns(k)
    PROVE  QueueInv'
<1>0. /\ TypeOK /\ OpShape /\ ItemsApart /\ BlocksApart /\ BlocksBacked /\ KeysSpent
      /\ DeliveriesApart /\ ReceiptsTrue /\ ItemsDisjoint /\ BlocksDisjoint
      /\ DeliveriesDisjoint /\ PlacesApart /\ PlacesFresh /\ PromptsHeld /\ GivenOnce
  BY DEF QueueInv
<1>1. /\ k \in DOMAIN receipts /\ receipts[k].state = "running"
      /\ \E s \in {"committed", "rejected"} :
            /\ receipts' = [receipts EXCEPT ![k].state = s]
            /\ s = "committed" =>
                  delivered' = [q \in Prompts |->
                                  delivered[q] + IF q \in receipts[k].prompts THEN 1 ELSE 0]
            /\ s = "rejected" => delivered' = delivered
      /\ UNCHANGED <<items, fresh, paused, keys, turn, lastTurn, promoted,
                     expired, blocks, unresolved, steers, known, op, fate>>
  BY <1>0 DEF SteerRuns, Give, queue, turns, steering, client, history
<1>2. Entries' = Entries
  BY <1>1 DEF Entries
<1>3. PICK s \in {"committed", "rejected"} :
          /\ DOMAIN receipts' = DOMAIN receipts /\ receipts' \in [DOMAIN receipts -> Receipts]
          /\ receipts'[k].state = s
          /\ \A j \in DOMAIN receipts :
                /\ receipts'[j].turn = receipts[j].turn
                /\ receipts'[j].prompts = receipts[j].prompts
                /\ j # k => receipts'[j].state = receipts[j].state
          /\ s = "committed" =>
                delivered' = [q \in Prompts |->
                                delivered[q] + IF q \in receipts[k].prompts THEN 1 ELSE 0]
          /\ s = "rejected" => delivered' = delivered
  <2>1. PICK s \in {"committed", "rejected"} :
            /\ receipts' = [receipts EXCEPT ![k].state = s]
            /\ s = "committed" =>
                  delivered' = [q \in Prompts |->
                                  delivered[q] + IF q \in receipts[k].prompts THEN 1 ELSE 0]
            /\ s = "rejected" => delivered' = delivered
    BY <1>1
  <2>2. receipts \in [DOMAIN receipts -> Receipts] /\ receipts[k] \in Receipts
    BY <1>0, <1>1 DEF TypeOK
  <2>3. [receipts[k] EXCEPT !.state = s] \in Receipts
    BY <2>2 DEF Receipts
  <2>4. receipts' = [receipts EXCEPT ![k] = [receipts[k] EXCEPT !.state = s]]
    BY <2>1
  <2>5. DOMAIN receipts' = DOMAIN receipts /\ receipts' \in [DOMAIN receipts -> Receipts]
    BY <2>2, <2>3, <2>4
  <2>6. /\ receipts'[k] = [receipts[k] EXCEPT !.state = s]
        /\ \A j \in DOMAIN receipts : j # k => receipts'[j] = receipts[j]
    BY <1>1, <2>2, <2>4
  <2> QED
    BY <2>1, <2>2, <2>5, <2>6 DEF Receipts
<1>4. /\ delivered' \in [Prompts -> Nat]
      /\ \A q \in Prompts :
            /\ delivered'[q] =
                  delivered[q] + IF s = "committed" /\ q \in receipts[k].prompts THEN 1 ELSE 0
            /\ delivered[q] > 0 => delivered'[q] > 0
  <2>1. CASE s = "committed"
    BY <1>0, <1>3, <2>1 DEF TypeOK
  <2>2. CASE s = "rejected"
    BY <1>0, <1>3, <2>2 DEF TypeOK
  <2> QED
    BY <2>1, <2>2
<1>5. \A q \in Prompts : q \in receipts[k].prompts =>
          /\ InReceipt(q) /\ Undecided(q) /\ delivered[q] = 0
          /\ fate[q] \in {"held", "discarded"}
  BY <1>0, <1>1 DEF InReceipt, Undecided, PlacesFresh
<1>6. \A q \in Prompts : InReceipt(q)' <=> InReceipt(q) /\ q \notin receipts[k].prompts
  BY <1>0, <1>1, <1>3 DEF InReceipt, DeliveriesDisjoint
<1>7. \A q \in Prompts :
         /\ (InItem(q)' <=> InItem(q))
         /\ (InBlock(q)' <=> InBlock(q))
         /\ (InDelivery(q)' <=> InDelivery(q))
         /\ (InOp(q)' <=> InOp(q))
  BY <1>1, PlacesKept
<1>8. \A d \in unresolved' : Open(d)' =>
          /\ d \in unresolved /\ Open(d)
          /\ d.key = k => s = "rejected" 
  BY <1>0, <1>1, <1>3 DEF Open, Rejected, ReceiptsTrue, DeliveriesApart
<1>9. \A q \in Prompts : Undecided(q)' =>
          /\ Undecided(q)
          /\ q \in receipts[k].prompts => s = "rejected" 
  BY <1>0, <1>1, <1>5, <1>6, <1>7, <1>8, <1>0, <1>1
     DEF Undecided, InReceipt, DeliveriesDisjoint
<1>10. \A id \in Nat, ps \in SUBSET Prompts : Backs(id, ps) => Backs(id, ps)'
  BY <1>0, <1>1, <1>2, <1>4, <1>5 DEF Backs
<1>11. /\ ItemsApart' /\ BlocksApart' /\ KeysSpent' /\ ItemsDisjoint'
       /\ BlocksDisjoint'
  BY <1>1, Kept
<1>12. TypeOK'
  BY <1>0, <1>1, <1>3, <1>4 DEF TypeOK
<1>13. OpShape'
  BY <1>0, <1>1, <1>3 DEF OpShape
<1>14. BlocksBacked'
  BY <1>0, <1>1, <1>2, <1>4, <1>10, EntryFacts
     DEF BlocksBacked, Changed, Removed, BlocksApart, ItemsApart, OpShape, Done,
         Idle, TypeOK, Blocks, Operations, Item
<1>15. DeliveriesApart'
  BY <1>0, <1>1, <1>3 DEF DeliveriesApart
<1>16. ReceiptsTrue'
  <2>1. \A j \in DOMAIN receipts' : receipts'[j].state = "committed" =>
            \A q \in receipts'[j].prompts : delivered'[q] > 0
    <3>1. receipts[k].prompts \in SUBSET Prompts
      BY <1>0, <1>1 DEF TypeOK, Receipts
    <3>2. s = "committed" => \A q \in receipts[k].prompts : delivered'[q] > 0
      BY <1>4, <1>5, <3>1
    <3>3. \A j \in DOMAIN receipts : receipts[j].prompts \in SUBSET Prompts
      BY <1>0 DEF TypeOK, Receipts
    <3> QED
      BY <1>0, <1>3, <1>4, <3>2, <3>3 DEF ReceiptsTrue
  <2>2. op.do = "steer" /\ Done => \A q \in op.delivery.prompts : delivered'[q] > 0
    <3>1. op.do = "steer" => op.delivery.prompts \in SUBSET Prompts
      BY <1>0 DEF OpShape, TypeOK, Deliveries
    <3> QED
      BY <1>0, <1>4, <3>1 DEF ReceiptsTrue
  <2>3. \A d \in unresolved : Rejected(d) /\ d.key \in DOMAIN receipts =>
            receipts'[d.key].state = "rejected"
    BY <1>0, <1>1, <1>3 DEF ReceiptsTrue
  <2> QED
    BY <1>1, <1>3, <2>1, <2>2, <2>3 DEF ReceiptsTrue, Done, Rejected
<1>17. DeliveriesDisjoint'
  BY <1>0, <1>1, <1>3 DEF DeliveriesDisjoint
<1>18. PlacesApart'
  BY <1>0, <1>1, <1>5, <1>6, <1>7 DEF PlacesApart
<1>19. PlacesFresh'
  BY <1>0, <1>1, <1>4, <1>5, <1>6, <1>7, <1>9, UndecidedPlaces
     DEF PlacesFresh, PlacesApart
<1>20. PromptsHeld'
  BY <1>0, <1>1, <1>4, <1>5, <1>6, <1>7 DEF PromptsHeld
<1>21. GivenOnce'
  <2>1. ASSUME NEW q \in Prompts
        PROVE  delivered'[q] <= IF fate[q] \in {"new", "refused", "dropped"} THEN 0 ELSE 1
    <3>1. CASE q \notin receipts[k].prompts
      <4>1. delivered'[q] = delivered[q]
        BY <1>0, <1>4, <3>1 DEF TypeOK
      <4> QED
        BY <1>0, <4>1 DEF GivenOnce
    <3>2. CASE q \in receipts[k].prompts
      <4>1. delivered'[q] <= 1
        BY <1>4, <1>5, <3>2
      <4> QED
        BY <1>5, <3>2, <4>1
    <3> QED
      BY <3>1, <3>2
  <2> QED
    BY <1>1, <2>1 DEF GivenOnce
<1> QED
  BY <1>11, <1>12, <1>13, <1>14, <1>15, <1>16, <1>17, <1>18, <1>19, <1>20, <1>21
     DEF QueueInv

\* The answer to a delivery is that of its receipt, or none.
LEMMA SteerAnsweredStep ==
    ASSUME QueueInv, SteerAnswered
    PROVE  QueueInv'
<1>0. /\ TypeOK /\ OpShape /\ ItemsApart /\ BlocksApart /\ BlocksBacked /\ KeysSpent
      /\ DeliveriesApart /\ ReceiptsTrue /\ ItemsDisjoint /\ BlocksDisjoint
      /\ DeliveriesDisjoint /\ PlacesApart /\ PlacesFresh /\ PromptsHeld /\ GivenOnce
  BY DEF QueueInv
<1>1. /\ op.pc = "joined" /\ op.delivery.key \in DOMAIN receipts
      /\ \E v \in {"ok", "unknown", "rejected"} :
            /\ op' = [op EXCEPT !.pc = "answered", !.answer = v]
            /\ v = "ok" => receipts[op.delivery.key].state = "committed"
            /\ v = "rejected" => receipts[op.delivery.key].state = "rejected" 
      /\ UNCHANGED <<items, fresh, paused, keys, turn, lastTurn, promoted,
                     receipts, expired, blocks, unresolved, steers, known, fate,
                     delivered>>
  BY <1>0 DEF SteerAnswered, Answer, queue, turns, steering, client, history
<1>2. Entries' = Entries
  BY <1>1 DEF Entries
<1>3. /\ op.do = "steer" /\ op.delivery \in unresolved
      /\ op' \in Operations /\ op'.do = "steer" /\ op'.delivery = op.delivery
      /\ op'.pc = "answered"
      /\ op'.answer = "ok" => receipts[op.delivery.key].state = "committed"
      /\ op'.answer = "rejected" => receipts[op.delivery.key].state = "rejected" 
  BY <1>0, <1>1 DEF OpShape, TypeOK, Operations
<1>4. \A b : b \in blocks' /\ Unqueued(b)' <=> b \in blocks /\ Unqueued(b)
  BY <1>0, <1>1, <1>3 DEF Unqueued, Done
<1>5. \A q \in Prompts :
         /\ (InItem(q)' <=> InItem(q))
         /\ (InBlock(q)' <=> InBlock(q))
         /\ (InDelivery(q)' <=> InDelivery(q))
         /\ (InReceipt(q)' <=> InReceipt(q))
         /\ (InOp(q)' <=> InOp(q))
  <2>1. \A q \in Prompts : InBlock(q)' <=> InBlock(q)
    BY <1>4 DEF InBlock
  <2>2. \A q \in Prompts : InOp(q)' <=> InOp(q)
    BY <1>0, <1>1, <1>3 DEF InOp, Done
  <2> QED
    BY <1>1, PlacesKept, <2>1, <2>2
<1>6. \A d \in unresolved' : Open(d)' => d \in unresolved /\ Open(d)
  BY <1>0, <1>1, <1>3 DEF Open, Rejected
<1>7. \A q \in Prompts : Undecided(q)' => Undecided(q)
  BY <1>0, <1>1, <1>5, <1>6 DEF Undecided
<1>8. \A id \in Nat, ps \in SUBSET Prompts : Backs(id, ps) => Backs(id, ps)'
  BY <1>0, <1>1, <1>2 DEF Backs
<1>9. /\ ItemsApart' /\ DeliveriesApart' /\ ItemsDisjoint' /\ DeliveriesDisjoint'
      /\ GivenOnce'
  BY <1>1, Kept
<1>10. TypeOK'
  BY <1>0, <1>1, <1>2, <1>3 DEF TypeOK
<1>11. OpShape'
  BY <1>0, <1>1, <1>3 DEF OpShape, Idle
<1>12. BlocksApart'
  BY <1>0, <1>1, <1>3 DEF BlocksApart, Done
<1>13. BlocksBacked'
  BY <1>0, <1>1, <1>2, <1>3, <1>8
     DEF BlocksBacked, Changed, Removed, Done, OpShape, TypeOK, Blocks
<1>14. KeysSpent'
  BY <1>0, <1>1, <1>3 DEF KeysSpent
<1>15. ReceiptsTrue'
  BY <1>0, <1>1, <1>3 DEF ReceiptsTrue, Rejected, Done, DeliveriesApart
<1>16. BlocksDisjoint'
  BY <1>0, <1>4 DEF BlocksDisjoint, PlacesApart, InBlock
<1>17. PlacesApart'
  BY <1>0, <1>1, <1>5 DEF PlacesApart
<1>18. PlacesFresh'
  BY <1>0, <1>1, <1>5, <1>7, UndecidedPlaces DEF PlacesFresh
<1>19. PromptsHeld'
  BY <1>0, <1>1, <1>5 DEF PromptsHeld
<1> QED
  BY <1>9, <1>10, <1>11, <1>12, <1>13, <1>14, <1>15, <1>16, <1>17, <1>18, <1>19
     DEF QueueInv

\* The receipt of a turn that is over is evicted; the turn counts as expired.
LEMMA PruneStep ==
    ASSUME QueueInv, NEW k \in 1..MaxSteers, Prune(k)
    PROVE  QueueInv'
<1>0. /\ TypeOK /\ OpShape /\ ItemsApart /\ BlocksApart /\ BlocksBacked /\ KeysSpent
      /\ DeliveriesApart /\ ReceiptsTrue /\ ItemsDisjoint /\ BlocksDisjoint
      /\ DeliveriesDisjoint /\ PlacesApart /\ PlacesFresh /\ PromptsHeld /\ GivenOnce
  BY DEF QueueInv
<1>1. /\ k \in DOMAIN receipts /\ receipts[k].state # "running" /\ receipts[k].turn # turn
      /\ op.pc = "joined" => op.delivery.key # k
      /\ receipts' = [j \in DOMAIN receipts \ {k} |-> receipts[j]]
      /\ expired' = expired \cup {receipts[k].turn}
      /\ UNCHANGED <<items, fresh, paused, keys, turn, lastTurn, promoted,
                     blocks, unresolved, steers, known, op, fate, delivered>>
  BY <1>0 DEF Prune, queue, turns, steering, client, history
<1>2. Entries' = Entries
  BY <1>1 DEF Entries
<1>3. /\ DOMAIN receipts' = DOMAIN receipts \ {k} /\ receipts' \in [DOMAIN receipts' -> Receipts]
      /\ \A j \in DOMAIN receipts' : receipts'[j] = receipts[j]
      /\ receipts[k].turn \in Nat
  BY <1>0, <1>1 DEF TypeOK, Receipts
<1>4. \A q \in Prompts : InReceipt(q)' <=> InReceipt(q)
  BY <1>1, <1>3 DEF InReceipt
<1>5. \A q \in Prompts :
         /\ (InItem(q)' <=> InItem(q))
         /\ (InBlock(q)' <=> InBlock(q))
         /\ (InDelivery(q)' <=> InDelivery(q))
         /\ (InOp(q)' <=> InOp(q))
  BY <1>1, PlacesKept
<1>6. \A d \in unresolved' : Open(d)' => d \in unresolved /\ Open(d)
  BY <1>0, <1>1, <1>3 DEF Open, Rejected, DeliveriesApart
<1>7. \A q \in Prompts : Undecided(q)' => Undecided(q)
  BY <1>0, <1>1, <1>4, <1>5, <1>6 DEF Undecided
<1>8. /\ ItemsApart' /\ BlocksApart' /\ BlocksBacked' /\ KeysSpent'
      /\ ItemsDisjoint' /\ BlocksDisjoint' /\ GivenOnce'
  BY <1>1, Kept
<1>9. TypeOK'
  BY <1>0, <1>1, <1>3 DEF TypeOK
<1>10. OpShape'
  BY <1>0, <1>1, <1>3 DEF OpShape, Idle
<1>11. DeliveriesApart'
  BY <1>0, <1>1, <1>3 DEF DeliveriesApart
<1>12. ReceiptsTrue'
  BY <1>0, <1>1, <1>3 DEF ReceiptsTrue, Rejected, Done
<1>13. DeliveriesDisjoint'
  BY <1>0, <1>1, <1>3 DEF DeliveriesDisjoint
<1>14. PlacesApart'
  BY <1>0, <1>1, <1>4, <1>5 DEF PlacesApart
<1>15. PlacesFresh'
  BY <1>0, <1>1, <1>4, <1>5, <1>7, UndecidedPlaces DEF PlacesFresh
<1>16. PromptsHeld'
  BY <1>0, <1>1, <1>4, <1>5 DEF PromptsHeld
<1> QED
  BY <1>8, <1>9, <1>10, <1>11, <1>12, <1>13, <1>14, <1>15, <1>16 DEF QueueInv

-----------------------------------------------------------------------------
(* The interface: new prompts *)

\* enqueue_prompt in an idle session: the prompt is a block that is not listed yet.
LEMMA SubmitAlone ==
    ASSUME QueueInv, NEW p \in Prompts, op'.do = "optimistic", Submit(p)
    PROVE  QueueInv'
<1>0. /\ TypeOK /\ OpShape /\ ItemsApart /\ BlocksApart /\ BlocksBacked /\ KeysSpent
      /\ DeliveriesApart /\ ReceiptsTrue /\ ItemsDisjoint /\ BlocksDisjoint
      /\ DeliveriesDisjoint /\ PlacesApart /\ PlacesFresh /\ PromptsHeld /\ GivenOnce
  BY DEF QueueInv
<1>1. /\ op = Idle /\ fate[p] = "new" /\ blocks' = {} /\ blocks = {}
      /\ fate' = [q \in Prompts |-> IF q \in {p} THEN "held" ELSE fate[q]]
      /\ op' = Ask("optimistic", p, Block({p}, p, 0, "optimistic"), {p})
      /\ UNCHANGED <<items, fresh, paused, keys, turn, lastTurn, promoted,
                     receipts, expired, blocks, unresolved, steers, known,
                     delivered>>
  BY <1>0 DEF Submit, Create, Ask, Idle, Fate, queue, turns, steering, client, history
<1>2. Entries' = Entries
  BY <1>1 DEF Entries
<1>3. /\ fate' \in [Prompts -> Fates]
      /\ \A q \in Prompts : fate'[q] = IF q = p THEN "held" ELSE fate[q]
  BY <1>0, <1>1 DEF TypeOK, Fates
<1>4. /\ ~InItem(p) /\ ~InBlock(p) /\ ~InDelivery(p) /\ ~InReceipt(p) /\ delivered[p] = 0
      /\ p \notin DOMAIN keys
  <2>1. fate[p] = "new"
    BY <1>1
  <2> QED
    BY <1>0, <2>1 DEF PlacesFresh, GivenOnce, KeysSpent, TypeOK
<1>5. op.do = "idle" /\ op.pc = "none" 
  BY <1>1 DEF Idle
<1>6. /\ op' \in Operations /\ op'.do = "optimistic" /\ op'.pc = "sent" /\ op'.answer = "none"
      /\ op'.prompt = p /\ op'.content = {p} /\ op'.block \in Blocks
      /\ op'.block.item = 0 /\ op'.block.role = "optimistic" /\ op'.block.prompts = {p}
  <2> DEFINE b == Block({p}, p, 0, "optimistic")
  <2>1. b \in Blocks /\ b.item = 0 /\ b.role = "optimistic" /\ b.prompts = {p}
    BY DEF Block, Blocks, Roles
  <2> HIDE DEF b
  <2>2. op' = Ask("optimistic", p, b, {p})
    BY <1>1 DEF b
  <2> QED
    BY <2>1, <2>2 DEF Ask, Idle, Operations
<1>7. \A b : b \in blocks' /\ Unqueued(b)' <=> b \in blocks /\ Unqueued(b)
  BY <1>1
<1>8. \A q \in Prompts : ~InOp(q) /\ (InOp(q)' <=> q = p)
  BY <1>5, <1>6 DEF InOp, Done
<1>9. \A q \in Prompts :
         /\ (InItem(q)' <=> InItem(q))
         /\ (InBlock(q)' <=> InBlock(q))
         /\ (InDelivery(q)' <=> InDelivery(q))
         /\ (InReceipt(q)' <=> InReceipt(q))
  <2>1. \A q \in Prompts : InBlock(q)' <=> InBlock(q)
    BY <1>7 DEF InBlock
  <2> QED
    BY <1>1, PlacesKept, <2>1
<1>10. \A d \in unresolved' : Open(d)' => d \in unresolved /\ Open(d)
  BY <1>0, <1>1, <1>6 DEF Open, Rejected
<1>11. \A q \in Prompts : Undecided(q)' => Undecided(q)
  BY <1>0, <1>1, <1>4, <1>9, <1>10 DEF Undecided
<1>12. \A id \in Nat, ps \in SUBSET Prompts : Backs(id, ps) => Backs(id, ps)'
  BY <1>0, <1>1, <1>2, <1>4 DEF Backs
<1>13. ItemsApart' /\ DeliveriesApart' /\ ItemsDisjoint' /\ DeliveriesDisjoint'
  BY <1>1, Kept
<1>14. TypeOK'
  BY <1>0, <1>1, <1>3, <1>6 DEF TypeOK
<1>15. OpShape'
  BY <1>1, <1>6 DEF OpShape
<1>16. BlocksApart'
  BY <1>1, <1>6 DEF BlocksApart, Done
<1>17. BlocksBacked'
  BY <1>1, <1>6 DEF BlocksBacked, Done
<1>18. KeysSpent'
  BY <1>0, <1>1, <1>3, <1>6 DEF KeysSpent
<1>19. ReceiptsTrue'
  BY <1>0, <1>1, <1>6 DEF ReceiptsTrue, Rejected, Done
<1>20. BlocksDisjoint'
  BY <1>0, <1>4, <1>7 DEF BlocksDisjoint, PlacesApart, InBlock
<1>21. PlacesApart'
  BY <1>0, <1>1, <1>4, <1>8, <1>9 DEF PlacesApart
<1>22. PlacesFresh'
  BY <1>0, <1>1, <1>3, <1>4, <1>8, <1>9, <1>11, UndecidedPlaces DEF PlacesFresh
<1>23. PromptsHeld'
  BY <1>0, <1>1, <1>3, <1>4, <1>8, <1>9 DEF PromptsHeld
<1>24. GivenOnce'
  BY <1>0, <1>1, <1>3, <1>4, <1>8, <1>9 DEF GivenOnce
<1> QED
  BY <1>13, <1>14, <1>15, <1>16, <1>17, <1>18, <1>19, <1>20, <1>21, <1>22, <1>23,
     <1>24
     DEF QueueInv

\* _enqueue_merged: the prompt joins the block that has no item, or starts one.
LEMMA SubmitCreated ==
    ASSUME QueueInv, NEW p \in Prompts, op'.do = "create", Submit(p)
    PROVE  QueueInv'
<1>0. /\ TypeOK /\ OpShape /\ ItemsApart /\ BlocksApart /\ BlocksBacked /\ KeysSpent
      /\ DeliveriesApart /\ ReceiptsTrue /\ ItemsDisjoint /\ BlocksDisjoint
      /\ DeliveriesDisjoint /\ PlacesApart /\ PlacesFresh /\ PromptsHeld /\ GivenOnce
  BY DEF QueueInv
<1>1. /\ op = Idle /\ fate[p] = "new"
      /\ fate' = [q \in Prompts |-> IF q \in {p} THEN "held" ELSE fate[q]]
      /\ \A c \in blocks : c.role = "merged" => Started(c) \/ c.item = 0
      /\ Create(p, {c \in blocks : ~Started(c) \/ c.role # "merged"})
      /\ UNCHANGED <<items, fresh, paused, keys, turn, lastTurn, promoted,
                     receipts, expired, unresolved, steers, known, delivered>>
  BY <1>0 DEF Submit, Ask, Idle, Fate, Merged, queue, turns, steering, client, history
<1>2. Entries' = Entries
  BY <1>1 DEF Entries
<1>3. /\ fate' \in [Prompts -> Fates]
      /\ \A q \in Prompts : fate'[q] = IF q = p THEN "held" ELSE fate[q]
  BY <1>0, <1>1 DEF TypeOK, Fates
<1>4. /\ ~InItem(p) /\ ~InBlock(p) /\ ~InDelivery(p) /\ ~InReceipt(p) /\ delivered[p] = 0
      /\ p \notin DOMAIN keys
  <2>1. fate[p] = "new"
    BY <1>1
  <2> QED
    BY <1>0, <2>1 DEF PlacesFresh, GivenOnce, KeysSpent, TypeOK
<1>5. op.do = "idle" /\ op.pc = "none" 
  BY <1>1 DEF Idle
<1>6. \A b \in blocks : b.item # 0 => p \notin b.prompts
  BY <1>0, <1>1, <1>4, <1>5 DEF BlocksBacked, Backs, Changed, Removed, InItem
<1>7. PICK b :
          /\ op' = Ask("create", p, b, b.prompts \cup {p})
          /\ b \in Blocks /\ b.item = 0 /\ b.role = "merged"
          /\ \/ b \in blocks /\ p \notin b.prompts
             \/ b.prompts = {p}
          /\ b \in blocks' /\ blocks' \subseteq blocks \cup {b}
          /\ \A c \in blocks : c.item = 0 => c \in blocks'
          /\ \A c \in blocks' : c.role = "merged" => c = b
  <2> DEFINE bs == {c \in blocks : ~Started(c) \/ c.role # "merged"}
  <2>1. PICK b :
            /\ blocks' = bs \cup {b} /\ op' = Ask("create", p, b, b.prompts \cup {p})
            /\ \/ b \in bs /\ b.role = "merged"
               \/ b = Block({p}, p, 0, "merged") /\ \A c \in bs : c.role # "merged"
    BY <1>1, CreateFacts
  <2>2. \A c \in blocks : c.item = 0 => c \in bs
    BY DEF Started
  <2>3. CASE b \in bs /\ b.role = "merged"
    <3>1. b \in blocks /\ b.item = 0 /\ b \in Blocks
      BY <1>0, <1>1, <2>3 DEF TypeOK
    <3>2. p \notin b.prompts
      BY <1>4, <1>5, <3>1 DEF InBlock, Unqueued
    <3>3. \A c \in bs \cup {b} : c.role = "merged" => c = b
      BY <1>0, <2>3 DEF BlocksApart
    <3> QED
      BY <2>1, <2>2, <2>3, <3>1, <3>2, <3>3
  <2>4. CASE b = Block({p}, p, 0, "merged") /\ \A c \in bs : c.role # "merged"
    <3>1. b \in Blocks /\ b.item = 0 /\ b.role = "merged" /\ b.prompts = {p}
      BY <2>4 DEF Block, Blocks, Roles
    <3> QED
      BY <2>1, <2>2, <2>4, <3>1
  <2> QED
    BY <2>1, <2>3, <2>4
<1>8. /\ op' \in Operations /\ op'.do = "create" /\ op'.pc = "sent" /\ op'.answer = "none"
      /\ op'.prompt = p /\ op'.block = b /\ op'.content = b.prompts \cup {p}
  <2>1. b.prompts \cup {p} \in SUBSET Prompts
    BY <1>7 DEF Blocks
  <2> QED
    BY <1>7, <2>1 DEF Ask, Idle, Operations
<1>9. \A c : c \in blocks' /\ Unqueued(c)' <=> (c \in blocks /\ Unqueued(c)) \/ c = b
  BY <1>5, <1>7, <1>8 DEF Unqueued, Done
<1>10. \A q \in Prompts : InBlock(q)' <=> InBlock(q) \/ (q = p /\ p \in b.prompts)
  BY <1>5, <1>7, <1>9 DEF InBlock, Unqueued
<1>11. \A q \in Prompts : ~InOp(q) /\ (InOp(q)' <=> q = p /\ p \notin b.prompts)
  BY <1>5, <1>8 DEF InOp, Done
<1>12. \A q \in Prompts :
         /\ (InItem(q)' <=> InItem(q))
         /\ (InDelivery(q)' <=> InDelivery(q))
         /\ (InReceipt(q)' <=> InReceipt(q))
  BY <1>1, PlacesKept
<1>13. \A d \in unresolved' : Open(d)' => d \in unresolved /\ Open(d)
  BY <1>0, <1>1, <1>8 DEF Open, Rejected
<1>14. \A q \in Prompts : Undecided(q)' => Undecided(q)
  BY <1>0, <1>1, <1>4, <1>12, <1>13 DEF Undecided
<1>15. \A id \in Nat, ps \in SUBSET Prompts : Backs(id, ps) => Backs(id, ps)'
  BY <1>0, <1>1, <1>2, <1>4 DEF Backs
<1>16. ItemsApart' /\ DeliveriesApart' /\ ItemsDisjoint' /\ DeliveriesDisjoint'
  BY <1>1, Kept
<1>17. TypeOK'
  BY <1>0, <1>1, <1>3, <1>7, <1>8 DEF TypeOK
<1>18. OpShape'
  BY <1>7, <1>8 DEF OpShape
<1>19. BlocksApart'
  <2>1. \A c, d \in blocks' : c.item = d.item /\ c.item # 0 => c = d
    BY <1>0, <1>7 DEF BlocksApart
  <2>2. \A c \in blocks' : c.item < fresh'
    BY <1>0, <1>1, <1>7 DEF BlocksApart, ItemsApart, TypeOK
  <2> QED
    BY <1>7, <1>8, <2>1, <2>2 DEF BlocksApart, Done
<1>20. BlocksBacked'
  <2>1. \A c \in blocks : c.item # 0 => Backs(c.item, c.prompts)
    BY <1>0, <1>5 DEF BlocksBacked, Changed, Removed
  <2>2. \A c \in blocks' : c.item # 0 => c \in blocks
    BY <1>7
  <2> QED
    BY <1>1, <1>8, <2>1, <2>2 DEF BlocksBacked, Changed, Removed, Done, Backs, Entries
<1>21. KeysSpent'
  BY <1>0, <1>1, <1>3, <1>8 DEF KeysSpent
<1>22. ReceiptsTrue'
  BY <1>0, <1>1, <1>8 DEF ReceiptsTrue, Rejected, Done
<1>23. BlocksDisjoint'
  <2>1. \A c \in blocks : Unqueued(c) => p \notin c.prompts
    BY <1>4 DEF InBlock
  <2>2. b \in blocks => Unqueued(b)
    BY <1>5, <1>7 DEF Unqueued
  <2> QED
    BY <1>0, <1>7, <1>9, <2>1, <2>2 DEF BlocksDisjoint
<1>24. PlacesApart'
  BY <1>0, <1>1, <1>4, <1>10, <1>11, <1>12 DEF PlacesApart
<1>25. PlacesFresh'
  BY <1>0, <1>1, <1>3, <1>4, <1>10, <1>11, <1>12, <1>14, UndecidedPlaces
     DEF PlacesFresh
<1>26. PromptsHeld'
  BY <1>0, <1>1, <1>3, <1>4, <1>10, <1>11, <1>12 DEF PromptsHeld
<1>27. GivenOnce'
  BY <1>0, <1>1, <1>3, <1>4, <1>10, <1>11, <1>12 DEF GivenOnce
<1> QED
  BY <1>16, <1>17, <1>18, <1>19, <1>20, <1>21, <1>22, <1>23, <1>24, <1>25, <1>26,
     <1>27
     DEF QueueInv

\* enqueue_prompt with a block that has an item: its item is to be replaced.
LEMMA SubmitJoined ==
    ASSUME QueueInv, NEW p \in Prompts, op'.do = "append", Submit(p)
    PROVE  QueueInv'
<1>0. /\ TypeOK /\ OpShape /\ ItemsApart /\ BlocksApart /\ BlocksBacked /\ KeysSpent
      /\ DeliveriesApart /\ ReceiptsTrue /\ ItemsDisjoint /\ BlocksDisjoint
      /\ DeliveriesDisjoint /\ PlacesApart /\ PlacesFresh /\ PromptsHeld /\ GivenOnce
  BY DEF QueueInv
<1>1. /\ op = Idle /\ fate[p] = "new" /\ blocks' = blocks
      /\ fate' = [q \in Prompts |-> IF q \in {p} THEN "held" ELSE fate[q]]
      /\ \E b \in blocks :
            /\ b.role = "merged" /\ b.item # 0
            /\ op' = Ask("append", p, b, b.prompts \cup {p})
      /\ UNCHANGED <<items, fresh, paused, keys, turn, lastTurn, promoted,
                     receipts, expired, blocks, unresolved, steers, known,
                     delivered>>
  BY <1>0 DEF Submit, Create, Ask, Idle, Fate, Merged, queue, turns, steering, client, history
<1>2. Entries' = Entries
  BY <1>1 DEF Entries
<1>3. /\ fate' \in [Prompts -> Fates]
      /\ \A q \in Prompts : fate'[q] = IF q = p THEN "held" ELSE fate[q]
  BY <1>0, <1>1 DEF TypeOK, Fates
<1>4. /\ ~InItem(p) /\ ~InBlock(p) /\ ~InDelivery(p) /\ ~InReceipt(p) /\ delivered[p] = 0
      /\ p \notin DOMAIN keys
  <2>1. fate[p] = "new"
    BY <1>1
  <2> QED
    BY <1>0, <2>1 DEF PlacesFresh, GivenOnce, KeysSpent, TypeOK
<1>5. op.do = "idle" /\ op.pc = "none" 
  BY <1>1 DEF Idle
<1>6. \A b \in blocks : b.item # 0 => p \notin b.prompts
  BY <1>0, <1>1, <1>4, <1>5 DEF BlocksBacked, Backs, Changed, Removed, InItem
<1>7. /\ op' \in Operations /\ op'.do = "append" /\ op'.pc = "sent" /\ op'.answer = "none"
      /\ op'.prompt = p /\ op'.block \in blocks /\ op'.block.item # 0
      /\ op'.block.role = "merged" /\ op'.content = op'.block.prompts \cup {p}
  <2>1. PICK b \in blocks :
            /\ b.role = "merged" /\ b.item # 0
            /\ op' = Ask("append", p, b, b.prompts \cup {p})
    BY <1>1
  <2>2. b \in Blocks /\ b.prompts \cup {p} \in SUBSET Prompts
    BY <1>0 DEF TypeOK, Blocks
  <2> QED
    BY <2>1, <2>2 DEF Ask, Idle, Operations
<1>8. \A b : b \in blocks' /\ Unqueued(b)' <=> b \in blocks /\ Unqueued(b)
  BY <1>1, <1>5, <1>7 DEF Unqueued, Done
<1>9. \A q \in Prompts : ~InOp(q) /\ (InOp(q)' <=> q = p)
  BY <1>5, <1>7 DEF InOp, Done
<1>10. \A q \in Prompts :
         /\ (InItem(q)' <=> InItem(q))
         /\ (InBlock(q)' <=> InBlock(q))
         /\ (InDelivery(q)' <=> InDelivery(q))
         /\ (InReceipt(q)' <=> InReceipt(q))
  <2>1. \A q \in Prompts : InBlock(q)' <=> InBlock(q)
    BY <1>8 DEF InBlock
  <2> QED
    BY <1>1, PlacesKept, <2>1
<1>11. \A d \in unresolved' : Open(d)' => d \in unresolved /\ Open(d)
  BY <1>0, <1>1, <1>7 DEF Open, Rejected
<1>12. \A q \in Prompts : Undecided(q)' => Undecided(q)
  BY <1>0, <1>1, <1>4, <1>10, <1>11 DEF Undecided
<1>13. \A id \in Nat, ps \in SUBSET Prompts : Backs(id, ps) => Backs(id, ps)'
  BY <1>0, <1>1, <1>2, <1>4 DEF Backs
<1>14. ItemsApart' /\ DeliveriesApart' /\ ItemsDisjoint' /\ DeliveriesDisjoint'
  BY <1>1, Kept
<1>15. TypeOK'
  BY <1>0, <1>1, <1>3, <1>7 DEF TypeOK
<1>16. OpShape'
  BY <1>1, <1>6, <1>7 DEF OpShape
<1>17. BlocksApart'
  BY <1>0, <1>1, <1>5, <1>7 DEF BlocksApart, Done
<1>18. BlocksBacked'
  BY <1>0, <1>1, <1>5, <1>7 DEF BlocksBacked, Changed, Removed, Done, Backs, Entries
<1>19. KeysSpent'
  BY <1>0, <1>1, <1>3, <1>7 DEF KeysSpent
<1>20. ReceiptsTrue'
  BY <1>0, <1>1, <1>7 DEF ReceiptsTrue, Rejected, Done
<1>21. BlocksDisjoint'
  BY <1>0, <1>4, <1>8 DEF BlocksDisjoint, PlacesApart, InBlock
<1>22. PlacesApart'
  BY <1>0, <1>1, <1>4, <1>9, <1>10 DEF PlacesApart
<1>23. PlacesFresh'
  BY <1>0, <1>1, <1>3, <1>4, <1>9, <1>10, <1>12, UndecidedPlaces DEF PlacesFresh
<1>24. PromptsHeld'
  BY <1>0, <1>1, <1>3, <1>4, <1>9, <1>10 DEF PromptsHeld
<1>25. GivenOnce'
  BY <1>0, <1>1, <1>3, <1>4, <1>9, <1>10 DEF GivenOnce
<1> QED
  BY <1>14, <1>15, <1>16, <1>17, <1>18, <1>19, <1>20, <1>21, <1>22, <1>23, <1>24,
     <1>25
     DEF QueueInv

\* The block gets the item that the server made for it.
LEMMA CreatedStep ==
    ASSUME QueueInv, Created
    PROVE  QueueInv'
<1>0. /\ TypeOK /\ OpShape /\ ItemsApart /\ BlocksApart /\ BlocksBacked /\ KeysSpent
      /\ DeliveriesApart /\ ReceiptsTrue /\ ItemsDisjoint /\ BlocksDisjoint
      /\ DeliveriesDisjoint /\ PlacesApart /\ PlacesFresh /\ PromptsHeld /\ GivenOnce
  BY DEF QueueInv
<1>1. /\ op.pc = "answered" /\ op.do \in {"create", "optimistic", "requeue"}
      /\ op.answer = "ok" /\ op' = Idle
      /\ \/ blocks' = blocks \ {op.block}
         \/ blocks' = (blocks \ {op.block}) \cup
                      {[op.block EXCEPT !.prompts = op.content, !.item = op.item]}
      /\ UNCHANGED <<items, fresh, paused, keys, turn, lastTurn, promoted,
                     receipts, expired, unresolved, steers, known, fate,
                     delivered>>
  BY <1>0 DEF Created, Got, queue, turns, steering, client, history
<1>2. Entries' = Entries
  BY <1>1 DEF Entries
<1>3. /\ op.block \in Blocks /\ op.block.item = 0 /\ op.item \in 1..(fresh - 1)
      /\ op.block.role = "merged" => op.block \in blocks
      /\ op.do # "optimistic" <=> op.block \in blocks
  BY <1>0, <1>1 DEF OpShape, BlocksApart, Done, TypeOK, Blocks
<1>4. \E n \in Blocks :
          /\ n.prompts = op.content /\ n.item = op.item /\ n.role = op.block.role
          /\ blocks' = blocks \ {op.block} \/ blocks' = (blocks \ {op.block}) \cup {n}
  <2> DEFINE n == [op.block EXCEPT !.prompts = op.content, !.item = op.item]
  <2>1. op.content \in SUBSET Prompts /\ op.item \in Nat
    BY <1>0 DEF TypeOK, Operations
  <2>2. n \in Blocks /\ n.prompts = op.content /\ n.item = op.item /\ n.role = op.block.role
    BY <1>3, <2>1 DEF Blocks
  <2> QED
    BY <1>1, <2>2
<1>5. /\ op' = Idle /\ op' \in Operations
      /\ op'.do = "idle" /\ op'.pc = "none" /\ op'.answer = "none"
  BY <1>1 DEF Idle, Operations
<1>6. \A b : b \in blocks' /\ Unqueued(b)' <=> b \in blocks /\ Unqueued(b)
  <2>1. \A b : (Unqueued(b)' <=> b.item = 0) /\ (b # op.block => (Unqueued(b) <=> b.item = 0))
    BY <1>5 DEF Unqueued, Done
  <2>2. op.block \in blocks => ~Unqueued(op.block)
    BY <1>1, <1>3 DEF Unqueued, Done
  <2>3. \A b : b \in blocks' /\ b.item = 0 <=> b \in blocks /\ b.item = 0 /\ b # op.block
    BY <1>3, <1>4
  <2> QED
    BY <2>1, <2>2, <2>3
<1>7. \A q \in Prompts :
         /\ (InItem(q)' <=> InItem(q))
         /\ (InBlock(q)' <=> InBlock(q))
         /\ (InDelivery(q)' <=> InDelivery(q))
         /\ (InReceipt(q)' <=> InReceipt(q))
         /\ (InOp(q)' <=> InOp(q))
  <2>1. \A q \in Prompts : InBlock(q)' <=> InBlock(q)
    BY <1>6 DEF InBlock
  <2>2. \A q \in Prompts : InOp(q)' <=> InOp(q)
    BY <1>0, <1>1, <1>5 DEF InOp, Done
  <2> QED
    BY <1>1, PlacesKept, <2>1, <2>2
<1>8. \A d \in unresolved' : Open(d)' => d \in unresolved /\ Open(d)
  BY <1>0, <1>1, <1>5 DEF Open, Rejected
<1>9. \A q \in Prompts : Undecided(q)' => Undecided(q)
  BY <1>0, <1>1, <1>7, <1>8 DEF Undecided
<1>10. \A id \in Nat, ps \in SUBSET Prompts : Backs(id, ps) => Backs(id, ps)'
  BY <1>0, <1>1, <1>2 DEF Backs
<1>11. /\ ItemsApart' /\ DeliveriesApart' /\ ItemsDisjoint' /\ DeliveriesDisjoint'
       /\ GivenOnce'
  BY <1>1, Kept
<1>12. TypeOK'
  BY <1>0, <1>1, <1>4, <1>5 DEF TypeOK
<1>13. OpShape'
  BY <1>0, <1>1, <1>3, <1>4, <1>5 DEF OpShape, Idle
<1>14. BlocksApart'
  BY SMTT(30), <1>0, <1>1, <1>3, <1>4, <1>5 DEF BlocksApart, ItemsApart, Done, TypeOK
<1>15. BlocksBacked'
  <2>1. Backs(op.item, op.content)
    BY <1>0, <1>1 DEF BlocksBacked, Done
  <2>2. \A b \in blocks : b.item # 0 => Backs(b.item, b.prompts)
    BY <1>0, <1>1 DEF BlocksBacked, Changed, Removed
  <2>3. op'.do = "idle"
    BY <1>5
  <2> QED
    BY <1>0, <1>1, <1>4, <2>1, <2>2, <2>3 DEF BlocksBacked, Changed, Removed, Backs, Entries
<1>16. KeysSpent'
  BY <1>0, <1>1, <1>5 DEF KeysSpent
<1>17. ReceiptsTrue'
  BY <1>0, <1>1, <1>5 DEF ReceiptsTrue, Rejected, Done
<1>18. BlocksDisjoint'
  BY <1>0, <1>6 DEF BlocksDisjoint, PlacesApart, InBlock
<1>19. PlacesApart'
  BY <1>0, <1>1, <1>7 DEF PlacesApart
<1>20. PlacesFresh'
  BY <1>0, <1>1, <1>7, <1>9, UndecidedPlaces DEF PlacesFresh
<1>21. PromptsHeld'
  BY <1>0, <1>1, <1>7 DEF PromptsHeld
<1> QED
  BY <1>11, <1>12, <1>13, <1>14, <1>15, <1>16, <1>17, <1>18, <1>19, <1>20, <1>21
     DEF QueueInv

\* A refused prompt is given back; a block that was there stays.
LEMMA CreateRefusedStep ==
    ASSUME QueueInv, CreateRefused
    PROVE  QueueInv'
<1>0. /\ TypeOK /\ OpShape /\ ItemsApart /\ BlocksApart /\ BlocksBacked /\ KeysSpent
      /\ DeliveriesApart /\ ReceiptsTrue /\ ItemsDisjoint /\ BlocksDisjoint
      /\ DeliveriesDisjoint /\ PlacesApart /\ PlacesFresh /\ PromptsHeld /\ GivenOnce
  BY DEF QueueInv
<1>1. /\ op.pc = "answered" /\ op.do \in {"create", "optimistic"} /\ op.answer = "error"
      /\ op' = Idle
      /\ blocks' = IF op.block.prompts = {op.prompt} THEN blocks \ {op.block} ELSE blocks
      /\ fate' = [q \in Prompts |-> IF q \in {op.prompt} THEN "refused" ELSE fate[q]]
      /\ UNCHANGED <<items, fresh, paused, keys, turn, lastTurn, promoted,
                     receipts, expired, unresolved, steers, known, delivered>>
  BY <1>0 DEF CreateRefused, Got, Fate, queue, turns, steering, client, history
<1>2. Entries' = Entries
  BY <1>1 DEF Entries
<1>3. /\ fate' \in [Prompts -> Fates]
      /\ \A q \in Prompts : fate'[q] = IF q = op.prompt THEN "refused" ELSE fate[q]
  BY <1>0, <1>1 DEF TypeOK, Fates
<1>4. /\ op.prompt \in Prompts /\ op.block.item = 0
      /\ op.do = "create" => op.block \in blocks /\ Unqueued(op.block)
      /\ op.do = "optimistic" => op.block \notin blocks
  BY <1>0, <1>1 DEF OpShape, Unqueued, Done
<1>5. /\ InBlock(op.prompt) \/ InOp(op.prompt)
      /\ \A q \in Prompts : InOp(q) => q = op.prompt
      /\ ~InOp(op.prompt) => op.block.prompts = {op.prompt} /\ op.do = "create" 
  <2>1. ~InOp(op.prompt) => op.block.prompts = {op.prompt} /\ op.do = "create"
    BY <1>0, <1>1, <1>4 DEF OpShape, InOp, Done
  <2>2. \A q \in Prompts : InOp(q) => q = op.prompt
    BY <1>0, <1>1 DEF InOp
  <2> QED
    BY <1>4, <2>1, <2>2 DEF InBlock
<1>6. /\ op' = Idle /\ op' \in Operations
      /\ op'.do = "idle" /\ op'.pc = "none" /\ op'.answer = "none"
  BY <1>1 DEF Idle, Operations
<1>7. \A b : b \in blocks' /\ Unqueued(b)' <=>
          /\ b \in blocks /\ Unqueued(b)
          /\ ~(op.block.prompts = {op.prompt} /\ b = op.block)
  BY <1>1, <1>6 DEF Unqueued, Done
<1>8. \A q \in Prompts : InBlock(q)' <=> InBlock(q) /\ q # op.prompt
  <2>1. CASE InOp(op.prompt)
    <3>1. ~InBlock(op.prompt)
      BY <1>0, <1>4, <2>1 DEF PlacesApart
    <3> QED
      BY <1>7, <3>1 DEF InBlock
  <2>2. CASE ~InOp(op.prompt)
    <3>1. \A b \in blocks : Unqueued(b) /\ op.prompt \in b.prompts => b = op.block
      BY <1>0, <1>4, <1>5, <2>2 DEF BlocksDisjoint
    <3> QED
      BY <1>5, <1>7, <2>2, <3>1 DEF InBlock
  <2> QED
    BY <2>1, <2>2
<1>9. \A q \in Prompts : ~InOp(q)' /\ (InOp(q) => q = op.prompt)
  BY <1>5, <1>6 DEF InOp
<1>10. \A q \in Prompts :
         /\ (InItem(q)' <=> InItem(q))
         /\ (InDelivery(q)' <=> InDelivery(q))
         /\ (InReceipt(q)' <=> InReceipt(q))
  BY <1>1, PlacesKept
<1>11. \A d \in unresolved' : Open(d)' => d \in unresolved /\ Open(d)
  BY <1>0, <1>1, <1>6 DEF Open, Rejected
<1>12. \A q \in Prompts : Undecided(q)' => Undecided(q)
  BY <1>0, <1>1, <1>5, <1>10, <1>11 DEF Undecided
<1>13. \A id \in Nat, ps \in SUBSET Prompts : Backs(id, ps) => Backs(id, ps)'
  BY <1>0, <1>1, <1>2, <1>5 DEF Backs
<1>14. ItemsApart' /\ DeliveriesApart' /\ ItemsDisjoint' /\ DeliveriesDisjoint'
  BY <1>1, Kept
<1>15. TypeOK'
  BY <1>0, <1>1, <1>3, <1>6 DEF TypeOK
<1>16. OpShape'
  BY <1>0, <1>1, <1>4, <1>6 DEF OpShape, Idle
<1>17. BlocksApart'
  BY <1>0, <1>1, <1>6 DEF BlocksApart
<1>18. BlocksBacked'
  <2>1. \A b \in blocks : b.item # 0 => Backs(b.item, b.prompts)
    BY <1>0, <1>1 DEF BlocksBacked, Changed, Removed, Done
  <2> QED
    BY <1>1, <1>6, <2>1 DEF BlocksBacked, Changed, Removed, Backs, Entries
<1>19. KeysSpent'
  BY <1>0, <1>1, <1>3, <1>6 DEF KeysSpent
<1>20. ReceiptsTrue'
  BY <1>0, <1>1, <1>6 DEF ReceiptsTrue, Rejected, Done
<1>21. BlocksDisjoint'
  BY <1>0, <1>5, <1>7 DEF BlocksDisjoint, PlacesApart, InBlock
<1>22. PlacesApart'
  BY <1>0, <1>1, <1>5, <1>8, <1>9, <1>10 DEF PlacesApart
<1>23. PlacesFresh'
  BY <1>0, <1>1, <1>3, <1>5, <1>8, <1>9, <1>10, <1>12, UndecidedPlaces
     DEF PlacesFresh, PlacesApart
<1>24. PromptsHeld'
  BY <1>0, <1>1, <1>3, <1>5, <1>8, <1>9, <1>10 DEF PromptsHeld
<1>25. GivenOnce'
  BY <1>0, <1>1, <1>3, <1>5, <1>8, <1>9, <1>10 DEF GivenOnce, PlacesFresh
<1> QED
  BY <1>14, <1>15, <1>16, <1>17, <1>18, <1>19, <1>20, <1>21, <1>22, <1>23, <1>24,
     <1>25
     DEF QueueInv

\* The block gets the prompt that its item has by now.
LEMMA AppendedStep ==
    ASSUME QueueInv, Appended
    PROVE  QueueInv'
<1>0. /\ TypeOK /\ OpShape /\ ItemsApart /\ BlocksApart /\ BlocksBacked /\ KeysSpent
      /\ DeliveriesApart /\ ReceiptsTrue /\ ItemsDisjoint /\ BlocksDisjoint
      /\ DeliveriesDisjoint /\ PlacesApart /\ PlacesFresh /\ PromptsHeld /\ GivenOnce
  BY DEF QueueInv
<1>1. /\ op.pc = "answered" /\ op.do = "append" /\ op.answer = "ok" /\ op' = Idle
      /\ blocks' = (blocks \ {op.block}) \cup {[op.block EXCEPT !.prompts = op.content]}
      /\ UNCHANGED <<items, fresh, paused, keys, turn, lastTurn, promoted,
                     receipts, expired, unresolved, steers, known, fate,
                     delivered>>
  BY <1>0 DEF Appended, Got, queue, turns, steering, client, history
<1>2. Entries' = Entries
  BY <1>1 DEF Entries
<1>3. /\ op.block \in blocks /\ op.block \in Blocks /\ op.block.item # 0 /\ op.content \in SUBSET Prompts
      /\ \E n \in Blocks :
            /\ n.prompts = op.content /\ n.item = op.block.item /\ n.role = op.block.role
            /\ blocks' = (blocks \ {op.block}) \cup {n}
  <2>1. op.block \in blocks /\ op.block \in Blocks /\ op.block.item # 0
    BY <1>0, <1>1 DEF OpShape, TypeOK
  <2>2. op.content \in SUBSET Prompts
    BY <1>0 DEF TypeOK, Operations
  <2> DEFINE n == [op.block EXCEPT !.prompts = op.content]
  <2>3. n \in Blocks /\ n.prompts = op.content /\ n.item = op.block.item /\ n.role = op.block.role
    BY <2>1, <2>2 DEF Blocks
  <2> QED
    BY <1>1, <2>1, <2>2, <2>3
<1>4. /\ op' = Idle /\ op' \in Operations
      /\ op'.do = "idle" /\ op'.pc = "none" /\ op'.answer = "none"
  BY <1>1 DEF Idle, Operations
<1>5. \A b : b \in blocks' /\ Unqueued(b)' <=> b \in blocks /\ Unqueued(b)
  BY <1>0, <1>1, <1>3, <1>4 DEF Unqueued, Done
<1>6. \A q \in Prompts :
         /\ (InItem(q)' <=> InItem(q))
         /\ (InBlock(q)' <=> InBlock(q))
         /\ (InDelivery(q)' <=> InDelivery(q))
         /\ (InReceipt(q)' <=> InReceipt(q))
         /\ (InOp(q)' <=> InOp(q))
  <2>1. \A q \in Prompts : InBlock(q)' <=> InBlock(q)
    BY <1>5 DEF InBlock
  <2>2. \A q \in Prompts : InOp(q)' <=> InOp(q)
    BY <1>0, <1>1, <1>4 DEF InOp, Done
  <2> QED
    BY <1>1, PlacesKept, <2>1, <2>2
<1>7. \A d \in unresolved' : Open(d)' => d \in unresolved /\ Open(d)
  BY <1>0, <1>1, <1>4 DEF Open, Rejected
<1>8. \A q \in Prompts : Undecided(q)' => Undecided(q)
  BY <1>0, <1>1, <1>6, <1>7 DEF Undecided
<1>9. \A id \in Nat, ps \in SUBSET Prompts : Backs(id, ps) => Backs(id, ps)'
  BY <1>0, <1>1, <1>2 DEF Backs
<1>10. /\ ItemsApart' /\ DeliveriesApart' /\ ItemsDisjoint' /\ DeliveriesDisjoint'
       /\ GivenOnce'
  BY <1>1, Kept
<1>11. TypeOK'
  BY <1>0, <1>1, <1>3, <1>4 DEF TypeOK
<1>12. OpShape'
  BY <1>0, <1>1, <1>3, <1>4 DEF OpShape, Idle
<1>13. BlocksApart'
  BY <1>0, <1>1, <1>3, <1>4 DEF BlocksApart
<1>14. BlocksBacked'
  <2>1. Backs(op.block.item, op.content)
    BY <1>0, <1>1, <1>3 DEF BlocksBacked, Changed, Done
  <2>2. \A b \in blocks \ {op.block} : b.item # 0 => Backs(b.item, b.prompts)
    BY <1>0, <1>1 DEF BlocksBacked, Changed, Removed
  <2>3. op'.do = "idle"
    BY <1>4
  <2> QED
    BY <1>0, <1>1, <1>3, <2>1, <2>2, <2>3 DEF BlocksBacked, Changed, Removed, Backs, Entries
<1>15. KeysSpent'
  BY <1>0, <1>1, <1>4 DEF KeysSpent
<1>16. ReceiptsTrue'
  BY <1>0, <1>1, <1>4 DEF ReceiptsTrue, Rejected, Done
<1>17. BlocksDisjoint'
  BY <1>0, <1>5 DEF BlocksDisjoint, PlacesApart, InBlock
<1>18. PlacesApart'
  BY <1>0, <1>1, <1>6 DEF PlacesApart
<1>19. PlacesFresh'
  BY <1>0, <1>1, <1>6, <1>8, UndecidedPlaces DEF PlacesFresh
<1>20. PromptsHeld'
  BY <1>0, <1>1, <1>6 DEF PromptsHeld
<1> QED
  BY <1>10, <1>11, <1>12, <1>13, <1>14, <1>15, <1>16, <1>17, <1>18, <1>19, <1>20
     DEF QueueInv

\* A refused prompt is given back, the block is as it was.
LEMMA AppendRefusedStep ==
    ASSUME QueueInv, AppendRefused
    PROVE  QueueInv'
<1>0. /\ TypeOK /\ OpShape /\ ItemsApart /\ BlocksApart /\ BlocksBacked /\ KeysSpent
      /\ DeliveriesApart /\ ReceiptsTrue /\ ItemsDisjoint /\ BlocksDisjoint
      /\ DeliveriesDisjoint /\ PlacesApart /\ PlacesFresh /\ PromptsHeld /\ GivenOnce
  BY DEF QueueInv
<1>1. /\ op.pc = "answered" /\ op.do = "append" /\ op.answer = "error" /\ op' = Idle
      /\ fate' = [q \in Prompts |-> IF q \in {op.prompt} THEN "refused" ELSE fate[q]]
      /\ UNCHANGED <<items, fresh, paused, keys, turn, lastTurn, promoted,
                     receipts, expired, blocks, unresolved, steers, known,
                     delivered>>
  BY <1>0 DEF AppendRefused, Got, Fate, queue, turns, steering, client, history
<1>2. Entries' = Entries
  BY <1>1 DEF Entries
<1>3. /\ fate' \in [Prompts -> Fates]
      /\ \A q \in Prompts : fate'[q] = IF q = op.prompt THEN "refused" ELSE fate[q]
  BY <1>0, <1>1 DEF TypeOK, Fates
<1>4. op.prompt \in Prompts /\ InOp(op.prompt)
  BY <1>0, <1>1 DEF OpShape, InOp, Done
<1>5. /\ op' = Idle /\ op' \in Operations
      /\ op'.do = "idle" /\ op'.pc = "none" /\ op'.answer = "none"
  BY <1>1 DEF Idle, Operations
<1>6. \A b : b \in blocks' /\ Unqueued(b)' <=> b \in blocks /\ Unqueued(b)
  BY <1>0, <1>1, <1>5 DEF Unqueued, Done
<1>7. \A q \in Prompts : ~InOp(q)' /\ (InOp(q) => q = op.prompt)
  BY <1>0, <1>1, <1>4, <1>5 DEF InOp, Done
<1>8. \A q \in Prompts :
         /\ (InItem(q)' <=> InItem(q))
         /\ (InBlock(q)' <=> InBlock(q))
         /\ (InDelivery(q)' <=> InDelivery(q))
         /\ (InReceipt(q)' <=> InReceipt(q))
  <2>1. \A q \in Prompts : InBlock(q)' <=> InBlock(q)
    BY <1>6 DEF InBlock
  <2> QED
    BY <1>1, PlacesKept, <2>1
<1>9. \A d \in unresolved' : Open(d)' => d \in unresolved /\ Open(d)
  BY <1>0, <1>1, <1>5 DEF Open, Rejected
<1>10. \A q \in Prompts : Undecided(q)' => Undecided(q)
  BY <1>0, <1>1, <1>4, <1>8, <1>9 DEF Undecided
<1>11. \A id \in Nat, ps \in SUBSET Prompts : Backs(id, ps) => Backs(id, ps)'
  BY <1>0, <1>1, <1>2, <1>4 DEF Backs
<1>12. ItemsApart' /\ DeliveriesApart' /\ ItemsDisjoint' /\ DeliveriesDisjoint'
  BY <1>1, Kept
<1>13. TypeOK'
  BY <1>0, <1>1, <1>2, <1>3, <1>5 DEF TypeOK
<1>14. OpShape'
  BY <1>0, <1>1, <1>5 DEF OpShape, Idle
<1>15. BlocksApart'
  BY <1>0, <1>1, <1>5 DEF BlocksApart, Done
<1>16. BlocksBacked'
  BY <1>0, <1>1, <1>2, <1>5, <1>11
     DEF BlocksBacked, Changed, Removed, Done, OpShape, TypeOK, Blocks
<1>17. KeysSpent'
  BY <1>0, <1>1, <1>3, <1>5 DEF KeysSpent
<1>18. ReceiptsTrue'
  BY <1>0, <1>1, <1>5 DEF ReceiptsTrue, Rejected, Done
<1>19. BlocksDisjoint'
  BY <1>0, <1>4, <1>6 DEF BlocksDisjoint, PlacesApart, InBlock
<1>20. PlacesApart'
  BY <1>0, <1>1, <1>4, <1>7, <1>8 DEF PlacesApart
<1>21. PlacesFresh'
  BY <1>0, <1>1, <1>3, <1>4, <1>7, <1>8, <1>10, UndecidedPlaces
     DEF PlacesFresh, PlacesApart
<1>22. PromptsHeld'
  BY <1>0, <1>1, <1>3, <1>4, <1>7, <1>8 DEF PromptsHeld
<1>23. GivenOnce'
  BY <1>0, <1>1, <1>3, <1>4, <1>7, <1>8 DEF GivenOnce, PlacesFresh
<1> QED
  BY <1>12, <1>13, <1>14, <1>15, <1>16, <1>17, <1>18, <1>19, <1>20, <1>21, <1>22,
     <1>23
     DEF QueueInv

\* The item became a turn without the prompt, which starts a block.
LEMMA AppendMissedStep ==
    ASSUME QueueInv, AppendMissed
    PROVE  QueueInv'
<1>0. /\ TypeOK /\ OpShape /\ ItemsApart /\ BlocksApart /\ BlocksBacked /\ KeysSpent
      /\ DeliveriesApart /\ ReceiptsTrue /\ ItemsDisjoint /\ BlocksDisjoint
      /\ DeliveriesDisjoint /\ PlacesApart /\ PlacesFresh /\ PromptsHeld /\ GivenOnce
  BY DEF QueueInv
<1>1. /\ op.pc = "answered" /\ op.do = "append" /\ op.answer = "gone"
      /\ Create(op.prompt, blocks \ {op.block})
      /\ UNCHANGED <<items, fresh, paused, keys, turn, lastTurn, promoted,
                     receipts, expired, unresolved, steers, known, fate,
                     delivered>>
  BY <1>0 DEF AppendMissed, Got, queue, turns, steering, client, history
<1>2. Entries' = Entries
  BY <1>1 DEF Entries
<1>3. /\ op.prompt \in Prompts /\ InOp(op.prompt) /\ op.block \in blocks
      /\ op.block.role = "merged" /\ op.block.item # 0
  BY <1>0, <1>1 DEF OpShape, InOp, Done
<1>4. PICK n :
          /\ n = Block({op.prompt}, op.prompt, 0, "merged")
          /\ blocks' = (blocks \ {op.block}) \cup {n}
          /\ op' = Ask("create", op.prompt, n, {op.prompt})
  <2>1. \A c \in blocks \ {op.block} : c.role # "merged"
    BY <1>0, <1>3 DEF BlocksApart
  <2>2. PICK n :
            /\ blocks' = (blocks \ {op.block}) \cup {n}
            /\ op' = Ask("create", op.prompt, n, n.prompts \cup {op.prompt})
            /\ n = Block({op.prompt}, op.prompt, 0, "merged")
    BY <1>1, <2>1 DEF Create
  <2>3. n.prompts \cup {op.prompt} = {op.prompt}
    BY <2>2 DEF Block
  <2> QED
    BY <2>2, <2>3
<1>5. /\ n \in Blocks /\ n.prompts = {op.prompt} /\ n.item = 0 /\ n.role = "merged"
      /\ blocks' = (blocks \ {op.block}) \cup {n}
  BY <1>3, <1>4 DEF Block, Blocks, Roles
<1>6. \A c \in blocks : c.role = "merged" => c = op.block
  BY <1>0, <1>3 DEF BlocksApart
<1>7. \A q \in Prompts : InOp(q) <=> q = op.prompt
  BY <1>1, <1>3 DEF InOp
<1>8. /\ op' \in Operations /\ op'.do = "create" /\ op'.pc = "sent" /\ op'.answer = "none"
      /\ op'.prompt = op.prompt /\ op'.content = {op.prompt} /\ op'.block = n
  BY <1>3, <1>4, <1>5 DEF Ask, Idle, Operations
<1>9. \A b : b \in blocks' /\ Unqueued(b)' <=> (b \in blocks /\ Unqueued(b)) \/ b = n
  BY <1>1, <1>3, <1>4, <1>5, <1>8 DEF Unqueued, Done
<1>10. \A q \in Prompts : InBlock(q)' <=> InBlock(q) \/ q = op.prompt
  BY <1>5, <1>9 DEF InBlock
<1>11. \A q \in Prompts : ~InOp(q)' /\ (InOp(q) => q = op.prompt)
  BY <1>5, <1>7, <1>8 DEF InOp
<1>12. \A q \in Prompts :
         /\ (InItem(q)' <=> InItem(q))
         /\ (InDelivery(q)' <=> InDelivery(q))
         /\ (InReceipt(q)' <=> InReceipt(q))
  BY <1>1, PlacesKept
<1>13. \A d \in unresolved' : Open(d)' => d \in unresolved /\ Open(d)
  BY <1>0, <1>1, <1>8 DEF Open, Rejected
<1>14. \A q \in Prompts : Undecided(q)' => Undecided(q)
  BY <1>0, <1>1, <1>7, <1>12, <1>13 DEF Undecided
<1>15. \A id \in Nat, ps \in SUBSET Prompts : Backs(id, ps) => Backs(id, ps)'
  BY <1>0, <1>1, <1>2, <1>7 DEF Backs
<1>16. /\ ItemsApart' /\ DeliveriesApart' /\ ItemsDisjoint' /\ DeliveriesDisjoint'
       /\ GivenOnce'
  BY <1>1, Kept
<1>17. TypeOK'
  BY <1>0, <1>1, <1>5, <1>8 DEF TypeOK
<1>18. OpShape'
  BY <1>3, <1>5, <1>8 DEF OpShape
<1>19. BlocksApart'
  <2>1. \A b, c \in blocks' : b.role = "merged" /\ c.role = "merged" => b = c
    BY <1>5, <1>6
  <2>2. \A b, c \in blocks' : b.item = c.item /\ b.item # 0 => b = c
    BY <1>0, <1>5 DEF BlocksApart
  <2>3. \A b \in blocks' : b.item < fresh'
    BY <1>0, <1>1, <1>5 DEF BlocksApart, ItemsApart, TypeOK
  <2> QED
    BY <1>8, <2>1, <2>2, <2>3 DEF BlocksApart, Done
<1>20. BlocksBacked'
  <2>1. \A b \in blocks : b.item # 0 => Backs(b.item, b.prompts)
    BY <1>0, <1>1 DEF BlocksBacked, Changed, Removed, Done
  <2> QED
    BY <1>1, <1>4, <1>5, <1>8, <2>1 DEF BlocksBacked, Changed, Removed, Done, Backs, Entries
<1>21. KeysSpent'
  BY <1>0, <1>1, <1>8 DEF KeysSpent
<1>22. ReceiptsTrue'
  BY <1>0, <1>1, <1>8 DEF ReceiptsTrue, Rejected, Done
<1>23. BlocksDisjoint'
  <2>1. \A b \in blocks : Unqueued(b) => op.prompt \notin b.prompts
    BY <1>0, <1>3 DEF PlacesApart, InBlock
  <2> QED
    BY <1>0, <1>5, <1>9, <2>1 DEF BlocksDisjoint
<1>24. PlacesApart'
  BY <1>0, <1>1, <1>7, <1>10, <1>11, <1>12 DEF PlacesApart
<1>25. PlacesFresh'
  BY <1>0, <1>1, <1>7, <1>10, <1>11, <1>12, <1>14, UndecidedPlaces DEF PlacesFresh
<1>26. PromptsHeld'
  BY <1>0, <1>1, <1>7, <1>10, <1>11, <1>12 DEF PromptsHeld
<1> QED
  BY <1>16, <1>17, <1>18, <1>19, <1>20, <1>21, <1>22, <1>23, <1>24, <1>25, <1>26
     DEF QueueInv

-----------------------------------------------------------------------------
(* The interface: prompts taken out again *)

\* pop_at on a block without an item.
LEMMA PopHere ==
    ASSUME QueueInv, NEW p \in Prompts, op' = op, Pop(p)
    PROVE  QueueInv'
<1>0. /\ TypeOK /\ OpShape /\ ItemsApart /\ BlocksApart /\ BlocksBacked /\ KeysSpent
      /\ DeliveriesApart /\ ReceiptsTrue /\ ItemsDisjoint /\ BlocksDisjoint
      /\ DeliveriesDisjoint /\ PlacesApart /\ PlacesFresh /\ PromptsHeld /\ GivenOnce
  BY DEF QueueInv
<1>1. /\ op = Idle
      /\ \E b \in blocks :
            /\ p \in b.prompts /\ b.item = 0
            /\ blocks' = IF b.prompts = {p} THEN blocks \ {b}
                         ELSE (blocks \ {b}) \cup {[b EXCEPT !.prompts = b.prompts \ {p}]}
      /\ fate' = [q \in Prompts |-> IF q \in {p} THEN "dropped" ELSE fate[q]]
      /\ UNCHANGED <<items, fresh, paused, keys, turn, lastTurn, promoted,
                     receipts, expired, unresolved, steers, known, op,
                     delivered>>
  BY <1>0 DEF Pop, Fate, Ask, Idle, queue, turns, steering, client, history
<1>2. Entries' = Entries
  BY <1>1 DEF Entries
<1>3. /\ fate' \in [Prompts -> Fates]
      /\ \A q \in Prompts : fate'[q] = IF q = p THEN "dropped" ELSE fate[q]
  BY <1>0, <1>1 DEF TypeOK, Fates
<1>4. PICK b \in blocks :
          /\ p \in b.prompts /\ b.item = 0
          /\ \E n \in Blocks :
                /\ n.prompts = b.prompts \ {p} /\ n.item = 0 /\ n.role = b.role
                /\ blocks' = IF b.prompts = {p} THEN blocks \ {b}
                             ELSE (blocks \ {b}) \cup {n}
  <2>1. PICK b \in blocks :
            /\ p \in b.prompts /\ b.item = 0
            /\ blocks' = IF b.prompts = {p} THEN blocks \ {b}
                         ELSE (blocks \ {b}) \cup {[b EXCEPT !.prompts = b.prompts \ {p}]}
    BY <1>1
  <2>2. b \in Blocks
    BY <1>0 DEF TypeOK
  <2> DEFINE n == [b EXCEPT !.prompts = b.prompts \ {p}]
  <2>3. n \in Blocks /\ n.prompts = b.prompts \ {p} /\ n.item = 0 /\ n.role = b.role
    BY <2>1, <2>2 DEF Blocks
  <2> QED
    BY <2>1, <2>3
<1>5. /\ op.do = "idle" /\ op.pc = "none" /\ op' = Idle
      /\ \A c : (Unqueued(c) <=> c.item = 0) /\ (Unqueued(c)' <=> c.item = 0)
  BY <1>1 DEF Idle, Unqueued, Done
<1>6. InBlock(p)
  BY <1>4, <1>5 DEF InBlock
<1>7. \A q \in Prompts : InBlock(q)' <=> InBlock(q) /\ q # p
  <2>1. \A c \in blocks : c.item = 0 /\ p \in c.prompts => c = b
    BY <1>0, <1>4, <1>5 DEF BlocksDisjoint
  <2> QED
    BY <1>4, <1>5, <2>1 DEF InBlock
<1>8. \A q \in Prompts : ~InOp(q)' /\ ~InOp(q)
  BY <1>1, <1>5 DEF InOp
<1>9. \A q \in Prompts :
         /\ (InItem(q)' <=> InItem(q))
         /\ (InDelivery(q)' <=> InDelivery(q))
         /\ (InReceipt(q)' <=> InReceipt(q))
  BY <1>1, PlacesKept
<1>10. \A d \in unresolved' : Open(d)' => d \in unresolved /\ Open(d)
  BY <1>0, <1>1, <1>5 DEF Open, Rejected
<1>11. \A q \in Prompts : Undecided(q)' => Undecided(q)
  BY <1>0, <1>1, <1>6, <1>9, <1>10 DEF Undecided
<1>12. \A id \in Nat, ps \in SUBSET Prompts : Backs(id, ps) => Backs(id, ps)'
  BY <1>0, <1>1, <1>2, <1>6 DEF Backs
<1>13. /\ ItemsApart' /\ DeliveriesApart' /\ ReceiptsTrue' /\ ItemsDisjoint'
       /\ DeliveriesDisjoint'
  BY <1>1, Kept
<1>14. TypeOK'
  BY <1>0, <1>1, <1>3, <1>4 DEF TypeOK
<1>15. OpShape'
  BY <1>5 DEF OpShape, Idle
<1>16. BlocksApart'
  BY <1>0, <1>1, <1>4, <1>5 DEF BlocksApart, Done
<1>17. BlocksBacked'
  <2>1. \A c \in blocks : c.item # 0 => Backs(c.item, c.prompts)
    BY <1>0, <1>5 DEF BlocksBacked, Changed, Removed
  <2> QED
    BY <1>1, <1>4, <1>5, <2>1 DEF BlocksBacked, Changed, Removed, Done, Backs, Entries
<1>18. KeysSpent'
  BY <1>0, <1>1, <1>3, <1>5 DEF KeysSpent
<1>19. BlocksDisjoint'
  BY <1>0, <1>4, <1>5 DEF BlocksDisjoint
<1>20. PlacesApart'
  BY <1>0, <1>1, <1>6, <1>7, <1>8, <1>9 DEF PlacesApart
<1>21. PlacesFresh'
  BY <1>0, <1>1, <1>3, <1>6, <1>7, <1>8, <1>9, <1>11, UndecidedPlaces
     DEF PlacesFresh, PlacesApart
<1>22. PromptsHeld'
  BY <1>0, <1>1, <1>3, <1>6, <1>7, <1>8, <1>9 DEF PromptsHeld
<1>23. GivenOnce'
  BY <1>0, <1>1, <1>3, <1>6, <1>7, <1>8, <1>9 DEF GivenOnce, PlacesFresh
<1> QED
  BY <1>13, <1>14, <1>15, <1>16, <1>17, <1>18, <1>19, <1>20, <1>21, <1>22, <1>23
     DEF QueueInv

\* pop_at on a block with an item: the server is asked.
LEMMA PopAsked ==
    ASSUME QueueInv, NEW p \in Prompts, op' # op, Pop(p)
    PROVE  QueueInv'
<1>0. /\ TypeOK /\ OpShape /\ ItemsApart /\ BlocksApart /\ BlocksBacked /\ KeysSpent
      /\ DeliveriesApart /\ ReceiptsTrue /\ ItemsDisjoint /\ BlocksDisjoint
      /\ DeliveriesDisjoint /\ PlacesApart /\ PlacesFresh /\ PromptsHeld /\ GivenOnce
  BY SMTT(30) DEF QueueInv
<1>1. /\ op = Idle
      /\ \E b \in blocks :
            /\ p \in b.prompts /\ b.item # 0
            /\ op' = IF b.prompts = {p} THEN Ask("pop", p, b, {})
                     ELSE Ask("drop", p, b, b.prompts \ {p})
      /\ UNCHANGED <<items, fresh, paused, keys, turn, lastTurn, promoted,
                     receipts, expired, blocks, unresolved, steers, known, fate,
                     delivered>>
  BY <1>0 DEF Pop, Ask, queue, turns, steering, client, history
<1>2. Entries' = Entries
  BY <1>1 DEF Entries
<1>3. op.do = "idle" /\ op.pc = "none" 
  BY <1>1 DEF Idle
<1>4. /\ op' \in Operations /\ op'.do \in {"pop", "drop"} /\ op'.pc = "sent"
      /\ op'.answer = "none" /\ op'.prompt = p /\ op'.block \in blocks /\ op'.block.item # 0
      /\ p \in op'.block.prompts
      /\ op'.do = "pop" => op'.block.prompts = {p}
      /\ op'.do = "drop" => op'.content = op'.block.prompts \ {p}
  <2>1. PICK b \in blocks :
            /\ p \in b.prompts /\ b.item # 0
            /\ op' = IF b.prompts = {p} THEN Ask("pop", p, b, {})
                     ELSE Ask("drop", p, b, b.prompts \ {p})
    BY <1>1
  <2>2. b \in Blocks /\ b.prompts \ {p} \in SUBSET Prompts
    BY <1>0 DEF TypeOK, Blocks
  <2>3. CASE b.prompts = {p}
    BY <2>1, <2>2, <2>3 DEF Ask, Idle, Operations
  <2>4. CASE b.prompts # {p}
    BY <2>1, <2>2, <2>4 DEF Ask, Idle, Operations
  <2> QED
    BY <2>3, <2>4
<1>5. \A b : b \in blocks' /\ Unqueued(b)' <=> b \in blocks /\ Unqueued(b)
  BY <1>1, <1>3, <1>4 DEF Unqueued, Done
<1>6. \A q \in Prompts : ~InOp(q)' /\ ~InOp(q)
  BY <1>3, <1>4 DEF InOp, Done
<1>7. \A q \in Prompts :
         /\ (InItem(q)' <=> InItem(q))
         /\ (InBlock(q)' <=> InBlock(q))
         /\ (InDelivery(q)' <=> InDelivery(q))
         /\ (InReceipt(q)' <=> InReceipt(q))
  <2>1. \A q \in Prompts : InBlock(q)' <=> InBlock(q)
    BY <1>5 DEF InBlock
  <2> QED
    BY <1>1, PlacesKept, <2>1
<1>8. \A d \in unresolved' : Open(d)' => d \in unresolved /\ Open(d)
  BY <1>0, <1>1, <1>4 DEF Open, Rejected
<1>9. \A q \in Prompts : Undecided(q)' => Undecided(q)
  BY <1>0, <1>1, <1>7, <1>8 DEF Undecided
<1>10. \A id \in Nat, ps \in SUBSET Prompts : Backs(id, ps) => Backs(id, ps)'
  BY <1>0, <1>1, <1>2 DEF Backs
<1>11. /\ ItemsApart' /\ DeliveriesApart' /\ ItemsDisjoint' /\ DeliveriesDisjoint'
       /\ GivenOnce'
  BY <1>1, Kept
<1>12. TypeOK'
  BY <1>0, <1>1, <1>4 DEF TypeOK
<1>13. OpShape'
  BY <1>1, <1>4 DEF OpShape
<1>14. BlocksApart'
  BY <1>0, <1>1, <1>3, <1>4 DEF BlocksApart, Done
<1>15. BlocksBacked'
  BY <1>0, <1>1, <1>3, <1>4 DEF BlocksBacked, Changed, Removed, Done, Backs, Entries
<1>16. KeysSpent'
  BY <1>0, <1>1, <1>4 DEF KeysSpent
<1>17. ReceiptsTrue'
  BY <1>0, <1>1, <1>4 DEF ReceiptsTrue, Rejected, Done
<1>18. BlocksDisjoint'
  BY <1>0, <1>5 DEF BlocksDisjoint, PlacesApart, InBlock
<1>19. PlacesApart'
  BY <1>0, <1>1, <1>6, <1>7 DEF PlacesApart
<1>20. PlacesFresh'
  BY <1>0, <1>1, <1>6, <1>7, <1>9, UndecidedPlaces DEF PlacesFresh
<1>21. PromptsHeld'
  BY <1>0, <1>1, <1>6, <1>7 DEF PromptsHeld
<1> QED
  BY <1>11, <1>12, <1>13, <1>14, <1>15, <1>16, <1>17, <1>18, <1>19, <1>20, <1>21
     DEF QueueInv

\* An unconfirmed delivery is discarded; its prompts may have been seen.
LEMMA DiscardStep ==
    ASSUME QueueInv, Discard
    PROVE  QueueInv'
<1>0. /\ TypeOK /\ OpShape /\ ItemsApart /\ BlocksApart /\ BlocksBacked /\ KeysSpent
      /\ DeliveriesApart /\ ReceiptsTrue /\ ItemsDisjoint /\ BlocksDisjoint
      /\ DeliveriesDisjoint /\ PlacesApart /\ PlacesFresh /\ PromptsHeld /\ GivenOnce
  BY DEF QueueInv
<1>1. /\ op = Idle
      /\ \E d \in unresolved :
            /\ unresolved' = unresolved \ {d}
            /\ fate' = [q \in Prompts |-> IF q \in d.prompts THEN "discarded" ELSE fate[q]]
      /\ UNCHANGED <<items, fresh, paused, keys, turn, lastTurn, promoted,
                     receipts, expired, blocks, steers, known, op, delivered>>
  BY <1>0 DEF Discard, Fate, queue, turns, steering, client, history
<1>2. Entries' = Entries
  BY <1>1 DEF Entries
<1>3. /\ op' = Idle /\ unresolved' \subseteq unresolved
      /\ fate' \in [Prompts -> Fates]
      /\ \A q \in Prompts :
            fate'[q] = IF InDelivery(q) /\ ~InDelivery(q)' THEN "discarded" ELSE fate[q]
  <2>1. PICK d \in unresolved :
            /\ unresolved' = unresolved \ {d}
            /\ fate' = [q \in Prompts |-> IF q \in d.prompts THEN "discarded" ELSE fate[q]]
    BY <1>1
  <2>2. fate' \in [Prompts -> Fates]
    BY <1>0, <2>1 DEF TypeOK, Fates
  <2>3. ASSUME NEW q \in Prompts
        PROVE  q \in d.prompts <=> InDelivery(q) /\ ~InDelivery(q)'
    BY <1>0, <2>1 DEF InDelivery, DeliveriesDisjoint
  <2> QED
    BY <1>1, <2>1, <2>2, <2>3
<1>4. op.do = "idle" /\ op.pc = "none"
  BY <1>1 DEF Idle
<1>5. \A q \in Prompts : InDelivery(q)' => InDelivery(q)
  BY <1>3 DEF InDelivery
<1>6. \A q \in Prompts :
         /\ (InItem(q)' <=> InItem(q))
         /\ (InBlock(q)' <=> InBlock(q))
         /\ (InReceipt(q)' <=> InReceipt(q))
         /\ (InOp(q)' <=> InOp(q))
  BY <1>1, PlacesKept
<1>7. \A d \in unresolved' : Open(d)' => d \in unresolved /\ Open(d)
  BY <1>0, <1>1, <1>4 DEF Open, Rejected
<1>8. \A q \in Prompts : Undecided(q)' => Undecided(q)
  BY <1>0, <1>1, <1>6, <1>7 DEF Undecided
<1>9. /\ ItemsApart' /\ BlocksApart' /\ BlocksBacked' /\ ItemsDisjoint'
      /\ BlocksDisjoint'
  BY <1>1, Kept
<1>10. TypeOK'
  BY <1>0, <1>1, <1>3 DEF TypeOK
<1>11. OpShape'
  BY <1>3 DEF OpShape, Idle
<1>12. KeysSpent'
  BY <1>0, <1>1, <1>3, <1>4 DEF KeysSpent
<1>13. DeliveriesApart'
  BY <1>0, <1>1, <1>3 DEF DeliveriesApart
<1>14. ReceiptsTrue'
  BY <1>0, <1>1, <1>3, <1>4 DEF ReceiptsTrue, Rejected, Done
<1>15. DeliveriesDisjoint'
  BY <1>0, <1>1, <1>3 DEF DeliveriesDisjoint
<1>16. PlacesApart'
  BY <1>0, <1>1, <1>5, <1>6 DEF PlacesApart
<1>17. PlacesFresh'
  BY <1>0, <1>1, <1>3, <1>5, <1>6, <1>8, UndecidedPlaces
     DEF PlacesFresh, PlacesApart
<1>18. PromptsHeld'
  BY <1>0, <1>1, <1>3, <1>5, <1>6 DEF PromptsHeld
<1>19. GivenOnce'
  BY <1>0, <1>1, <1>3, <1>5, <1>6 DEF GivenOnce, PlacesFresh
<1> QED
  BY <1>9, <1>10, <1>11, <1>12, <1>13, <1>14, <1>15, <1>16, <1>17, <1>18, <1>19
     DEF QueueInv

\* The prompt is out of the queue, as its item is by now.
LEMMA PoppedStep ==
    ASSUME QueueInv, Popped
    PROVE  QueueInv'
<1>0. /\ TypeOK /\ OpShape /\ ItemsApart /\ BlocksApart /\ BlocksBacked /\ KeysSpent
      /\ DeliveriesApart /\ ReceiptsTrue /\ ItemsDisjoint /\ BlocksDisjoint
      /\ DeliveriesDisjoint /\ PlacesApart /\ PlacesFresh /\ PromptsHeld /\ GivenOnce
  BY DEF QueueInv
<1>1. /\ op.pc = "answered" /\ op.do \in {"pop", "drop"} /\ op.answer = "ok" /\ op' = Idle
      /\ blocks' = (blocks \ {op.block}) \cup
            (IF op.do = "pop" THEN {} ELSE {[op.block EXCEPT !.prompts = op.content]})
      /\ fate' = [q \in Prompts |-> IF q \in {op.prompt} THEN "dropped" ELSE fate[q]]
      /\ UNCHANGED <<items, fresh, paused, keys, turn, lastTurn, promoted,
                     receipts, expired, unresolved, steers, known, delivered>>
  BY <1>0 DEF Popped, Got, Fate, queue, turns, steering, client, history
<1>2. Entries' = Entries
  BY <1>1 DEF Entries
<1>3. /\ op.block \in blocks /\ op.block \in Blocks /\ op.block.item # 0 /\ op.content \in SUBSET Prompts
      /\ \E n \in Blocks :
            /\ n.prompts = op.content /\ n.item = op.block.item /\ n.role = op.block.role
            /\ blocks' = (blocks \ {op.block}) \cup (IF op.do = "pop" THEN {} ELSE {n})
  <2>1. op.block \in blocks /\ op.block \in Blocks /\ op.block.item # 0
    BY <1>0, <1>1 DEF OpShape, TypeOK
  <2>2. op.content \in SUBSET Prompts
    BY <1>0 DEF TypeOK, Operations
  <2> DEFINE n == [op.block EXCEPT !.prompts = op.content]
  <2>3. n \in Blocks /\ n.prompts = op.content /\ n.item = op.block.item /\ n.role = op.block.role
    BY <2>1, <2>2 DEF Blocks
  <2> QED
    BY <1>1, <2>1, <2>2, <2>3
<1>4. /\ fate' \in [Prompts -> Fates]
      /\ \A q \in Prompts : fate'[q] = IF q = op.prompt THEN "dropped" ELSE fate[q]
  BY <1>0, <1>1 DEF TypeOK, Fates
<1>5. op.prompt \in Prompts /\ InOp(op.prompt)
  BY <1>0, <1>1, <1>3 DEF OpShape, InOp, Done, Blocks
<1>6. /\ op' = Idle /\ op' \in Operations
      /\ op'.do = "idle" /\ op'.pc = "none" /\ op'.answer = "none"
  BY <1>1 DEF Idle, Operations
<1>7. \A b : b \in blocks' /\ Unqueued(b)' <=> b \in blocks /\ Unqueued(b)
  BY <1>0, <1>1, <1>3, <1>6 DEF Unqueued, Done
<1>8. \A q \in Prompts : ~InOp(q)' /\ (InOp(q) => q = op.prompt)
  BY <1>0, <1>1, <1>5, <1>6 DEF InOp, Done
<1>9. \A q \in Prompts :
         /\ (InItem(q)' <=> InItem(q))
         /\ (InBlock(q)' <=> InBlock(q))
         /\ (InDelivery(q)' <=> InDelivery(q))
         /\ (InReceipt(q)' <=> InReceipt(q))
  <2>1. \A q \in Prompts : InBlock(q)' <=> InBlock(q)
    BY <1>7 DEF InBlock
  <2> QED
    BY <1>1, PlacesKept, <2>1
<1>10. \A d \in unresolved' : Open(d)' => d \in unresolved /\ Open(d)
  BY <1>0, <1>1, <1>6 DEF Open, Rejected
<1>11. \A q \in Prompts : Undecided(q)' => Undecided(q)
  BY <1>0, <1>1, <1>5, <1>9, <1>10 DEF Undecided
<1>12. \A id \in Nat, ps \in SUBSET Prompts : Backs(id, ps) => Backs(id, ps)'
  BY <1>0, <1>1, <1>2, <1>5 DEF Backs
<1>13. ItemsApart' /\ DeliveriesApart' /\ ItemsDisjoint' /\ DeliveriesDisjoint'
  BY <1>1, Kept
<1>14. TypeOK'
  BY <1>0, <1>1, <1>3, <1>4, <1>6 DEF TypeOK
<1>15. OpShape'
  BY <1>0, <1>1, <1>3, <1>6 DEF OpShape, Idle
<1>16. BlocksApart'
  BY <1>0, <1>1, <1>3, <1>6 DEF BlocksApart
<1>17. BlocksBacked'
  <2>1. op.do = "drop" => Backs(op.block.item, op.content)
    BY <1>0, <1>1, <1>3 DEF BlocksBacked, Changed, Done
  <2>2. \A b \in blocks \ {op.block} : b.item # 0 => Backs(b.item, b.prompts)
    BY <1>0, <1>1 DEF BlocksBacked, Changed, Removed
  <2>3. op'.do = "idle"
    BY <1>6
  <2> QED
    BY <1>0, <1>1, <1>3, <2>1, <2>2, <2>3 DEF BlocksBacked, Changed, Removed, Backs, Entries
<1>18. KeysSpent'
  BY <1>0, <1>1, <1>4, <1>6 DEF KeysSpent
<1>19. ReceiptsTrue'
  BY <1>0, <1>1, <1>6 DEF ReceiptsTrue, Rejected, Done
<1>20. BlocksDisjoint'
  BY <1>0, <1>5, <1>7 DEF BlocksDisjoint, PlacesApart, InBlock
<1>21. PlacesApart'
  BY <1>0, <1>1, <1>5, <1>8, <1>9 DEF PlacesApart
<1>22. PlacesFresh'
  BY <1>0, <1>1, <1>4, <1>5, <1>8, <1>9, <1>11, UndecidedPlaces
     DEF PlacesFresh, PlacesApart
<1>23. PromptsHeld'
  BY <1>0, <1>1, <1>4, <1>5, <1>8, <1>9 DEF PromptsHeld
<1>24. GivenOnce'
  BY <1>0, <1>1, <1>4, <1>5, <1>8, <1>9 DEF GivenOnce, PlacesFresh
<1> QED
  BY <1>13, <1>14, <1>15, <1>16, <1>17, <1>18, <1>19, <1>20, <1>21, <1>22, <1>23,
     <1>24
     DEF QueueInv

\* Too late or refused: the prompt stays what it was.
LEMMA PopMissedStep ==
    ASSUME QueueInv, PopMissed
    PROVE  QueueInv'
<1>0. /\ TypeOK /\ OpShape /\ ItemsApart /\ BlocksApart /\ BlocksBacked /\ KeysSpent
      /\ DeliveriesApart /\ ReceiptsTrue /\ ItemsDisjoint /\ BlocksDisjoint
      /\ DeliveriesDisjoint /\ PlacesApart /\ PlacesFresh /\ PromptsHeld /\ GivenOnce
  BY DEF QueueInv
<1>1. /\ op.pc = "answered" /\ op.do \in {"pop", "drop"} /\ op.answer # "ok" /\ op' = Idle
      /\ blocks' = IF op.do = "drop" /\ op.answer = "gone" THEN blocks \ {op.block} ELSE blocks
      /\ UNCHANGED <<items, fresh, paused, keys, turn, lastTurn, promoted,
                     receipts, expired, unresolved, steers, known, fate,
                     delivered>>
  BY <1>0 DEF PopMissed, queue, turns, steering, client, history
<1>2. Entries' = Entries
  BY <1>1 DEF Entries
<1>3. /\ op' = Idle /\ op' \in Operations
      /\ op'.do = "idle" /\ op'.pc = "none" /\ op'.answer = "none"
  BY <1>1 DEF Idle, Operations
<1>4. \A b : b \in blocks' /\ Unqueued(b)' <=> b \in blocks /\ Unqueued(b)
  BY <1>0, <1>1, <1>3 DEF Unqueued, Done, OpShape
<1>5. \A q \in Prompts :
         /\ (InItem(q)' <=> InItem(q))
         /\ (InBlock(q)' <=> InBlock(q))
         /\ (InDelivery(q)' <=> InDelivery(q))
         /\ (InReceipt(q)' <=> InReceipt(q))
         /\ (InOp(q)' <=> InOp(q))
  <2>1. \A q \in Prompts : InBlock(q)' <=> InBlock(q)
    BY <1>4 DEF InBlock
  <2>2. \A q \in Prompts : InOp(q)' <=> InOp(q)
    BY <1>0, <1>1, <1>3 DEF InOp, Done
  <2> QED
    BY <1>1, PlacesKept, <2>1, <2>2
<1>6. \A d \in unresolved' : Open(d)' => d \in unresolved /\ Open(d)
  BY <1>0, <1>1, <1>3 DEF Open, Rejected
<1>7. \A q \in Prompts : Undecided(q)' => Undecided(q)
  BY <1>0, <1>1, <1>5, <1>6 DEF Undecided
<1>8. \A id \in Nat, ps \in SUBSET Prompts : Backs(id, ps) => Backs(id, ps)'
  BY <1>0, <1>1, <1>2 DEF Backs
<1>9. /\ ItemsApart' /\ DeliveriesApart' /\ ItemsDisjoint' /\ DeliveriesDisjoint'
      /\ GivenOnce'
  BY <1>1, Kept
<1>10. TypeOK'
  BY <1>0, <1>1, <1>2, <1>3 DEF TypeOK
<1>11. OpShape'
  BY <1>0, <1>1, <1>3 DEF OpShape, Idle
<1>12. BlocksApart'
  BY <1>0, <1>1, <1>3 DEF BlocksApart, Done
<1>13. BlocksBacked'
  BY <1>0, <1>1, <1>2, <1>3, <1>8
     DEF BlocksBacked, Changed, Removed, Done, OpShape, TypeOK, Blocks
<1>14. KeysSpent'
  BY <1>0, <1>1, <1>3 DEF KeysSpent
<1>15. ReceiptsTrue'
  BY <1>0, <1>1, <1>3 DEF ReceiptsTrue, Rejected, Done
<1>16. BlocksDisjoint'
  BY <1>0, <1>4 DEF BlocksDisjoint, PlacesApart, InBlock
<1>17. PlacesApart'
  BY <1>0, <1>1, <1>5 DEF PlacesApart
<1>18. PlacesFresh'
  BY <1>0, <1>1, <1>5, <1>7, UndecidedPlaces DEF PlacesFresh
<1>19. PromptsHeld'
  BY <1>0, <1>1, <1>5 DEF PromptsHeld
<1> QED
  BY <1>9, <1>10, <1>11, <1>12, <1>13, <1>14, <1>15, <1>16, <1>17, <1>18, <1>19
     DEF QueueInv

-----------------------------------------------------------------------------
(* The interface: steering *)

\* steer_prepared: a prompt that was nowhere is delivered.
LEMMA SteerPreparedStep ==
    ASSUME QueueInv, NEW p \in Prompts, SteerPrepared(p)
    PROVE  QueueInv'
<1>0. /\ TypeOK /\ OpShape /\ ItemsApart /\ BlocksApart /\ BlocksBacked /\ KeysSpent
      /\ DeliveriesApart /\ ReceiptsTrue /\ ItemsDisjoint /\ BlocksDisjoint
      /\ DeliveriesDisjoint /\ PlacesApart /\ PlacesFresh /\ PromptsHeld /\ GivenOnce
  BY DEF QueueInv
<1>1. /\ op = Idle /\ fate[p] = "new" /\ steers' = steers + 1
      /\ fate' = [q \in Prompts |-> IF q \in {p} THEN "held" ELSE fate[q]]
      /\ \E t \in Recent : Deliver(Delivery({p}, p, t, TRUE))
      /\ UNCHANGED <<items, fresh, paused, keys, turn, lastTurn, promoted,
                     receipts, expired, blocks, known, delivered>>
  BY <1>0 DEF SteerPrepared, Fate, queue, turns, steering, client, history
<1>2. Entries' = Entries
  BY <1>1 DEF Entries
<1>3. /\ fate' \in [Prompts -> Fates]
      /\ \A q \in Prompts : fate'[q] = IF q = p THEN "held" ELSE fate[q]
  BY <1>0, <1>1 DEF TypeOK, Fates
<1>4. /\ ~InItem(p) /\ ~InBlock(p) /\ ~InDelivery(p) /\ ~InReceipt(p) /\ delivered[p] = 0
      /\ p \notin DOMAIN keys
  <2>1. fate[p] = "new"
    BY <1>1
  <2> QED
    BY <1>0, <2>1 DEF PlacesFresh, GivenOnce, KeysSpent, TypeOK
<1>5. op.do = "idle" /\ op.pc = "none" 
  BY <1>1 DEF Idle
<1>6. PICK d \in Deliveries :
          /\ d.prompts = {p} /\ d.key = steers + 1 /\ d.turn \in 1..lastTurn
          /\ unresolved' = unresolved \cup {d}
          /\ op' = [Idle EXCEPT !.do = "steer", !.pc = "sent", !.delivery = d]
  <2>1. PICK t \in Recent : Deliver(Delivery({p}, p, t, TRUE))
    BY <1>1
  <2> DEFINE d == Delivery({p}, p, t, TRUE)
  <2>2. t \in 1..lastTurn /\ steers + 1 \in Nat
    BY <1>0 DEF Recent, TypeOK
  <2>3. d \in Deliveries /\ d.prompts = {p} /\ d.key = steers + 1 /\ d.turn = t
    BY <1>0, <2>2 DEF Delivery, Deliveries, TypeOK
  <2>4. Deliver(d)
    BY <2>1
  <2> HIDE DEF d
  <2> QED
    BY <2>2, <2>3, <2>4 DEF Deliver
<1>7. /\ op' \in Operations /\ op'.do = "steer" /\ op'.pc = "sent" /\ op'.answer = "none"
      /\ op'.delivery \in unresolved' /\ op'.delivery = d
  BY <1>6 DEF Operations, Idle
<1>8. \A b : b \in blocks' /\ Unqueued(b)' <=> b \in blocks /\ Unqueued(b)
  BY <1>1, <1>5, <1>7 DEF Unqueued
<1>9. \A q \in Prompts : InDelivery(q)' <=> InDelivery(q) \/ q = p
  BY <1>6 DEF InDelivery
<1>10. \A q \in Prompts : ~InOp(q)' /\ ~InOp(q)
  BY <1>5, <1>7 DEF InOp
<1>11. \A q \in Prompts :
         /\ (InItem(q)' <=> InItem(q))
         /\ (InBlock(q)' <=> InBlock(q))
         /\ (InReceipt(q)' <=> InReceipt(q))
  <2>1. \A q \in Prompts : InBlock(q)' <=> InBlock(q)
    BY <1>8 DEF InBlock
  <2> QED
    BY <1>1, PlacesKept, <2>1
<1>12. \A e \in unresolved' : Open(e)' => (e \in unresolved /\ Open(e)) \/ e = d
  BY <1>0, <1>1, <1>5, <1>6, <1>7 DEF Open, Rejected, DeliveriesApart, TypeOK
<1>13. \A q \in Prompts : Undecided(q)' => Undecided(q) \/ q = p
  BY <1>0, <1>1, <1>4, <1>11, <1>12, <1>6 DEF Undecided
<1>14. \A id \in Nat, ps \in SUBSET Prompts : Backs(id, ps) => Backs(id, ps)'
  BY <1>0, <1>1, <1>2, <1>4 DEF Backs
<1>15. ItemsApart' /\ ItemsDisjoint'
  BY <1>1, Kept
<1>16. TypeOK'
  BY <1>0, <1>1, <1>3, <1>6, <1>7 DEF TypeOK
<1>17. OpShape'
  BY <1>7 DEF OpShape
<1>18. BlocksApart'
  BY <1>0, <1>1, <1>7 DEF BlocksApart, Done
<1>19. BlocksBacked'
  BY <1>0, <1>1, <1>2, <1>7, <1>14, EntryFacts
     DEF BlocksBacked, Changed, Removed, BlocksApart, ItemsApart, OpShape, Done,
         Idle, TypeOK, Blocks, Operations, Item
<1>20. KeysSpent'
  BY <1>0, <1>1, <1>3, <1>7 DEF KeysSpent
<1>21. DeliveriesApart'
  BY <1>0, <1>1, <1>6 DEF DeliveriesApart, TypeOK
<1>22. ReceiptsTrue'
  BY <1>0, <1>1, <1>5, <1>7 DEF ReceiptsTrue, Rejected, Done
<1>23. BlocksDisjoint'
  BY <1>0, <1>4, <1>8 DEF BlocksDisjoint, PlacesApart, InBlock
<1>24. DeliveriesDisjoint'
  <2>1. \A e \in unresolved : p \notin e.prompts
    BY <1>4 DEF InDelivery
  <2>2. \A k \in DOMAIN receipts : receipts[k].state = "running" => p \notin receipts[k].prompts
    BY <1>4 DEF InReceipt
  <2> QED
    BY <1>0, <1>1, <1>6, <2>1, <2>2 DEF DeliveriesDisjoint
<1>25. PlacesApart'
  BY <1>0, <1>1, <1>4, <1>9, <1>10, <1>11 DEF PlacesApart
<1>26. PlacesFresh'
  BY <1>0, <1>1, <1>3, <1>4, <1>9, <1>10, <1>11, <1>13, UndecidedPlaces
     DEF PlacesFresh
<1>27. PromptsHeld'
  BY <1>0, <1>1, <1>3, <1>4, <1>9, <1>10, <1>11 DEF PromptsHeld
<1>28. GivenOnce'
  BY <1>0, <1>1, <1>3, <1>4, <1>9, <1>10, <1>11 DEF GivenOnce
<1> QED
  BY <1>15, <1>16, <1>17, <1>18, <1>19, <1>20, <1>21, <1>22, <1>23, <1>24, <1>25,
     <1>26, <1>27, <1>28
     DEF QueueInv

\* steer_pending: the item of the block is to be removed.
LEMMA SteerPendingStep ==
    ASSUME QueueInv, SteerPending
    PROVE  QueueInv'
<1>0. /\ TypeOK /\ OpShape /\ ItemsApart /\ BlocksApart /\ BlocksBacked /\ KeysSpent
      /\ DeliveriesApart /\ ReceiptsTrue /\ ItemsDisjoint /\ BlocksDisjoint
      /\ DeliveriesDisjoint /\ PlacesApart /\ PlacesFresh /\ PromptsHeld /\ GivenOnce
  BY DEF QueueInv
<1>1. /\ op = Idle
      /\ \E b \in blocks : b.role = "merged" /\ b.item # 0 /\ op' = Ask("take", None, b, {})
      /\ UNCHANGED <<items, fresh, paused, keys, turn, lastTurn, promoted,
                     receipts, expired, blocks, unresolved, steers, known, fate,
                     delivered>>
  BY <1>0 DEF SteerPending, Merged, queue, turns, steering, client, history
<1>2. Entries' = Entries
  BY <1>1 DEF Entries
<1>3. op.do = "idle" /\ op.pc = "none" 
  BY <1>1 DEF Idle
<1>4. /\ op' \in Operations /\ op'.do = "take" /\ op'.pc = "sent" /\ op'.answer = "none"
      /\ op'.block \in blocks /\ op'.block.role = "merged" /\ op'.block.item # 0
  <2>1. PICK b \in blocks :
            b.role = "merged" /\ b.item # 0 /\ op' = Ask("take", None, b, {})
    BY <1>1
  <2>2. b \in Blocks
    BY <1>0 DEF TypeOK
  <2> QED
    BY <2>1, <2>2 DEF Ask, Idle, Operations
<1>5. \A b : b \in blocks' /\ Unqueued(b)' <=> b \in blocks /\ Unqueued(b)
  BY <1>0, <1>1, <1>3, <1>4 DEF Unqueued, Done
<1>6. \A q \in Prompts :
         /\ (InItem(q)' <=> InItem(q))
         /\ (InBlock(q)' <=> InBlock(q))
         /\ (InDelivery(q)' <=> InDelivery(q))
         /\ (InReceipt(q)' <=> InReceipt(q))
         /\ (InOp(q)' <=> InOp(q))
  <2>1. \A q \in Prompts : InBlock(q)' <=> InBlock(q)
    BY <1>5 DEF InBlock
  <2>2. \A q \in Prompts : InOp(q)' <=> InOp(q)
    BY <1>0, <1>1, <1>3, <1>4 DEF InOp, Done
  <2> QED
    BY <1>1, PlacesKept, <2>1, <2>2
<1>7. \A d \in unresolved' : Open(d)' => d \in unresolved /\ Open(d)
  BY <1>0, <1>1, <1>3, <1>4 DEF Open, Rejected
<1>8. \A q \in Prompts : Undecided(q)' => Undecided(q)
  BY <1>0, <1>1, <1>6, <1>7 DEF Undecided
<1>9. \A id \in Nat, ps \in SUBSET Prompts : Backs(id, ps) => Backs(id, ps)'
  BY <1>0, <1>1, <1>2 DEF Backs
<1>10. /\ ItemsApart' /\ DeliveriesApart' /\ ItemsDisjoint' /\ DeliveriesDisjoint'
       /\ GivenOnce'
  BY <1>1, Kept
<1>11. TypeOK'
  BY <1>0, <1>1, <1>2, <1>3, <1>4 DEF TypeOK
<1>12. OpShape'
  BY <1>0, <1>1, <1>3, <1>4 DEF OpShape, Idle
<1>13. BlocksApart'
  BY <1>0, <1>1, <1>3, <1>4 DEF BlocksApart, Done
<1>14. BlocksBacked'
  BY <1>0, <1>1, <1>2, <1>3, <1>4, <1>9
     DEF BlocksBacked, Changed, Removed, Done, OpShape, TypeOK, Blocks
<1>15. KeysSpent'
  BY <1>0, <1>1, <1>3, <1>4 DEF KeysSpent
<1>16. ReceiptsTrue'
  BY <1>0, <1>1, <1>3, <1>4 DEF ReceiptsTrue, Rejected, Done
<1>17. BlocksDisjoint'
  BY <1>0, <1>5 DEF BlocksDisjoint, PlacesApart, InBlock
<1>18. PlacesApart'
  BY <1>0, <1>1, <1>6 DEF PlacesApart
<1>19. PlacesFresh'
  BY <1>0, <1>1, <1>6, <1>8, UndecidedPlaces DEF PlacesFresh
<1>20. PromptsHeld'
  BY <1>0, <1>1, <1>6 DEF PromptsHeld
<1> QED
  BY <1>10, <1>11, <1>12, <1>13, <1>14, <1>15, <1>16, <1>17, <1>18, <1>19, <1>20
     DEF QueueInv

\* The prompts of the block, which no item has any more, become a delivery.
LEMMA TakenStep ==
    ASSUME QueueInv, Taken
    PROVE  QueueInv'
<1>0. /\ TypeOK /\ OpShape /\ ItemsApart /\ BlocksApart /\ BlocksBacked /\ KeysSpent
      /\ DeliveriesApart /\ ReceiptsTrue /\ ItemsDisjoint /\ BlocksDisjoint
      /\ DeliveriesDisjoint /\ PlacesApart /\ PlacesFresh /\ PromptsHeld /\ GivenOnce
  BY DEF QueueInv
<1>1. /\ op.pc = "answered" /\ op.do = "take" /\ op.answer = "ok" /\ steers' = steers + 1
      /\ blocks' = blocks \ {op.block}
      /\ \E t \in Recent :
            Deliver(Delivery(op.block.prompts, op.block.entry, t, FALSE))
      /\ UNCHANGED <<items, fresh, paused, keys, turn, lastTurn, promoted,
                     receipts, expired, known, fate, delivered>>
  BY <1>0 DEF Taken, Got, queue, turns, steering, client, history
<1>2. Entries' = Entries
  BY <1>1 DEF Entries
<1>3. /\ op.block \in blocks /\ op.block \in Blocks /\ op.block.item # 0
      /\ \A q \in Prompts : InOp(q) <=> q \in op.block.prompts
  BY <1>0, <1>1 DEF OpShape, TypeOK, InOp, Done
<1>4. PICK d \in Deliveries :
          /\ d.prompts = op.block.prompts /\ d.key = steers + 1 /\ d.turn \in 1..lastTurn
          /\ unresolved' = unresolved \cup {d}
          /\ op' = [Idle EXCEPT !.do = "steer", !.pc = "sent", !.delivery = d]
  <2>1. PICK t \in Recent : Deliver(Delivery(op.block.prompts, op.block.entry, t, FALSE))
    BY <1>1
  <2> DEFINE d == Delivery(op.block.prompts, op.block.entry, t, FALSE)
  <2>2. t \in 1..lastTurn /\ steers + 1 \in Nat
    BY <1>0 DEF Recent, TypeOK
  <2>3. /\ op.block.prompts \in SUBSET Prompts /\ op.block.entry \in Prompts
    BY <1>3 DEF Blocks
  <2>4. d \in Deliveries /\ d.prompts = op.block.prompts /\ d.key = steers + 1 /\ d.turn = t
    BY <1>0, <2>2, <2>3 DEF Delivery, Deliveries, TypeOK
  <2>5. Deliver(d)
    BY <2>1
  <2> HIDE DEF d
  <2> QED
    BY <2>2, <2>4, <2>5 DEF Deliver
<1>5. /\ op' \in Operations /\ op'.do = "steer" /\ op'.pc = "sent" /\ op'.answer = "none"
      /\ op'.delivery \in unresolved' /\ op'.delivery = d
  BY <1>4 DEF Operations, Idle
<1>6. \A b : b \in blocks' /\ Unqueued(b)' <=> b \in blocks /\ Unqueued(b)
  BY <1>1, <1>3, <1>5 DEF Unqueued
<1>7. \A q \in Prompts : InDelivery(q)' <=> InDelivery(q) \/ InOp(q)
  BY <1>3, <1>4 DEF InDelivery
<1>8. \A q \in Prompts : ~InOp(q)'
  BY <1>5 DEF InOp
<1>9. \A q \in Prompts :
         /\ (InItem(q)' <=> InItem(q))
         /\ (InBlock(q)' <=> InBlock(q))
         /\ (InReceipt(q)' <=> InReceipt(q))
  <2>1. \A q \in Prompts : InBlock(q)' <=> InBlock(q)
    BY <1>6 DEF InBlock
  <2> QED
    BY <1>1, PlacesKept, <2>1
<1>10. \A e \in unresolved' : Open(e)' => (e \in unresolved /\ Open(e)) \/ e = d
  BY <1>0, <1>1, <1>4, <1>5 DEF Open, Rejected, DeliveriesApart, TypeOK
<1>11. \A q \in Prompts : Undecided(q)' => Undecided(q) \/ InOp(q)
  BY <1>0, <1>1, <1>9, <1>10, <1>3, <1>4 DEF Undecided
<1>12. \A id \in Nat, ps \in SUBSET Prompts : Backs(id, ps) => Backs(id, ps)'
  BY <1>0, <1>1, <1>2 DEF Backs
<1>13. ItemsApart' /\ ItemsDisjoint' /\ GivenOnce'
  BY <1>1, Kept
<1>14. TypeOK'
  BY <1>0, <1>1, <1>4, <1>5 DEF TypeOK
<1>15. OpShape'
  BY <1>5 DEF OpShape
<1>16. BlocksApart'
  BY <1>0, <1>1, <1>5 DEF BlocksApart
<1>17. BlocksBacked'
  <2>1. \A b \in blocks \ {op.block} : b.item # 0 => Backs(b.item, b.prompts)
    BY <1>0, <1>1 DEF BlocksBacked, Changed, Removed
  <2> QED
    BY <1>1, <1>5, <2>1 DEF BlocksBacked, Changed, Removed, Backs, Entries
<1>18. KeysSpent'
  BY <1>0, <1>1, <1>5 DEF KeysSpent
<1>19. DeliveriesApart'
  BY <1>0, <1>1, <1>4 DEF DeliveriesApart, TypeOK
<1>20. ReceiptsTrue'
  BY <1>0, <1>1, <1>5 DEF ReceiptsTrue, Rejected, Done
<1>21. BlocksDisjoint'
  BY <1>0, <1>6 DEF BlocksDisjoint, PlacesApart, InBlock
<1>22. DeliveriesDisjoint'
  <2>1. \A q \in Prompts : q \in d.prompts => ~InDelivery(q) /\ ~InReceipt(q)
    BY <1>0, <1>3, <1>4 DEF PlacesApart
  <2>2. d.prompts \in SUBSET Prompts
    BY DEF Deliveries
  <2>3. \A e \in unresolved : e.prompts \cap d.prompts = {}
    BY <2>1, <2>2 DEF InDelivery
  <2>4. \A k \in DOMAIN receipts : receipts[k].state = "running" =>
            receipts[k].prompts \cap d.prompts = {}
    BY <2>1, <2>2 DEF InReceipt
  <2> QED
    BY <1>0, <1>1, <1>4, <2>3, <2>4 DEF DeliveriesDisjoint
<1>23. PlacesApart'
  BY <1>0, <1>1, <1>7, <1>8, <1>9 DEF PlacesApart
<1>24. PlacesFresh'
  BY <1>0, <1>1, <1>7, <1>8, <1>9, <1>11, UndecidedPlaces DEF PlacesFresh
<1>25. PromptsHeld'
  BY <1>0, <1>1, <1>7, <1>8, <1>9 DEF PromptsHeld
<1> QED
  BY <1>13, <1>14, <1>15, <1>16, <1>17, <1>18, <1>19, <1>20, <1>21, <1>22, <1>23,
     <1>24, <1>25
     DEF QueueInv

\* The block became a turn before it was taken.
LEMMA TakeMissedStep ==
    ASSUME QueueInv, TakeMissed
    PROVE  QueueInv'
<1>0. /\ TypeOK /\ OpShape /\ ItemsApart /\ BlocksApart /\ BlocksBacked /\ KeysSpent
      /\ DeliveriesApart /\ ReceiptsTrue /\ ItemsDisjoint /\ BlocksDisjoint
      /\ DeliveriesDisjoint /\ PlacesApart /\ PlacesFresh /\ PromptsHeld /\ GivenOnce
  BY DEF QueueInv
<1>1. /\ op.pc = "answered" /\ op.do = "take" /\ op.answer = "gone" /\ op' = Idle
      /\ known' = promoted
      /\ blocks' = {b \in blocks : b # op.block \/ b.item \notin promoted}
      /\ UNCHANGED <<items, fresh, paused, keys, turn, lastTurn, promoted,
                     receipts, expired, unresolved, steers, fate, delivered>>
  BY <1>0 DEF TakeMissed, Got, queue, turns, steering, client, history
<1>2. Entries' = Entries
  BY <1>1 DEF Entries
<1>3. /\ op' = Idle /\ op' \in Operations
      /\ op'.do = "idle" /\ op'.pc = "none" /\ op'.answer = "none"
  BY <1>1 DEF Idle, Operations
<1>4. \A b : b \in blocks' /\ Unqueued(b)' <=> b \in blocks /\ Unqueued(b)
  BY <1>0, <1>1, <1>3 DEF Unqueued, Done, OpShape
<1>5. \A q \in Prompts :
         /\ (InItem(q)' <=> InItem(q))
         /\ (InBlock(q)' <=> InBlock(q))
         /\ (InDelivery(q)' <=> InDelivery(q))
         /\ (InReceipt(q)' <=> InReceipt(q))
         /\ (InOp(q)' <=> InOp(q))
  <2>1. \A q \in Prompts : InBlock(q)' <=> InBlock(q)
    BY <1>4 DEF InBlock
  <2>2. \A q \in Prompts : InOp(q)' <=> InOp(q)
    BY <1>0, <1>1, <1>3 DEF InOp, Done
  <2> QED
    BY <1>1, PlacesKept, <2>1, <2>2
<1>6. \A d \in unresolved' : Open(d)' => d \in unresolved /\ Open(d)
  BY <1>0, <1>1, <1>3 DEF Open, Rejected
<1>7. \A q \in Prompts : Undecided(q)' => Undecided(q)
  BY <1>0, <1>1, <1>5, <1>6 DEF Undecided
<1>8. \A id \in Nat, ps \in SUBSET Prompts : Backs(id, ps) => Backs(id, ps)'
  BY <1>0, <1>1, <1>2 DEF Backs
<1>9. /\ ItemsApart' /\ DeliveriesApart' /\ ItemsDisjoint' /\ DeliveriesDisjoint'
      /\ GivenOnce'
  BY <1>1, Kept
<1>10. TypeOK'
  BY <1>0, <1>1, <1>2, <1>3 DEF TypeOK
<1>11. OpShape'
  BY <1>0, <1>1, <1>3 DEF OpShape, Idle
<1>12. BlocksApart'
  BY <1>0, <1>1, <1>3 DEF BlocksApart, Done
<1>13. BlocksBacked'
  BY <1>0, <1>1, <1>2, <1>3, <1>8
     DEF BlocksBacked, Changed, Removed, Done, OpShape, TypeOK, Blocks
<1>14. KeysSpent'
  BY <1>0, <1>1, <1>3 DEF KeysSpent
<1>15. ReceiptsTrue'
  BY <1>0, <1>1, <1>3 DEF ReceiptsTrue, Rejected, Done
<1>16. BlocksDisjoint'
  BY <1>0, <1>4 DEF BlocksDisjoint, PlacesApart, InBlock
<1>17. PlacesApart'
  BY <1>0, <1>1, <1>5 DEF PlacesApart
<1>18. PlacesFresh'
  BY <1>0, <1>1, <1>5, <1>7, UndecidedPlaces DEF PlacesFresh
<1>19. PromptsHeld'
  BY <1>0, <1>1, <1>5 DEF PromptsHeld
<1> QED
  BY <1>9, <1>10, <1>11, <1>12, <1>13, <1>14, <1>15, <1>16, <1>17, <1>18, <1>19
     DEF QueueInv

\* An unconfirmed delivery is sent again under its key.
LEMMA RetrySteeringStep ==
    ASSUME QueueInv, RetrySteering
    PROVE  QueueInv'
<1>0. /\ TypeOK /\ OpShape /\ ItemsApart /\ BlocksApart /\ BlocksBacked /\ KeysSpent
      /\ DeliveriesApart /\ ReceiptsTrue /\ ItemsDisjoint /\ BlocksDisjoint
      /\ DeliveriesDisjoint /\ PlacesApart /\ PlacesFresh /\ PromptsHeld /\ GivenOnce
  BY DEF QueueInv
<1>1. /\ op = Idle
      /\ \E d \in unresolved :
            /\ unresolved' = unresolved \cup {d}
            /\ op' = [Idle EXCEPT !.do = "steer", !.pc = "sent", !.delivery = d]
      /\ UNCHANGED <<items, fresh, paused, keys, turn, lastTurn, promoted,
                     receipts, expired, blocks, steers, known, fate, delivered>>
  BY <1>0 DEF RetrySteering, Deliver, queue, turns, steering, client, history
<1>2. Entries' = Entries
  BY <1>1 DEF Entries
<1>3. unresolved' = unresolved /\ op.do = "idle" /\ op.pc = "none"
  BY <1>1 DEF Idle
<1>4. /\ op' \in Operations /\ op'.do = "steer" /\ op'.pc = "sent" /\ op'.answer = "none"
      /\ op'.delivery \in unresolved'
  <2>1. PICK d \in unresolved : op' = [Idle EXCEPT !.do = "steer", !.pc = "sent", !.delivery = d]
    BY <1>1
  <2>2. d \in Deliveries
    BY <1>0 DEF TypeOK
  <2> QED
    BY <1>3, <2>1, <2>2 DEF Operations, Idle
<1>5. \A b : b \in blocks' /\ Unqueued(b)' <=> b \in blocks /\ Unqueued(b)
  BY <1>0, <1>1, <1>4 DEF Unqueued, Done
<1>6. \A q \in Prompts :
         /\ (InItem(q)' <=> InItem(q))
         /\ (InBlock(q)' <=> InBlock(q))
         /\ (InDelivery(q)' <=> InDelivery(q))
         /\ (InReceipt(q)' <=> InReceipt(q))
         /\ (InOp(q)' <=> InOp(q))
  <2>1. \A q \in Prompts : InBlock(q)' <=> InBlock(q)
    BY <1>5 DEF InBlock
  <2>2. \A q \in Prompts : InDelivery(q)' <=> InDelivery(q)
    BY <1>0, <1>1, <1>3 DEF InDelivery
  <2>3. \A q \in Prompts : InOp(q)' <=> InOp(q)
    BY <1>0, <1>1, <1>4 DEF InOp, OpShape, Done, Idle
  <2> QED
    BY <1>1, PlacesKept, <2>1, <2>2, <2>3
<1>7. \A d \in unresolved' : Open(d)' => d \in unresolved /\ Open(d)
  BY <1>0, <1>1, <1>3, <1>4 DEF Open, Rejected
<1>8. \A q \in Prompts : Undecided(q)' => Undecided(q)
  BY <1>0, <1>1, <1>6, <1>7 DEF Undecided
<1>9. \A id \in Nat, ps \in SUBSET Prompts : Backs(id, ps) => Backs(id, ps)'
  BY <1>0, <1>1, <1>2 DEF Backs
<1>10. ItemsApart' /\ ItemsDisjoint' /\ GivenOnce'
  BY <1>1, Kept
<1>11. TypeOK'
  BY <1>0, <1>1, <1>2, <1>4 DEF TypeOK
<1>12. OpShape'
  BY <1>0, <1>1, <1>4 DEF OpShape, Idle
<1>13. BlocksApart'
  BY <1>0, <1>1, <1>4 DEF BlocksApart, Done
<1>14. BlocksBacked'
  BY <1>0, <1>1, <1>2, <1>4, <1>9
     DEF BlocksBacked, Changed, Removed, Done, OpShape, TypeOK, Blocks
<1>15. KeysSpent'
  BY <1>0, <1>1, <1>4 DEF KeysSpent
<1>16. DeliveriesApart'
  BY <1>0, <1>1, <1>3 DEF DeliveriesApart
<1>17. ReceiptsTrue'
  BY <1>0, <1>1, <1>3, <1>4 DEF ReceiptsTrue, Rejected, Done
<1>18. BlocksDisjoint'
  BY <1>0, <1>5 DEF BlocksDisjoint, PlacesApart, InBlock
<1>19. DeliveriesDisjoint'
  BY <1>0, <1>1, <1>3 DEF DeliveriesDisjoint
<1>20. PlacesApart'
  BY <1>0, <1>1, <1>6 DEF PlacesApart
<1>21. PlacesFresh'
  BY <1>0, <1>1, <1>6, <1>8, UndecidedPlaces DEF PlacesFresh
<1>22. PromptsHeld'
  BY <1>0, <1>1, <1>6 DEF PromptsHeld
<1> QED
  BY <1>10, <1>11, <1>12, <1>13, <1>14, <1>15, <1>16, <1>17, <1>18, <1>19, <1>20,
     <1>21, <1>22
     DEF QueueInv

\* A confirmed delivery needs no retry: its prompts are the model's.
LEMMA SteeredStep ==
    ASSUME QueueInv, Steered
    PROVE  QueueInv'
<1>0. /\ TypeOK /\ OpShape /\ ItemsApart /\ BlocksApart /\ BlocksBacked /\ KeysSpent
      /\ DeliveriesApart /\ ReceiptsTrue /\ ItemsDisjoint /\ BlocksDisjoint
      /\ DeliveriesDisjoint /\ PlacesApart /\ PlacesFresh /\ PromptsHeld /\ GivenOnce
  BY DEF QueueInv
<1>1. /\ op.pc = "answered" /\ op.do = "steer" /\ op.answer = "ok" /\ op' = Idle
      /\ unresolved' = unresolved \ {op.delivery}
      /\ UNCHANGED <<items, fresh, paused, keys, turn, lastTurn, promoted,
                     receipts, expired, blocks, steers, known, fate, delivered>>
  BY <1>0 DEF Steered, Got, queue, turns, steering, client, history
<1>2. Entries' = Entries
  BY <1>1 DEF Entries
<1>3. \A q \in op.delivery.prompts : delivered[q] > 0
  BY <1>0, <1>1 DEF ReceiptsTrue, Done
<1>4. /\ op' = Idle /\ op' \in Operations
      /\ op'.do = "idle" /\ op'.pc = "none" /\ op'.answer = "none"
  BY <1>1 DEF Idle, Operations
<1>5. \A b : b \in blocks' /\ Unqueued(b)' <=> b \in blocks /\ Unqueued(b)
  BY <1>0, <1>1, <1>4 DEF Unqueued, Done
<1>6. \A q \in Prompts : 
         /\ InDelivery(q)' => InDelivery(q)
         /\ InDelivery(q) => InDelivery(q)' \/ delivered[q] > 0
  BY <1>1, <1>3 DEF InDelivery
<1>7. \A q \in Prompts :
         /\ (InItem(q)' <=> InItem(q))
         /\ (InBlock(q)' <=> InBlock(q))
         /\ (InReceipt(q)' <=> InReceipt(q))
         /\ (InOp(q)' <=> InOp(q))
  <2>1. \A q \in Prompts : InBlock(q)' <=> InBlock(q)
    BY <1>5 DEF InBlock
  <2>2. \A q \in Prompts : InOp(q)' <=> InOp(q)
    BY <1>0, <1>1, <1>4 DEF InOp, Done
  <2> QED
    BY <1>1, PlacesKept, <2>1, <2>2
<1>8. \A d \in unresolved' : Open(d)' => d \in unresolved /\ Open(d)
  BY <1>0, <1>1, <1>4 DEF Open, Rejected
<1>9. \A q \in Prompts : Undecided(q)' => Undecided(q)
  BY <1>0, <1>1, <1>3, <1>7, <1>8 DEF Undecided
<1>10. \A id \in Nat, ps \in SUBSET Prompts : Backs(id, ps) => Backs(id, ps)'
  BY <1>0, <1>1, <1>2, <1>3 DEF Backs
<1>11. ItemsApart' /\ ItemsDisjoint' /\ GivenOnce'
  BY <1>1, Kept
<1>12. TypeOK'
  BY <1>0, <1>1, <1>2, <1>4 DEF TypeOK
<1>13. OpShape'
  BY <1>0, <1>1, <1>4 DEF OpShape, Idle
<1>14. BlocksApart'
  BY <1>0, <1>1, <1>4 DEF BlocksApart, Done
<1>15. BlocksBacked'
  BY <1>0, <1>1, <1>2, <1>4, <1>10
     DEF BlocksBacked, Changed, Removed, Done, OpShape, TypeOK, Blocks
<1>16. KeysSpent'
  BY <1>0, <1>1, <1>4 DEF KeysSpent
<1>17. DeliveriesApart'
  BY <1>0, <1>1 DEF DeliveriesApart
<1>18. ReceiptsTrue'
  BY <1>0, <1>1, <1>4 DEF ReceiptsTrue, Rejected, Done
<1>19. BlocksDisjoint'
  BY <1>0, <1>3, <1>5 DEF BlocksDisjoint, PlacesApart, InBlock
<1>20. DeliveriesDisjoint'
  BY <1>0, <1>1, <1>3 DEF DeliveriesDisjoint
<1>21. PlacesApart'
  BY <1>0, <1>1, <1>3, <1>6, <1>7 DEF PlacesApart
<1>22. PlacesFresh'
  BY <1>0, <1>1, <1>3, <1>6, <1>7, <1>9, UndecidedPlaces DEF PlacesFresh
<1>23. PromptsHeld'
  BY <1>0, <1>1, <1>3, <1>6, <1>7 DEF PromptsHeld
<1> QED
  BY <1>11, <1>12, <1>13, <1>14, <1>15, <1>16, <1>17, <1>18, <1>19, <1>20, <1>21,
     <1>22, <1>23
     DEF QueueInv

\* _reenqueue_after_failed_steer: a rejected delivery becomes a block again.  It was
\* open, so its prompts were not given to the model.
LEMMA SteerRejectedStep ==
    ASSUME QueueInv, SteerRejected
    PROVE  QueueInv'
<1>0. /\ TypeOK /\ OpShape /\ ItemsApart /\ BlocksApart /\ BlocksBacked /\ KeysSpent
      /\ DeliveriesApart /\ ReceiptsTrue /\ ItemsDisjoint /\ BlocksDisjoint
      /\ DeliveriesDisjoint /\ PlacesApart /\ PlacesFresh /\ PromptsHeld /\ GivenOnce
  BY DEF QueueInv
<1>1. /\ op.pc = "answered" /\ op.do = "steer" /\ op.answer = "rejected"
      /\ unresolved' = unresolved \ {op.delivery}
      /\ \E role \in {"restored", "merged"} :
            /\ role = "merged" => \A c \in blocks : c.role # "merged"
            /\ LET b == Block(op.delivery.prompts, op.delivery.entry, 0, role)
               IN blocks' = blocks \cup {b} /\ op' = Ask("requeue", None, b, b.prompts)
      /\ UNCHANGED <<items, fresh, paused, keys, turn, lastTurn, promoted,
                     receipts, expired, steers, known, fate, delivered>>
  BY <1>0 DEF SteerRejected, Got, Merged, Block, queue, turns, steering, client, history
<1>2. Entries' = Entries
  BY <1>1 DEF Entries
<1>3. /\ op.delivery \in unresolved /\ op.delivery \in Deliveries
      /\ op.delivery.prompts \in SUBSET Prompts /\ Rejected(op.delivery)
  BY <1>0, <1>1 DEF OpShape, TypeOK, Rejected, Deliveries
<1>4. PICK b \in Blocks :
          /\ b.prompts = op.delivery.prompts /\ b.item = 0
          /\ b.role = "merged" => \A c \in blocks : c.role # "merged"
          /\ blocks' = blocks \cup {b} /\ op' = Ask("requeue", None, b, b.prompts)
  <2>1. PICK role \in {"restored", "merged"} :
            /\ role = "merged" => \A c \in blocks : c.role # "merged"
            /\ LET b == Block(op.delivery.prompts, op.delivery.entry, 0, role)
               IN blocks' = blocks \cup {b} /\ op' = Ask("requeue", None, b, b.prompts)
    BY <1>1
  <2> DEFINE b == Block(op.delivery.prompts, op.delivery.entry, 0, role)
  <2>2. b \in Blocks /\ b.prompts = op.delivery.prompts /\ b.item = 0 /\ b.role = role
    BY <1>3 DEF Block, Blocks, Deliveries, Roles
  <2>3. blocks' = blocks \cup {b} /\ op' = Ask("requeue", None, b, b.prompts)
    BY <2>1
  <2> HIDE DEF b
  <2> QED
    BY <2>1, <2>2, <2>3
<1>5. \A q \in op.delivery.prompts :
          /\ InDelivery(q) /\ Undecided(q) /\ ~InReceipt(q) /\ ~InBlock(q) /\ ~InItem(q)
          /\ delivered[q] = 0
  <2>1. \A q \in op.delivery.prompts : InDelivery(q) /\ Undecided(q)
    BY <1>3 DEF InDelivery, Undecided, Open
  <2>2. \A q \in op.delivery.prompts : ~InReceipt(q)
    <3>1. \A k \in DOMAIN receipts : receipts[k].state = "running" =>
              receipts[k].prompts \cap op.delivery.prompts = {}
      BY <1>0, <1>3 DEF DeliveriesDisjoint, ReceiptsTrue
    <3> QED
      BY <3>1 DEF InReceipt
  <2> QED
    BY <1>0, <1>3, <2>1, <2>2 DEF PlacesApart, PlacesFresh
<1>6. /\ op' \in Operations /\ op'.do = "requeue" /\ op'.pc = "sent" /\ op'.answer = "none"
      /\ op'.prompt = None /\ op'.block = b /\ op'.content = b.prompts
  BY <1>4 DEF Ask, Idle, Operations, Blocks
<1>7. \A c : c \in blocks' /\ Unqueued(c)' <=> (c \in blocks /\ Unqueued(c)) \/ c = b
  BY <1>1, <1>4, <1>6 DEF Unqueued, Done
<1>8. \A q \in Prompts : InBlock(q)' <=> InBlock(q) \/ q \in op.delivery.prompts
  BY <1>4, <1>7 DEF InBlock
<1>9. \A q \in Prompts : InDelivery(q)' <=> InDelivery(q) /\ q \notin op.delivery.prompts
  BY <1>0, <1>1, <1>3 DEF InDelivery, DeliveriesDisjoint
<1>10. \A q \in Prompts :
         /\ (InItem(q)' <=> InItem(q))
         /\ (InReceipt(q)' <=> InReceipt(q))
         /\ (InOp(q)' <=> InOp(q))
  <2>1. \A q \in Prompts : InOp(q)' <=> InOp(q)
    BY <1>0, <1>1, <1>3, <1>6 DEF InOp, Done
  <2> QED
    BY SMTT(30), <1>1, PlacesKept, <2>1
<1>11. \A d \in unresolved' : Open(d)' => d \in unresolved /\ Open(d)
  BY <1>0, <1>1, <1>6 DEF Open, Rejected
<1>12. \A q \in Prompts : Undecided(q)' => Undecided(q)
  BY <1>0, <1>1, <1>3, <1>5, <1>10, <1>11 DEF Undecided
<1>13. \A id \in Nat, ps \in SUBSET Prompts : Backs(id, ps) => Backs(id, ps)'
  BY <1>0, <1>1, <1>2, <1>3, <1>5 DEF Backs
<1>14. ItemsApart' /\ ItemsDisjoint' /\ GivenOnce'
  BY <1>1, Kept
<1>15. TypeOK'
  BY <1>0, <1>1, <1>4, <1>6 DEF TypeOK
<1>16. OpShape'
  BY <1>4, <1>6 DEF OpShape
<1>17. BlocksApart'
  <2>1. \A c, e \in blocks' : c.role = "merged" /\ e.role = "merged" => c = e
    BY <1>0, <1>4 DEF BlocksApart
  <2>2. \A c, e \in blocks' : c.item = e.item /\ c.item # 0 => c = e
    BY <1>0, <1>4 DEF BlocksApart
  <2>3. \A c \in blocks' : c.item < fresh'
    BY SMTT(30), <1>0, <1>1, <1>4 DEF BlocksApart, ItemsApart, TypeOK
  <2> QED
    BY <1>6, <2>1, <2>2, <2>3 DEF BlocksApart, Done
<1>18. BlocksBacked'
  <2>1. \A c \in blocks : c.item # 0 => Backs(c.item, c.prompts)
    BY <1>0, <1>1 DEF BlocksBacked, Changed, Removed
  <2>2. \A c \in blocks' : c.item # 0 => c \in blocks
    BY SMTT(30), <1>4
  <2> QED
    BY <1>1, <1>6, <2>1, <2>2 DEF BlocksBacked, Changed, Removed, Done, Backs, Entries
<1>19. KeysSpent'
  BY <1>0, <1>1, <1>3, <1>6 DEF KeysSpent
<1>20. DeliveriesApart'
  BY SMTT(30), <1>0, <1>1 DEF DeliveriesApart
<1>21. ReceiptsTrue'
  BY <1>0, <1>1, <1>6 DEF ReceiptsTrue, Rejected, Done
<1>22. BlocksDisjoint'
  <2>1. \A c \in blocks : Unqueued(c) => c.prompts \cap b.prompts = {}
    BY <1>4, <1>5 DEF InBlock
  <2> QED
    BY <1>0, <1>7, <2>1 DEF BlocksDisjoint
<1>23. DeliveriesDisjoint'
  BY <1>0, <1>1 DEF DeliveriesDisjoint
<1>24. PlacesApart'
  BY <1>0, <1>1, <1>3, <1>5, <1>8, <1>9, <1>10 DEF PlacesApart
<1>25. PlacesFresh'
  BY <1>0, <1>1, <1>3, <1>5, <1>8, <1>9, <1>10, <1>12, UndecidedPlaces
     DEF PlacesFresh
<1>26. PromptsHeld'
  BY <1>0, <1>1, <1>3, <1>5, <1>8, <1>9, <1>10 DEF PromptsHeld
<1> QED
  BY <1>14, <1>15, <1>16, <1>17, <1>18, <1>19, <1>20, <1>21, <1>22, <1>23, <1>24,
     <1>25, <1>26
     DEF QueueInv

\* Without a proof the delivery stays unconfirmed.
LEMMA SteerUnconfirmedStep ==
    ASSUME QueueInv, SteerUnconfirmed
    PROVE  QueueInv'
<1>0. /\ TypeOK /\ OpShape /\ ItemsApart /\ BlocksApart /\ BlocksBacked /\ KeysSpent
      /\ DeliveriesApart /\ ReceiptsTrue /\ ItemsDisjoint /\ BlocksDisjoint
      /\ DeliveriesDisjoint /\ PlacesApart /\ PlacesFresh /\ PromptsHeld /\ GivenOnce
  BY DEF QueueInv
<1>1. op.do = "steer" /\ op' = Idle
      /\ UNCHANGED <<items, fresh, paused, keys, turn, lastTurn, promoted,
                     receipts, expired, blocks, unresolved, steers, known, fate,
                     delivered>>
  BY <1>0 DEF SteerUnconfirmed, queue, turns, steering, client, history
<1>2. Entries' = Entries
  BY <1>1 DEF Entries
<1>3. /\ op' = Idle /\ op' \in Operations
      /\ op'.do = "idle" /\ op'.pc = "none" /\ op'.answer = "none"
  BY <1>1 DEF Idle, Operations
<1>4. \A b : b \in blocks' /\ Unqueued(b)' <=> b \in blocks /\ Unqueued(b)
  BY <1>0, <1>1, <1>3 DEF Unqueued, Done
<1>5. \A q \in Prompts :
         /\ (InItem(q)' <=> InItem(q))
         /\ (InBlock(q)' <=> InBlock(q))
         /\ (InDelivery(q)' <=> InDelivery(q))
         /\ (InReceipt(q)' <=> InReceipt(q))
         /\ (InOp(q)' <=> InOp(q))
  <2>1. \A q \in Prompts : InBlock(q)' <=> InBlock(q)
    BY <1>4 DEF InBlock
  <2>2. \A q \in Prompts : InOp(q)' <=> InOp(q)
    BY <1>0, <1>1, <1>3 DEF InOp, Done
  <2> QED
    BY <1>1, PlacesKept, <2>1, <2>2
<1>6. \A d \in unresolved' : Open(d)' => d \in unresolved /\ Open(d)
  BY <1>0, <1>1, <1>3 DEF Open, Rejected
<1>7. \A q \in Prompts : Undecided(q)' => Undecided(q)
  BY <1>0, <1>1, <1>5, <1>6 DEF Undecided
<1>8. \A id \in Nat, ps \in SUBSET Prompts : Backs(id, ps) => Backs(id, ps)'
  BY <1>0, <1>1, <1>2 DEF Backs
<1>9. /\ ItemsApart' /\ DeliveriesApart' /\ ItemsDisjoint' /\ DeliveriesDisjoint'
      /\ GivenOnce'
  BY <1>1, Kept
<1>10. TypeOK'
  BY <1>0, <1>1, <1>2, <1>3 DEF TypeOK
<1>11. OpShape'
  BY <1>0, <1>1, <1>3 DEF OpShape, Idle
<1>12. BlocksApart'
  BY <1>0, <1>1, <1>3 DEF BlocksApart, Done
<1>13. BlocksBacked'
  BY <1>0, <1>1, <1>2, <1>3, <1>8
     DEF BlocksBacked, Changed, Removed, Done, OpShape, TypeOK, Blocks
<1>14. KeysSpent'
  BY <1>0, <1>1, <1>3 DEF KeysSpent
<1>15. ReceiptsTrue'
  BY <1>0, <1>1, <1>3 DEF ReceiptsTrue, Rejected, Done
<1>16. BlocksDisjoint'
  BY <1>0, <1>4 DEF BlocksDisjoint, PlacesApart, InBlock
<1>17. PlacesApart'
  BY <1>0, <1>1, <1>5 DEF PlacesApart
<1>18. PlacesFresh'
  BY <1>0, <1>1, <1>5, <1>7, UndecidedPlaces DEF PlacesFresh
<1>19. PromptsHeld'
  BY <1>0, <1>1, <1>5 DEF PromptsHeld
<1> QED
  BY <1>9, <1>10, <1>11, <1>12, <1>13, <1>14, <1>15, <1>16, <1>17, <1>18, <1>19
     DEF QueueInv

\* The block stays with the interface, without an item.
LEMMA RequeueRefusedStep ==
    ASSUME QueueInv, RequeueRefused
    PROVE  QueueInv'
<1>0. /\ TypeOK /\ OpShape /\ ItemsApart /\ BlocksApart /\ BlocksBacked /\ KeysSpent
      /\ DeliveriesApart /\ ReceiptsTrue /\ ItemsDisjoint /\ BlocksDisjoint
      /\ DeliveriesDisjoint /\ PlacesApart /\ PlacesFresh /\ PromptsHeld /\ GivenOnce
  BY DEF QueueInv
<1>1. op.pc = "answered" /\ op.do = "requeue" /\ op.answer = "error" /\ op' = Idle
      /\ UNCHANGED <<items, fresh, paused, keys, turn, lastTurn, promoted,
                     receipts, expired, blocks, unresolved, steers, known, fate,
                     delivered>>
  BY <1>0 DEF RequeueRefused, Got, queue, turns, steering, client, history
<1>2. Entries' = Entries
  BY <1>1 DEF Entries
<1>3. /\ op' = Idle /\ op' \in Operations
      /\ op'.do = "idle" /\ op'.pc = "none" /\ op'.answer = "none"
  BY <1>1 DEF Idle, Operations
<1>4. \A b : b \in blocks' /\ Unqueued(b)' <=> b \in blocks /\ Unqueued(b)
  BY <1>0, <1>1, <1>3 DEF Unqueued, Done
<1>5. \A q \in Prompts :
         /\ (InItem(q)' <=> InItem(q))
         /\ (InBlock(q)' <=> InBlock(q))
         /\ (InDelivery(q)' <=> InDelivery(q))
         /\ (InReceipt(q)' <=> InReceipt(q))
         /\ (InOp(q)' <=> InOp(q))
  <2>1. \A q \in Prompts : InBlock(q)' <=> InBlock(q)
    BY <1>4 DEF InBlock
  <2>2. \A q \in Prompts : InOp(q)' <=> InOp(q)
    BY <1>0, <1>1, <1>3 DEF InOp, Done
  <2> QED
    BY <1>1, PlacesKept, <2>1, <2>2
<1>6. \A d \in unresolved' : Open(d)' => d \in unresolved /\ Open(d)
  BY <1>0, <1>1, <1>3 DEF Open, Rejected
<1>7. \A q \in Prompts : Undecided(q)' => Undecided(q)
  BY <1>0, <1>1, <1>5, <1>6 DEF Undecided
<1>8. \A id \in Nat, ps \in SUBSET Prompts : Backs(id, ps) => Backs(id, ps)'
  BY <1>0, <1>1, <1>2 DEF Backs
<1>9. /\ ItemsApart' /\ DeliveriesApart' /\ ItemsDisjoint' /\ DeliveriesDisjoint'
      /\ GivenOnce'
  BY <1>1, Kept
<1>10. TypeOK'
  BY <1>0, <1>1, <1>2, <1>3 DEF TypeOK
<1>11. OpShape'
  BY <1>0, <1>1, <1>3 DEF OpShape, Idle
<1>12. BlocksApart'
  BY <1>0, <1>1, <1>3 DEF BlocksApart, Done
<1>13. BlocksBacked'
  BY <1>0, <1>1, <1>2, <1>3, <1>8
     DEF BlocksBacked, Changed, Removed, Done, OpShape, TypeOK, Blocks
<1>14. KeysSpent'
  BY <1>0, <1>1, <1>3 DEF KeysSpent
<1>15. ReceiptsTrue'
  BY <1>0, <1>1, <1>3 DEF ReceiptsTrue, Rejected, Done
<1>16. BlocksDisjoint'
  BY <1>0, <1>4 DEF BlocksDisjoint, PlacesApart, InBlock
<1>17. PlacesApart'
  BY <1>0, <1>1, <1>5 DEF PlacesApart
<1>18. PlacesFresh'
  BY <1>0, <1>1, <1>5, <1>7, UndecidedPlaces DEF PlacesFresh
<1>19. PromptsHeld'
  BY <1>0, <1>1, <1>5 DEF PromptsHeld
<1> QED
  BY <1>9, <1>10, <1>11, <1>12, <1>13, <1>14, <1>15, <1>16, <1>17, <1>18, <1>19
     DEF QueueInv

-----------------------------------------------------------------------------
(* The interface: events *)

\* turn_started: a block whose item became a turn is dropped.
LEMMA SettleStep ==
    ASSUME QueueInv, Settle
    PROVE  QueueInv'
<1>0. /\ TypeOK /\ OpShape /\ ItemsApart /\ BlocksApart /\ BlocksBacked /\ KeysSpent
      /\ DeliveriesApart /\ ReceiptsTrue /\ ItemsDisjoint /\ BlocksDisjoint
      /\ DeliveriesDisjoint /\ PlacesApart /\ PlacesFresh /\ PromptsHeld /\ GivenOnce
  BY DEF QueueInv
<1>1. /\ op = Idle
      /\ \E b \in blocks : b.item # 0 /\ blocks' = blocks \ {b}
      /\ UNCHANGED <<items, fresh, paused, keys, turn, lastTurn, promoted,
                     receipts, expired, unresolved, steers, known, op, fate,
                     delivered>>
  BY <1>0 DEF Settle, Started, queue, turns, steering, client, history
<1>2. Entries' = Entries
  BY <1>1 DEF Entries
<1>3. /\ op.do = "idle" /\ op.pc = "none" /\ op' = Idle /\ blocks' \subseteq blocks
      /\ \A b \in blocks : b.item = 0 => b \in blocks'
  BY <1>1 DEF Idle
<1>4. \A b : b \in blocks' /\ Unqueued(b)' <=> b \in blocks /\ Unqueued(b)
  BY <1>0, <1>1 DEF Unqueued, Done
<1>5. \A q \in Prompts :
         /\ (InItem(q)' <=> InItem(q))
         /\ (InBlock(q)' <=> InBlock(q))
         /\ (InDelivery(q)' <=> InDelivery(q))
         /\ (InReceipt(q)' <=> InReceipt(q))
         /\ (InOp(q)' <=> InOp(q))
  <2>1. \A q \in Prompts : InBlock(q)' <=> InBlock(q)
    BY <1>4 DEF InBlock
  <2> QED
    BY <1>1, PlacesKept, <2>1
<1>6. \A d \in unresolved' : Open(d)' => d \in unresolved /\ Open(d)
  BY <1>0, <1>1 DEF Open, Rejected
<1>7. \A q \in Prompts : Undecided(q)' => Undecided(q)
  BY <1>0, <1>1, <1>5, <1>6 DEF Undecided
<1>8. \A id \in Nat, ps \in SUBSET Prompts : Backs(id, ps) => Backs(id, ps)'
  BY <1>0, <1>1, <1>2 DEF Backs
<1>9. /\ ItemsApart' /\ KeysSpent' /\ DeliveriesApart' /\ ReceiptsTrue'
      /\ ItemsDisjoint' /\ DeliveriesDisjoint' /\ GivenOnce'
  BY <1>1, Kept
<1>10. TypeOK'
  BY <1>0, <1>1, <1>2 DEF TypeOK
<1>11. OpShape'
  BY <1>3 DEF OpShape, Idle
<1>12. BlocksApart'
  BY <1>0, <1>1 DEF BlocksApart, Done
<1>13. BlocksBacked'
  <2>1. \A c \in blocks : c.item # 0 => Backs(c.item, c.prompts)
    BY <1>0, <1>3 DEF BlocksBacked, Changed, Removed
  <2> QED
    BY <1>1, <1>3, <2>1 DEF BlocksBacked, Changed, Removed, Done, Backs, Entries
<1>14. BlocksDisjoint'
  BY <1>0, <1>4 DEF BlocksDisjoint, PlacesApart, InBlock
<1>15. PlacesApart'
  BY <1>0, <1>1, <1>5 DEF PlacesApart
<1>16. PlacesFresh'
  BY <1>0, <1>1, <1>5, <1>7, UndecidedPlaces DEF PlacesFresh
<1>17. PromptsHeld'
  BY <1>0, <1>1, <1>5 DEF PromptsHeld
<1> QED
  BY <1>9, <1>10, <1>11, <1>12, <1>13, <1>14, <1>15, <1>16, <1>17 DEF QueueInv

\* The session is reset: all turns count as expired, so no unconfirmed delivery is
\* thought rejected.
LEMMA ResetStep ==
    ASSUME QueueInv, Reset
    PROVE  QueueInv'
<1>0. /\ TypeOK /\ OpShape /\ ItemsApart /\ BlocksApart /\ BlocksBacked /\ KeysSpent
      /\ DeliveriesApart /\ ReceiptsTrue /\ ItemsDisjoint /\ BlocksDisjoint
      /\ DeliveriesDisjoint /\ PlacesApart /\ PlacesFresh /\ PromptsHeld /\ GivenOnce
  BY DEF QueueInv
<1>1. /\ op = Idle /\ op' = op /\ items' = <<>> /\ paused' = FALSE /\ keys' = <<>> /\ turn' = 0
      /\ receipts' = <<>> /\ expired' = 1..MaxTurns /\ blocks' = {}
      /\ fate' = [q \in Prompts |->
                    IF q \in {p \in Prompts : fate[p] = "held" /\
                                \A d \in unresolved : p \notin d.prompts}
                    THEN "cleared" ELSE fate[q]]
      /\ UNCHANGED <<fresh, lastTurn, promoted, unresolved, steers, known, op,
                     delivered>>
  BY <1>0 DEF Reset, Fate, queue, turns, steering, client, history
<1>2. items' \in Seq(Item) /\ Apart(items') /\ Entries' = {}
  BY <1>1, EmptySeq DEF Apart, Entries, Range
<1>3. DOMAIN receipts' = {} /\ receipts' \in [DOMAIN receipts' -> Receipts] /\ DOMAIN keys' = {}
  BY <1>1
<1>4. /\ fate' \in [Prompts -> Fates]
      /\ \A q \in Prompts :
            fate'[q] = IF fate[q] = "held" /\ ~InDelivery(q) THEN "cleared" ELSE fate[q]
  BY <1>0, <1>1 DEF TypeOK, Fates, InDelivery
<1>5. op' = Idle /\ op.do = "idle" /\ op.pc = "none" 
  BY <1>1 DEF Idle
<1>6. \A q \in Prompts : ~InItem(q)'
  BY <1>2 DEF InItem
<1>7. \A q \in Prompts : ~InBlock(q)'
  BY <1>1 DEF InBlock
<1>8. \A q \in Prompts : ~InReceipt(q)'
  BY <1>3 DEF InReceipt
<1>9. \A q \in Prompts : ~InOp(q)' /\ ~InOp(q)
  BY <1>1, <1>5 DEF InOp
<1>10. \A q \in Prompts :
         /\ (InDelivery(q)' <=> InDelivery(q))
  BY <1>1, PlacesKept
<1>11. \A d \in unresolved' : ~Open(d)'
  <2>1. \A d \in unresolved' : d.turn \in expired' /\ d.turn # turn'
    BY <1>0, <1>1, QueueAssumption DEF DeliveriesApart, TypeOK
  <2>2. \A d \in unresolved' : ~Rejected(d)'
    BY <1>1, <1>5 DEF Rejected
  <2> QED
    BY <1>3, <2>1, <2>2 DEF Open
<1>12. \A q \in Prompts : ~Undecided(q)'
  BY <1>0, <1>1, <1>8, <1>10, <1>11 DEF Undecided
<1>13. TypeOK'
  <2>1. paused' = FALSE /\ turn' = 0 /\ expired' = 1..MaxTurns /\ blocks' = {}
    BY <1>1
  <2>2. expired' \subseteq Nat
    BY <2>1, QueueAssumption
  <2>3. UNCHANGED <<fresh, lastTurn, promoted, unresolved, steers, known, op, delivered>>
    BY <1>1
  <2> QED
    BY <1>0, <1>2, <1>3, <1>4, <1>5, <2>1, <2>2, <2>3 DEF TypeOK
<1>14. OpShape'
  BY <1>5 DEF OpShape, Idle
<1>15. ItemsApart'
  BY <1>0, <1>1, <1>2 DEF ItemsApart
<1>16. BlocksApart'
  BY <1>1, <1>5 DEF BlocksApart, Done
<1>17. BlocksBacked'
  BY <1>1, <1>5 DEF BlocksBacked, Done
<1>18. KeysSpent'
  BY <1>3 DEF KeysSpent
<1>19. DeliveriesApart'
  BY <1>0, <1>1, <1>3 DEF DeliveriesApart
<1>20. ReceiptsTrue'
  BY <1>1, <1>3, <1>5 DEF ReceiptsTrue, Rejected
<1>21. ItemsDisjoint'
  BY <1>2 DEF ItemsDisjoint
<1>22. BlocksDisjoint'
  BY <1>1 DEF BlocksDisjoint
<1>23. DeliveriesDisjoint'
  BY <1>0, <1>1, <1>3 DEF DeliveriesDisjoint
<1>24. PlacesApart'
  BY <1>0, <1>1, <1>6, <1>7, <1>8, <1>9, <1>10 DEF PlacesApart
<1>25. PlacesFresh'
  BY <1>0, <1>1, <1>4, <1>6, <1>7, <1>8, <1>9, <1>10, <1>12, UndecidedPlaces
     DEF PlacesFresh
<1>26. PromptsHeld'
  BY <1>0, <1>1, <1>4, <1>6, <1>7, <1>8, <1>9, <1>10 DEF PromptsHeld
<1>27. GivenOnce'
  BY <1>0, <1>1, <1>4, <1>6, <1>7, <1>8, <1>9, <1>10 DEF GivenOnce
<1> QED
  BY <1>13, <1>14, <1>15, <1>16, <1>17, <1>18, <1>19, <1>20, <1>21, <1>22, <1>23,
     <1>24, <1>25, <1>26, <1>27
     DEF QueueInv

\* pop_at: the prompt of a block without an item, or a request to the server.
LEMMA PopStep ==
    ASSUME QueueInv, NEW p \in Prompts, Pop(p)
    PROVE  QueueInv'
  BY PopHere, PopAsked

\* enqueue_prompt: one of three requests.
LEMMA SubmitStep ==
    ASSUME QueueInv, NEW p \in Prompts, Submit(p)
    PROVE  QueueInv'
<1>1. CASE op' = Ask("optimistic", p, Block({p}, p, 0, "optimistic"), {p})
  <2>1. op'.do = "optimistic"
    BY <1>1 DEF Ask, Idle
  <2> QED
    BY <2>1, SubmitAlone
<1>2. CASE Create(p, {b \in blocks : ~Started(b) \/ b.role # "merged"})
  <2>1. op'.do = "create"
    BY <1>2, CreateFacts DEF Ask, Idle
  <2> QED
    BY <2>1, SubmitCreated
<1>3. CASE \E b \in Merged : op' = Ask("append", p, b, b.prompts \cup {p})
  <2>1. op'.do = "append"
    BY <1>3 DEF Ask, Idle
  <2> QED
    BY <2>1, SubmitJoined
<1> QED
  BY <1>1, <1>2, <1>3 DEF Submit

-----------------------------------------------------------------------------
(* The theorems *)

\* At the start every prompt is new and nothing is queued.
LEMMA InitQueue == Init => QueueInv
<1> SUFFICES ASSUME Init PROVE QueueInv
  OBVIOUS
<1>1. /\ items \in Seq(Item) /\ Apart(items) /\ Entries = {}
      /\ receipts \in [DOMAIN receipts -> Receipts] /\ DOMAIN receipts = {}
      /\ DOMAIN keys = {}
  BY EmptySeq DEF Init, Apart, Entries, Range
<1>2. op \in Operations /\ op.do = "idle" /\ op.pc = "none" /\ op.answer = "none"
  BY DEF Init, Idle, Operations
<1>3. /\ fate \in [Prompts -> Fates] /\ delivered \in [Prompts -> Nat]
      /\ \A q \in Prompts : fate[q] = "new" /\ delivered[q] = 0
  BY DEF Init, Fates
<1>4. TypeOK
  <2>1. /\ fresh = 1 /\ paused = FALSE /\ turn = 0 /\ lastTurn = 0 /\ promoted = {}
        /\ expired = {} /\ blocks = {} /\ unresolved = {} /\ steers = 0 /\ known = {}
    BY DEF Init
  <2> QED
    BY <1>1, <1>2, <1>3, <2>1 DEF TypeOK
<1>5. OpShape /\ BlocksApart /\ BlocksBacked
  BY <1>2 DEF Init, OpShape, BlocksApart, BlocksBacked, Done
<1>6. ItemsApart /\ ItemsDisjoint /\ BlocksDisjoint
  BY <1>1 DEF Init, ItemsApart, ItemsDisjoint, BlocksDisjoint
<1>7. KeysSpent /\ DeliveriesDisjoint
  BY <1>1 DEF Init, KeysSpent, DeliveriesDisjoint
<1>8. DeliveriesApart /\ ReceiptsTrue
  BY <1>1, <1>2, QueueAssumption DEF Init, DeliveriesApart, ReceiptsTrue
<1>9. \A q : /\ ~InItem(q) /\ ~InBlock(q) /\ ~InDelivery(q) /\ ~InReceipt(q) /\ ~InOp(q)
             /\ ~Undecided(q)
  BY <1>1, <1>2
     DEF Init, InItem, InBlock, InDelivery, InReceipt, InOp, Undecided
<1>10. PlacesApart /\ PlacesFresh /\ PromptsHeld /\ GivenOnce
  BY <1>3, <1>9 DEF PlacesApart, PlacesFresh, PromptsHeld, GivenOnce
<1> QED
  BY <1>4, <1>5, <1>6, <1>7, <1>8, <1>10 DEF QueueInv

\* No step of the server, of the interface or of the two together breaks it.
LEMMA NextQueue == QueueInv /\ [Next]_vars => QueueInv'
<1> SUFFICES ASSUME QueueInv, [Next]_vars PROVE QueueInv'
  OBVIOUS
<1>1. CASE UNCHANGED vars
  <2>1. known \in SUBSET promoted /\ paused \in BOOLEAN
    BY DEF QueueInv, TypeOK
  <2> QED
    BY <1>1, <2>1, Quiet DEF vars, queue, turns, steering, client, history
<1>2. ASSUME NEW interrupted \in BOOLEAN, TurnEnds(interrupted) PROVE QueueInv'
  <2>1. paused' \in BOOLEAN /\ turn' \in {0, turn} /\ known' \in SUBSET promoted
    BY <1>2 DEF TurnEnds, QueueInv, TypeOK
  <2> QED
    BY <1>2, <2>1, Quiet DEF TurnEnds, steering, client, history
<1>3. CASE Resume
  <2>1. paused' \in BOOLEAN /\ known' \in SUBSET promoted
    BY <1>3 DEF Resume, QueueInv, TypeOK
  <2> QED
    BY <1>3, <2>1, Quiet DEF Resume, turns, steering, client, history
<1>4. ASSUME NEW id \in 1..fresh, Learn(id) PROVE QueueInv'
  <2>1. known' \in SUBSET promoted /\ paused \in BOOLEAN
    BY <1>4 DEF Learn, QueueInv, TypeOK
  <2> QED
    BY <1>4, <2>1, Quiet DEF Learn, queue, turns, steering, client, history
<1>5. CASE Promote \/ Refuse \/ Enqueue \/ Replace \/ Remove
  BY <1>5, PromoteStep, RefuseStep, EnqueueStep, ReplaceStep, RemoveStep
<1>6. CASE Steer \/ SteerAnswered
  BY <1>6, SteerStep, SteerAnsweredStep
<1>7. CASE \E k \in 1..MaxSteers : SteerRuns(k) \/ Prune(k)
  BY <1>7, SteerRunsStep, PruneStep
<1>8. CASE \E p \in Prompts : Submit(p) \/ Pop(p) \/ SteerPrepared(p)
  BY <1>8, SubmitStep, PopStep, SteerPreparedStep
<1>9. CASE Created \/ CreateRefused \/ Appended \/ AppendRefused \/ AppendMissed
  BY <1>9, CreatedStep, CreateRefusedStep, AppendedStep, AppendRefusedStep,
     AppendMissedStep
<1>10. CASE Discard \/ Popped \/ PopMissed \/ Settle \/ Reset
  BY <1>10, DiscardStep, PoppedStep, PopMissedStep, SettleStep, ResetStep
<1>11. CASE SteerPending \/ Taken \/ TakeMissed \/ RetrySteering
  BY <1>11, SteerPendingStep, TakenStep, TakeMissedStep, RetrySteeringStep
<1>12. CASE Steered \/ SteerRejected \/ SteerUnconfirmed \/ RequeueRefused
  BY <1>12, SteeredStep, SteerRejectedStep, SteerUnconfirmedStep, RequeueRefusedStep
<1> QED
  BY <1>1, <1>2, <1>3, <1>4, <1>5, <1>6, <1>7, <1>8, <1>9, <1>10, <1>11, <1>12
     DEF Next

\* However turns, requests, removals and unconfirmed deliveries cross, each prompt
\* is in one place at most, is fresh while it waits, and each block of the
\* interface says what the server's item has.
THEOREM Whereabouts == Spec => []QueueInv
  BY InitQueue, NextQueue, PTL DEF Spec

\* The model is given no prompt twice, and none that the user was told is refused
\* or out of the queue (steer_pending, steer_committed, pop_at).
THEOREM Once == Spec => []DeliveredOnce
<1>1. ASSUME QueueInv, NEW p \in Prompts
      PROVE  delivered[p] <= IF fate[p] \in {"refused", "dropped"} THEN 0 ELSE 1
  <2>1. delivered[p] \in Nat
    BY <1>1 DEF QueueInv, TypeOK
  <2>2. delivered[p] <= IF fate[p] \in {"new", "refused", "dropped"} THEN 0 ELSE 1
    BY <1>1 DEF QueueInv, GivenOnce
  <2> QED
    BY <2>1, <2>2
<1>2. QueueInv => DeliveredOnce
  BY <1>1 DEF DeliveredOnce
<1> QED
  BY <1>2, Whereabouts, PTL

\* An accepted prompt was given to the model or waits where it still can be
\* (_enqueue_merged, _reenqueue_after_failed_steer).
THEOREM Held == Spec => []NothingLost
<1>1. ASSUME QueueInv, NEW p \in Prompts,
             InItem(p) \/ InBlock(p) \/ InDelivery(p) \/ InOp(p)
      PROVE  Waiting(p)
  <2>1. CASE InItem(p)
    BY <2>1 DEF InItem, Entries, Range, Waiting
  <2>2. CASE InBlock(p) \/ InDelivery(p)
    BY <2>2 DEF InBlock, InDelivery, Unqueued, Waiting
  <2>3. CASE InOp(p)
    BY <2>3 DEF InOp, Waiting
  <2> QED
    BY <1>1, <2>1, <2>2, <2>3
<1>2. QueueInv => NothingLost
  BY <1>1 DEF QueueInv, PromptsHeld, NothingLost
<1> QED
  BY <1>2, Whereabouts, PTL
=============================================================================
