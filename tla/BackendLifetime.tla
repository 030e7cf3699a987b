-------------------------- MODULE BackendLifetime --------------------------
(***************************************************************************)
(* The ownership of provider clients by one agent loop                     *)
(* (chartreux/core/agent_loop/backend_lifetime.py) together with every     *)
(* caller that moves the active client: the failover attempts of the       *)
(* completion coordinator, the launch reconfiguration of a retained child, *)
(* the configuration reload, the refresh at suspension and resume, the     *)
(* turn that drains deferred closes and the manual compaction that calls   *)
(* the model outside a turn.  A client that was prepared and then given up *)
(* before it was published is left out: its transport opens on first use.  *)
(*                                                                         *)
(* Everything between two awaits of the code is one action, since the loop *)
(* runs on one asyncio thread.  A close is counted when it is committed,   *)
(* that is when its task is created or aclose issues it: the task then     *)
(* runs without further conditions.                                        *)
(***************************************************************************)
EXTENDS Naturals, FiniteSets

CONSTANTS
    Backends,   \* the client objects the factory can build
    Attempts,   \* the completion attempts that may be in flight
    Initial,    \* the client the loop is constructed with
    None        \* no client

ASSUME BackendAssumption ==
    /\ Initial \in Backends
    /\ None \notin Backends
    /\ IsFiniteSet(Attempts)

VARIABLES
    active,     \* _active
    retired,    \* _retired: detached, close deferred
    pubs,       \* attempt -> its publication, or NoPub (_publications)
    holds,      \* attempt -> the client it borrows (_borrow_counts), or None
    closed,     \* _closed
    exits,      \* client -> how many times __aexit__ was committed
    made,       \* the clients built so far
    mode,       \* "turn": _active_turn is set; "compaction": a manual one
    write       \* the configuration write in progress

vars == <<active, retired, pubs, holds, closed, exits, made, mode, write>>

NoPub == [previous |-> None, replacement |-> None]
NoWrite == [phase |-> "none", backend |-> None]

Publications == {NoPub} \cup [previous : Backends, replacement : Backends]
Writes == {NoWrite} \cup
          [phase : {"prepared", "settled"}, backend : Backends]

Fresh == Backends \ made

\* Nothing holds the execution admission of the session.
Idle == mode = "idle" /\ write = NoWrite

(***************************************************************************)
(* The lifetime object.  Its methods are operators on the state they read  *)
(* and the state they leave, so that a caller that makes several calls     *)
(* without an await is one action.  owned is the pair the methods change.  *)
(***************************************************************************)
Borrowed(h) == {h[a] : a \in Attempts} \ {None}

\* Defect: the borrow counts are ignored when deferred closes are scheduled.
ScheduleClosesIgnoringBorrows(owned, h) ==
    [retired |-> {},
     exits   |-> [b \in Backends |->
                    IF b \in owned.retired THEN owned.exits[b] + 1
                                           ELSE owned.exits[b]]]

\* _schedule_eligible_closes: every retired client nobody borrows gets a
\* close task, the others stay retired
ScheduleCloses(owned, h) ==
    LET eligible == owned.retired \ Borrowed(h)
    IN [retired |-> owned.retired \cap Borrowed(h),
        exits   |-> [b \in Backends |->
                       IF b \in eligible THEN owned.exits[b] + 1
                                         ELSE owned.exits[b]]]

\* retire
Retire(owned, b, wholeTurn, h) ==
    LET appended == [retired |-> owned.retired \cup {b}, exits |-> owned.exits]
    IN IF closed \/ b \in owned.retired
       THEN owned
       ELSE IF wholeTurn \/ b \in Borrowed(h)
            THEN appended
            ELSE ScheduleCloses(appended, h)

\* drain, called by owners that state that no turn is active
Drain(owned, h) == IF closed THEN owned ELSE ScheduleCloses(owned, h)

Owned == [retired |-> retired, exits |-> exits]

SetOwned(owned) ==
    /\ retired' = owned.retired
    /\ exits' = owned.exits

\* Defect: the restored client is lost.
RollbackToNone(p) == IF active = p.replacement THEN None ELSE active

\* BackendPublish.rollback: the client left active, and the one to retire
RollbackActive(p) == IF active = p.replacement THEN p.previous ELSE active
RollbackRetires(p) == IF active = p.replacement THEN p.replacement
                                                ELSE p.previous

(***************************************************************************)
(* Initial state and the turn.                                             *)
(***************************************************************************)
Init ==
    /\ active = Initial
    /\ retired = {}
    /\ pubs = [a \in Attempts |-> NoPub]
    /\ holds = [a \in Attempts |-> None]
    /\ closed = FALSE
    /\ exits = [b \in Backends |-> 0]
    /\ made = {Initial}
    /\ mode = "idle"
    /\ write = NoWrite

\* AgentLoop.act: the deferred closes are drained, then the turn registers
StartTurn ==
    /\ Idle /\ ~closed
    /\ SetOwned(Drain(Owned, holds))
    /\ mode' = "turn"
    /\ UNCHANGED <<active, pubs, holds, closed, made, write>>

\* the finally of AgentLoop.act
EndTurn ==
    /\ mode = "turn"
    /\ \A a \in Attempts : holds[a] = None
    /\ mode' = "idle"
    /\ SetOwned(Drain(Owned, holds))
    /\ UNCHANGED <<active, pubs, holds, closed, made, write>>

\* session/compact reserves the execution and registers no turn with the loop
StartCompaction ==
    /\ Idle /\ ~closed
    /\ mode' = "compaction"
    /\ UNCHANGED <<active, retired, pubs, holds, closed, exits, made, write>>

EndCompaction ==
    /\ mode = "compaction"
    /\ \A a \in Attempts : holds[a] = None
    /\ mode' = "idle"
    /\ UNCHANGED <<active, retired, pubs, holds, closed, exits, made, write>>

(***************************************************************************)
(* Completion attempts.  The coordinator runs one at a time per loop; the  *)
(* lifetime itself also settles overlapping publications ("a newer         *)
(* publication always wins"), so Attempts may have several.                *)
(* Publication, identity commit and borrow have no await between them, and *)
(* neither have the end of the borrow and the settlement.                  *)
(***************************************************************************)
BeginAttempt(a, b) ==
    /\ mode # "idle" /\ ~closed
    /\ holds[a] = None
    /\ b \in Fresh
    /\ made' = made \cup {b}
    /\ pubs' = [pubs EXCEPT ![a] = [previous |-> active, replacement |-> b]]
    /\ active' = b
    /\ holds' = [holds EXCEPT ![a] = b]
    /\ UNCHANGED <<retired, closed, exits, mode, write>>

\* an attempt without failover candidates only borrows the active client
BorrowActive(a) ==
    /\ mode # "idle" /\ ~closed
    /\ holds[a] = None
    /\ holds' = [holds EXCEPT ![a] = active]
    /\ UNCHANGED <<active, retired, pubs, closed, exits, made, mode, write>>

EndBorrow(a) ==
    /\ holds[a] # None
    /\ pubs[a] = NoPub
    /\ holds' = [holds EXCEPT ![a] = None]
    /\ UNCHANGED <<active, retired, pubs, closed, exits, made, mode, write>>

\* finalize_attempt: BackendPublish.finalize(whole_turn_active=True)
AttemptSucceeds(a) ==
    LET h == [holds EXCEPT ![a] = None]
    IN /\ pubs[a] # NoPub
       /\ holds' = h
       /\ SetOwned(Retire(Owned, pubs[a].previous, TRUE, h))
       /\ pubs' = [pubs EXCEPT ![a] = NoPub]
       /\ UNCHANGED <<active, closed, made, mode, write>>

\* a failed attempt rolls its publication back and drains, in mid turn;
\* a cancelled one only rolls back
AttemptFails(a, cancelled) ==
    LET h == [holds EXCEPT ![a] = None]
        undone == Retire(Owned, RollbackRetires(pubs[a]), FALSE, h)
    IN /\ pubs[a] # NoPub
       /\ holds' = h
       /\ active' = RollbackActive(pubs[a])
       /\ SetOwned(IF cancelled THEN undone ELSE Drain(undone, h))
       /\ pubs' = [pubs EXCEPT ![a] = NoPub]
       /\ UNCHANGED <<closed, made, mode, write>>

(***************************************************************************)
(* Reconfiguration.                                                        *)
(***************************************************************************)
\* accept_background publishes the prepared client of a retained child, starts
\* its turn and finalizes with whole_turn_active=True, all without an await
LaunchReconfigure(b) ==
    /\ Idle /\ ~closed
    /\ b \in Fresh
    /\ made' = made \cup {b}
    /\ active' = b
    /\ SetOwned(Retire(Owned, active, TRUE, holds))
    /\ UNCHANGED <<pubs, holds, closed, mode, write>>

\* the start action fails: rollback_launch_reconfiguration
LaunchReconfigureFails(b) ==
    /\ Idle /\ ~closed
    /\ b \in Fresh
    /\ made' = made \cup {b}
    /\ SetOwned(Retire(Owned, b, FALSE, holds))
    /\ UNCHANGED <<active, pubs, holds, closed, mode, write>>

\* reload_with_initial_messages commits its prepared client (_commit_reload).
\* It is awaited within turns, and a trust decision awaits it with no
\* reservation held, so that other work may have begun.
CommitReload(b) ==
    /\ ~closed
    /\ b \in Fresh
    /\ made' = made \cup {b}
    /\ active' = b
    /\ SetOwned(Retire(Owned, active, mode = "turn", holds))
    /\ UNCHANGED <<pubs, holds, closed, mode, write>>

\* _commit_reload raises after publishing and rolls back
CommitReloadFails(b) ==
    /\ ~closed
    /\ b \in Fresh
    /\ made' = made \cup {b}
    /\ SetOwned(Retire(Owned, b, FALSE, holds))
    /\ UNCHANGED <<active, pubs, holds, closed, mode, write>>

\* refresh_backend_for_resume, at suspension and at resume, on a resident
\* (hence open) runtime: BackendLifetime.replace
RefreshForResume(b) ==
    /\ Idle /\ ~closed
    /\ b \in Fresh
    /\ made' = made \cup {b}
    /\ active' = b
    /\ SetOwned(Retire(Owned, active, FALSE, holds))
    /\ UNCHANGED <<pubs, holds, closed, mode, write>>

(***************************************************************************)
(* A configuration write: reserve_config keeps turns out from preparation  *)
(* to the finally block, with awaits (source IO) in between.               *)
(***************************************************************************)
WritePrepare(b) ==
    /\ Idle /\ ~closed
    /\ b \in Fresh
    /\ made' = made \cup {b}
    /\ write' = [phase |-> "prepared", backend |-> b]
    /\ UNCHANGED <<active, retired, pubs, holds, closed, exits, mode>>

\* _commit_reload: publish and finalize
WriteCommit ==
    /\ write.phase = "prepared" /\ ~closed
    /\ active' = write.backend
    /\ SetOwned(Retire(Owned, active, mode = "turn", holds))
    /\ write' = [write EXCEPT !.phase = "settled"]
    /\ UNCHANGED <<pubs, holds, closed, made, mode>>

\* _commit_reload raises after publishing: rollback retires the replacement
WriteCommitFails ==
    /\ write.phase = "prepared" /\ ~closed
    /\ SetOwned(Retire(Owned, write.backend, FALSE, holds))
    /\ write' = [write EXCEPT !.phase = "settled"]
    /\ UNCHANGED <<active, pubs, holds, closed, made, mode>>

\* the finally block of the write, reached from any outcome: a prepared
\* client that is not the active one is retired
WriteEnd ==
    /\ write # NoWrite
    /\ write' = NoWrite
    /\ SetOwned(IF write.backend = active THEN Owned
                ELSE Retire(Owned, write.backend, mode = "turn", holds))
    /\ UNCHANGED <<active, pubs, holds, closed, made, mode>>

(***************************************************************************)
(* aclose: every client the lifetime still owns is closed, once each, and  *)
(* publications are forgotten by the lifetime (their owners still settle   *)
(* them).  Clients already handed to a close task are joined.              *)
(***************************************************************************)
Pending == {pubs[a].previous : a \in Attempts} \cup
           {pubs[a].replacement : a \in Attempts}

\* Defect: aclose overlooks the unsettled publications.
CloseSetWithoutPending == {active} \cup retired

CloseSet == ({active} \cup retired \cup Pending) \ {None}

Close ==
    /\ ~closed
    /\ write = NoWrite
    /\ closed' = TRUE
    /\ exits' = [b \in Backends |-> IF b \in CloseSet THEN exits[b] + 1
                                                      ELSE exits[b]]
    /\ retired' = {}
    /\ UNCHANGED <<active, pubs, holds, made, mode, write>>

Finished ==
    /\ closed /\ Idle
    /\ UNCHANGED vars

Next ==
    \/ StartTurn \/ EndTurn \/ StartCompaction \/ EndCompaction
    \/ \E a \in Attempts :
          \/ BorrowActive(a) \/ EndBorrow(a)
          \/ AttemptSucceeds(a)
          \/ \E cancelled \in BOOLEAN : AttemptFails(a, cancelled)
          \/ \E b \in Backends : BeginAttempt(a, b)
    \/ \E b \in Backends :
          \/ LaunchReconfigure(b) \/ LaunchReconfigureFails(b)
          \/ CommitReload(b) \/ CommitReloadFails(b)
          \/ RefreshForResume(b) \/ WritePrepare(b)
    \/ WriteCommit \/ WriteCommitFails \/ WriteEnd
    \/ Close
    \/ Finished

Spec == Init /\ [][Next]_vars

-----------------------------------------------------------------------------
(* Properties. *)

TypeOK ==
    /\ active \in Backends
    /\ retired \subseteq Backends
    /\ pubs \in [Attempts -> Publications]
    /\ holds \in [Attempts -> Backends \cup {None}]
    /\ closed \in BOOLEAN
    /\ exits \in [Backends -> Nat]
    /\ made \subseteq Backends
    /\ mode \in {"idle", "turn", "compaction"}
    /\ write \in Writes

\* The clients that some operation still uses or may go back to: the active
\* one, the borrowed ones, and the previous client of a publication that can
\* still be rolled back.
InUse == {active} \cup Borrowed(holds) \cup
         ({pubs[a].previous : a \in Attempts} \ {None})

\* Until aclose, no client is closed that is active, borrowed, or that a
\* rollback may restore (BackendLifetime closes only what is safe, however
\* attempts, reloads and refreshes overlap).
InUseOpen == ~closed => \A b \in InUse : exits[b] = 0

\* A borrow belongs to the running turn or compaction, and an attempt that
\* published borrows its own replacement until it settles.
AttemptsInTurn ==
    \A a \in Attempts :
        /\ holds[a] # None => mode # "idle"
        /\ pubs[a] # NoPub => holds[a] = pubs[a].replacement

\* Unsettled publications form a chain that ends in the active client: they
\* replace different clients, none of them active or retired.
PublicationChain ==
    ~closed =>
      /\ active \notin retired
      /\ \A a \in Attempts : pubs[a] # NoPub =>
            /\ pubs[a].previous # active
            /\ pubs[a].previous \notin retired
            /\ \A c \in Attempts :
                  c # a => pubs[c].previous # pubs[a].previous

\* A client prepared by a configuration write is not yet in circulation, and
\* the write keeps turns and compactions out.
PreparedApart ==
    write # NoWrite =>
      /\ mode = "idle"
      /\ write.phase = "prepared" /\ ~closed =>
            /\ write.backend \notin retired \cup {active}
            /\ exits[write.backend] = 0

\* Whatever is in circulation was built, and what was not built is untouched.
BuiltFirst ==
    /\ active \in made /\ retired \subseteq made
    /\ write # NoWrite => write.backend \in made
    /\ \A a \in Attempts : pubs[a] # NoPub =>
          pubs[a].previous \in made /\ pubs[a].replacement \in made
    /\ \A b \in Backends \ made : exits[b] = 0

\* The inductive invariant behind InUseOpen: what is in use is open, and the
\* structure of publications, turn and write that keeps it so.
SafeInv == /\ TypeOK /\ InUseOpen /\ AttemptsInTurn /\ PublicationChain
           /\ PreparedApart /\ BuiltFirst

\* No client is forgotten: each one built is active, waits for a deferred
\* close, belongs to an unsettled publication or configuration write, or has
\* been closed; and after aclose every one of them has been closed.
NoLeak ==
    /\ \A b \in made : \/ b = active
                       \/ b \in retired \cup Pending
                       \/ b = write.backend
                       \/ exits[b] > 0
    /\ closed => \A b \in made : exits[b] > 0

\* The client an unsettled publication put in place is still the active one,
\* was retired or closed by whoever replaced it, or is what a newer
\* publication replaced and may restore.
Replaced ==
    ~closed => \A a \in Attempts : pubs[a] # NoPub =>
        LET r == pubs[a].replacement
        IN \/ r = active \/ r \in retired \/ exits[r] > 0
           \/ \E c \in Attempts \ {a} : pubs[c].previous = r

\* A client whose close is deferred has not been closed.
RetiredOpen == ~closed => \A b \in retired : exits[b] = 0

\* The inductive invariant behind NoLeak and CloseJoins.
CustodyInv == SafeInv /\ NoLeak /\ Replaced /\ RetiredOpen

\* aclose joins the close of a client that was already handed to a close task
\* and never issues a second one (backend_lifetime.py:164-165).
CloseJoins ==
    [][closed # closed' =>
          \A b \in Backends : exits[b] > 0 => exits'[b] = exits[b]]_vars
=============================================================================
