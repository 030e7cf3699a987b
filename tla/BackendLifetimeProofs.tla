----------------------- MODULE BackendLifetimeProofs -----------------------
(***************************************************************************)
(* Proof that BackendLifetime never closes a client that is in use, for    *)
(* any number of clients and of overlapping attempts.                      *)
(*                                                                         *)
(* Each action changes retired and exits through Retire and Drain only, so *)
(* the proof first bounds what those two can do (Footprint) and then shows *)
(* per action that the bound stays clear of the clients in use.            *)
(***************************************************************************)
EXTENDS BackendLifetime, TLAPS

OwnedType == [retired : SUBSET Backends, exits : [Backends -> Nat]]

\* What a call sequence that may retire the clients R can change.
Footprint(R) ==
    /\ retired' \subseteq retired \cup R
    /\ exits' \in [Backends -> Nat]
    /\ \A b \in Backends : exits'[b] # exits[b] =>
          b \in (retired \cup R) /\ b \notin Borrowed(holds')
    /\ closed => retired' = retired /\ exits' = exits

\* _schedule_eligible_closes closes retired clients nobody borrows, no other.
LEMMA ScheduleClosesBound ==
    ASSUME NEW owned \in OwnedType, NEW h \in [Attempts -> Backends \cup {None}]
    PROVE  LET after == ScheduleCloses(owned, h)
           IN /\ after \in OwnedType
              /\ after.retired \subseteq owned.retired
              /\ \A b \in Backends : after.exits[b] # owned.exits[b] =>
                    b \in owned.retired /\ b \notin Borrowed(h)
  BY DEF ScheduleCloses, OwnedType

\* retire closes nothing but retired clients and its argument, and none that
\* is borrowed; after aclose it does nothing.
LEMMA RetireBound ==
    ASSUME NEW owned \in OwnedType, NEW r \in Backends, NEW whole \in BOOLEAN,
           NEW h \in [Attempts -> Backends \cup {None}]
    PROVE  LET after == Retire(owned, r, whole, h)
           IN /\ after \in OwnedType
              /\ after.retired \subseteq owned.retired \cup {r}
              /\ \A b \in Backends : after.exits[b] # owned.exits[b] =>
                    b \in (owned.retired \cup {r}) /\ b \notin Borrowed(h)
              /\ closed => after = owned
  <1> DEFINE appended == [retired |-> owned.retired \cup {r}, exits |-> owned.exits]
  <1>1. /\ appended \in OwnedType
        /\ appended.retired = owned.retired \cup {r}
        /\ appended.exits = owned.exits
    BY DEF OwnedType
  <1>2. CASE closed \/ r \in owned.retired
    BY <1>2 DEF Retire, OwnedType
  <1>3. CASE ~(closed \/ r \in owned.retired) /\ (whole \/ r \in Borrowed(h))
    <2>1. Retire(owned, r, whole, h) = appended
      BY <1>3 DEF Retire
    <2> QED BY <2>1, <1>1, <1>3
  <1>4. CASE ~(closed \/ r \in owned.retired) /\ ~(whole \/ r \in Borrowed(h))
    <2>1. Retire(owned, r, whole, h) = ScheduleCloses(appended, h)
      BY <1>4 DEF Retire
    <2> HIDE DEF appended
    <2>2. /\ ScheduleCloses(appended, h) \in OwnedType
          /\ ScheduleCloses(appended, h).retired \subseteq appended.retired
          /\ \A b \in Backends :
                ScheduleCloses(appended, h).exits[b] # appended.exits[b] =>
                    b \in appended.retired /\ b \notin Borrowed(h)
      BY <1>1, ScheduleClosesBound
    <2> QED BY <2>1, <2>2, <1>1, <1>4
  <1> QED BY <1>2, <1>3, <1>4

\* drain closes retired clients nobody borrows; after aclose it does nothing.
LEMMA DrainBound ==
    ASSUME NEW owned \in OwnedType, NEW h \in [Attempts -> Backends \cup {None}]
    PROVE  LET after == Drain(owned, h)
           IN /\ after \in OwnedType
              /\ after.retired \subseteq owned.retired
              /\ \A b \in Backends : after.exits[b] # owned.exits[b] =>
                    b \in owned.retired /\ b \notin Borrowed(h)
              /\ closed => after = owned
  BY ScheduleClosesBound DEF Drain

LEMMA OwnedTyped == TypeOK => Owned \in OwnedType
  BY DEF TypeOK, Owned, OwnedType

\* An action that drains has an empty footprint beyond the retired clients.
LEMMA DrainFootprint ==
    ASSUME TypeOK, holds' \in [Attempts -> Backends \cup {None}],
           SetOwned(Drain(Owned, holds'))
    PROVE  Footprint({})
  <1>1. holds' \in [Attempts -> Backends \cup {None}]
    OBVIOUS
  <1>2. Owned \in OwnedType /\ Owned.retired = retired /\ Owned.exits = exits
    BY OwnedTyped DEF Owned
  <1> DEFINE after == Drain(Owned, holds')
  <1>3. /\ after \in OwnedType
        /\ after.retired \subseteq Owned.retired
        /\ \A b \in Backends : after.exits[b] # Owned.exits[b] =>
              b \in Owned.retired /\ b \notin Borrowed(holds')
        /\ closed => after = Owned
    BY <1>1, <1>2, DrainBound
  <1>4. retired' = after.retired /\ exits' = after.exits
    BY DEF SetOwned
  <1> HIDE DEF after
  <1> QED BY <1>2, <1>3, <1>4 DEF Footprint, OwnedType

\* An action that retires r, and drains or not, changes r and the retired
\* clients at most.
LEMMA RetireFootprint ==
    ASSUME TypeOK, holds' \in [Attempts -> Backends \cup {None}],
           NEW r \in Backends, NEW whole \in BOOLEAN,
           \/ SetOwned(Retire(Owned, r, whole, holds'))
           \/ SetOwned(Drain(Retire(Owned, r, whole, holds'), holds'))
    PROVE  Footprint({r})
  <1>1. holds' \in [Attempts -> Backends \cup {None}]
    OBVIOUS
  <1>2. Owned \in OwnedType /\ Owned.retired = retired /\ Owned.exits = exits
    BY OwnedTyped DEF Owned
  <1> DEFINE mid == Retire(Owned, r, whole, holds')
             after == Drain(mid, holds')
  <1>3. /\ mid \in OwnedType
        /\ mid.retired \subseteq Owned.retired \cup {r}
        /\ \A b \in Backends : mid.exits[b] # Owned.exits[b] =>
              b \in (Owned.retired \cup {r}) /\ b \notin Borrowed(holds')
        /\ closed => mid = Owned
    BY <1>1, <1>2, RetireBound
  <1> HIDE DEF mid
  <1>4. /\ after \in OwnedType
        /\ after.retired \subseteq mid.retired
        /\ \A b \in Backends : after.exits[b] # mid.exits[b] =>
              b \in mid.retired /\ b \notin Borrowed(holds')
        /\ closed => after = mid
    BY <1>1, <1>3, DrainBound
  <1> HIDE DEF after
  <1>5. \/ retired' = mid.retired /\ exits' = mid.exits
        \/ retired' = after.retired /\ exits' = after.exits
    BY DEF SetOwned, mid, after
  <1>6. CASE retired' = mid.retired /\ exits' = mid.exits
    BY <1>2, <1>3, <1>6 DEF Footprint, OwnedType
  <1>7. CASE retired' = after.retired /\ exits' = after.exits
    <2>1. \A b \in Backends : after.exits[b] # Owned.exits[b] =>
              b \in (Owned.retired \cup {r}) /\ b \notin Borrowed(holds')
      BY <1>3, <1>4
    <2> QED BY <2>1, <1>2, <1>3, <1>4, <1>7 DEF Footprint, OwnedType
  <1> QED BY <1>5, <1>6, <1>7

\* A settled publication's fields are clients.
LEMMA PublicationTyped ==
    ASSUME TypeOK, NEW a \in Attempts, pubs[a] # NoPub
    PROVE  /\ pubs[a].previous \in Backends
           /\ pubs[a].replacement \in Backends
  BY DEF TypeOK, Publications

\* An unprepared write has no client, a prepared one a client.
LEMMA WriteTyped ==
    ASSUME TypeOK, write # NoWrite
    PROVE  /\ write.backend \in Backends
           /\ [write EXCEPT !.phase = "settled"] \in Writes
           /\ [write EXCEPT !.phase = "settled"].phase = "settled"
           /\ [write EXCEPT !.phase = "settled"].backend = write.backend
  BY DEF TypeOK, Writes

\* The state an action leaves is well typed once its footprint is known.
LEMMA TypedStep ==
    ASSUME TypeOK, NEW R \in SUBSET Backends, Footprint(R),
           active' \in Backends, pubs' \in [Attempts -> Publications],
           holds' \in [Attempts -> Backends \cup {None}],
           closed' \in BOOLEAN, made' \subseteq Backends, 
           mode' \in {"idle", "turn", "compaction"},
           write' \in Writes
    PROVE  TypeOK'
  BY DEF TypeOK, Footprint

-----------------------------------------------------------------------------
(* What each action does to ownership. *)

LEMMA StartTurnFootprint ==
    ASSUME TypeOK, StartTurn PROVE TypeOK' /\ Footprint({})
  <1>1. Footprint({})
    BY DrainFootprint DEF StartTurn, TypeOK
  <1> QED BY <1>1, TypedStep DEF StartTurn, TypeOK

LEMMA EndTurnFootprint ==
    ASSUME TypeOK, EndTurn PROVE TypeOK' /\ Footprint({})
  <1>1. Footprint({})
    BY DrainFootprint DEF EndTurn, TypeOK
  <1> QED BY <1>1, TypedStep DEF EndTurn, TypeOK

LEMMA BeginAttemptFootprint ==
    ASSUME TypeOK, NEW a \in Attempts, NEW b \in Backends, BeginAttempt(a, b)
    PROVE  TypeOK' /\ Footprint({})
  <1>1. Footprint({})
    BY DEF BeginAttempt, Footprint, TypeOK
  <1>2. [previous |-> active, replacement |-> b] \in Publications
    BY DEF Publications, TypeOK
  <1> QED BY <1>1, <1>2, TypedStep DEF BeginAttempt, TypeOK

LEMMA AttemptSucceedsFootprint ==
    ASSUME TypeOK, NEW a \in Attempts, AttemptSucceeds(a)
    PROVE  TypeOK' /\ Footprint({pubs[a].previous})
  <1>1. pubs[a].previous \in Backends
    BY PublicationTyped DEF AttemptSucceeds
  <1>2. holds' \in [Attempts -> Backends \cup {None}]
    BY DEF AttemptSucceeds, TypeOK
  <1>3. Footprint({pubs[a].previous})
    <2>1. SetOwned(Retire(Owned, pubs[a].previous, TRUE, holds'))
      BY DEF AttemptSucceeds
    <2> QED BY <1>1, <1>2, <2>1, RetireFootprint
  <1>4. pubs' \in [Attempts -> Publications]
    BY DEF AttemptSucceeds, TypeOK, Publications
  <1> QED BY <1>1, <1>2, <1>3, <1>4, TypedStep DEF AttemptSucceeds, TypeOK

LEMMA AttemptFailsFootprint ==
    ASSUME TypeOK, NEW a \in Attempts, NEW cancelled \in BOOLEAN,
           AttemptFails(a, cancelled)
    PROVE  TypeOK' /\ Footprint({RollbackRetires(pubs[a])})
  <1>1. /\ RollbackRetires(pubs[a]) \in Backends
        /\ RollbackActive(pubs[a]) \in Backends
    BY PublicationTyped DEF AttemptFails, RollbackRetires, RollbackActive, TypeOK
  <1>2. holds' \in [Attempts -> Backends \cup {None}]
    BY DEF AttemptFails, TypeOK
  <1>3. Footprint({RollbackRetires(pubs[a])})
    <2> DEFINE undone == Retire(Owned, RollbackRetires(pubs[a]), FALSE, holds')
    <2>1. SetOwned(undone) \/ SetOwned(Drain(undone, holds'))
      BY DEF AttemptFails
    <2> QED BY <1>1, <1>2, <2>1, RetireFootprint
  <1>4. pubs' \in [Attempts -> Publications]
    BY DEF AttemptFails, TypeOK, Publications
  <1> QED BY <1>1, <1>2, <1>3, <1>4, TypedStep DEF AttemptFails, TypeOK

\* LaunchReconfigure, CommitReload and RefreshForResume install a fresh client
\* and retire the active one.
Install(b) == LaunchReconfigure(b) \/ CommitReload(b) \/ RefreshForResume(b)

LEMMA InstallFootprint ==
    ASSUME TypeOK, NEW b \in Backends, Install(b)
    PROVE  TypeOK' /\ Footprint({active})
  <1>1. active \in Backends /\ holds' = holds
    BY DEF Install, LaunchReconfigure, CommitReload, RefreshForResume, TypeOK
  <1>2. holds' \in [Attempts -> Backends \cup {None}]
    BY <1>1 DEF TypeOK
  <1>3. PICK whole \in BOOLEAN : SetOwned(Retire(Owned, active, whole, holds'))
    BY <1>1 DEF Install, LaunchReconfigure, CommitReload, RefreshForResume,
                TypeOK
  <1>4. Footprint({active})
    BY <1>1, <1>2, <1>3, RetireFootprint
  <1>5. /\ active' = b /\ made' = made \cup {b}
        /\ UNCHANGED <<pubs, holds, closed, mode, write>>
    BY DEF Install, LaunchReconfigure, CommitReload, RefreshForResume, TypeOK
  <1> QED BY <1>1, <1>2, <1>4, <1>5, TypedStep DEF TypeOK

\* LaunchReconfigureFails and CommitReloadFails roll a fresh client back.
Discard(b) == LaunchReconfigureFails(b) \/ CommitReloadFails(b)

LEMMA DiscardFootprint ==
    ASSUME TypeOK, NEW b \in Backends, Discard(b)
    PROVE  TypeOK' /\ Footprint({b})
  <1>1. Footprint({b})
    BY RetireFootprint DEF Discard, LaunchReconfigureFails, CommitReloadFails,
                           TypeOK
  <1> QED BY <1>1, TypedStep DEF Discard, LaunchReconfigureFails,
                                 CommitReloadFails, TypeOK

LEMMA WriteCommitFootprint ==
    ASSUME TypeOK, WriteCommit PROVE TypeOK' /\ Footprint({active})
  <1>1. Footprint({active})
    BY RetireFootprint DEF WriteCommit, TypeOK
  <1>2. write # NoWrite
    BY DEF WriteCommit, NoWrite
  <1> QED BY <1>1, <1>2, WriteTyped, TypedStep DEF WriteCommit, TypeOK

LEMMA WriteCommitFailsFootprint ==
    ASSUME TypeOK, WriteCommitFails PROVE TypeOK' /\ Footprint({write.backend})
  <1>1. write # NoWrite
    BY DEF WriteCommitFails, NoWrite
  <1>2. Footprint({write.backend})
    BY <1>1, WriteTyped, RetireFootprint DEF WriteCommitFails, TypeOK
  <1> QED BY <1>1, <1>2, WriteTyped, TypedStep DEF WriteCommitFails, TypeOK

LEMMA WriteEndFootprint ==
    ASSUME TypeOK, WriteEnd
    PROVE  TypeOK' /\ Footprint({write.backend} \ {active})
  <1>1. write # NoWrite /\ write.backend \in Backends /\ holds' = holds
    BY WriteTyped DEF WriteEnd
  <1>2. Footprint({write.backend} \ {active})
    <2>1. CASE write.backend = active
      <3>1. retired' = retired /\ exits' = exits
        BY <2>1 DEF WriteEnd, SetOwned, Owned
      <3> QED BY <3>1 DEF Footprint, TypeOK
    <2>2. CASE write.backend # active
      <3>1. SetOwned(Retire(Owned, write.backend, mode = "turn", holds'))
        BY <1>1, <2>2 DEF WriteEnd
      <3>2. Footprint({write.backend})
        BY <1>1, <3>1, RetireFootprint DEF TypeOK
      <3>3. {write.backend} \ {active} = {write.backend}
        BY <2>2
      <3> QED BY <3>2, <3>3
    <2> QED BY <2>1, <2>2
  <1>3. NoWrite \in Writes
    BY DEF Writes
  <1> QED BY <1>1, <1>2, <1>3, TypedStep DEF WriteEnd, TypeOK

\* Steps that leave ownership alone.
Quiet == \/ StartCompaction \/ EndCompaction
         \/ \E a \in Attempts : BorrowActive(a) \/ EndBorrow(a)
         \/ \E b \in Backends : WritePrepare(b)
         \/ UNCHANGED vars

LEMMA QuietFootprint ==
    ASSUME TypeOK, Quiet
    PROVE  TypeOK' /\ Footprint({})
  <1>1. Footprint({})
    BY DEF Quiet, StartCompaction, EndCompaction, BorrowActive, EndBorrow,
           WritePrepare, vars, Footprint, TypeOK
  <1>2. CASE \E a \in Attempts : BorrowActive(a) \/ EndBorrow(a)
    BY <1>1, <1>2, TypedStep DEF BorrowActive, EndBorrow, TypeOK
  <1>3. CASE \E b \in Backends : WritePrepare(b)
    <2>1. PICK b \in Backends : WritePrepare(b)
      BY <1>3
    <2>2. [phase |-> "prepared", backend |-> b] \in Writes
      BY DEF Writes
    <2> QED BY <1>1, <2>1, <2>2, TypedStep DEF WritePrepare, TypeOK
  <1>4. CASE UNCHANGED vars
    BY <1>1, <1>4, TypedStep DEF vars, TypeOK
  <1>5. CASE StartCompaction \/ EndCompaction
    BY <1>1, <1>5, TypedStep DEF StartCompaction, EndCompaction, TypeOK
  <1> QED BY <1>1, <1>2, <1>3, <1>4, <1>5 DEF Quiet

LEMMA CloseTyped ==
    ASSUME TypeOK, Close PROVE TypeOK'
  BY DEF Close, TypeOK

\* The disjuncts of the next-state relation, grouped as the lemmas above.
LEMMA Steps ==
    ASSUME [Next]_vars
    PROVE  \/ StartTurn \/ EndTurn \/ Close \/ Quiet
           \/ WriteCommit \/ WriteCommitFails \/ WriteEnd
           \/ \E a \in Attempts, b \in Backends : BeginAttempt(a, b)
           \/ \E a \in Attempts : AttemptSucceeds(a)
           \/ \E a \in Attempts, cancelled \in BOOLEAN :
                 AttemptFails(a, cancelled)
           \/ \E b \in Backends : Install(b) \/ Discard(b)
  BY DEF Next, Quiet, Install, Discard, Finished

LEMMA InitTyped ==
    ASSUME Init PROVE TypeOK
  <1>1. Initial \in Backends
    BY BackendAssumption
  <1>2. NoPub \in Publications /\ NoWrite \in Writes
    BY DEF Publications, Writes
  <1>3. exits \in [Backends -> Nat] /\ pubs \in [Attempts -> Publications]
        /\ holds \in [Attempts -> Backends \cup {None}]
    BY <1>2 DEF Init
  <1>4. closed \in BOOLEAN /\ mode \in {"idle", "turn", "compaction"}
    BY Zenon DEF Init
  <1> QED BY <1>1, <1>2, <1>3, <1>4, Zenon DEF Init, TypeOK

\* Type correctness: every variable of the lifetime keeps its type.
THEOREM Typing == Spec => []TypeOK
  <1>1. Init => TypeOK
    BY InitTyped
  <1>2. TypeOK /\ [Next]_vars => TypeOK'
    BY Steps, StartTurnFootprint, EndTurnFootprint, CloseTyped, QuietFootprint,
       WriteCommitFootprint, WriteCommitFailsFootprint, WriteEndFootprint,
       BeginAttemptFootprint, AttemptSucceedsFootprint, AttemptFailsFootprint,
       InstallFootprint, DiscardFootprint
  <1> QED BY <1>1, <1>2, PTL DEF Spec

-----------------------------------------------------------------------------
(* The inductive step of SafeInv. *)

\* A client in use after the step was open before it and is outside the
\* footprint, or borrowed: it is still open.
LEMMA OpenStep ==
    ASSUME SafeInv, TypeOK', NEW R \in SUBSET Backends, Footprint(R),
           closed' = closed,
           ~closed => active' \notin retired \cup R /\ exits[active'] = 0,
           ~closed => \A a \in Attempts : holds'[a] # None =>
                         exits[holds'[a]] = 0,
           ~closed => \A a \in Attempts : pubs'[a].previous # None =>
                         /\ pubs'[a].previous \notin retired \cup R
                         /\ exits[pubs'[a].previous] = 0
    PROVE  InUseOpen'
  <1>1. SUFFICES ASSUME ~closed', NEW b \in InUse' PROVE exits'[b] = 0
    BY DEF InUseOpen
  <1>2. b = active' \/ b \in Borrowed(holds')
        \/ \E a \in Attempts : b = pubs'[a].previous /\ b # None
    BY <1>1 DEF InUse
  <1>3. CASE b = active'
    BY <1>1, <1>3 DEF Footprint, TypeOK
  <1>4. CASE b \in Borrowed(holds')
    <2>1. PICK a \in Attempts : b = holds'[a] /\ holds'[a] # None
      BY <1>4 DEF Borrowed
    <2> QED BY <1>1, <1>4, <2>1 DEF Footprint, TypeOK
  <1>5. CASE \E a \in Attempts : b = pubs'[a].previous /\ b # None
    <2>1. PICK a \in Attempts : b = pubs'[a].previous /\ b # None
      BY <1>5
    <2>2. b \in Backends
      <3>1. pubs'[a] \in Publications
        BY DEF TypeOK
      <3> QED BY <2>1, <3>1 DEF Publications, NoPub
    <2> QED BY <1>1, <2>1, <2>2 DEF Footprint, TypeOK
  <1> QED BY <1>2, <1>3, <1>4, <1>5

\* What InUseOpen says of the three kinds of clients in use.
LEMMA InUseFacts ==
    ASSUME SafeInv, ~closed
    PROVE  /\ exits[active] = 0 /\ active \notin retired
           /\ \A a \in Attempts : holds[a] # None => exits[holds[a]] = 0
           /\ \A a \in Attempts : pubs[a].previous # None =>
                 /\ pubs[a] # NoPub
                 /\ exits[pubs[a].previous] = 0
                 /\ pubs[a].previous \notin retired
                 /\ pubs[a].previous # active
                 /\ \A c \in Attempts :
                       c # a => pubs[c].previous # pubs[a].previous
  <1>1. exits[active] = 0 /\ active \notin retired
    BY DEF SafeInv, InUseOpen, InUse, PublicationChain
  <1>2. \A a \in Attempts : holds[a] # None => exits[holds[a]] = 0
    BY DEF SafeInv, InUseOpen, InUse, Borrowed
  <1>3. \A a \in Attempts : pubs[a].previous # None =>
            pubs[a] # NoPub /\ exits[pubs[a].previous] = 0
    BY DEF SafeInv, InUseOpen, InUse, NoPub
  <1> QED BY <1>1, <1>2, <1>3 DEF SafeInv, PublicationChain

LEMMA TurnStep ==
    ASSUME SafeInv, StartTurn \/ EndTurn
    PROVE  SafeInv'
  <1>1. TypeOK' /\ Footprint({})
    BY StartTurnFootprint, EndTurnFootprint DEF SafeInv
  <1>2. UNCHANGED <<active, pubs, holds, closed, made, write>>
    BY DEF StartTurn, EndTurn
  <1>3. InUseOpen'
    BY <1>1, <1>2, InUseFacts, OpenStep
  <1>4. AttemptsInTurn'
    BY <1>2 DEF SafeInv, AttemptsInTurn, StartTurn, EndTurn
  <1>5. PublicationChain'
    BY <1>1, <1>2 DEF SafeInv, PublicationChain, Footprint
  <1>6. PreparedApart'
    <2>1. CASE write = NoWrite
      BY <1>2, <2>1 DEF PreparedApart
    <2>2. CASE write # NoWrite
      BY <2>2 DEF StartTurn, EndTurn, Idle, SafeInv, PreparedApart
    <2> QED BY <2>1, <2>2
  <1>7. BuiltFirst'
    BY <1>1, <1>2 DEF SafeInv, BuiltFirst, Footprint, TypeOK
  <1> QED BY <1>1, <1>3, <1>4, <1>5, <1>6, <1>7 DEF SafeInv

\* A fresh client is in no way in circulation.
LEMMA FreshFacts ==
    ASSUME SafeInv, NEW b \in Backends, b \in Fresh
    PROVE  /\ exits[b] = 0 /\ b \notin retired /\ b # active
           /\ \A a \in Attempts : pubs[a] # NoPub =>
                 pubs[a].previous # b /\ pubs[a].replacement # b
           /\ write # NoWrite => write.backend # b
  BY DEF SafeInv, BuiltFirst, Fresh

LEMMA BeginAttemptStep ==
    ASSUME SafeInv, NEW a \in Attempts, NEW b \in Backends, BeginAttempt(a, b)
    PROVE  SafeInv'
  <1>1. TypeOK' /\ Footprint({})
    BY BeginAttemptFootprint DEF SafeInv
  <1>2. /\ ~closed /\ closed' = closed /\ b \in Fresh /\ active' = b
        /\ retired' = retired /\ exits' = exits /\ made' = made \cup {b}
        /\ mode # "idle" /\ UNCHANGED <<mode, write>>
    BY DEF BeginAttempt
  <1>3. /\ holds'[a] = b /\ pubs'[a] = [previous |-> active, replacement |-> b]
        /\ \A c \in Attempts \ {a} : holds'[c] = holds[c] /\ pubs'[c] = pubs[c]
    BY DEF BeginAttempt, SafeInv, TypeOK
  <1>4. active \in Backends /\ active # None
    BY BackendAssumption DEF SafeInv, TypeOK
  <1>5. pubs'[a] # NoPub /\ pubs'[a].previous = active /\ pubs'[a].replacement = b
    BY <1>3, <1>4 DEF NoPub
  <1>6. InUseOpen'
    BY <1>1, <1>2, <1>3, <1>5, InUseFacts, FreshFacts, OpenStep
  <1>7. AttemptsInTurn'
    BY <1>2, <1>3, <1>5 DEF SafeInv, AttemptsInTurn
  <1>8. PublicationChain'
    <2>1. \A c \in Attempts : pubs[c].previous # active
      BY <1>2, <1>4, InUseFacts
    <2>2. b # active /\ b \notin retired /\ active \notin retired
      BY <1>2, FreshFacts, InUseFacts
    <2>3. \A c \in Attempts : pubs[c] # NoPub =>
             /\ pubs[c].previous # b /\ pubs[c].previous \notin retired
             /\ \A d \in Attempts : d # c => pubs[d].previous # pubs[c].previous
      BY <1>2, FreshFacts DEF SafeInv, PublicationChain
    <2> QED BY <1>2, <1>3, <1>5, <2>1, <2>2, <2>3 DEF PublicationChain
  <1>9. PreparedApart'
    BY <1>2 DEF SafeInv, PreparedApart
  <1>10. BuiltFirst'
    BY <1>2, <1>3, <1>5 DEF SafeInv, BuiltFirst
  <1> QED BY <1>1, <1>6, <1>7, <1>8, <1>9, <1>10 DEF SafeInv

\* Both ways an attempt settles: it stops borrowing, its publication is gone,
\* and the client r it retires is neither the one left active nor one that
\* another publication replaced.
LEMMA SettleStep ==
    ASSUME SafeInv, TypeOK', NEW a \in Attempts, NEW r \in Backends,
           pubs[a] # NoPub, Footprint({r}),
           pubs' = [pubs EXCEPT ![a] = NoPub],
           holds' = [holds EXCEPT ![a] = None],
           closed' = closed, made' = made, mode' = mode, write' = write,
           \/ active' = active /\ r = pubs[a].previous
           \/ active' = pubs[a].previous /\ r = active
    PROVE  SafeInv'
  <1>1. /\ holds'[a] = None /\ pubs'[a] = NoPub /\ pubs'[a].previous = None
        /\ \A c \in Attempts \ {a} : holds'[c] = holds[c] /\ pubs'[c] = pubs[c]
    BY DEF SafeInv, TypeOK, NoPub
  <1>2. pubs[a].previous \in Backends /\ pubs[a].previous # None
    BY PublicationTyped, BackendAssumption DEF SafeInv
  <1>3. mode # "idle"
    BY <1>2, PublicationTyped, BackendAssumption
       DEF SafeInv, AttemptsInTurn
  <1>4. InUseOpen'
    BY <1>1, <1>2, InUseFacts, OpenStep
  <1>5. AttemptsInTurn'
    BY <1>1 DEF SafeInv, AttemptsInTurn
  <1>6. PublicationChain'
    <2>1. SUFFICES ASSUME ~closed PROVE PublicationChain'
      BY DEF PublicationChain
    <2>2. active' \notin retired'
      BY <1>2, <2>1, InUseFacts DEF Footprint
    <2>3. \A c \in Attempts : pubs'[c] # NoPub =>
            /\ c # a /\ pubs'[c] = pubs[c]
            /\ pubs[c].previous # active /\ pubs[c].previous \notin retired
            /\ pubs[c].previous # pubs[a].previous
      BY <1>1, <2>1 DEF SafeInv, PublicationChain
    <2>4. \A c \in Attempts : pubs'[c] # NoPub =>
            pubs'[c].previous # active' /\ pubs'[c].previous \notin retired'
      BY <2>3 DEF Footprint
    <2>5. ASSUME NEW c \in Attempts, pubs'[c] # NoPub, NEW d \in Attempts, d # c
          PROVE  pubs'[d].previous # pubs'[c].previous
      <3>1. c # a /\ pubs'[c] = pubs[c] /\ pubs[c] # NoPub
        BY <1>1, <2>5
      <3>2. CASE d = a
        <4>1. pubs[c].previous \in Backends /\ pubs'[d].previous = None
          BY <1>1, <3>1, <3>2, PublicationTyped DEF SafeInv
        <4> QED BY <3>1, <4>1, BackendAssumption
      <3>3. CASE d # a
        BY <1>1, <2>1, <2>5, <3>1, <3>3 DEF SafeInv, PublicationChain
      <3> QED BY <3>2, <3>3
    <2> QED BY <2>2, <2>4, <2>5 DEF PublicationChain
  <1>7. PreparedApart'
    BY <1>3 DEF SafeInv, PreparedApart
  <1>8. BuiltFirst'
    BY <1>1 DEF SafeInv, BuiltFirst, Footprint, TypeOK
  <1> QED BY <1>4, <1>5, <1>6, <1>7, <1>8 DEF SafeInv

LEMMA AttemptSucceedsStep ==
    ASSUME SafeInv, NEW a \in Attempts, AttemptSucceeds(a)
    PROVE  SafeInv'
  <1>1. TypeOK' /\ Footprint({pubs[a].previous})
    BY AttemptSucceedsFootprint DEF SafeInv
  <1>2. PICK r \in Backends : r = pubs[a].previous
    BY PublicationTyped DEF AttemptSucceeds, SafeInv
  <1>3. Footprint({r})
    BY <1>1, <1>2
  <1>4. /\ pubs[a] # NoPub /\ active' = active
        /\ pubs' = [pubs EXCEPT ![a] = NoPub]
        /\ holds' = [holds EXCEPT ![a] = None]
        /\ closed' = closed /\ made' = made /\ mode' = mode /\ write' = write
    BY DEF AttemptSucceeds
  <1> QED BY <1>1, <1>2, <1>3, <1>4, SettleStep

LEMMA AttemptFailsStep ==
    ASSUME SafeInv, NEW a \in Attempts, NEW cancelled \in BOOLEAN,
           AttemptFails(a, cancelled)
    PROVE  SafeInv'
  <1>1. TypeOK' /\ Footprint({RollbackRetires(pubs[a])})
    BY AttemptFailsFootprint DEF SafeInv
  <1>2. /\ RollbackRetires(pubs[a]) \in Backends
        /\ \/ active' = active /\ RollbackRetires(pubs[a]) = pubs[a].previous
           \/ active' = pubs[a].previous /\ RollbackRetires(pubs[a]) = active
    BY PublicationTyped DEF AttemptFails, RollbackRetires, RollbackActive, SafeInv
  <1>3. /\ pubs[a] # NoPub
        /\ pubs' = [pubs EXCEPT ![a] = NoPub]
        /\ holds' = [holds EXCEPT ![a] = None]
        /\ closed' = closed /\ made' = made /\ mode' = mode /\ write' = write
    BY DEF AttemptFails
  <1> QED BY <1>1, <1>2, <1>3, SettleStep

\* Steps outside attempts that put b in circulation as the active client, or
\* leave active alone, and retire at most one client r no publication needs.
LEMMA OutsideStep ==
    ASSUME SafeInv, TypeOK', NEW r \in Backends, Footprint({r}), ~closed,
           closed' = closed, mode' = mode, pubs' = pubs, holds' = holds,
           made \subseteq made', active' \in made', r \in made',
           active' # r, active' \notin retired, exits[active'] = 0,
           \A a \in Attempts : pubs[a] # NoPub =>
               pubs[a].previous # active' /\ pubs[a].previous # r,
           PreparedApart', write' # NoWrite => write'.backend \in made'
    PROVE  SafeInv'
  <1>1. \A a \in Attempts : pubs[a].previous # None => pubs[a] # NoPub
    BY DEF NoPub
  <1>2. InUseOpen'
    BY <1>1, InUseFacts, OpenStep
  <1>3. AttemptsInTurn'
    BY DEF SafeInv, AttemptsInTurn
  <1>4. PublicationChain'
    BY DEF SafeInv, PublicationChain, Footprint
  <1>5. BuiltFirst'
    BY DEF SafeInv, BuiltFirst, Footprint, TypeOK
  <1> QED BY <1>2, <1>3, <1>4, <1>5 DEF SafeInv

\* The client a configuration write has prepared stays apart when a fresh one
\* is installed or rolled back beside it.
LEMMA KeptApart ==
    ASSUME SafeInv, NEW r \in Backends, Footprint({r}), NEW b \in Backends,
           b \in Fresh, ~closed, closed' = closed, mode' = mode, write' = write,
           active' \in {active, b}, r \in {active, b}
    PROVE  PreparedApart'
  <1>1. CASE write = NoWrite
    BY <1>1 DEF PreparedApart
  <1>2. CASE write # NoWrite
    <2>1. write.backend # b /\ write.backend \in Backends
      BY <1>2, FreshFacts, WriteTyped DEF SafeInv
    <2>2. /\ mode = "idle"
          /\ write.phase = "prepared" =>
                /\ write.backend \notin retired \cup {active}
                /\ exits[write.backend] = 0
      BY <1>2 DEF SafeInv, PreparedApart
    <2> QED BY <2>1, <2>2 DEF PreparedApart, Footprint
  <1> QED BY <1>1, <1>2

LEMMA InstallStep ==
    ASSUME SafeInv, NEW b \in Backends, Install(b)
    PROVE  SafeInv'
  <1>1. TypeOK' /\ Footprint({active})
    BY InstallFootprint DEF SafeInv
  <1>2. PICK r \in Backends : r = active
    BY DEF SafeInv, TypeOK
  <1>3. Footprint({r})
    BY <1>1, <1>2
  <1>4. /\ ~closed /\ closed' = closed /\ mode' = mode /\ pubs' = pubs
        /\ holds' = holds /\ active' = b /\ made' = made \cup {b}
        /\ write' = write /\ b \in Fresh
    BY DEF Install, LaunchReconfigure, CommitReload, RefreshForResume
  <1>5. /\ exits[b] = 0 /\ b \notin retired /\ b # active
        /\ \A a \in Attempts : pubs[a] # NoPub =>
              pubs[a].previous # b /\ pubs[a].previous # active
    BY <1>4, FreshFacts DEF SafeInv, PublicationChain
  <1>6. PreparedApart'
    BY <1>2, <1>3, <1>4, KeptApart
  <1>7. made \subseteq made' /\ active' \in made' /\ r \in made'
    BY <1>2, <1>4 DEF SafeInv, BuiltFirst
  <1>8. /\ active' # r /\ active' \notin retired /\ exits[active'] = 0
        /\ \A a \in Attempts : pubs[a] # NoPub =>
              pubs[a].previous # active' /\ pubs[a].previous # r
    BY <1>2, <1>4, <1>5
  <1>9. write' # NoWrite => write'.backend \in made'
    BY <1>4 DEF SafeInv, BuiltFirst
  <1> QED BY <1>1, <1>3, <1>4, <1>6, <1>7, <1>8, <1>9, OutsideStep

LEMMA DiscardStep ==
    ASSUME SafeInv, NEW b \in Backends, Discard(b)
    PROVE  SafeInv'
  <1>1. TypeOK' /\ Footprint({b})
    BY DiscardFootprint DEF SafeInv
  <1>2. /\ ~closed /\ closed' = closed /\ mode' = mode /\ pubs' = pubs
        /\ holds' = holds /\ active' = active /\ made' = made \cup {b}
        /\ write' = write /\ b \in Fresh
    BY DEF Discard, LaunchReconfigureFails, CommitReloadFails
  <1>3. /\ exits[active] = 0 /\ active \notin retired /\ b # active
        /\ \A a \in Attempts : pubs[a] # NoPub =>
              pubs[a].previous # b /\ pubs[a].previous # active
    BY <1>2, FreshFacts, InUseFacts DEF SafeInv, PublicationChain
  <1>4. PreparedApart'
    BY <1>1, <1>2, KeptApart
  <1>5. made \subseteq made' /\ active' \in made' /\ b \in made'
    BY <1>2 DEF SafeInv, BuiltFirst
  <1>6. write' # NoWrite => write'.backend \in made'
    BY <1>2 DEF SafeInv, BuiltFirst
  <1> QED BY <1>1, <1>2, <1>3, <1>4, <1>5, <1>6, OutsideStep

\* While a configuration write is open no publication is.
LEMMA WriteAlone ==
    ASSUME SafeInv, write # NoWrite, NEW a \in Attempts
    PROVE  pubs[a] = NoPub
  BY PublicationTyped, BackendAssumption DEF SafeInv, AttemptsInTurn, PreparedApart

LEMMA WriteCommitStep ==
    ASSUME SafeInv, WriteCommit
    PROVE  SafeInv'
  <1>1. TypeOK' /\ Footprint({active})
    BY WriteCommitFootprint DEF SafeInv
  <1>2. PICK r \in Backends : r = active
    BY DEF SafeInv, TypeOK
  <1>3. Footprint({r})
    BY <1>1, <1>2
  <1>4. write # NoWrite
    BY DEF WriteCommit, NoWrite
  <1>5. /\ ~closed /\ closed' = closed /\ mode' = mode /\ pubs' = pubs
        /\ holds' = holds /\ active' = write.backend /\ made' = made
        /\ write'.phase = "settled" /\ write'.backend = write.backend
    BY <1>4, WriteTyped DEF WriteCommit, SafeInv
  <1>6. /\ mode = "idle" /\ write.backend \notin retired /\ write.backend # active
        /\ exits[write.backend] = 0
    BY <1>4 DEF WriteCommit, SafeInv, PreparedApart
  <1>7. PreparedApart'
    BY <1>5, <1>6 DEF PreparedApart
  <1>8. \A a \in Attempts : pubs[a] = NoPub
    BY <1>4, WriteAlone
  <1>9. /\ made \subseteq made' /\ active' \in made' /\ r \in made'
        /\ write'.backend \in made'
    BY <1>2, <1>4, <1>5 DEF SafeInv, BuiltFirst
  <1>10. active' # r /\ active' \notin retired /\ exits[active'] = 0
    BY <1>2, <1>5, <1>6
  <1> QED BY <1>1, <1>3, <1>5, <1>7, <1>8, <1>9, <1>10, OutsideStep

LEMMA WriteCommitFailsStep ==
    ASSUME SafeInv, WriteCommitFails
    PROVE  SafeInv'
  <1>1. TypeOK' /\ Footprint({write.backend})
    BY WriteCommitFailsFootprint DEF SafeInv
  <1>2. write # NoWrite
    BY DEF WriteCommitFails, NoWrite
  <1>3. PICK r \in Backends : r = write.backend
    BY <1>2, WriteTyped DEF SafeInv
  <1>4. Footprint({r})
    BY <1>1, <1>3
  <1>5. /\ ~closed /\ closed' = closed /\ mode' = mode /\ pubs' = pubs
        /\ holds' = holds /\ active' = active /\ made' = made
        /\ write'.phase = "settled" /\ write'.backend = write.backend
    BY <1>2, WriteTyped DEF WriteCommitFails, SafeInv
  <1>6. mode = "idle" /\ write.backend # active
    BY <1>2 DEF WriteCommitFails, SafeInv, PreparedApart
  <1>7. PreparedApart'
    BY <1>5, <1>6 DEF PreparedApart
  <1>8. \A a \in Attempts : pubs[a] = NoPub
    BY <1>2, WriteAlone
  <1>9. /\ made \subseteq made' /\ active' \in made' /\ r \in made'
        /\ write'.backend \in made'
    BY <1>2, <1>3, <1>5 DEF SafeInv, BuiltFirst
  <1>10. active' # r /\ active' \notin retired /\ exits[active'] = 0
    BY <1>3, <1>5, <1>6, InUseFacts
  <1> QED BY <1>1, <1>4, <1>5, <1>7, <1>8, <1>9, <1>10, OutsideStep

\* Steps that move no client: at most a borrow of the active client, or the
\* configuration write's own bookkeeping.
LEMMA StillStep ==
    ASSUME SafeInv, TypeOK', active' = active, retired' = retired,
           exits' = exits, pubs' = pubs, closed' = closed,
           made \subseteq made', AttemptsInTurn', PreparedApart',
           write' # NoWrite => write'.backend \in made',
           ~closed => \A a \in Attempts :
               holds'[a] \in {holds[a], active, None}
    PROVE  SafeInv'
  <1>1. Footprint({})
    BY DEF Footprint, SafeInv, TypeOK
  <1>2. ~closed => \A a \in Attempts : holds'[a] # None =>
                       exits[holds'[a]] = 0
    BY InUseFacts
  <1>3. InUseOpen'
    BY <1>1, <1>2, InUseFacts, OpenStep
  <1>4. PublicationChain'
    BY DEF SafeInv, PublicationChain
  <1>5. BuiltFirst'
    BY DEF SafeInv, BuiltFirst
  <1> QED BY <1>3, <1>4, <1>5 DEF SafeInv

LEMMA WriteEndStep ==
    ASSUME SafeInv, WriteEnd
    PROVE  SafeInv'
  <1>1. TypeOK' /\ Footprint({write.backend} \ {active})
    BY WriteEndFootprint DEF SafeInv
  <1>2. /\ write # NoWrite /\ write' = NoWrite /\ closed' = closed
        /\ mode' = mode /\ pubs' = pubs /\ holds' = holds /\ made' = made
        /\ active' = active
    BY DEF WriteEnd
  <1>3. PreparedApart'
    BY <1>2 DEF PreparedApart
  <1>4. AttemptsInTurn'
    BY <1>2 DEF SafeInv, AttemptsInTurn
  <1>5. CASE closed \/ write.backend = active
    <2>1. retired' = retired /\ exits' = exits
      BY <1>1, <1>5 DEF Footprint, WriteEnd, SetOwned, Owned
    <2> QED BY <1>1, <1>2, <1>3, <1>4, <2>1, StillStep
  <1>6. CASE ~closed /\ write.backend # active
    <2>1. PICK r \in Backends : r = write.backend
      BY <1>2, WriteTyped DEF SafeInv
    <2>2. Footprint({r})
      <3>1. {write.backend} \ {active} = {r}
        BY <1>6, <2>1
      <3> QED BY <1>1, <3>1
    <2>3. \A a \in Attempts : pubs[a] = NoPub
      BY <1>2, WriteAlone
    <2>4. made \subseteq made' /\ active' \in made' /\ r \in made'
      BY <1>2, <2>1 DEF SafeInv, BuiltFirst
    <2>5. active' # r /\ active' \notin retired /\ exits[active'] = 0
      BY <1>2, <1>6, <2>1, InUseFacts
    <2> QED BY <1>1, <1>2, <1>3, <1>6, <2>2, <2>3, <2>4, <2>5, OutsideStep
  <1> QED BY <1>5, <1>6

LEMMA QuietStep ==
    ASSUME SafeInv, Quiet
    PROVE  SafeInv'
  <1>1. TypeOK'
    BY QuietFootprint DEF SafeInv
  <1>2. ASSUME NEW a \in Attempts, BorrowActive(a) \/ EndBorrow(a)
        PROVE  SafeInv'
    <2>1. /\ active' = active /\ retired' = retired /\ exits' = exits
          /\ pubs' = pubs /\ closed' = closed /\ made' = made
          /\ write' = write /\ mode' = mode
      BY <1>2 DEF BorrowActive, EndBorrow
    <2>2. /\ \A c \in Attempts \ {a} : holds'[c] = holds[c]
          /\ \/ mode # "idle" /\ holds[a] = None /\ holds'[a] = active
             \/ holds'[a] = None /\ pubs[a] = NoPub
      BY <1>2 DEF BorrowActive, EndBorrow, SafeInv, TypeOK
    <2>3. \A c \in Attempts : holds'[c] \in {holds[c], active, None}
      BY <2>2
    <2>4. holds[a] = None => pubs[a] = NoPub
      BY PublicationTyped, BackendAssumption DEF SafeInv, AttemptsInTurn
    <2>5. AttemptsInTurn'
      BY <2>1, <2>2, <2>4 DEF SafeInv, AttemptsInTurn
    <2>6. PreparedApart'
      BY <2>1 DEF SafeInv, PreparedApart
    <2>7. made \subseteq made' /\ (write' # NoWrite => write'.backend \in made')
      BY <2>1 DEF SafeInv, BuiltFirst
    <2> QED BY <1>1, <2>1, <2>3, <2>5, <2>6, <2>7, StillStep
  <1>3. ASSUME NEW b \in Backends, WritePrepare(b)
        PROVE  SafeInv'
    <2>1. /\ active' = active /\ retired' = retired /\ exits' = exits
          /\ pubs' = pubs /\ closed' = closed /\ made' = made \cup {b}
          /\ holds' = holds /\ mode' = mode /\ mode = "idle" /\ b \in Fresh
          /\ write' = [phase |-> "prepared", backend |-> b]
      BY <1>3 DEF WritePrepare, Idle
    <2>2. AttemptsInTurn'
      BY <2>1 DEF SafeInv, AttemptsInTurn
    <2>3. exits[b] = 0 /\ b \notin retired /\ b # active
      BY <2>1, FreshFacts
    <2>4. PreparedApart'
      BY <2>1, <2>3 DEF PreparedApart
    <2>5. made \subseteq made' /\ (write' # NoWrite => write'.backend \in made')
      BY <2>1
    <2> QED BY <1>1, <2>1, <2>2, <2>4, <2>5, StillStep
  <1>4. CASE UNCHANGED vars
    BY <1>4 DEF vars, SafeInv, TypeOK, InUseOpen, InUse, Borrowed,
                AttemptsInTurn, PublicationChain, PreparedApart, BuiltFirst
  <1>5. ASSUME StartCompaction \/ EndCompaction
        PROVE  SafeInv'
    <2>1. /\ active' = active /\ retired' = retired /\ exits' = exits
          /\ pubs' = pubs /\ closed' = closed /\ made' = made
          /\ holds' = holds /\ write' = write
      BY <1>5 DEF StartCompaction, EndCompaction
    <2>2. AttemptsInTurn'
      BY <1>5, <2>1 DEF StartCompaction, EndCompaction, SafeInv, AttemptsInTurn
    <2>3. PreparedApart'
      BY <1>5, <2>1 DEF StartCompaction, EndCompaction, Idle, SafeInv,
                        PreparedApart
    <2>4. made \subseteq made' /\ (write' # NoWrite => write'.backend \in made')
      BY <2>1 DEF SafeInv, BuiltFirst
    <2>5. \A a \in Attempts : holds'[a] \in {holds[a], active, None}
      BY <2>1
    <2> QED BY <1>1, <2>1, <2>2, <2>3, <2>4, <2>5, StillStep
  <1> QED BY <1>2, <1>3, <1>4, <1>5 DEF Quiet

LEMMA CloseStep ==
    ASSUME SafeInv, Close
    PROVE  SafeInv'
  <1>1. TypeOK'
    BY CloseTyped DEF SafeInv
  <1>2. /\ closed' /\ retired' = {} /\ active' = active /\ pubs' = pubs
        /\ holds' = holds /\ made' = made /\ mode' = mode
        /\ write = NoWrite /\ write' = write
        /\ exits' = [b \in Backends |-> IF b \in CloseSet THEN exits[b] + 1
                                                          ELSE exits[b]]
    BY DEF Close
  <1>3. InUseOpen' /\ PublicationChain' /\ PreparedApart'
    BY <1>2 DEF InUseOpen, PublicationChain, PreparedApart
  <1>4. AttemptsInTurn'
    BY <1>2 DEF SafeInv, AttemptsInTurn
  <1>5. CloseSet \subseteq made
    BY DEF SafeInv, BuiltFirst, CloseSet, Pending, NoPub
  <1>6. BuiltFirst'
    BY <1>2, <1>5 DEF SafeInv, BuiltFirst, TypeOK
  <1> QED BY <1>1, <1>3, <1>4, <1>6 DEF SafeInv

LEMMA InitSafe ==
    ASSUME Init PROVE SafeInv
  <1>1. Initial \in Backends /\ None \notin Backends
    BY BackendAssumption
  <1>2. TypeOK
    BY InitTyped
  <1>3. \A a \in Attempts : pubs[a] = NoPub /\ holds[a] = None
                            /\ pubs[a].previous = None
    BY DEF Init, NoPub
  <1>4. \A b \in Backends : exits[b] = 0
    BY DEF Init
  <1>5. /\ active = Initial /\ retired = {} /\ write = NoWrite
        /\ made = {Initial}
    BY DEF Init
  <1>6. InUseOpen
    BY <1>1, <1>3, <1>4, <1>5 DEF InUseOpen, InUse, Borrowed
  <1>7. AttemptsInTurn /\ PublicationChain /\ PreparedApart
    BY <1>3, <1>5 DEF AttemptsInTurn, PublicationChain, PreparedApart
  <1>8. BuiltFirst
    BY <1>3, <1>4, <1>5 DEF BuiltFirst
  <1> QED BY <1>2, <1>6, <1>7, <1>8 DEF SafeInv

LEMMA SafeStep ==
    ASSUME SafeInv, [Next]_vars
    PROVE  SafeInv'
  BY Steps, TurnStep, CloseStep, QuietStep, WriteCommitStep,
     WriteCommitFailsStep, WriteEndStep, BeginAttemptStep,
     AttemptSucceedsStep, AttemptFailsStep, InstallStep, DiscardStep

-----------------------------------------------------------------------------

\* SafeInv is inductive: the ownership structure (publication chain, attempts
\* in a turn or compaction, a prepared client kept apart) holds with InUseOpen
\* in every reachable state.
THEOREM Invariance == Spec => []SafeInv
  <1>1. Init => SafeInv
    BY InitSafe
  <1>2. SafeInv /\ [Next]_vars => SafeInv'
    BY SafeStep
  <1> QED BY <1>1, <1>2, PTL DEF Spec

\* Until aclose, no client that is active, borrowed, or that a rollback may
\* restore is ever closed, whatever attempts, reloads, refreshes and writes
\* overlap, and however many clients there are.
THEOREM Safety == Spec => []InUseOpen
  <1>1. SafeInv => InUseOpen
    BY DEF SafeInv
  <1> QED BY <1>1, Invariance, PTL

-----------------------------------------------------------------------------
(* Custody: no client is forgotten and none is closed twice by aclose.      *)

\* What a call sequence that retires the clients R, before aclose, leaves of
\* them: they are closed or wait among the retired, and what waits there was
\* not touched.
Kept(R) ==
    /\ \A b \in Backends : exits[b] > 0 => exits'[b] > 0
    /\ \A b \in retired \cup R : b \in retired' \/ exits'[b] > 0
    /\ \A b \in retired' : exits'[b] = exits[b]

LEMMA ScheduleClosesKeeps ==
    ASSUME NEW owned \in OwnedType, NEW h \in [Attempts -> Backends \cup {None}]
    PROVE  LET after == ScheduleCloses(owned, h)
           IN /\ \A b \in Backends : owned.exits[b] > 0 => after.exits[b] > 0
              /\ \A b \in owned.retired :
                    b \in after.retired \/ after.exits[b] > 0
              /\ \A b \in after.retired :
                    b \in Borrowed(h) /\ after.exits[b] = owned.exits[b]
  BY DEF ScheduleCloses, OwnedType

\* retire takes custody of its argument; what it leaves waiting was already
\* waiting, or a turn or a borrow protects it.
LEMMA RetireKeeps ==
    ASSUME NEW owned \in OwnedType, NEW r \in Backends, NEW whole \in BOOLEAN,
           NEW h \in [Attempts -> Backends \cup {None}], ~closed
    PROVE  LET after == Retire(owned, r, whole, h)
           IN /\ \A b \in Backends : owned.exits[b] > 0 => after.exits[b] > 0
              /\ \A b \in owned.retired \cup {r} :
                    b \in after.retired \/ after.exits[b] > 0
              /\ \A b \in after.retired : after.exits[b] = owned.exits[b]
              /\ r \in after.retired =>
                    r \in owned.retired \/ whole \/ r \in Borrowed(h)
  <1> DEFINE appended == [retired |-> owned.retired \cup {r}, exits |-> owned.exits]
  <1>1. /\ appended \in OwnedType
        /\ appended.retired = owned.retired \cup {r}
        /\ appended.exits = owned.exits
    BY DEF OwnedType
  <1>2. CASE r \in owned.retired
    BY <1>2 DEF Retire, OwnedType
  <1>3. CASE r \notin owned.retired /\ (whole \/ r \in Borrowed(h))
    <2>1. Retire(owned, r, whole, h) = appended
      BY <1>3 DEF Retire
    <2> QED BY <2>1, <1>1, <1>3
  <1>4. CASE r \notin owned.retired /\ ~(whole \/ r \in Borrowed(h))
    <2>1. Retire(owned, r, whole, h) = ScheduleCloses(appended, h)
      BY <1>4 DEF Retire
    <2> HIDE DEF appended
    <2>2. LET after == ScheduleCloses(appended, h)
          IN /\ \A b \in Backends : appended.exits[b] > 0 => after.exits[b] > 0
             /\ \A b \in appended.retired :
                   b \in after.retired \/ after.exits[b] > 0
             /\ \A b \in after.retired :
                   b \in Borrowed(h) /\ after.exits[b] = appended.exits[b]
      BY <1>1, ScheduleClosesKeeps
    <2> QED BY <2>1, <2>2, <1>1, <1>4
  <1> QED BY <1>2, <1>3, <1>4

LEMMA DrainKept ==
    ASSUME TypeOK, ~closed, holds' \in [Attempts -> Backends \cup {None}],
           SetOwned(Drain(Owned, holds'))
    PROVE  Kept({})
  <1>1. holds' \in [Attempts -> Backends \cup {None}]
    OBVIOUS
  <1>2. Owned \in OwnedType /\ Owned.retired = retired /\ Owned.exits = exits
    BY OwnedTyped DEF Owned
  <1> DEFINE after == ScheduleCloses(Owned, holds')
  <1>3. /\ \A b \in Backends : Owned.exits[b] > 0 => after.exits[b] > 0
        /\ \A b \in Owned.retired : b \in after.retired \/ after.exits[b] > 0
        /\ \A b \in after.retired : after.exits[b] = Owned.exits[b]
    BY <1>1, <1>2, ScheduleClosesKeeps
  <1>4. retired' = after.retired /\ exits' = after.exits
    BY DEF SetOwned, Drain
  <1> HIDE DEF after
  <1> QED BY <1>2, <1>3, <1>4 DEF Kept

\* An action that retires r before aclose, and drains or not, keeps custody.
LEMMA RetireKept ==
    ASSUME TypeOK, ~closed, holds' \in [Attempts -> Backends \cup {None}],
           NEW r \in Backends, NEW whole \in BOOLEAN,
           \/ SetOwned(Retire(Owned, r, whole, holds'))
           \/ SetOwned(Drain(Retire(Owned, r, whole, holds'), holds'))
    PROVE  /\ Kept({r})
           /\ r \in retired' =>
                 r \in retired \/ whole \/ r \in Borrowed(holds')
  <1>1. holds' \in [Attempts -> Backends \cup {None}]
    OBVIOUS
  <1>2. Owned \in OwnedType /\ Owned.retired = retired /\ Owned.exits = exits
    BY OwnedTyped DEF Owned
  <1> DEFINE mid == Retire(Owned, r, whole, holds')
             after == ScheduleCloses(mid, holds')
  <1>3. /\ \A b \in Backends : Owned.exits[b] > 0 => mid.exits[b] > 0
        /\ \A b \in Owned.retired \cup {r} :
              b \in mid.retired \/ mid.exits[b] > 0
        /\ \A b \in mid.retired : mid.exits[b] = Owned.exits[b]
        /\ r \in mid.retired =>
              r \in Owned.retired \/ whole \/ r \in Borrowed(holds')
    BY <1>1, <1>2, RetireKeeps
  <1>4. /\ mid \in OwnedType
        /\ mid.retired \subseteq Owned.retired \cup {r}
    BY <1>1, <1>2, RetireBound
  <1> HIDE DEF mid
  <1>5. /\ \A b \in Backends : mid.exits[b] > 0 => after.exits[b] > 0
        /\ \A b \in mid.retired : b \in after.retired \/ after.exits[b] > 0
        /\ \A b \in after.retired : after.exits[b] = mid.exits[b]
        /\ after.retired \subseteq mid.retired
    BY <1>1, <1>4, ScheduleClosesKeeps, ScheduleClosesBound
  <1>6. \/ retired' = mid.retired /\ exits' = mid.exits
        \/ retired' = after.retired /\ exits' = after.exits
    BY DEF SetOwned, Drain, mid, after
  <1> HIDE DEF after
  <1>7. mid.retired \subseteq Backends
    BY <1>4 DEF OwnedType
  <1>8. CASE retired' = mid.retired /\ exits' = mid.exits
    BY <1>2, <1>3, <1>8 DEF Kept
  <1>9. CASE retired' = after.retired /\ exits' = after.exits
    <2>1. \A b \in Backends : exits[b] > 0 => exits'[b] > 0
      BY <1>2, <1>3, <1>5, <1>9
    <2>2. \A b \in retired \cup {r} : b \in retired' \/ exits'[b] > 0
      BY <1>2, <1>3, <1>5, <1>9 DEF TypeOK
    <2>3. \A b \in retired' : exits'[b] = exits[b]
      BY <1>2, <1>3, <1>5, <1>9
    <2> QED BY <2>1, <2>2, <2>3, <1>2, <1>3, <1>5, <1>9 DEF Kept
  <1> QED BY <1>6, <1>8, <1>9

\* A step that leaves the publications alone keeps custody if the clients it
\* takes out of circulation are among those it retires, R, and were open.
LEMMA CustodyStep ==
    ASSUME CustodyInv, SafeInv', NEW R \in SUBSET Backends, ~closed,
           closed' = closed, pubs' = pubs, Kept(R), Footprint(R),
           active \in {active'} \cup R,
           \A b \in R : b \in retired' => b \in retired \/ exits[b] = 0,
           made' \subseteq made \cup {active', write'.backend} \cup R,
           write.backend \in {None, write'.backend, active'} \cup R
    PROVE  CustodyInv'
  <1>1. /\ None \notin Backends /\ made \subseteq Backends
        /\ active \in Backends /\ made' \subseteq Backends
    BY BackendAssumption DEF CustodyInv, SafeInv, TypeOK
  <1>2. Pending' = Pending
    BY DEF Pending
  <1>3. NoLeak'
    <2>1. SUFFICES ASSUME NEW b \in made'
                   PROVE  \/ b = active' \/ b \in retired' \cup Pending
                          \/ b = write'.backend \/ exits'[b] > 0
      BY <1>2 DEF NoLeak
    <2>2. CASE b \notin made
      BY <2>1, <2>2 DEF Kept
    <2>3. CASE b \in made
      <3>1. \/ b = active \/ b \in retired \cup Pending
            \/ b = write.backend \/ exits[b] > 0
        BY <2>3 DEF CustodyInv, NoLeak
      <3> QED BY <1>1, <2>1, <3>1 DEF Kept
    <2> QED BY <2>2, <2>3
  <1>4. Replaced'
    <2>1. SUFFICES ASSUME NEW a \in Attempts, pubs[a] # NoPub,
                          NEW r, r = pubs[a].replacement
                   PROVE  \/ r = active' \/ r \in retired' \/ exits'[r] > 0
                          \/ \E c \in Attempts \ {a} : pubs[c].previous = r
      BY DEF Replaced
    <2>2. \/ r = active \/ r \in retired \/ exits[r] > 0
          \/ \E c \in Attempts \ {a} : pubs[c].previous = r
      BY <2>1 DEF CustodyInv, Replaced
    <2>3. r \in Backends
      BY <2>1, PublicationTyped DEF CustodyInv, SafeInv
    <2> QED BY <2>2, <2>3 DEF Kept
  <1>5. RetiredOpen'
    BY DEF CustodyInv, RetiredOpen, Kept, Footprint
  <1> QED BY <1>3, <1>4, <1>5 DEF CustodyInv

\* What is in use is open, so what an action takes out of use is.
LEMMA CustodyFacts ==
    ASSUME CustodyInv, ~closed
    PROVE  /\ TypeOK /\ SafeInv
           /\ active \in Backends /\ exits[active] = 0
           /\ \A a \in Attempts : pubs[a] # NoPub =>
                 /\ pubs[a].previous \in Backends
                 /\ exits[pubs[a].previous] = 0
                 /\ pubs[a].replacement \in Backends
                 /\ exits[pubs[a].replacement] = 0
  <1>1. TypeOK /\ SafeInv /\ active \in Backends /\ exits[active] = 0
    BY InUseFacts DEF CustodyInv, SafeInv, TypeOK
  <1>2. ASSUME NEW a \in Attempts, pubs[a] # NoPub
        PROVE  /\ pubs[a].previous \in Backends
               /\ exits[pubs[a].previous] = 0
               /\ pubs[a].replacement \in Backends
               /\ exits[pubs[a].replacement] = 0
    <2>1. pubs[a].previous \in Backends /\ pubs[a].replacement \in Backends
      BY <1>1, <1>2, PublicationTyped
    <2>2. holds[a] = pubs[a].replacement
      BY <1>1, <1>2 DEF SafeInv, AttemptsInTurn
    <2> QED BY <1>1, <2>1, <2>2, BackendAssumption, InUseFacts
  <1> QED BY <1>1, <1>2

LEMMA InstallCustody ==
    ASSUME CustodyInv, SafeInv', NEW b \in Backends, Install(b)
    PROVE  CustodyInv'
  <1>1. /\ ~closed /\ closed' = closed /\ pubs' = pubs /\ holds' = holds
        /\ active' = b /\ made' = made \cup {b} /\ write' = write
    BY DEF Install, LaunchReconfigure, CommitReload, RefreshForResume
  <1>2. TypeOK /\ SafeInv /\ active \in Backends /\ exits[active] = 0
    BY <1>1, CustodyFacts
  <1>3. PICK whole \in BOOLEAN : SetOwned(Retire(Owned, active, whole, holds'))
    BY <1>1, <1>2 DEF Install, LaunchReconfigure, CommitReload,
                      RefreshForResume, TypeOK
  <1>4. Kept({active})
    BY <1>1, <1>2, <1>3, RetireKept DEF TypeOK
  <1>5. Footprint({active})
    BY <1>2, InstallFootprint
  <1> QED BY <1>1, <1>2, <1>4, <1>5, CustodyStep

LEMMA DiscardCustody ==
    ASSUME CustodyInv, SafeInv', NEW b \in Backends, Discard(b)
    PROVE  CustodyInv'
  <1>1. /\ ~closed /\ closed' = closed /\ pubs' = pubs /\ holds' = holds
        /\ active' = active /\ made' = made \cup {b} /\ write' = write
        /\ b \in Fresh /\ SetOwned(Retire(Owned, b, FALSE, holds'))
    BY DEF Discard, LaunchReconfigureFails, CommitReloadFails
  <1>2. TypeOK /\ SafeInv /\ exits[b] = 0
    BY <1>1, FreshFacts DEF CustodyInv, SafeInv
  <1>3. Kept({b})
    BY <1>1, <1>2, RetireKept DEF TypeOK
  <1>4. Footprint({b})
    BY <1>2, DiscardFootprint
  <1> QED BY <1>1, <1>2, <1>3, <1>4, CustodyStep

LEMMA WriteCommitCustody ==
    ASSUME CustodyInv, SafeInv', WriteCommit
    PROVE  CustodyInv'
  <1>1. /\ ~closed /\ closed' = closed /\ pubs' = pubs /\ holds' = holds
        /\ active' = write.backend /\ made' = made /\ write # NoWrite
        /\ SetOwned(Retire(Owned, active, mode = "turn", holds'))
    BY DEF WriteCommit, NoWrite
  <1>2. TypeOK /\ SafeInv /\ active \in Backends /\ exits[active] = 0
    BY <1>1, CustodyFacts
  <1>3. Kept({active})
    BY <1>1, <1>2, RetireKept DEF TypeOK
  <1>4. Footprint({active})
    BY <1>2, WriteCommitFootprint
  <1> QED BY <1>1, <1>2, <1>3, <1>4, CustodyStep

LEMMA WriteCommitFailsCustody ==
    ASSUME CustodyInv, SafeInv', WriteCommitFails
    PROVE  CustodyInv'
  <1>1. /\ ~closed /\ closed' = closed /\ pubs' = pubs /\ holds' = holds
        /\ active' = active /\ made' = made
        /\ SetOwned(Retire(Owned, write.backend, FALSE, holds'))
    BY DEF WriteCommitFails
  <1>2. write # NoWrite
    BY DEF WriteCommitFails, NoWrite
  <1>3. /\ TypeOK /\ SafeInv /\ write.backend \in Backends
        /\ write'.backend = write.backend
    BY <1>2, WriteTyped DEF CustodyInv, SafeInv, WriteCommitFails
  <1>4. exits[write.backend] = 0
    BY <1>1, <1>2, <1>3 DEF WriteCommitFails, SafeInv, PreparedApart
  <1>5. Kept({write.backend})
    BY <1>1, <1>3, RetireKept DEF TypeOK
  <1>6. Footprint({write.backend})
    BY <1>3, WriteCommitFailsFootprint
  <1> QED BY <1>1, <1>3, <1>4, <1>5, <1>6, CustodyStep

\* The finally block retires a client that may have been closed already, when
\* a reload replaced it; it then closes again at once and is not kept waiting.
LEMMA WriteEndCustody ==
    ASSUME CustodyInv, SafeInv', ~closed, WriteEnd
    PROVE  CustodyInv'
  <1>1. /\ closed' = closed /\ pubs' = pubs /\ holds' = holds
        /\ active' = active /\ made' = made /\ write # NoWrite
        /\ write' = NoWrite
    BY DEF WriteEnd
  <1>2. TypeOK /\ SafeInv /\ write.backend \in Backends
    BY <1>1, WriteTyped DEF CustodyInv, SafeInv
  <1>3. CASE write.backend = active
    <2>1. retired' = retired /\ exits' = exits
      BY <1>3 DEF WriteEnd, SetOwned, Owned
    <2>2. Kept({}) /\ Footprint({})
      BY <1>2, <2>1 DEF Kept, Footprint, TypeOK
    <2> QED BY <1>1, <1>3, <2>2, CustodyStep
  <1>4. CASE write.backend # active
    <2>1. SetOwned(Retire(Owned, write.backend, FALSE, holds'))
      BY <1>1, <1>2, <1>4 DEF WriteEnd, SafeInv, PreparedApart
    <2>2. write.backend \notin Borrowed(holds')
      BY <1>1, <1>2 DEF Borrowed, SafeInv, PreparedApart, AttemptsInTurn
    <2>3. /\ Kept({write.backend})
          /\ write.backend \in retired' => write.backend \in retired
      BY <1>1, <1>2, <2>1, <2>2, RetireKept DEF TypeOK
    <2>4. Footprint({write.backend})
      BY <1>1, <1>2, <2>1, RetireFootprint DEF TypeOK
    <2> QED BY <1>1, <1>2, <2>3, <2>4, CustodyStep
  <1> QED BY <1>3, <1>4

LEMMA TurnCustody ==
    ASSUME CustodyInv, SafeInv', ~closed, StartTurn \/ EndTurn
    PROVE  CustodyInv'
  <1>1. /\ UNCHANGED <<active, pubs, holds, closed, made, write>>
        /\ SetOwned(Drain(Owned, holds'))
    BY DEF StartTurn, EndTurn
  <1>2. Kept({}) /\ Footprint({})
    BY <1>1, DrainKept, DrainFootprint DEF CustodyInv, SafeInv, TypeOK
  <1> QED BY <1>1, <1>2, CustodyStep

LEMMA QuietCustody ==
    ASSUME CustodyInv, SafeInv', ~closed, Quiet
    PROVE  CustodyInv'
  <1>1. /\ UNCHANGED <<active, pubs, retired, exits, closed>>
        /\ \/ made' = made /\ write' = write
           \/ \E b \in Backends : /\ made' = made \cup {b} /\ write = NoWrite
                                  /\ write' = [phase |-> "prepared", backend |-> b]
    BY DEF Quiet, StartCompaction, EndCompaction, BorrowActive, EndBorrow,
           WritePrepare, Idle, vars
  <1>2. /\ made' \subseteq made \cup {active', write'.backend}
        /\ write.backend \in {None, write'.backend, active'}
    BY <1>1 DEF NoWrite
  <1>3. Kept({}) /\ Footprint({})
    BY <1>1 DEF Kept, Footprint, CustodyInv, SafeInv, TypeOK
  <1> QED BY <1>1, <1>2, <1>3, CustodyStep

\* The client a publication replaces is the previous one of that publication.
LEMMA BeginAttemptCustody ==
    ASSUME CustodyInv, SafeInv', NEW a \in Attempts, NEW b \in Backends,
           BeginAttempt(a, b)
    PROVE  CustodyInv'
  <1>1. /\ ~closed /\ closed' = closed /\ active' = b /\ retired' = retired
        /\ exits' = exits /\ made' = made \cup {b} /\ write' = write
        /\ holds[a] = None
    BY DEF BeginAttempt
  <1>2. /\ TypeOK /\ SafeInv /\ active \in Backends
        /\ pubs[a] = NoPub
    BY <1>1, CustodyFacts, PublicationTyped, BackendAssumption
       DEF SafeInv, AttemptsInTurn
  <1>3. /\ pubs'[a] = [previous |-> active, replacement |-> b]
        /\ \A c \in Attempts \ {a} : pubs'[c] = pubs[c]
    BY <1>2 DEF BeginAttempt, TypeOK
  <1>4. /\ pubs'[a].previous = active /\ pubs'[a].replacement = b
        /\ pubs[a].previous = None /\ pubs[a].replacement = None
    BY <1>2, <1>3 DEF NoPub
  <1>5. Pending \subseteq Pending' \cup {None} /\ active \in Pending'
    BY <1>3, <1>4 DEF Pending
  <1>6. NoLeak'
    BY <1>1, <1>2, <1>5, BackendAssumption
       DEF CustodyInv, NoLeak, TypeOK
  <1>7. Replaced'
    <2>1. SUFFICES ASSUME NEW c \in Attempts, pubs'[c] # NoPub,
                          NEW r, r = pubs'[c].replacement
                   PROVE  \/ r = active' \/ r \in retired \/ exits[r] > 0
                          \/ \E d \in Attempts \ {c} : pubs'[d].previous = r
      BY <1>1 DEF Replaced
    <2>2. CASE c = a
      BY <1>1, <1>4, <2>1, <2>2
    <2>3. CASE c # a
      <3>1. \/ r = active \/ r \in retired \/ exits[r] > 0
            \/ \E d \in Attempts \ {c} : pubs[d].previous = r
        BY <1>1, <1>3, <2>1, <2>3 DEF CustodyInv, Replaced
      <3>2. r # None
        BY <1>2, <1>3, <2>1, <2>3, PublicationTyped, BackendAssumption
      <3>3. CASE r = active
        BY <1>4, <2>3, <3>3
      <3>4. ASSUME NEW d \in Attempts \ {c}, pubs[d].previous = r
            PROVE  pubs'[d].previous = r
        BY <1>3, <1>4, <3>2, <3>4
      <3> QED BY <3>1, <3>3, <3>4
    <2> QED BY <2>2, <2>3
  <1>8. RetiredOpen'
    BY <1>1 DEF CustodyInv, RetiredOpen
  <1> QED BY <1>6, <1>7, <1>8 DEF CustodyInv

\* Both ways an attempt settles: of the two clients of its publication one is
\* retired, and the other is active or was taken over before.
LEMMA SettleCustody ==
    ASSUME CustodyInv, SafeInv', ~closed, closed' = closed,
           NEW a \in Attempts, NEW r \in Backends, pubs[a] # NoPub,
           pubs' = [pubs EXCEPT ![a] = NoPub],
           made' = made, write' = write, Kept({r}), Footprint({r}),
           \/ active' = active /\ r = pubs[a].previous
           \/ /\ active' = pubs[a].previous /\ r = pubs[a].replacement
              /\ active = r
    PROVE  CustodyInv'
  <1>1. /\ TypeOK /\ SafeInv /\ active \in Backends /\ exits[r] = 0
        /\ pubs[a].previous \in Backends /\ pubs[a].replacement \in Backends
    BY CustodyFacts
  <1>2. /\ pubs'[a] = NoPub
        /\ \A c \in Attempts \ {a} : pubs'[c] = pubs[c]
    BY <1>1 DEF TypeOK
  <1>3. \A b \in {active, pubs[a].previous} \cup retired :
            b = active' \/ b \in retired' \/ exits'[b] > 0
    BY DEF Kept
  <1> DEFINE q == pubs[a].replacement
  <1>4. \/ q = active' \/ q \in retired' \/ exits'[q] > 0
        \/ \E c \in Attempts \ {a} : pubs'[c].previous = q
    <2>1. \/ q = active \/ q \in retired \/ exits[q] > 0
          \/ \E c \in Attempts \ {a} : pubs[c].previous = q
      BY DEF CustodyInv, Replaced
    <2>2. CASE q \in {active} \cup retired
      BY <1>3, <2>2
    <2>3. CASE exits[q] > 0
      BY <1>1, <2>3 DEF Kept
    <2>4. CASE \E c \in Attempts \ {a} : pubs[c].previous = q
      BY <1>2, <2>4
    <2> QED BY <2>1, <2>2, <2>3, <2>4
  <1>5. q = active' \/ q \in retired' \cup Pending' \/ exits'[q] > 0
    BY <1>4 DEF Pending
  <1>6. NoLeak'
    <2>1. SUFFICES ASSUME NEW b \in made
                   PROVE  \/ b = active' \/ b \in retired' \cup Pending'
                          \/ b = write.backend \/ exits'[b] > 0
      BY DEF NoLeak
    <2>2. \/ b = active \/ b \in retired \cup Pending
          \/ b = write.backend \/ exits[b] > 0
      BY DEF CustodyInv, NoLeak
    <2>3. CASE b \in Pending
      <3>1. PICK c \in Attempts : b \in {pubs[c].previous, pubs[c].replacement}
        BY <2>3 DEF Pending
      <3>2. CASE c = a
        BY <1>3, <1>5, <3>1, <3>2
      <3>3. CASE c # a
        BY <1>2, <3>1, <3>3 DEF Pending
      <3> QED BY <3>2, <3>3
    <2>4. b \in Backends
      BY <1>1 DEF TypeOK
    <2> QED BY <1>3, <2>2, <2>3, <2>4 DEF Kept
  <1>7. Replaced'
    <2>1. SUFFICES ASSUME NEW c \in Attempts, c # a, pubs[c] # NoPub,
                          NEW x, x = pubs[c].replacement
                   PROVE  \/ x = active' \/ x \in retired' \/ exits'[x] > 0
                          \/ \E d \in Attempts \ {c} : pubs'[d].previous = x
      BY <1>2 DEF Replaced
    <2>2. \/ x = active \/ x \in retired \/ exits[x] > 0
          \/ \E d \in Attempts \ {c} : pubs[d].previous = x
      BY <2>1 DEF CustodyInv, Replaced
    <2>3. CASE x \in {active} \cup retired
      BY <1>3, <2>3
    <2>4. CASE exits[x] > 0
      BY <1>1, <2>1, <2>4, CustodyFacts
    <2>5. ASSUME NEW d \in Attempts \ {c}, pubs[d].previous = x
          PROVE  \/ x = active' \/ x \in retired' \/ exits'[x] > 0
                 \/ pubs'[d].previous = x
      <3>1. CASE d = a
        BY <1>3, <2>5, <3>1
      <3>2. CASE d # a
        BY <1>2, <2>5, <3>2
      <3> QED BY <3>1, <3>2
    <2> QED BY <2>2, <2>3, <2>4, <2>5
  <1>8. RetiredOpen'
    BY <1>1 DEF CustodyInv, RetiredOpen, Kept, Footprint
  <1> QED BY <1>6, <1>7, <1>8 DEF CustodyInv

LEMMA AttemptSucceedsCustody ==
    ASSUME CustodyInv, SafeInv', ~closed, NEW a \in Attempts,
           AttemptSucceeds(a)
    PROVE  CustodyInv'
  <1>1. /\ pubs[a] # NoPub /\ active' = active
        /\ pubs' = [pubs EXCEPT ![a] = NoPub]
        /\ closed' = closed /\ made' = made /\ write' = write
        /\ SetOwned(Retire(Owned, pubs[a].previous, TRUE, holds'))
    BY DEF AttemptSucceeds
  <1>2. TypeOK /\ pubs[a].previous \in Backends
    BY <1>1, CustodyFacts
  <1>3. Footprint({pubs[a].previous})
    BY <1>2, AttemptSucceedsFootprint
  <1>4. Kept({pubs[a].previous})
    <2>1. holds' \in [Attempts -> Backends \cup {None}]
      BY <1>2 DEF AttemptSucceeds, TypeOK
    <2> QED BY <1>1, <1>2, <2>1, RetireKept
  <1> QED BY <1>1, <1>2, <1>3, <1>4, SettleCustody

LEMMA AttemptFailsCustody ==
    ASSUME CustodyInv, SafeInv', ~closed, NEW a \in Attempts,
           NEW cancelled \in BOOLEAN, AttemptFails(a, cancelled)
    PROVE  CustodyInv'
  <1> DEFINE r == RollbackRetires(pubs[a])
             undone == Retire(Owned, r, FALSE, holds')
  <1>1. /\ pubs[a] # NoPub /\ active' = RollbackActive(pubs[a])
        /\ pubs' = [pubs EXCEPT ![a] = NoPub]
        /\ closed' = closed /\ made' = made /\ write' = write
        /\ SetOwned(undone) \/ SetOwned(Drain(undone, holds'))
    BY DEF AttemptFails
  <1>2. /\ TypeOK /\ r \in Backends
        /\ \/ active' = active /\ r = pubs[a].previous
           \/ /\ active' = pubs[a].previous /\ r = pubs[a].replacement
              /\ active = r
    BY <1>1, CustodyFacts DEF RollbackRetires, RollbackActive
  <1>3. Footprint({r})
    BY <1>2, AttemptFailsFootprint
  <1> HIDE DEF r
  <1>4. Kept({r})
    <2>1. holds' \in [Attempts -> Backends \cup {None}]
      BY <1>2 DEF AttemptFails, TypeOK
    <2> QED BY <1>1, <1>2, <2>1, RetireKept
  <1> QED BY <1>1, <1>2, <1>3, <1>4, SettleCustody

\* aclose closes whatever is not closed already, and nothing twice.
LEMMA CloseCustody ==
    ASSUME CustodyInv, SafeInv', Close
    PROVE  /\ CustodyInv'
           /\ \A b \in Backends : exits[b] > 0 => exits'[b] = exits[b]
  <1>1. /\ ~closed /\ closed' /\ made' = made /\ write = NoWrite
        /\ exits' = [b \in Backends |-> IF b \in CloseSet THEN exits[b] + 1
                                                          ELSE exits[b]]
    BY DEF Close
  <1>2. TypeOK /\ None \notin Backends
    BY <1>1, CustodyFacts, BackendAssumption
  <1>3. \A b \in made : b \in CloseSet \/ exits[b] > 0
    BY <1>1, <1>2 DEF CustodyInv, NoLeak, CloseSet, NoWrite, TypeOK
  <1>4. \A b \in made : exits'[b] > 0
    BY <1>1, <1>2, <1>3 DEF TypeOK
  <1>5. ASSUME NEW b \in CloseSet PROVE exits[b] = 0
    <2>1. CASE b \in {active} \cup retired
      BY <1>1, <2>1, CustodyFacts DEF CustodyInv, RetiredOpen
    <2>2. CASE b \in Pending
      <3>1. PICK a \in Attempts : b \in {pubs[a].previous, pubs[a].replacement}
        BY <2>2 DEF Pending
      <3>2. pubs[a] # NoPub
        BY <1>5, <3>1 DEF CloseSet, NoPub
      <3> QED BY <1>1, <3>1, <3>2, CustodyFacts
    <2> QED BY <2>1, <2>2 DEF CloseSet
  <1>6. \A b \in Backends : exits[b] > 0 => exits'[b] = exits[b]
    BY <1>1, <1>5
  <1>7. NoLeak' /\ Replaced' /\ RetiredOpen'
    BY <1>1, <1>4 DEF NoLeak, Replaced, RetiredOpen
  <1> QED BY <1>6, <1>7 DEF CustodyInv

\* After aclose the lifetime builds and closes nothing any more.
LEMMA ClosedCustody ==
    ASSUME CustodyInv, SafeInv', closed, [Next]_vars
    PROVE  CustodyInv' /\ closed'
  <1>1. TypeOK
    BY DEF CustodyInv, SafeInv
  <1>2. closed' /\ made' = made
    BY DEF Next, StartTurn, EndTurn, StartCompaction, EndCompaction,
           BeginAttempt, BorrowActive, EndBorrow, AttemptSucceeds,
           AttemptFails, LaunchReconfigure, LaunchReconfigureFails,
           CommitReload, CommitReloadFails, RefreshForResume, WritePrepare,
           WriteCommit, WriteCommitFails, WriteEnd, Close, Finished, vars
  <1>3. exits' = exits
    <2>1. CASE Close
      BY <2>1 DEF Close
    <2> QED BY <1>1, <2>1, Steps, StartTurnFootprint, EndTurnFootprint,
               QuietFootprint, WriteCommitFootprint, WriteCommitFailsFootprint,
               WriteEndFootprint, BeginAttemptFootprint,
               AttemptSucceedsFootprint, AttemptFailsFootprint,
               InstallFootprint, DiscardFootprint DEF Footprint
  <1> QED BY <1>2, <1>3 DEF CustodyInv, NoLeak, Replaced, RetiredOpen

LEMMA CustodyNext ==
    ASSUME CustodyInv, [Next]_vars
    PROVE  CustodyInv'
  <1>1. SafeInv'
    BY SafeStep DEF CustodyInv
  <1>2. CASE closed
    BY <1>1, <1>2, ClosedCustody
  <1>3. CASE ~closed
    BY <1>1, <1>3, Steps, TurnCustody, QuietCustody, WriteCommitCustody,
       WriteCommitFailsCustody, WriteEndCustody, BeginAttemptCustody,
       AttemptSucceedsCustody, AttemptFailsCustody, InstallCustody,
       DiscardCustody, CloseCustody
  <1> QED BY <1>2, <1>3

\* CustodyInv is inductive: before aclose every client in circulation is
\* accounted for and what waits for a deferred close is open; after it every
\* client built has been closed.
THEOREM Custody == Spec => []CustodyInv
  <1>1. Init => CustodyInv
    <2>1. ASSUME Init PROVE SafeInv
      BY <2>1, InitSafe
    <2>2. ASSUME Init PROVE NoLeak /\ Replaced /\ RetiredOpen
      BY <2>2 DEF Init, NoLeak, Replaced, RetiredOpen
    <2> QED BY <2>1, <2>2 DEF CustodyInv
  <1>2. CustodyInv /\ [Next]_vars => CustodyInv'
    BY CustodyNext
  <1> QED BY <1>1, <1>2, PTL DEF Spec

\* No client is forgotten: whatever attempts, reloads, refreshes, launches and
\* writes overlap and fail, each client built is in use, awaits its close or
\* has been closed, and once aclose has run all of them have.
THEOREM NothingLeaks == Spec => []NoLeak
  <1>1. CustodyInv => NoLeak
    BY DEF CustodyInv
  <1> QED BY <1>1, Custody, PTL

\* aclose issues no second close of a client a close task already has
\* (backend_lifetime.py:164-165).
THEOREM JoinsCloses == Spec => CloseJoins
  <1>1. CustodyInv /\ [Next]_vars =>
          [closed # closed' => \A b \in Backends :
              exits[b] > 0 => exits'[b] = exits[b]]_vars
    <2>1. SUFFICES ASSUME CustodyInv, [Next]_vars, closed # closed'
                   PROVE  \A b \in Backends :
                              exits[b] > 0 => exits'[b] = exits[b]
      OBVIOUS
    <2>2. SafeInv' /\ TypeOK
      BY <2>1, SafeStep DEF CustodyInv, SafeInv
    <2>3. Close
      BY <2>1 DEF Next, StartTurn, EndTurn, StartCompaction, EndCompaction,
           BeginAttempt, BorrowActive, EndBorrow, AttemptSucceeds,
           AttemptFails, LaunchReconfigure, LaunchReconfigureFails,
           CommitReload, CommitReloadFails, RefreshForResume, WritePrepare,
           WriteCommit, WriteCommitFails, WriteEnd, Finished, vars
    <2> QED BY <2>1, <2>2, <2>3, CloseCustody
  <1> QED BY <1>1, Custody, PTL DEF Spec, CloseJoins
=============================================================================
