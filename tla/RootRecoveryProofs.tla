---------------------- MODULE RootRecoveryProofs ----------------------
(***************************************************************************)
(* Two theorems about RootRecovery, for every bound: the continuations of  *)
(* a failure share one budget, and none is driven after input of the user. *)
(*                                                                         *)
(* The argument for the budget is that an attempt is in one place at a     *)
(* time: in the answer to its schedule, at the timer, or in a task that is *)
(* about to start it.  So a continuation that is started finds its episode *)
(* waiting for it, and its failure finds the episode again.                *)
(***************************************************************************)
EXTENDS RootRecovery, TLAPS

USE DEF turns, gate, client, wire, history, past, Live

-----------------------------------------------------------------------------
(* The invariant *)

EpisodeType == [count : Nat, key : Nat, turn : Nat, gen : Nat, succ : Nat,
                inFlight : BOOLEAN, awaiting : BOOLEAN, admitted : SUBSET Nat,
                deferrals : Nat]
Phases == {"idle", "sent", "telling", "ending", "answered"}
Replies == {"none", "declined", "scheduled", "unstarted", "started", "deferred",
            "admitted"}
CallType == [pc : Phases, turn : Nat, ep : Nat, key : Nat, gen : Nat,
             session : Nat, reply : Replies]
DriveType == [ep : Nat, key : Nat, turn : Nat, begun : BOOLEAN]

TypedTurns ==
    /\ active \in Nat /\ fresh \in Nat /\ active < fresh /\ fresh <= MaxTurns + 1
    /\ gen \in Nat /\ session \in Nat
    /\ DOMAIN failures \subseteq Turns /\ observed \subseteq Turns
    /\ seen \in [Turns -> Nat] /\ chain \in [Turns -> Nat]
TypedEpisodes == \A i \in Live : episodes[i] \in EpisodeType
TypedCalls ==
    /\ sched \in CallType /\ admit \in CallType
    /\ double # None => double \in CallType
TypedClient ==
    /\ timer # "none" =>
         pending.ep \in Nat /\ pending.key \in Nat /\ pending.turn \in Nat
    /\ timer = "none" => pending = None
    /\ timer \in {"none", "sleeping", "asking", "cancelling"}
    /\ drives \subseteq DriveType
Typed == TypedTurns /\ TypedEpisodes /\ TypedCalls /\ TypedClient

\* A failure is over and was observed before its schedule is asked for.
Frame ==
    /\ \A t \in DOMAIN failures \cup observed : t < fresh /\ t # active
    /\ sched.pc # "idle" => sched.turn \in observed /\ sched.session <= session

\* Turn t may yet be the subject of a schedule.
Open(t) == \/ t = active
           \/ t \in DOMAIN failures /\ t \notin observed
           \/ Asked /\ t = sched.turn
Closed(t) == t = 0 \/ (t \in Turns /\ t < fresh /\ ~Open(t))

\* An attempt of episode i is under way.
SchedToken(i) ==
    /\ sched.ep = i
    /\ sched.pc = "telling" \/ (sched.pc = "answered" /\ sched.reply = "scheduled")
TimerToken(i) == timer \in {"sleeping", "asking"} /\ pending.ep = i
DriveToken(i) == \E d \in drives : d.ep = i
Token(i) == SchedToken(i) \/ TimerToken(i) \/ DriveToken(i)

\* Episode i is being ended on request of the interface or of a schedule.
Doomed(i) ==
    \/ i \in cancels
    \/ <<i, "sched">> \in ending \/ <<i, "cancel">> \in ending
    \/ timer = "cancelling" /\ pending.ep = i

EpisodesClosed == \A i \in Live : Closed(i) /\ Closed(episodes[i].turn)
HeldClosed == \A i \in Nat : Token(i) \/ Doomed(i) => Closed(i)

OneToken ==
    /\ \A i \in Live :
         /\ ~(SchedToken(i) /\ TimerToken(i))
         /\ ~(SchedToken(i) /\ DriveToken(i))
         /\ ~(TimerToken(i) /\ DriveToken(i))
    /\ \A d, e \in drives : d.ep = e.ep /\ d.ep \in Live => d = e

\* While an attempt is under way its episode's last continuation is the failure
\* the attempt is about.
TokenWaits == \A i \in Live : Token(i) => episodes[i].succ \in {0, episodes[i].turn}
DoomedQuiet == \A i \in Live : Doomed(i) => ~Token(i) /\ Closed(episodes[i].succ)

\* A linked continuation that may yet be scheduled finds its episode.
Linkage ==
    \A t \in Turns : chain[t] > 0 /\ Open(t) => \E i \in Live : episodes[i].succ = t

ChainCount ==
    \A i \in Live :
      /\ episodes[i].key <= episodes[i].count + 1
      /\ episodes[i].succ # 0 =>
           /\ episodes[i].succ \in Turns /\ episodes[i].succ < fresh
           /\ chain[episodes[i].succ] <= episodes[i].count

Val(t, k) == t \in Turns /\ t < fresh /\ chain[t] < k /\ k <= MaxRetries
Values ==
    /\ \A i \in Nat : SchedToken(i) => Val(sched.turn, sched.key)
    /\ timer \in {"sleeping", "asking"} => Val(pending.turn, pending.key)
    /\ \A d \in drives : Val(d.turn, d.key)

Asking ==
    timer = "asking" =>
      /\ admit.ep = pending.ep /\ admit.key = pending.key
      /\ admit.turn = pending.turn /\ admit.gen = gen

Awaited(e, k) == e \in Live => episodes[e].awaiting /\ k <= episodes[e].count
Granted ==
    /\ timer = "asking" /\ admit.pc = "answered" /\ admit.reply = "admitted"
         => Awaited(admit.ep, admit.key)
    /\ \A d \in drives : Awaited(d.ep, d.key)

BudgetInv ==
    /\ Typed /\ Frame /\ EpisodesClosed /\ HeldClosed /\ OneToken /\ TokenWaits
    /\ DoomedQuiet /\ Linkage /\ ChainCount /\ Values /\ Asking /\ Granted
    /\ BudgetShared

\* What was observed of a failure stays known wherever it is asked about.
InputInv ==
    /\ \A i \in Live : /\ episodes[i].turn \in observed
                       /\ episodes[i].gen = seen[episodes[i].turn]
    /\ sched.pc # "idle" => sched.gen = seen[sched.turn]
    /\ admit.pc = "answered" /\ admit.reply = "admitted" =>
         admit.turn \in observed /\ admit.gen = seen[admit.turn]

-----------------------------------------------------------------------------
(* Steps that create no attempt *)

Settles == \A t \in Nat : Closed(t) => Closed(t)'
Fades ==
    \A i \in Live' :
      /\ i \in Live
      /\ episodes'[i].succ = episodes[i].succ
      /\ episodes'[i].turn = episodes[i].turn
      /\ episodes'[i].key = episodes[i].key
      /\ episodes'[i].count >= episodes[i].count
      /\ episodes[i].awaiting => episodes'[i].awaiting
Resets == \A t \in Turns : chain'[t] \in {0, chain[t]}
SchedKept ==
    \A i \in Nat : SchedToken(i)' => /\ SchedToken(i)
                                     /\ sched'.turn = sched.turn /\ sched'.key = sched.key
TimerKept ==
    \A i \in Nat : TimerToken(i)' => TimerToken(i) /\ pending' = pending
DoomKept ==
    \A i \in Nat : Doomed(i)' =>
        \/ Doomed(i)
        \/ Closed(i) /\ (i \in Live' => ~Token(i)' /\ Closed(episodes[i].succ)')

Calm ==
    /\ Settles /\ Fades /\ Resets /\ fresh' >= fresh
    /\ SchedKept /\ TimerKept /\ drives' \subseteq drives /\ DoomKept

Core ==
    /\ EpisodesClosed /\ HeldClosed /\ OneToken /\ TokenWaits
    /\ DoomedQuiet /\ ChainCount /\ Values /\ BudgetShared

\* Typing facts the other steps use.
LEMMA TypedFacts ==
    ASSUME Typed
    PROVE  /\ \A i \in Live : /\ episodes[i].succ \in Nat /\ episodes[i].turn \in Nat
                              /\ episodes[i].count \in Nat /\ episodes[i].key \in Nat
                              /\ episodes[i].gen \in Nat
           /\ sched.ep \in Nat /\ sched.turn \in Nat /\ sched.key \in Nat
           /\ admit.ep \in Nat /\ admit.turn \in Nat /\ admit.key \in Nat
           /\ \A d \in drives : d.ep \in Nat /\ d.key \in Nat /\ d.turn \in Nat
           /\ \A t \in Turns : t \in Nat /\ t # 0 /\ chain[t] \in Nat /\ seen[t] \in Nat
           /\ MaxTurns \in Nat /\ MaxRetries \in Nat
<1>1. MaxTurns \in Nat /\ MaxRetries \in Nat
  BY RecoveryAssumption
<1>2. \A i \in Live : /\ episodes[i].succ \in Nat /\ episodes[i].turn \in Nat
                      /\ episodes[i].count \in Nat /\ episodes[i].key \in Nat
                      /\ episodes[i].gen \in Nat
  BY DEF Typed, TypedEpisodes, EpisodeType
<1>3. /\ sched.ep \in Nat /\ sched.turn \in Nat /\ sched.key \in Nat
      /\ admit.ep \in Nat /\ admit.turn \in Nat /\ admit.key \in Nat
  BY DEF Typed, TypedCalls, CallType
<1>4. \A d \in drives : d.ep \in Nat /\ d.key \in Nat /\ d.turn \in Nat
  BY DEF Typed, TypedClient, DriveType
<1>5. \A t \in Turns : t \in Nat /\ t # 0 /\ chain[t] \in Nat /\ seen[t] \in Nat
  BY <1>1 DEF Typed, TypedTurns, Turns
<1> QED
  BY <1>1, <1>2, <1>3, <1>4, <1>5

\* An answered call keeps the type of the call.
LEMMA AnsweredTyped ==
    ASSUME NEW c \in CallType, NEW r \in Replies
    PROVE  /\ Answered(c, r) \in CallType
           /\ Answered(c, r).pc = "answered" /\ Answered(c, r).reply = r
           /\ Answered(c, r).turn = c.turn /\ Answered(c, r).ep = c.ep
           /\ Answered(c, r).key = c.key /\ Answered(c, r).gen = c.gen
           /\ Answered(c, r).session = c.session
BY DEF Answered, CallType, Phases

\* So has the call that is not there.
LEMMA NoCallTyped == NoCall \in CallType
BY DEF NoCall, CallType, Phases, Replies

\* A token after a calm step was one before.
LEMMA CalmTokens ==
    ASSUME Typed, Typed', Calm
    PROVE  \A i \in Nat : Token(i)' => Token(i)
BY DEF Calm, Token, SchedKept, TimerKept, DriveToken

\* A calm step, one that moves no attempt, keeps the invariant.
LEMMA CalmStep ==
    ASSUME Typed, Typed', Core, Calm
    PROVE  Core'
<1>1. /\ \A i \in Nat : Token(i)' => Token(i)
      /\ \A i \in Live : i \in Nat
  <2>1. \A i \in Live : Closed(i)
    BY DEF Core, EpisodesClosed
  <2> QED
    BY <2>1, CalmTokens, TypedFacts DEF Closed
<1>2. EpisodesClosed'
  BY <1>1, TypedFacts DEF Core, Calm, EpisodesClosed, Fades, Settles
<1>3. HeldClosed'
  BY <1>1 DEF Core, Calm, HeldClosed, DoomKept, Settles
<1>4. OneToken'
  BY <1>1 DEF Core, Calm, OneToken, Fades, SchedKept, TimerKept, DriveToken
<1>5. TokenWaits'
  BY <1>1 DEF Core, Calm, TokenWaits, Fades
<1>6. DoomedQuiet'
  BY <1>1, TypedFacts DEF Core, Calm, DoomedQuiet, DoomKept, Fades, Settles
<1>7. ChainCount'
  <2> SUFFICES ASSUME NEW i \in Live'
               PROVE  /\ episodes'[i].key <= episodes'[i].count + 1
                      /\ episodes'[i].succ # 0 =>
                           /\ episodes'[i].succ \in Turns /\ episodes'[i].succ < fresh'
                           /\ chain'[episodes'[i].succ] <= episodes'[i].count
    BY DEF ChainCount
  <2>1. /\ i \in Live /\ episodes'[i].succ = episodes[i].succ
        /\ episodes'[i].key = episodes[i].key
        /\ episodes'[i].count >= episodes[i].count
        /\ episodes'[i].count \in Nat /\ episodes[i].count \in Nat
        /\ episodes[i].key \in Nat /\ fresh' >= fresh /\ fresh' \in Nat /\ fresh \in Nat
    BY DEF Calm, Fades, Typed, TypedTurns, TypedEpisodes, EpisodeType
  <2> QED
    BY <2>1, TypedFacts DEF Core, Calm, ChainCount, Resets
<1>8. Values'
  <2>1. ASSUME NEW t, NEW k \in Nat, Val(t, k) PROVE Val(t, k)'
    BY <2>1, TypedFacts DEF Val, Calm, Resets, Typed, TypedTurns
  <2>2. \A i \in Nat : SchedToken(i)' => Val(sched.turn, sched.key)'
    BY <2>1, TypedFacts DEF Core, Calm, Values, SchedKept, Val
  <2>3. (timer \in {"sleeping", "asking"} => Val(pending.turn, pending.key))'
    BY <2>1 DEF Core, Calm, Values, TimerKept, TimerToken, Typed, TypedClient
  <2>4. \A d \in drives' : Val(d.turn, d.key)'
    BY <2>1, TypedFacts DEF Core, Calm, Values
  <2> QED
    BY <2>2, <2>3, <2>4 DEF Values
<1>9. BudgetShared'
  BY TypedFacts DEF Core, Calm, BudgetShared, Resets
<1> QED
  BY <1>2, <1>3, <1>4, <1>5, <1>6, <1>7, <1>8, <1>9 DEF Core

\* A start of the user's takes over: no linked continuation is left.
LEMMA StartUserBudget ==
    ASSUME BudgetInv, StartUser
    PROVE  BudgetInv'
<1>1. Typed'
  BY TypedFacts
     DEF BudgetInv, StartUser, Startable, TakeOver, Drop, Typed, TypedTurns,
         TypedEpisodes, TypedCalls, TypedClient
<1>2. Frame'
  BY TypedFacts DEF BudgetInv, Typed, TypedTurns, Frame, StartUser
<1>3. Calm
  BY TypedFacts
     DEF BudgetInv, Typed, TypedTurns, StartUser, TakeOver, Drop, Calm, Settles,
         Fades, Resets, SchedKept, TimerKept, DoomKept, Closed, Open, Asked,
         SchedToken, TimerToken, Doomed
<1>4. Linkage' /\ Asking' /\ Granted'
  BY DEF BudgetInv, Typed, Linkage, Asking, Granted, Awaited, StartUser, TakeOver, Drop
<1> QED
  BY <1>1, <1>2, <1>3, <1>4, CalmStep DEF BudgetInv, Core

\* So does a start of a loop's.
LEMMA StartLoopBudget ==
    ASSUME BudgetInv, StartLoop
    PROVE  BudgetInv'
<1>1. Typed'
  BY TypedFacts
     DEF BudgetInv, StartLoop, Startable, TakeOver, Drop, Typed, TypedTurns,
         TypedEpisodes, TypedCalls, TypedClient
<1>2. Frame'
  BY TypedFacts DEF BudgetInv, Typed, TypedTurns, Frame, StartLoop
<1>3. Calm
  BY TypedFacts
     DEF BudgetInv, Typed, TypedTurns, StartLoop, TakeOver, Drop, Calm, Settles,
         Fades, Resets, SchedKept, TimerKept, DoomKept, Closed, Open, Asked,
         SchedToken, TimerToken, Doomed
<1>4. Linkage' /\ Asking' /\ Granted'
  BY DEF BudgetInv, Typed, Linkage, Asking, Granted, Awaited, StartLoop, TakeOver, Drop
<1> QED
  BY <1>1, <1>2, <1>3, <1>4, CalmStep DEF BudgetInv, Core

\* The episode of a continuation that ends well is not needed any more.
LEMMA TurnEndsBudget ==
    ASSUME BudgetInv, TurnEnds
    PROVE  BudgetInv'
<1>1. Typed'
  BY DEF BudgetInv, TurnEnds, Drop, Typed, TypedTurns, TypedEpisodes, TypedCalls,
         TypedClient
<1>2. Frame'
  BY TypedFacts DEF BudgetInv, Typed, TypedTurns, Frame, TurnEnds
<1>3. Calm
  BY TypedFacts
     DEF BudgetInv, Typed, TypedTurns, TurnEnds, Drop, Calm, Settles, Fades, Resets,
         SchedKept, TimerKept, DoomKept, Closed, Open, Asked, SchedToken, TimerToken,
         Doomed
<1>4. Linkage' /\ Asking' /\ Granted'
  BY TypedFacts
     DEF BudgetInv, Typed, Frame, Linkage, Asking, Granted, Awaited, TurnEnds, Drop,
         Succeeds, Open, Asked
<1> QED
  BY <1>1, <1>2, <1>3, <1>4, CalmStep DEF BudgetInv, Core

\* A turn that failed is open until it is observed.
LEMMA TurnFailsBudget ==
    ASSUME BudgetInv, TurnFails
    PROVE  BudgetInv'
<1>1. Typed'
  <2>1. TypedTurns'
    <3>1. active \in Turns /\ DOMAIN failures' = DOMAIN failures \cup {active}
      BY TypedFacts DEF BudgetInv, TurnFails, Typed, TypedTurns, Turns
    <3> QED
      BY <3>1 DEF BudgetInv, TurnFails, Typed, TypedTurns
  <2>2. TypedEpisodes'
    <3>1. \A i \in Live : /\ episodes[i] \in EpisodeType
                         /\ (episodes[i].inFlight /\ ~Succeeds(i)) \in BOOLEAN
      BY DEF BudgetInv, Typed, TypedEpisodes
    <3> QED
      BY <3>1, ZenonT(20) DEF TurnFails, TypedEpisodes, EpisodeType
  <2>3. TypedCalls'
    BY DEF BudgetInv, TurnFails, Typed, TypedCalls
  <2>4. TypedClient'
    BY DEF BudgetInv, TurnFails, Typed, TypedClient
  <2> QED
    BY <2>1, <2>2, <2>3, <2>4 DEF Typed
<1>2. Frame'
  BY TypedFacts DEF BudgetInv, Typed, TypedTurns, Frame, TurnFails
<1>3. Calm
  <2>1. \A i \in Live' :
          /\ i \in Live
          /\ episodes'[i].succ = episodes[i].succ /\ episodes'[i].turn = episodes[i].turn
          /\ episodes'[i].key = episodes[i].key /\ episodes'[i].count = episodes[i].count
          /\ episodes'[i].awaiting = episodes[i].awaiting
    BY DEF BudgetInv, Typed, TypedEpisodes, EpisodeType, TurnFails
  <2>2. Fades
    BY <2>1, TypedFacts DEF BudgetInv, Fades
  <2> QED
    BY <2>2
       DEF BudgetInv, Typed, TypedTurns, TurnFails, Calm, Settles, Resets, SchedKept,
           TimerKept, DoomKept, Closed, Open, Asked, SchedToken, TimerToken, Doomed
<1>4. Linkage'
  <2> SUFFICES ASSUME NEW t \in Turns, chain'[t] > 0, Open(t)'
               PROVE  \E i \in Live' : episodes'[i].succ = t
    BY DEF Linkage
  <2>1. Live' = Live /\ DOMAIN failures' = DOMAIN failures \cup {active}
    BY DEF TurnFails
  <2>2. Open(t) /\ chain[t] > 0
    BY <2>1, TypedFacts DEF BudgetInv, TurnFails, Open, Asked
  <2>3. \A i \in Live : episodes'[i].succ = episodes[i].succ
    BY DEF BudgetInv, Typed, TypedEpisodes, EpisodeType, TurnFails
  <2> QED
    BY <2>1, <2>2, <2>3 DEF BudgetInv, Linkage
<1>5. Asking'
  BY DEF BudgetInv, Typed, Asking, TurnFails
<1>6. Granted'
  BY DEF BudgetInv, Typed, TypedEpisodes, EpisodeType, Granted, Awaited, TurnFails
<1> QED
  BY <1>1, <1>2, <1>3, <1>4, <1>5, <1>6, CalmStep DEF BudgetInv, Core

\* A failure that is observed is open while its schedule is asked for.
LEMMA ObserveBudget ==
    ASSUME BudgetInv, NEW t \in Turns, Observe(t)
    PROVE  BudgetInv'
<1>1. Typed'
  <2>1. TypedTurns'
    BY TypedFacts DEF BudgetInv, Observe, NoCall, Typed, TypedTurns
  <2>2. TypedEpisodes'
    BY DEF BudgetInv, Observe, Typed, TypedEpisodes
  <2>3. TypedCalls'
    <3>1. t \in Nat /\ gen \in Nat /\ session \in Nat
      BY TypedFacts DEF BudgetInv, Typed, TypedTurns
    <3>2. [pc |-> "sent", turn |-> t, ep |-> 0, key |-> 0, gen |-> gen,
           session |-> session, reply |-> "none"] \in CallType
      BY <3>1 DEF CallType, Phases, Replies
    <3>3. sched' = sched \/ sched' = [pc |-> "sent", turn |-> t, ep |-> 0, key |-> 0,
            gen |-> gen, session |-> session, reply |-> "none"]
      BY DEF Observe, NoCall
    <3> QED
      BY <3>2, <3>3 DEF BudgetInv, Observe, Typed, TypedCalls
  <2>4. TypedClient'
    BY DEF BudgetInv, Observe, Typed, TypedClient
  <2> QED
    BY <2>1, <2>2, <2>3, <2>4 DEF Typed
<1>2. Frame'
  <2>1. /\ t \in DOMAIN failures /\ observed' = observed \cup {t}
        /\ UNCHANGED <<active, fresh, failures, session>>
        /\ sched' = sched \/ (sched'.turn = t /\ sched'.session = session)
    BY DEF Observe, NoCall
  <2>2. session \in Nat
    BY DEF BudgetInv, Typed, TypedTurns
  <2> QED
    BY <2>1, <2>2 DEF BudgetInv, Frame
<1>3. Calm
  <2>1. /\ t \in DOMAIN failures /\ t \notin observed /\ observed' = observed \cup {t}
        /\ sched' = sched \/ (sched'.pc = "sent" /\ sched'.turn = t)
        /\ UNCHANGED <<active, fresh, failures, episodes, ending, session, gen, pending,
                       timer, drives, admit, cancels, double, chain>>
    BY DEF Observe, NoCall
  <2> QED
    BY <2>1, TypedFacts
       DEF BudgetInv, Typed, TypedTurns, Calm, Settles, Fades, Resets, SchedKept,
           TimerKept, DoomKept, Closed, Open, Asked, SchedToken, TimerToken, Doomed
<1>4. Linkage'
  <2>1. /\ t \in DOMAIN failures /\ t \notin observed /\ observed' = observed \cup {t}
        /\ sched' = sched \/ (sched'.pc = "sent" /\ sched'.turn = t)
        /\ UNCHANGED <<active, fresh, failures, episodes, ending, session, gen, pending,
                       timer, drives, admit, cancels, double, chain>>
    BY DEF Observe, NoCall
  <2> QED
    BY <2>1 DEF BudgetInv, Typed, Linkage, Open, Asked
<1>5. Asking'
  BY DEF BudgetInv, Typed, Asking, Observe
<1>6. Granted'
  BY DEF BudgetInv, Typed, Granted, Awaited, Observe
<1> QED
  BY <1>1, <1>2, <1>3, <1>4, <1>5, <1>6, CalmStep DEF BudgetInv, Core

\* A schedule that is lost closes its failure.
LEMMA ScheduleLostBudget ==
    ASSUME BudgetInv, ScheduleLost
    PROVE  BudgetInv'
<1>1. Typed'
  BY DEF BudgetInv, ScheduleLost, NoCall, Typed, TypedTurns, TypedEpisodes,
         TypedCalls, TypedClient, CallType, Phases, Replies
<1>2. Frame'
  BY DEF BudgetInv, Typed, Frame, ScheduleLost, NoCall
<1>3. Calm
  BY TypedFacts
     DEF BudgetInv, Typed, TypedTurns, ScheduleLost, NoCall, Calm, Settles, Fades,
         Resets, SchedKept, TimerKept, DoomKept, Closed, Open, SchedToken, TimerToken,
         Doomed
<1>4. Linkage' /\ Asking' /\ Granted'
  BY TypedFacts
     DEF BudgetInv, Typed, Linkage, Asking, Granted, Awaited, ScheduleLost, NoCall,
         Open
<1> QED
  BY <1>1, <1>2, <1>3, <1>4, CalmStep DEF BudgetInv, Core

\* A refused schedule closes its failure.
LEMMA ScheduleRefusedBudget ==
    ASSUME BudgetInv, ScheduleRefused
    PROVE  BudgetInv'
<1>1. Typed'
  <2>1. TypedTurns'
    BY TypedFacts DEF BudgetInv, ScheduleRefused, Answered, Typed, TypedTurns
  <2>2. TypedEpisodes'
    BY DEF BudgetInv, ScheduleRefused, Typed, TypedEpisodes
  <2>3. TypedCalls'
    BY DEF BudgetInv, ScheduleRefused, Answered, Typed, TypedTurns, TypedCalls,
           CallType, Phases, Replies
  <2>4. TypedClient'
    BY DEF BudgetInv, ScheduleRefused, Typed, TypedClient
  <2> QED
    BY <2>1, <2>2, <2>3, <2>4 DEF Typed
<1>2. Frame'
  BY DEF BudgetInv, Typed, Frame, ScheduleRefused, Answered
<1>3. Calm
  BY TypedFacts
     DEF BudgetInv, Typed, TypedTurns, ScheduleRefused, Answered, Calm, Settles,
         Fades, Resets, SchedKept, TimerKept, DoomKept, Closed, Open, Asked,
         SchedToken, TimerToken, Doomed
<1>4. Linkage' /\ Asking' /\ Granted'
  BY DEF BudgetInv, Typed, Linkage, Asking, Granted, Awaited, ScheduleRefused,
         Answered, Open, Asked
<1> QED
  BY <1>1, <1>2, <1>3, <1>4, CalmStep DEF BudgetInv, Core

\* The attempt is on its way to the timer.
LEMMA ScheduleToldBudget ==
    ASSUME BudgetInv, ScheduleTold
    PROVE  BudgetInv'
<1>1. Typed'
  <2>1. TypedTurns'
    BY TypedFacts DEF BudgetInv, ScheduleTold, Answered, Typed, TypedTurns
  <2>2. TypedEpisodes'
    BY DEF BudgetInv, ScheduleTold, Typed, TypedEpisodes
  <2>3. TypedCalls'
    BY DEF BudgetInv, ScheduleTold, Answered, Typed, TypedTurns, TypedCalls, CallType,
           Phases, Replies
  <2>4. TypedClient'
    BY DEF BudgetInv, ScheduleTold, Typed, TypedClient
  <2> QED
    BY <2>1, <2>2, <2>3, <2>4 DEF Typed
<1>2. Frame'
  BY DEF BudgetInv, Typed, Frame, ScheduleTold, Answered
<1>3. Calm
  BY TypedFacts
     DEF BudgetInv, Typed, TypedTurns, ScheduleTold, Answered, Calm, Settles, Fades,
         Resets, SchedKept, TimerKept, DoomKept, Closed, Open, Asked, SchedToken,
         TimerToken, Doomed
<1>4. Linkage' /\ Asking' /\ Granted'
  BY DEF BudgetInv, Typed, Linkage, Asking, Granted, Awaited, ScheduleTold, Answered,
         Open, Asked
<1> QED
  BY <1>1, <1>2, <1>3, <1>4, CalmStep DEF BudgetInv, Core

\* A refused admission changes no episode.
LEMMA AdmitRefusedBudget ==
    ASSUME BudgetInv, NEW who \in Deliveries, AdmitRefused(who)
    PROVE  BudgetInv'
<1>1. Typed'
  <2>1. TypedTurns'
    BY DEF BudgetInv, AdmitRefused, Typed, TypedTurns
  <2>2. TypedEpisodes'
    BY DEF BudgetInv, AdmitRefused, Typed, TypedEpisodes
  <2>3. TypedCalls'
    BY TypedFacts
       DEF BudgetInv, AdmitRefused, Reply, Answered, Typed, TypedCalls, CallType,
           Phases, Replies
  <2>4. TypedClient'
    BY DEF BudgetInv, AdmitRefused, Typed, TypedClient
  <2> QED
    BY <2>1, <2>2, <2>3, <2>4 DEF Typed
<1>2. Frame'
  BY DEF BudgetInv, Typed, Frame, AdmitRefused
<1>3. Calm
  BY TypedFacts
     DEF BudgetInv, Typed, TypedTurns, AdmitRefused, Calm, Settles, Fades, Resets,
         SchedKept, TimerKept, DoomKept, Closed, Open, Asked, SchedToken, TimerToken,
         Doomed
<1>4. Linkage'
  BY DEF BudgetInv, Typed, Linkage, AdmitRefused, Open, Asked
<1>5. Asking'
  BY DEF BudgetInv, Typed, TypedCalls, CallType, Asking, AdmitRefused, Reply, Answered
<1>6. Granted'
  BY DEF BudgetInv, Typed, TypedCalls, CallType, Granted, Awaited, AdmitRefused,
         Reply, Answered, Deliveries
<1> QED
  BY <1>1, <1>2, <1>3, <1>4, <1>5, <1>6, CalmStep DEF BudgetInv, Core

\* The end of an episode that drove nothing loses no continuation.
LEMMA AdmitStopsBudget ==
    ASSUME BudgetInv, NEW who \in Deliveries, AdmitStops(who)
    PROVE  BudgetInv'
<1>1. Typed'
  <2>1. TypedTurns'
    BY DEF BudgetInv, AdmitStops, Typed, TypedTurns
  <2>2. TypedEpisodes'
    BY DEF BudgetInv, AdmitStops, End, Drop, Typed, TypedEpisodes
  <2>3. TypedCalls'
    BY DEF BudgetInv, AdmitStops, Reply, Answered, Deliveries, Typed, TypedCalls,
           CallType, Phases, Replies
  <2>4. TypedClient'
    BY DEF BudgetInv, AdmitStops, Typed, TypedClient
  <2> QED
    BY <2>1, <2>2, <2>3, <2>4 DEF Typed
<1>2. Frame'
  BY DEF BudgetInv, Typed, Frame, AdmitStops
<1>3. Calm
  BY TypedFacts
     DEF BudgetInv, Typed, TypedTurns, AdmitStops, Deliveries, End, Drop, Calm,
         Settles, Fades, Resets, SchedKept, TimerKept, DoomKept, Closed, Open, Asked,
         SchedToken, TimerToken, Doomed
<1>4. Linkage'
  BY TypedFacts
     DEF BudgetInv, Typed, Linkage, AdmitStops, End, Driven, Drop, Open, Asked
<1>5. Asking'
  BY DEF BudgetInv, Typed, TypedCalls, CallType, Asking, AdmitStops, Reply, Answered
<1>6. Granted'
  <2>1. \/ admit' = admit
        \/ ~(admit'.pc = "answered" /\ admit'.reply = "admitted")
    BY DEF BudgetInv, Typed, TypedCalls, CallType, AdmitStops, Reply, Answered
  <2>2. ASSUME NEW e, NEW k, Awaited(e, k) PROVE Awaited(e, k)'
    BY <2>2 DEF Awaited, AdmitStops, End, Drop
  <2> QED
    BY <2>1, <2>2 DEF BudgetInv, Granted, AdmitStops
<1> QED
  BY <1>1, <1>2, <1>3, <1>4, <1>5, <1>6, CalmStep DEF BudgetInv, Core

\* A repeated admission is granted nothing.
LEMMA AdmitKnownBudget ==
    ASSUME BudgetInv, NEW who \in Deliveries, AdmitKnown(who)
    PROVE  BudgetInv'
<1>1. Typed'
  <2>1. TypedTurns'
    BY DEF BudgetInv, AdmitKnown, Typed, TypedTurns
  <2>2. TypedEpisodes'
    BY DEF BudgetInv, AdmitKnown, Typed, TypedEpisodes
  <2>3. TypedCalls'
    BY DEF BudgetInv, AdmitKnown, Reply, Answered, Deliveries, Typed, TypedCalls,
           CallType, Phases, Replies
  <2>4. TypedClient'
    BY DEF BudgetInv, AdmitKnown, Typed, TypedClient
  <2> QED
    BY <2>1, <2>2, <2>3, <2>4 DEF Typed
<1>2. Frame'
  BY DEF BudgetInv, Typed, Frame, AdmitKnown
<1>3. Calm
  BY TypedFacts
     DEF BudgetInv, Typed, TypedTurns, AdmitKnown, Calm, Settles, Fades, Resets,
         SchedKept, TimerKept, DoomKept, Closed, Open, Asked, SchedToken, TimerToken,
         Doomed
<1>4. Linkage'
  BY DEF BudgetInv, Typed, Linkage, AdmitKnown, Open, Asked
<1>5. Asking'
  BY DEF BudgetInv, Typed, TypedCalls, CallType, Asking, AdmitKnown, Reply, Answered
<1>6. Granted'
  BY DEF BudgetInv, Typed, TypedCalls, CallType, Granted, Awaited, AdmitKnown, Reply,
         Answered
<1> QED
  BY <1>1, <1>2, <1>3, <1>4, <1>5, <1>6, CalmStep DEF BudgetInv, Core

\* A deferral leaves the attempt at the timer.
LEMMA AdmitDeferredBudget ==
    ASSUME BudgetInv, NEW who \in Deliveries, AdmitDeferred(who)
    PROVE  BudgetInv'
<1>1. Typed'
  <2>1. TypedTurns'
    BY DEF BudgetInv, AdmitDeferred, Typed, TypedTurns
  <2>2. TypedEpisodes'
    BY DEF BudgetInv, AdmitDeferred, Typed, TypedEpisodes, EpisodeType
  <2>3. TypedCalls'
    BY DEF BudgetInv, AdmitDeferred, Reply, Answered, Deliveries, Typed, TypedCalls,
           CallType, Phases, Replies
  <2>4. TypedClient'
    BY DEF BudgetInv, AdmitDeferred, Typed, TypedClient
  <2> QED
    BY <2>1, <2>2, <2>3, <2>4 DEF Typed
<1>2. Frame'
  BY DEF BudgetInv, Typed, Frame, AdmitDeferred
<1>3. Calm
  BY TypedFacts
     DEF BudgetInv, Typed, TypedTurns, AdmitDeferred, Calm, Settles, Fades, Resets,
         SchedKept, TimerKept, DoomKept, Closed, Open, Asked, SchedToken, TimerToken,
         Doomed
<1>4. Linkage'
  BY DEF BudgetInv, Typed, Linkage, AdmitDeferred, Open, Asked
<1>5. Asking'
  BY DEF BudgetInv, Typed, TypedCalls, CallType, Asking, AdmitDeferred, Reply, Answered
<1>6. Granted'
  BY TypedFacts
     DEF BudgetInv, Typed, TypedCalls, TypedEpisodes, EpisodeType, CallType, Phases,
         Granted, Awaited, AdmitDeferred, Reply, Answered, Deliveries
<1> QED
  BY <1>1, <1>2, <1>3, <1>4, <1>5, <1>6, CalmStep DEF BudgetInv, Core

\* A granted attempt is counted, and its episode waits for it.
LEMMA AdmitGrantedBudget ==
    ASSUME BudgetInv, NEW who \in Deliveries, AdmitGranted(who)
    PROVE  BudgetInv'
<1>1. Typed'
  <2>1. TypedTurns'
    BY DEF BudgetInv, AdmitGranted, Typed, TypedTurns
  <2>2. TypedEpisodes'
    BY DEF BudgetInv, AdmitGranted, Admissible, Found, Typed, TypedEpisodes, EpisodeType
  <2>3. TypedCalls'
    BY DEF BudgetInv, AdmitGranted, Reply, Answered, Deliveries, Typed, TypedCalls,
           CallType, Phases, Replies
  <2>4. TypedClient'
    BY DEF BudgetInv, AdmitGranted, Typed, TypedClient
  <2> QED
    BY <2>1, <2>2, <2>3, <2>4 DEF Typed
<1>2. Frame'
  BY DEF BudgetInv, Typed, Frame, AdmitGranted
<1>3. Calm
  <2>1. Settles /\ Resets /\ fresh' >= fresh
    BY DEF BudgetInv, Typed, TypedTurns, AdmitGranted, Settles, Resets, Closed, Open, Asked
  <2>2. Fades
    BY TypedFacts DEF BudgetInv, Typed, TypedEpisodes, AdmitGranted, Fades
  <2>3. SchedKept /\ TimerKept /\ drives' \subseteq drives
    BY DEF AdmitGranted, SchedKept, TimerKept, SchedToken, TimerToken
  <2>4. \A i \in Nat : Doomed(i)' => Doomed(i)
    BY DEF AdmitGranted, Doomed
  <2> QED
    BY <2>1, <2>2, <2>3, <2>4 DEF Calm, DoomKept
<1>4. Linkage'
  BY DEF BudgetInv, Typed, Linkage, AdmitGranted, Open, Asked
<1>5. Asking'
  BY DEF BudgetInv, Typed, TypedCalls, CallType, Asking, AdmitGranted, Reply, Answered
<1>6. Granted'
  <2> DEFINE m == Message(who)
  <2>1. ASSUME NEW e, NEW k, Awaited(e, k), k \in Nat PROVE Awaited(e, k)'
    BY <2>1, TypedFacts DEF BudgetInv, Typed, Awaited, AdmitGranted
  <2>2. ASSUME NEW e, NEW k, e = m.ep, k = m.key PROVE Awaited(e, k)'
    <3>1. /\ m.ep \in Live /\ m.key = episodes[m.ep].key
          /\ episodes[m.ep] \in EpisodeType
          /\ episodes' = [episodes EXCEPT ![m.ep].count = @ + 1,
                                          ![m.ep].admitted = @ \cup {m.key},
                                          ![m.ep].awaiting = TRUE]
      BY DEF BudgetInv, Typed, TypedEpisodes, AdmitGranted, Admissible, Found, Matches
    <3>2. episodes'[m.ep].count = episodes[m.ep].count + 1 /\ episodes'[m.ep].awaiting
      BY <3>1 DEF EpisodeType
    <3> QED
      BY <2>2, <3>1, <3>2 DEF BudgetInv, ChainCount, Awaited
  <2>3. who = "admit" => admit'.ep = m.ep /\ admit'.key = m.key
    BY DEF BudgetInv, Typed, TypedCalls, CallType, Message, AdmitGranted, Reply,
           Answered
  <2>4. who = "double" => admit' = admit
    BY DEF AdmitGranted, Reply
  <2>5. timer' = timer /\ drives' = drives
    BY DEF AdmitGranted
  <2> QED
    BY <2>1, <2>2, <2>3, <2>4, <2>5, TypedFacts
       DEF BudgetInv, Granted, Awaited, Deliveries
<1> QED
  BY <1>1, <1>2, <1>3, <1>4, <1>5, <1>6, CalmStep DEF BudgetInv, Core

\* An episode that is cancelled stays doomed until it is ended.
LEMMA CancelBudget ==
    ASSUME BudgetInv, NEW id \in Turns, Cancel(id)
    PROVE  BudgetInv'
<1>1. Typed'
  BY DEF BudgetInv, Cancel, End, Drop, Typed, TypedTurns, TypedEpisodes, TypedCalls,
         TypedClient
<1>2. Frame'
  BY DEF BudgetInv, Typed, Frame, Cancel
<1>3. Calm
  BY TypedFacts
     DEF BudgetInv, Typed, TypedTurns, Cancel, End, Drop, Calm, Settles, Fades,
         Resets, SchedKept, TimerKept, DoomKept, Closed, Open, Asked, SchedToken,
         TimerToken, Doomed
<1>4. Linkage' /\ Asking' /\ Granted'
  BY TypedFacts
     DEF BudgetInv, Typed, Linkage, Asking, Granted, Awaited, Cancel, End, Driven,
         Drop, Open, Asked
<1> QED
  BY <1>1, <1>2, <1>3, <1>4, CalmStep DEF BudgetInv, Core

\* An episode is ended: its last continuation is closed or forgotten.
LEMMA ToldBudget ==
    ASSUME BudgetInv, NEW id \in Turns, NEW who \in Deliveries \cup {"sched", "cancel"}, Told(id, who)
    PROVE  BudgetInv'
<1>1. Typed'
  <2>1. TypedTurns'
    BY DEF BudgetInv, Told, Typed, TypedTurns
  <2>2. TypedEpisodes'
    BY DEF BudgetInv, Told, Drop, Typed, TypedEpisodes
  <2>3. TypedCalls'
    BY DEF BudgetInv, Told, Answered, Typed, TypedCalls, CallType, Phases, Replies
  <2>4. TypedClient'
    BY DEF BudgetInv, Told, Typed, TypedClient
  <2> QED
    BY <2>1, <2>2, <2>3, <2>4 DEF Typed
<1>2. Frame'
  BY DEF BudgetInv, Typed, Frame, Told, Answered
<1>3. Calm
  BY TypedFacts
     DEF BudgetInv, Typed, TypedTurns, Told, Drop, Answered, Calm, Settles, Fades,
         Resets, SchedKept, TimerKept, DoomKept, Closed, Open, Asked, SchedToken,
         TimerToken, Doomed
<1>4. Linkage'
  <2> SUFFICES ASSUME NEW t \in Turns, chain'[t] > 0, Open(t)'
               PROVE  \E i \in Live' : episodes'[i].succ = t
    BY DEF Linkage
  <2>1. Open(t) /\ chain[t] > 0 /\ ~Forgets(id, who, t)
    BY DEF Told, Open, Asked, Answered, BudgetInv, Typed
  <2>2. PICK i \in Live : episodes[i].succ = t
    BY <2>1 DEF BudgetInv, Linkage
  <2>3. i # id
    <3> SUFFICES ASSUME i = id PROVE FALSE
      OBVIOUS
    <3>1. who \in {"sched", "cancel"}
      BY <2>1, <2>2 DEF Forgets, Episode
    <3>2. Doomed(id)
      BY <3>1 DEF Told, Doomed
    <3> QED
      BY <2>1, <2>2, <3>2, TypedFacts DEF BudgetInv, DoomedQuiet, Closed
  <2> QED
    BY <2>2, <2>3 DEF Told, Drop
<1>5. Asking'
  BY DEF BudgetInv, Typed, Asking, Told, Answered
<1>6. Granted'
  BY DEF BudgetInv, Typed, Granted, Awaited, Told, Drop, Answered
<1> QED
  BY <1>1, <1>2, <1>3, <1>4, <1>5, <1>6, CalmStep DEF BudgetInv, Core

\* A schedule that was cancelled leaves the timer.
LEMMA CancelledBudget ==
    ASSUME BudgetInv, Cancelled
    PROVE  BudgetInv'
<1>1. Typed'
  BY DEF BudgetInv, Cancelled, Disarm, Typed, TypedTurns, TypedEpisodes, TypedCalls,
         TypedClient
<1>2. Frame'
  BY DEF BudgetInv, Typed, Frame, Cancelled
<1>3. Calm
  BY TypedFacts
     DEF BudgetInv, Typed, TypedTurns, Cancelled, Disarm, Calm, Settles, Fades,
         Resets, SchedKept, TimerKept, DoomKept, Closed, Open, Asked, SchedToken,
         TimerToken, Doomed
<1>4. Linkage' /\ Asking' /\ Granted'
  BY DEF BudgetInv, Typed, Linkage, Asking, Granted, Awaited, Cancelled, Disarm, Open,
         Asked
<1> QED
  BY <1>1, <1>2, <1>3, <1>4, CalmStep DEF BudgetInv, Core

\* A deferred attempt stays with the timer.
LEMMA DeferredBudget ==
    ASSUME BudgetInv, Deferred
    PROVE  BudgetInv'
<1>1. Typed'
  BY DEF BudgetInv, Deferred, NoCall, Typed, TypedTurns, TypedEpisodes, TypedCalls,
         TypedClient, CallType, Phases, Replies
<1>2. Frame'
  BY DEF BudgetInv, Typed, Frame, Deferred
<1>3. Calm
  BY TypedFacts
     DEF BudgetInv, Typed, TypedTurns, Deferred, Calm, Settles, Fades, Resets,
         SchedKept, TimerKept, DoomKept, Closed, Open, Asked, SchedToken, TimerToken,
         Doomed
<1>4. Linkage' /\ Asking' /\ Granted'
  BY DEF BudgetInv, Typed, Linkage, Asking, Granted, Awaited, Deferred, Open, Asked
<1> QED
  BY <1>1, <1>2, <1>3, <1>4, CalmStep DEF BudgetInv, Core

\* A declined attempt leaves the timer for good.
LEMMA DeclinedBudget ==
    ASSUME BudgetInv, Declined
    PROVE  BudgetInv'
<1>1. Typed'
  BY DEF BudgetInv, Declined, Disarm, NoCall, Typed, TypedTurns, TypedEpisodes,
         TypedCalls, TypedClient, CallType, Phases, Replies
<1>2. Frame'
  BY DEF BudgetInv, Typed, Frame, Declined
<1>3. Calm
  BY TypedFacts
     DEF BudgetInv, Typed, TypedTurns, Declined, Disarm, Calm, Settles, Fades, Resets,
         SchedKept, TimerKept, DoomKept, Closed, Open, Asked, SchedToken, TimerToken,
         Doomed
<1>4. Linkage' /\ Asking' /\ Granted'
  BY DEF BudgetInv, Typed, Linkage, Asking, Granted, Awaited, Declined, Disarm, Open,
         Asked
<1> QED
  BY <1>1, <1>2, <1>3, <1>4, CalmStep DEF BudgetInv, Core

\* So does one whose answer does not come.
LEMMA AdmitLostBudget ==
    ASSUME BudgetInv, AdmitLost
    PROVE  BudgetInv'
<1>1. Typed'
  BY DEF BudgetInv, AdmitLost, Disarm, NoCall, Typed, TypedTurns, TypedEpisodes,
         TypedCalls, TypedClient, CallType, Phases, Replies
<1>2. Frame'
  BY DEF BudgetInv, Typed, Frame, AdmitLost
<1>3. Calm
  BY TypedFacts
     DEF BudgetInv, Typed, TypedTurns, AdmitLost, Disarm, Calm, Settles, Fades,
         Resets, SchedKept, TimerKept, DoomKept, Closed, Open, Asked, SchedToken,
         TimerToken, Doomed
<1>4. Linkage' /\ Asking' /\ Granted'
  BY DEF BudgetInv, Typed, Linkage, Asking, Granted, Awaited, AdmitLost, Disarm, Open,
         Asked
<1> QED
  BY <1>1, <1>2, <1>3, <1>4, CalmStep DEF BudgetInv, Core

\* An answer nobody waits for changes no attempt.
LEMMA AdmitIgnoredBudget ==
    ASSUME BudgetInv, AdmitIgnored
    PROVE  BudgetInv'
<1>1. Typed'
  BY DEF BudgetInv, AdmitIgnored, NoCall, Typed, TypedTurns, TypedEpisodes,
         TypedCalls, TypedClient, CallType, Phases, Replies
<1>2. Frame'
  BY DEF BudgetInv, Typed, Frame, AdmitIgnored
<1>3. Calm
  BY TypedFacts
     DEF BudgetInv, Typed, TypedTurns, AdmitIgnored, Calm, Settles, Fades, Resets,
         SchedKept, TimerKept, DoomKept, Closed, Open, Asked, SchedToken, TimerToken,
         Doomed
<1>4. Linkage' /\ Asking' /\ Granted'
  BY DEF BudgetInv, Typed, Linkage, Asking, Granted, Awaited, AdmitIgnored, Open, Asked
<1> QED
  BY <1>1, <1>2, <1>3, <1>4, CalmStep DEF BudgetInv, Core

\* A second delivery of the admission is no second attempt.
LEMMA RedeliveredBudget ==
    ASSUME BudgetInv, Redelivered
    PROVE  BudgetInv'
<1>1. Typed'
  BY DEF BudgetInv, Redelivered, Typed, TypedTurns, TypedEpisodes, TypedCalls,
         TypedClient
<1>2. Frame'
  BY DEF BudgetInv, Typed, Frame, Redelivered
<1>3. Calm
  BY TypedFacts
     DEF BudgetInv, Typed, TypedTurns, Redelivered, Calm, Settles, Fades, Resets,
         SchedKept, TimerKept, DoomKept, Closed, Open, Asked, SchedToken, TimerToken,
         Doomed
<1>4. Linkage' /\ Asking' /\ Granted'
  BY DEF BudgetInv, Typed, Linkage, Asking, Granted, Awaited, Redelivered, Open, Asked
<1> QED
  BY <1>1, <1>2, <1>3, <1>4, CalmStep DEF BudgetInv, Core

\* Neither queued work ...
LEMMA EnqueuedBudget ==
    ASSUME BudgetInv, Enqueued
    PROVE  BudgetInv'
<1>1. Typed'
  BY DEF BudgetInv, Enqueued, Typed, TypedTurns, TypedEpisodes, TypedCalls, TypedClient
<1>2. Frame'
  BY DEF BudgetInv, Typed, Frame, Enqueued
<1>3. Calm
  BY TypedFacts
     DEF BudgetInv, Typed, TypedTurns, Enqueued, Calm, Settles, Fades, Resets,
         SchedKept, TimerKept, DoomKept, Closed, Open, Asked, SchedToken, TimerToken,
         Doomed
<1>4. Linkage' /\ Asking' /\ Granted'
  BY DEF BudgetInv, Typed, Linkage, Asking, Granted, Awaited, Enqueued, Open, Asked
<1> QED
  BY <1>1, <1>2, <1>3, <1>4, CalmStep DEF BudgetInv, Core

\* ... nor a damaged transcript creates an attempt.
LEMMA PoisonBudget ==
    ASSUME BudgetInv, Poison
    PROVE  BudgetInv'
<1>1. Typed'
  BY DEF BudgetInv, Poison, Typed, TypedTurns, TypedEpisodes, TypedCalls, TypedClient
<1>2. Frame'
  BY DEF BudgetInv, Typed, Frame, Poison
<1>3. Calm
  BY TypedFacts
     DEF BudgetInv, Typed, TypedTurns, Poison, Calm, Settles, Fades, Resets,
         SchedKept, TimerKept, DoomKept, Closed, Open, Asked, SchedToken, TimerToken,
         Doomed
<1>4. Linkage' /\ Asking' /\ Granted'
  BY DEF BudgetInv, Typed, Linkage, Asking, Granted, Awaited, Poison, Open, Asked
<1> QED
  BY <1>1, <1>2, <1>3, <1>4, CalmStep DEF BudgetInv, Core

\* An attempt that is taken from the timer was the only one of its episode, and
\* what the episode last started is closed.
LEMMA LeaveTimer ==
    ASSUME BudgetInv, timer # "none", NEW i, i = pending.ep
    PROVE  \/ Doomed(i)
           \/ /\ Closed(i) /\ i \in Nat
              /\ i \in Live => /\ ~SchedToken(i) /\ ~DriveToken(i)
                               /\ Closed(episodes[i].succ)
<1>1. CASE timer = "cancelling"
  BY <1>1 DEF Doomed
<1>2. CASE timer # "cancelling"
  <2>1. TimerToken(i) /\ i \in Nat
    BY <1>2 DEF BudgetInv, Typed, TypedClient, TimerToken
  <2>2. Token(i)
    BY <2>1 DEF Token
  <2>3. Closed(i)
    BY <2>1, <2>2 DEF BudgetInv, HeldClosed
  <2>4. i \in Live => Closed(episodes[i].succ)
    BY <2>2 DEF BudgetInv, TokenWaits, EpisodesClosed, Closed
  <2> QED
    BY <2>1, <2>3, <2>4 DEF BudgetInv, OneToken
<1> QED
  BY <1>1, <1>2

\* Input of the user takes the attempt from the timer.
LEMMA InputBudget ==
    ASSUME BudgetInv, Type \/ Submit
    PROVE  BudgetInv'
<1>1. /\ UNCHANGED <<turns, failures, episodes, ending, session, observed, drives,
                     sched, admit, double, seen, chain>>
      /\ gen' = gen + 1 /\ pending' = None /\ timer' = "none"
      /\ cancels' = IF pending = None THEN cancels ELSE cancels \cup {pending.ep}
  BY DEF Type, Submit, Input, CancelLocal
<1>2. Typed'
  BY <1>1 DEF BudgetInv, Typed, TypedTurns, TypedEpisodes, TypedCalls, TypedClient
<1>3. Frame'
  BY <1>1 DEF BudgetInv, Frame
<1>4. DoomKept
  <2> SUFFICES ASSUME NEW i \in Nat, Doomed(i)', ~Doomed(i)
               PROVE  Closed(i) /\ (i \in Live' => ~Token(i)' /\ Closed(episodes[i].succ)')
    BY DEF DoomKept
  <2>1. i = pending.ep /\ timer # "none"
    BY <1>1 DEF Doomed, BudgetInv, Typed, TypedClient
  <2> QED
    BY <1>1, <2>1, LeaveTimer
       DEF Token, SchedToken, TimerToken, DriveToken, Closed, Open, Asked
<1>5. Calm
  BY <1>1, <1>4, TypedFacts
     DEF BudgetInv, Typed, TypedTurns, Calm, Settles, Fades, Resets, SchedKept,
         TimerKept, Closed, Open, Asked, SchedToken, TimerToken
<1>6. Linkage' /\ Asking' /\ Granted'
  BY <1>1 DEF BudgetInv, Linkage, Open, Asked, Asking, Granted, Awaited
<1> QED
  BY <1>2, <1>3, <1>5, <1>6, CalmStep DEF BudgetInv, Core

\* A new session has no episodes.
LEMMA ChangeSessionBudget ==
    ASSUME BudgetInv, ChangeSession
    PROVE  BudgetInv'
<1>1. /\ UNCHANGED <<turns, ending, gen, observed, drives, sched, admit, double,
                     seen, chain>>
      /\ DOMAIN failures' = {} /\ DOMAIN episodes' = {} /\ session' = 1
      /\ pending' = None /\ timer' = "none"
      /\ cancels' = IF pending = None THEN cancels ELSE cancels \cup {pending.ep}
  BY DEF ChangeSession, CancelLocal
<1>2. Typed'
  BY <1>1 DEF BudgetInv, Typed, TypedTurns, TypedEpisodes, TypedCalls, TypedClient
<1>3. Frame'
  BY <1>1 DEF BudgetInv, Frame, ChangeSession, Typed, TypedCalls, CallType
<1>4. DoomKept
  <2> SUFFICES ASSUME NEW i \in Nat, Doomed(i)', ~Doomed(i)
               PROVE  Closed(i)
    BY <1>1 DEF DoomKept
  <2>1. i = pending.ep /\ timer # "none"
    BY <1>1 DEF Doomed, BudgetInv, Typed, TypedClient
  <2> QED
    BY <2>1, LeaveTimer
<1>5. ~Asked'
  BY DEF ChangeSession, Asked, BudgetInv, Frame, Typed
<1>6. Calm
  BY <1>1, <1>4, <1>5
     DEF BudgetInv, Typed, TypedTurns, Calm, Settles, Fades, Resets, SchedKept,
         TimerKept, Closed, Open, SchedToken, TimerToken
<1>7. Linkage' /\ Asking' /\ Granted'
  BY <1>1, <1>5, TypedFacts
     DEF BudgetInv, Linkage, Open, Asking, Granted, Awaited, ChangeSession
<1> QED
  BY <1>2, <1>3, <1>6, <1>7, CalmStep DEF BudgetInv, Core

\* The timer gives its attempt up, or asks for the admission of it.
LEMMA WakeBudget ==
    ASSUME BudgetInv, Wake
    PROVE  BudgetInv'
<1>1. /\ UNCHANGED <<turns, gate, gen, observed, drives, sched, double, seen, chain>>
      /\ timer = "sleeping"
  BY DEF Wake
<1>2. \/ /\ pending' = None /\ timer' = "none" /\ UNCHANGED <<admit, cancels>>
      \/ /\ timer' = "cancelling" /\ cancels' = cancels \cup {pending.ep}
         /\ UNCHANGED <<pending, admit>>
      \/ /\ timer' = "asking" /\ UNCHANGED <<pending, cancels>>
         /\ admit' = [pc |-> "sent", turn |-> pending.turn, ep |-> pending.ep,
                      key |-> pending.key, gen |-> gen, session |-> session,
                      reply |-> "none"]
  BY DEF Wake, Disarm, NoCall
<1>3. Typed'
  <2>1. pending.ep \in Nat /\ pending.key \in Nat /\ pending.turn \in Nat
        /\ gen \in Nat /\ session \in Nat
    BY <1>1 DEF BudgetInv, Typed, TypedClient, TypedTurns
  <2>2. admit' = admit \/ admit' \in CallType
    BY <1>2, <2>1 DEF CallType, Phases, Replies
  <2> QED
    BY <1>1, <1>2, <2>1, <2>2
       DEF BudgetInv, Typed, TypedTurns, TypedEpisodes, TypedCalls, TypedClient
<1>4. Frame'
  BY <1>1 DEF BudgetInv, Frame
<1>5. DoomKept
  <2> SUFFICES ASSUME NEW i \in Nat, Doomed(i)', ~Doomed(i)
               PROVE  Closed(i) /\ (i \in Live' => ~Token(i)' /\ Closed(episodes[i].succ)')
    BY DEF DoomKept
  <2>1. i = pending.ep /\ timer # "none" /\ timer' = "cancelling"
    BY <1>1, <1>2 DEF Doomed
  <2> QED
    BY <1>1, <2>1, LeaveTimer
       DEF Token, SchedToken, TimerToken, DriveToken, Closed, Open, Asked
<1>6. Calm
  BY <1>1, <1>2, <1>5, TypedFacts
     DEF BudgetInv, Typed, TypedTurns, Calm, Settles, Fades, Resets, SchedKept,
         TimerKept, Closed, Open, Asked, SchedToken, TimerToken
<1>7. Linkage' /\ Asking' /\ Granted'
  BY <1>1, <1>2 DEF BudgetInv, Linkage, Open, Asked, Asking, Granted, Awaited
<1> QED
  BY <1>3, <1>4, <1>6, <1>7, CalmStep DEF BudgetInv, Core

\* A schedule that stops an episode is about the episode's last continuation: no
\* attempt is under way.
LEMMA ScheduleStopsBudget ==
    ASSUME BudgetInv, ScheduleStops
    PROVE  BudgetInv'
<1>1. /\ UNCHANGED <<turns, failures, session, client, admit, cancels, double, seen, chain>>
      /\ Asked /\ sched.turn \in Turns /\ sched.turn \in observed
  BY DEF ScheduleStops, Asked, BudgetInv, Frame, Typed, TypedTurns
<1>2. sched' = [sched EXCEPT !.pc = "ending"] \/ sched' = Answered(sched, "declined")
  BY DEF ScheduleStops
<1>3. /\ sched' \in CallType /\ sched'.pc # "idle" /\ sched'.pc # "sent"
      /\ sched'.pc # "telling" /\ ~(sched'.pc = "answered" /\ sched'.reply = "scheduled")
      /\ sched'.turn = sched.turn /\ sched'.session = sched.session
  BY <1>2 DEF Answered, BudgetInv, Typed, TypedCalls, CallType, Phases, Replies
<1>4. \/ UNCHANGED <<episodes, ending>>
      \/ \E i \in Linked(sched.turn) : End(i, "sched")
  BY DEF ScheduleStops
<1>5. \A i \in DOMAIN episodes' : i \in Live /\ episodes'[i] = episodes[i]
  BY <1>4 DEF End, Drop
<1>6. Typed'
  BY <1>1, <1>3, <1>5
     DEF BudgetInv, Typed, TypedTurns, TypedEpisodes, TypedCalls, TypedClient
<1>7. Frame'
  BY <1>1, <1>3 DEF BudgetInv, Frame, Asked
<1>8. ASSUME NEW i \in Linked(sched.turn)
      PROVE  /\ i \in Live /\ i \in Nat /\ Closed(i)
             /\ episodes[i].succ = sched.turn /\ ~Token(i)
  <2>1. i \in Live /\ sched.turn \in {episodes[i].succ, episodes[i].turn, i}
    BY <1>8 DEF Linked
  <2>2. Closed(i) /\ Closed(episodes[i].turn)
    BY <2>1 DEF BudgetInv, EpisodesClosed
  <2>3. sched.turn # 0 /\ ~Closed(sched.turn)
    BY <1>1, TypedFacts DEF BudgetInv, Closed, Open
  <2> QED
    BY <2>1, <2>2, <2>3, TypedFacts DEF BudgetInv, TokenWaits, Closed
<1>9. \A i \in Nat : Token(i)' => Token(i)
  BY <1>1, <1>3 DEF Token, SchedToken, TimerToken, DriveToken
<1>10. Closed(sched.turn)'
  BY <1>1, <1>3 DEF Closed, Open, Asked, BudgetInv, Frame, Typed
<1>11. DoomKept
  <2> SUFFICES ASSUME NEW i \in Nat, Doomed(i)', ~Doomed(i)
               PROVE  Closed(i) /\ (i \in Live' => ~Token(i)' /\ Closed(episodes[i].succ)')
    BY DEF DoomKept
  <2>1. i \in Linked(sched.turn)
    <3>1. PICK j \in Linked(sched.turn) : End(j, "sched")
      BY <1>1, <1>4 DEF Doomed
    <3>2. ending' \subseteq ending \cup {<<j, "sched">>}
      BY <3>1 DEF End
    <3>3. <<i, "sched">> # <<j, "sched">> => <<i, "sched">> \notin ending' \/ Doomed(i)
      BY <3>2 DEF Doomed
    <3>4. <<i, "cancel">> \notin ending'
      BY <3>2 DEF Doomed
    <3>5. <<i, "sched">> = <<j, "sched">>
      BY <1>1, <3>3, <3>4 DEF Doomed
    <3> QED
      BY <3>5
  <2>2. i \in Live' => episodes'[i].succ = sched'.turn
    BY <1>3, <1>5, <1>8, <2>1
  <2> QED
    BY <1>8, <1>9, <1>10, <2>1, <2>2 DEF Closed, Open
<1>12. Calm
  BY <1>1, <1>3, <1>5, <1>11, TypedFacts
     DEF BudgetInv, Typed, TypedTurns, Calm, Settles, Fades, Resets, SchedKept,
         TimerKept, Closed, Open, SchedToken, TimerToken
<1>13. Linkage'
  <2> SUFFICES ASSUME NEW t \in Turns, chain'[t] > 0, Open(t)'
               PROVE  \E i \in Live' : episodes'[i].succ = t
    BY DEF Linkage
  <2>1. Open(t) /\ chain[t] > 0 /\ t # sched.turn
    BY <1>1, <1>3, <1>10, TypedFacts DEF Open, Asked, Closed, BudgetInv
  <2>2. PICK i \in Live : episodes[i].succ = t
    BY <2>1 DEF BudgetInv, Linkage
  <2>3. i \in Live'
    <3>1. \A j \in Linked(sched.turn) : j # i
      BY <1>8, <2>1, <2>2
    <3> QED
      BY <1>4, <2>2, <3>1 DEF End, Drop
  <2> QED
    BY <1>5, <2>2, <2>3
<1>14. Asking' /\ Granted'
  BY <1>1, <1>5 DEF BudgetInv, Asking, Granted, Awaited
<1> QED
  BY <1>6, <1>7, <1>12, <1>13, <1>14, CalmStep DEF BudgetInv, Core

\* The answered schedule passes its attempt to the timer.
LEMMA ScheduledBudget ==
    ASSUME BudgetInv, Scheduled
    PROVE  BudgetInv'
<1>1. /\ UNCHANGED <<turns, gate, gen, observed, drives, admit, cancels, double, seen, chain>>
      /\ sched.pc = "answered" /\ sched' = NoCall /\ sched'.pc = "idle"
  BY DEF Scheduled, NoCall
<1>2. Frame'
  BY <1>1 DEF BudgetInv, Frame
<1>3. \A t \in Nat : (Closed(t) => Closed(t)') /\ (Open(t)' => Open(t))
  BY <1>1 DEF Closed, Open, Asked
<1>4. CASE sched.reply # "scheduled"
  <2>1. UNCHANGED <<pending, timer>>
    BY <1>4 DEF Scheduled
  <2>2. Typed'
    BY <1>1, <2>1, NoCallTyped
       DEF BudgetInv, Typed, TypedTurns, TypedEpisodes, TypedCalls, TypedClient
  <2>3. Calm
    BY <1>1, <1>3, <2>1, TypedFacts
       DEF BudgetInv, Typed, TypedTurns, Calm, Settles, Fades, Resets, SchedKept,
           TimerKept, DoomKept, SchedToken, TimerToken, Doomed
  <2>4. Linkage' /\ Asking' /\ Granted'
    BY <1>1, <1>3, <2>1, TypedFacts DEF BudgetInv, Linkage, Asking, Granted, Awaited
  <2> QED
    BY <1>2, <2>2, <2>3, <2>4, CalmStep DEF BudgetInv, Core
<1>5. CASE sched.reply = "scheduled"
  <2> DEFINE e == sched.ep
  <2>1. /\ pending' = [ep |-> sched.ep, key |-> sched.key, turn |-> sched.turn,
                       session |-> sched.session]
        /\ timer' = "sleeping" /\ e \in Nat
        /\ SchedToken(e)
    BY <1>1, <1>5, TypedFacts DEF Scheduled, SchedToken, BudgetInv
  <2>2. /\ \A i \in Nat : ~SchedToken(i)'
        /\ \A i \in Nat : TimerToken(i)' <=> i = e
        /\ \A i \in Nat : DriveToken(i)' <=> DriveToken(i)
        /\ \A i \in Nat : Token(i)' => Token(i)
    BY <1>1, <2>1 DEF Token, SchedToken, TimerToken, DriveToken
  <2>3. \A i \in Nat : Doomed(i)' => Doomed(i)
    BY <1>1, <2>1 DEF Doomed
  <2>4. Typed'
    BY <1>1, <2>1, NoCallTyped, TypedFacts
       DEF BudgetInv, Typed, TypedTurns, TypedEpisodes, TypedCalls, TypedClient
  <2>5. EpisodesClosed' /\ HeldClosed'
    <3>1. \A t : Closed(t) => Closed(t)'
      BY <1>1 DEF Closed, Open, Asked
    <3> QED
      BY <1>1, <2>2, <2>3, <3>1 DEF BudgetInv, EpisodesClosed, HeldClosed
  <2>6. \A i \in Live : i \in Nat
    BY TypedFacts DEF BudgetInv, EpisodesClosed, Closed
  <2>7. OneToken' /\ TokenWaits' /\ DoomedQuiet'
    BY <1>1, <1>3, <2>1, <2>2, <2>3, <2>6, TypedFacts
       DEF BudgetInv, OneToken, TokenWaits, DoomedQuiet
  <2>8. Linkage' /\ ChainCount' /\ Asking' /\ Granted' /\ BudgetShared'
    BY <1>1, <1>3, <2>1, TypedFacts
       DEF BudgetInv, Linkage, ChainCount, Asking, Granted, Awaited, BudgetShared
  <2>9. Values'
    BY <1>1, <2>1, <2>2 DEF BudgetInv, Values, Val
  <2> QED
    BY <1>2, <2>4, <2>5, <2>7, <2>8, <2>9 DEF BudgetInv
<1> QED
  BY <1>4, <1>5

\* What the acceptance of a schedule makes of its episode and of its request.
Attempt(e, k, t, g) == [e EXCEPT !.key = k, !.turn = t, !.gen = g]
Telling(c, i, k) == [c EXCEPT !.pc = "telling", !.ep = i, !.key = k]

\* Both keep the rest.
LEMMA AttemptTyped ==
    ASSUME NEW x \in EpisodeType, NEW a \in Nat, NEW u \in Nat, NEW h \in Nat
    PROVE  /\ Attempt(x, a, u, h) \in EpisodeType
           /\ Attempt(x, a, u, h).succ = x.succ /\ Attempt(x, a, u, h).turn = u
           /\ Attempt(x, a, u, h).count = x.count /\ Attempt(x, a, u, h).key = a
           /\ Attempt(x, a, u, h).awaiting = x.awaiting /\ Attempt(x, a, u, h).gen = h
BY DEF Attempt, EpisodeType

\* What an episode's owner is told has its type.
LEMMA TellingTyped ==
    ASSUME NEW c \in CallType, NEW i \in Nat, NEW k \in Nat
    PROVE  /\ Telling(c, i, k) \in CallType
           /\ Telling(c, i, k).pc = "telling" /\ Telling(c, i, k).ep = i
           /\ Telling(c, i, k).key = k /\ Telling(c, i, k).turn = c.turn
           /\ Telling(c, i, k).session = c.session /\ Telling(c, i, k).gen = c.gen
BY DEF Telling, CallType, Phases

\* A schedule is accepted: its failure is that of the episode's continuation, or
\* has no episode and was not linked.  The attempt is the episode's only one.
LEMMA ScheduleAcceptedBudget ==
    ASSUME BudgetInv, ScheduleAccepted
    PROVE  BudgetInv'
<1>0. PICK t, id, e :
        t = sched.turn /\ id = EpisodeFor(sched.turn) /\ e = Episode(EpisodeFor(sched.turn))
  OBVIOUS
<1>1. /\ UNCHANGED <<turns, failures, ending, session, client, admit, cancels, double,
                     seen, chain>>
      /\ Asked /\ sched.pc = "sent" /\ e.count < MaxRetries
      /\ sched' = [sched EXCEPT !.pc = "telling", !.ep = id, !.key = e.count + 1]
      /\ episodes' = Put(id, [e EXCEPT !.key = e.count + 1, !.turn = t,
                                       !.gen = sched.gen])
  BY <1>0 DEF ScheduleAccepted, Asked
<1>2. t \in Turns /\ t \in Nat /\ t \in observed /\ t # 0 /\ Open(t) /\ t < fresh
  BY <1>0, <1>1, TypedFacts DEF BudgetInv, Frame, Typed, TypedTurns, Open
<1>3. /\ id \in Live => episodes[id].succ = t /\ e = episodes[id]
      /\ id \notin Live => id = t /\ e = NoEpisode
      /\ id \in Nat
  <2>1. CASE \E i \in Live : episodes[i].succ = t
    BY <1>0, <2>1 DEF EpisodeFor, Episode, BudgetInv, EpisodesClosed, Closed, Turns
  <2>2. CASE ~ \E i \in Live : episodes[i].succ = t
    BY <1>0, <1>2, <2>2 DEF EpisodeFor, Episode, BudgetInv, EpisodesClosed, Closed
  <2> QED
    BY <2>1, <2>2
<1>4. /\ e \in EpisodeType /\ e.count \in Nat /\ e.succ \in {0, t}
      /\ e.awaiting \in BOOLEAN
  <2>1. CASE id \in Live
    <3>1. episodes[id] \in EpisodeType /\ episodes[id].succ = t
      BY <1>3, <2>1 DEF BudgetInv, Typed, TypedEpisodes
    <3> QED
      BY <1>3, <2>1, <3>1 DEF EpisodeType
  <2>2. CASE id \notin Live
    <3>1. NoEpisode \in EpisodeType /\ NoEpisode.succ = 0
      BY DEF NoEpisode, EpisodeType
    <3> QED
      BY <1>3, <2>2, <3>1 DEF EpisodeType
  <2> QED
    BY <2>1, <2>2
<1>5. ~Token(id) /\ ~Doomed(id)
  <2>1. CASE id \in Live
    BY <1>2, <1>3, <2>1 DEF BudgetInv, TokenWaits, DoomedQuiet, EpisodesClosed, Closed
  <2>2. CASE id \notin Live
    BY <1>2, <1>3, <2>2 DEF BudgetInv, HeldClosed, Closed
  <2> QED
    BY <2>1, <2>2
<1>6. chain[t] <= e.count
  <2>1. CASE id \in Live
    BY <1>2, <1>3, <2>1 DEF BudgetInv, ChainCount
  <2>2. CASE id \notin Live
    <3>1. ~ \E i \in Live : episodes[i].succ = t
      BY <1>0, <2>2 DEF EpisodeFor
    <3>2. ~(chain[t] > 0)
      BY <1>2, <3>1 DEF BudgetInv, Linkage
    <3> QED
      BY <1>2, <1>3, <2>2, <3>2, TypedFacts DEF BudgetInv, NoEpisode
  <2> QED
    BY <2>1, <2>2
<1>6k. PICK k \in Nat : k = e.count + 1
  BY <1>4
<1>7. /\ Live' = Live \cup {id}
      /\ \A i \in Live \ {id} : episodes'[i] = episodes[i]
      /\ episodes'[id].succ = e.succ /\ episodes'[id].turn = t
      /\ episodes'[id].count = e.count /\ episodes'[id].key = e.count + 1
      /\ episodes'[id].awaiting = e.awaiting /\ episodes'[id] \in EpisodeType
  <2>0. PICK g \in Nat : g = sched.gen
    BY DEF BudgetInv, Typed, TypedCalls, CallType
  <2>1. e \in EpisodeType /\ t \in Nat /\ g \in Nat /\ k \in Nat
    BY <1>2, <1>4, <1>6k, <2>0
  <2>2. /\ Attempt(e, k, t, g) \in EpisodeType
        /\ Attempt(e, k, t, g).succ = e.succ /\ Attempt(e, k, t, g).turn = t
        /\ Attempt(e, k, t, g).count = e.count /\ Attempt(e, k, t, g).key = k
        /\ Attempt(e, k, t, g).awaiting = e.awaiting
    BY <2>1, AttemptTyped
  <2>3. episodes' = Put(id, Attempt(e, k, t, g))
    BY <1>1, <1>6k, <2>0 DEF Attempt
  <2> QED
    BY <1>6k, <2>2, <2>3 DEF Put
<1>8. /\ sched' \in CallType /\ sched'.pc = "telling" /\ sched'.ep = id
      /\ sched'.key = e.count + 1 /\ sched'.turn = t /\ sched'.session = sched.session
  <2>1. sched \in CallType
    BY DEF BudgetInv, Typed, TypedCalls
  <2>2. sched' = Telling(sched, id, k)
    BY <1>1, <1>6k DEF Telling
  <2> QED
    <3>1. sched' \in CallType /\ sched'.pc = "telling"
      BY <1>3, <1>6k, <2>1, <2>2, TellingTyped
    <3>2. sched'.ep = id /\ sched'.key = k
      BY <1>3, <1>6k, <2>1, <2>2, TellingTyped, ZenonT(20)
    <3>3. sched'.turn = sched.turn /\ sched'.session = sched.session
      BY <1>3, <1>6k, <2>1, <2>2, TellingTyped, ZenonT(20)
    <3> QED
      BY <1>0, <1>6k, <3>1, <3>2, <3>3
<1>9. /\ \A x : Closed(x) => Closed(x)'
      /\ \A x : Open(x)' => Open(x) /\ x # t
      /\ Closed(t)'
  <2>1. t # active /\ ~Asked'
    BY <1>0, <1>1, <1>2, <1>8 DEF BudgetInv, Frame, Asked
  <2>2. \A x : Open(x)' => Open(x) /\ x # t
    BY <1>0, <1>1, <1>2, <2>1 DEF Open
  <2> QED
    BY <1>1, <1>2, <2>2 DEF Closed
<1>10. /\ \A i \in Nat : SchedToken(i)' <=> i = id
       /\ \A i \in Nat : ~SchedToken(i)
       /\ \A i \in Nat : TimerToken(i)' <=> TimerToken(i)
       /\ \A i \in Nat : DriveToken(i)' <=> DriveToken(i)
       /\ \A i \in Nat : Doomed(i)' <=> Doomed(i)
  BY <1>1, <1>3, <1>8 DEF SchedToken, TimerToken, DriveToken, Doomed
<1>11. \A i \in Live' : i \in Nat
  BY <1>3, <1>7 DEF BudgetInv, EpisodesClosed, Closed, Turns
<1>12. Typed' /\ Frame'
  <2>1. TypedEpisodes'
    BY <1>7 DEF BudgetInv, Typed, TypedEpisodes
  <2> QED
    BY <1>1, <1>2, <1>8, <2>1
       DEF BudgetInv, Typed, TypedTurns, TypedCalls, TypedClient, Frame
<1>13. EpisodesClosed'
  <2> SUFFICES ASSUME NEW i \in Live' PROVE Closed(i)' /\ Closed(episodes[i].turn)'
    BY DEF EpisodesClosed
  <2>1. CASE i = id
    <3>1. Closed(id)'
      BY <1>3, <1>9 DEF BudgetInv, EpisodesClosed
    <3> QED
      BY <1>7, <1>9, <2>1, <3>1 DEF Closed, Open
  <2>2. CASE i # id
    <3>1. i \in Live /\ episodes'[i] = episodes[i]
      BY <1>7, <2>2
    <3>2. Closed(i) /\ Closed(episodes[i].turn)
      BY <3>1 DEF BudgetInv, EpisodesClosed
    <3>3. Closed(i)' /\ Closed(episodes[i].turn)'
      BY <1>9, <3>1, <3>2 DEF Closed, Open
    <3> QED
      BY <3>3
  <2> QED
    BY <2>1, <2>2
<1>14. HeldClosed'
  <2>1. Closed(id)'
    BY <1>3, <1>9 DEF BudgetInv, EpisodesClosed
  <2> QED
    BY <1>9, <1>10, <2>1 DEF BudgetInv, HeldClosed, Token
<1>15. OneToken'
  BY <1>1, <1>5, <1>7, <1>10, <1>11, TypedFacts
     DEF BudgetInv, OneToken, Token, DriveToken
<1>16. TokenWaits' /\ DoomedQuiet'
  <2> SUFFICES ASSUME NEW i \in Live'
               PROVE  /\ Token(i)' => episodes'[i].succ \in {0, episodes'[i].turn}
                      /\ Doomed(i)' => ~Token(i)' /\ Closed(episodes[i].succ)'
    BY DEF TokenWaits, DoomedQuiet
  <2>1. CASE i = id
    BY <1>3, <1>4, <1>5, <1>7, <1>10, <2>1
  <2>2. CASE i # id
    <3>1. i \in Live /\ i \in Nat /\ episodes'[i] = episodes[i]
      BY <1>7, <1>11, <2>2
    <3>2. Token(i)' => Token(i)
      BY <1>10, <2>2, <3>1 DEF Token
    <3>3. Closed(episodes[i].succ) => Closed(episodes[i].succ)'
      BY <1>9, <3>1 DEF Closed, Open
    <3> QED
      BY <1>10, <3>1, <3>2, <3>3 DEF BudgetInv, TokenWaits, DoomedQuiet
  <2> QED
    BY <2>1, <2>2
<1>17. Linkage'
  <2> SUFFICES ASSUME NEW x \in Turns, chain'[x] > 0, Open(x)'
               PROVE  \E i \in Live' : episodes'[i].succ = x
    BY DEF Linkage
  <2>1. Open(x) /\ x # t /\ chain[x] > 0
    BY <1>1, <1>9
  <2>2. PICK i \in Live : episodes[i].succ = x
    BY <2>1 DEF BudgetInv, Linkage
  <2>3. i # id
    BY <1>3, <2>1, <2>2
  <2> QED
    BY <1>7, <2>2, <2>3
<1>18. ChainCount'
  <2> SUFFICES ASSUME NEW i \in Live'
               PROVE  /\ episodes'[i].key <= episodes'[i].count + 1
                      /\ episodes'[i].succ # 0 =>
                           /\ episodes'[i].succ \in Turns /\ episodes'[i].succ < fresh'
                           /\ chain'[episodes'[i].succ] <= episodes'[i].count
    BY DEF ChainCount
  <2>1. CASE i = id
    BY <1>1, <1>2, <1>4, <1>6, <1>7, <2>1
  <2>2. CASE i # id
    BY <1>1, <1>7, <2>2 DEF BudgetInv, ChainCount
  <2> QED
    BY <2>1, <2>2
<1>19. Values'
  <2>1. Val(t, e.count + 1)
    BY <1>1, <1>2, <1>4, <1>6, TypedFacts DEF Val, BudgetInv
  <2>2. Val(sched.turn, sched.key)'
    BY <1>1, <1>8, <2>1 DEF Val
  <2> QED
    BY <1>1, <2>2 DEF BudgetInv, Values, Val
<1>20. Asking' /\ BudgetShared'
  BY <1>1 DEF BudgetInv, Asking, BudgetShared
<1>21. Granted'
  <2>1. ASSUME NEW x \in Nat, NEW n, Awaited(x, n), x # id PROVE Awaited(x, n)'
    BY <1>7, <2>1 DEF Awaited
  <2>2. timer = "asking" => admit.ep \in Nat /\ admit.ep # id
    BY <1>5, TypedFacts DEF BudgetInv, Asking, Token, TimerToken
  <2>3. \A d \in drives : d.ep \in Nat /\ d.ep # id
    BY <1>5, TypedFacts DEF BudgetInv, Token, DriveToken
  <2> QED
    BY <1>1, <2>1, <2>2, <2>3 DEF BudgetInv, Granted, Awaited
<1> QED
  BY <1>12, <1>13, <1>14, <1>15, <1>16, <1>17, <1>18, <1>19, <1>20, <1>21 DEF BudgetInv

\* A granted attempt leaves the timer for a task of its own.
LEMMA AdmittedBudget ==
    ASSUME BudgetInv, Admitted
    PROVE  BudgetInv'
<1> DEFINE n == [ep |-> admit.ep, key |-> admit.key, turn |-> admit.turn, begun |-> FALSE]
<1>1. /\ UNCHANGED <<turns, gate, gen, observed, sched, cancels, double, seen, chain>>
      /\ timer = "asking" /\ admit.pc = "answered" /\ admit.reply = "admitted"
      /\ pending' = None /\ timer' = "none" /\ admit' = NoCall
      /\ drives' = drives \cup {n}
  BY DEF Admitted, Disarm
<1>2. /\ n \in DriveType /\ n.ep = admit.ep /\ n.key = admit.key /\ n.turn = admit.turn
      /\ n.ep = pending.ep /\ n.key = pending.key /\ n.turn = pending.turn
  BY <1>1, TypedFacts DEF BudgetInv, Asking, DriveType
<1> HIDE DEF n
<1>3. /\ \A t : Closed(t)' <=> Closed(t)
      /\ \A t : Open(t)' <=> Open(t)
  BY <1>1 DEF Closed, Open, Asked
<1>4. /\ n.ep \in Nat /\ TimerToken(n.ep)
      /\ \A i \in Nat : SchedToken(i)' <=> SchedToken(i)
      /\ \A i \in Nat : ~TimerToken(i)'
      /\ \A i \in Nat : DriveToken(i)' <=> DriveToken(i) \/ i = n.ep
      /\ \A i \in Nat : Doomed(i)' => Doomed(i)
  BY <1>1, <1>2, TypedFacts DEF BudgetInv, SchedToken, TimerToken, DriveToken, Doomed
<1>5. \A i \in Nat : Token(i)' => Token(i)
  BY <1>4 DEF Token
<1>6. \A i \in Live : i \in Nat
  BY TypedFacts DEF BudgetInv, EpisodesClosed, Closed
<1>7. Typed' /\ Frame'
  BY <1>1, <1>2, NoCallTyped
     DEF BudgetInv, Typed, TypedTurns, TypedEpisodes, TypedCalls, TypedClient, Frame
<1>8. EpisodesClosed' /\ HeldClosed' /\ TokenWaits'
  BY <1>1, <1>3, <1>4, <1>5, <1>6 DEF BudgetInv, EpisodesClosed, HeldClosed, TokenWaits
<1>9. DoomedQuiet'
  BY <1>1, <1>4, <1>5, <1>6 DEF BudgetInv, DoomedQuiet, Closed, Open, Asked
<1>10. OneToken'
  <2>1. \A i \in Live : /\ ~(SchedToken(i)' /\ TimerToken(i)')
                        /\ ~(SchedToken(i)' /\ DriveToken(i)')
                        /\ ~(TimerToken(i)' /\ DriveToken(i)')
    BY <1>4, <1>6 DEF BudgetInv, OneToken
  <2>2. ASSUME NEW d \in drives', NEW e \in drives', d.ep = e.ep, d.ep \in Live
        PROVE  d = e
    <3>1. \A f \in drives : f.ep = n.ep => f.ep \notin Live
      BY <1>4 DEF BudgetInv, OneToken, DriveToken
    <3> QED
      BY <1>1, <2>2, <3>1 DEF BudgetInv, OneToken
  <2> QED
    BY <1>1, <2>1, <2>2 DEF OneToken
<1>11. Linkage' /\ ChainCount' /\ BudgetShared'
  BY <1>1 DEF BudgetInv, Linkage, ChainCount, BudgetShared, Open, Asked
<1>12. Values'
  <2>1. Val(n.turn, n.key)
    BY <1>1, <1>2 DEF BudgetInv, Values
  <2> QED
    BY <1>1, <1>4, <2>1 DEF BudgetInv, Values, Val
<1>13. Asking' /\ Granted'
  BY <1>1, <1>2 DEF BudgetInv, Asking, Granted, Awaited
<1> QED
  BY <1>7, <1>8, <1>9, <1>10, <1>11, <1>12, <1>13 DEF BudgetInv

\* A continuation begins, and stays the attempt it was, or gives way.
LEMMA DriveBeginBudget ==
    ASSUME BudgetInv, NEW d \in drives, DriveBegin(d)
    PROVE  BudgetInv'
<1>1. UNCHANGED <<turns, gate, gen, observed, pending, timer, wire, seen, chain>>
  BY DEF DriveBegin
<1>2. Frame'
  BY <1>1 DEF BudgetInv, Frame
<1>3. /\ \A t : Closed(t)' <=> Closed(t)
      /\ \A t : Open(t)' <=> Open(t)
      /\ \A i \in Nat : SchedToken(i)' <=> SchedToken(i)
      /\ \A i \in Nat : TimerToken(i)' <=> TimerToken(i)
      /\ \A i \in Nat : Doomed(i)' <=> Doomed(i)
  BY <1>1 DEF Closed, Open, Asked, SchedToken, TimerToken, Doomed
<1>4. CASE drives' = drives \ {d}
  <2>1. Typed'
    BY <1>1, <1>4
       DEF BudgetInv, Typed, TypedTurns, TypedEpisodes, TypedCalls, TypedClient
  <2>2. Calm
    BY <1>1, <1>3, <1>4, TypedFacts
       DEF BudgetInv, Typed, TypedTurns, Calm, Settles, Fades, Resets, SchedKept,
           TimerKept, DoomKept
  <2>3. Linkage' /\ Asking' /\ Granted'
    BY <1>1, <1>4 DEF BudgetInv, Linkage, Asking, Granted, Awaited, Open, Asked
  <2> QED
    BY <1>2, <2>1, <2>2, <2>3, CalmStep DEF BudgetInv, Core
<1>5. CASE drives' = (drives \ {d}) \cup {[d EXCEPT !.begun = TRUE]}
  <2>1. PICK n : n = [d EXCEPT !.begun = TRUE]
    OBVIOUS
  <2>2. /\ n \in DriveType /\ n.ep = d.ep /\ n.key = d.key /\ n.turn = d.turn
    <3>1. d \in DriveType
      BY DEF BudgetInv, Typed, TypedClient
    <3> QED
      BY <2>1, <3>1 DEF DriveType
  <2>3. drives' = (drives \ {d}) \cup {n}
    BY <1>5, <2>1
  <2>4. /\ \A i \in Nat : DriveToken(i)' <=> DriveToken(i)
        /\ \A i \in Nat : Token(i)' <=> Token(i)
    BY <1>3, <2>2, <2>3 DEF DriveToken, Token
  <2>5. \A i \in Live : i \in Nat
    BY TypedFacts DEF BudgetInv, EpisodesClosed, Closed
  <2>6. Typed'
    BY <1>1, <2>2, <2>3
       DEF BudgetInv, Typed, TypedTurns, TypedEpisodes, TypedCalls, TypedClient
  <2>7. EpisodesClosed' /\ HeldClosed' /\ TokenWaits' /\ DoomedQuiet'
    BY <1>1, <1>3, <2>4, <2>5
       DEF BudgetInv, EpisodesClosed, HeldClosed, TokenWaits, DoomedQuiet
  <2>8. OneToken'
    <3>1. \A i \in Live : /\ ~(SchedToken(i)' /\ TimerToken(i)')
                          /\ ~(SchedToken(i)' /\ DriveToken(i)')
                          /\ ~(TimerToken(i)' /\ DriveToken(i)')
      BY <1>3, <2>4, <2>5 DEF BudgetInv, OneToken
    <3>2. \A x, y \in drives' : x.ep = y.ep /\ x.ep \in Live => x = y
      BY <2>2, <2>3 DEF BudgetInv, OneToken
    <3> QED
      BY <1>1, <3>1, <3>2 DEF OneToken
  <2>9. Linkage' /\ ChainCount' /\ BudgetShared' /\ Asking'
    BY <1>1 DEF BudgetInv, Linkage, ChainCount, BudgetShared, Open, Asked, Asking
  <2>10. Values'
    <3>1. Val(n.turn, n.key)
      BY <2>2 DEF BudgetInv, Values
    <3> QED
      BY <1>1, <1>3, <2>3, <3>1 DEF BudgetInv, Values, Val
  <2>11. Granted'
    <3>1. Awaited(n.ep, n.key)
      BY <2>2 DEF BudgetInv, Granted
    <3> QED
      BY <1>1, <2>3, <3>1 DEF BudgetInv, Granted, Awaited
  <2> QED
    BY <1>2, <2>6, <2>7, <2>8, <2>9, <2>10, <2>11 DEF BudgetInv
<1> QED
  BY <1>4, <1>5 DEF DriveBegin

\* A continuation is not started, or as a turn of its own.
LEMMA DriveRefusedBudget ==
    ASSUME BudgetInv, NEW d \in drives, drives' = drives \ {d}, fresh' >= fresh,
           UNCHANGED <<failures, ending, session, gen, observed, pending, timer, wire, seen>>,
           \/ UNCHANGED <<turns, episodes, chain>>
           \/ Startable /\ active' = fresh /\ fresh' = fresh + 1 /\ TakeOver
    PROVE  BudgetInv'
<1>1. /\ fresh \in Nat /\ active \in Nat /\ MaxTurns \in Nat /\ fresh # 0
      /\ active < fresh /\ fresh' \in Nat
  BY TypedFacts DEF BudgetInv, Typed, TypedTurns
<1>2. \/ UNCHANGED <<active, fresh, episodes, chain>>
      \/ /\ active = 0 /\ fresh <= MaxTurns /\ active' = fresh /\ fresh' = fresh + 1
         /\ chain' = [t \in Turns |-> 0]
  BY DEF Startable, TakeOver
<1>3. \A i \in Live' : i \in Live /\ episodes'[i] = episodes[i]
  BY DEF TakeOver, Drop
<1>4. /\ TypedTurns' /\ Frame'
  <2>1. TypedTurns'
    BY <1>1, <1>2 DEF BudgetInv, Typed, TypedTurns
  <2>2. \A t \in DOMAIN failures \cup observed : t \in Nat /\ t # 0 /\ t < fresh /\ t # active
    BY TypedFacts DEF BudgetInv, Frame, Typed, TypedTurns
  <2>3. Frame'
    BY <1>1, <1>2, <2>2 DEF BudgetInv, Frame
  <2> QED
    BY <2>1, <2>3
<1>5. Typed'
  BY <1>3, <1>4 DEF BudgetInv, Typed, TypedEpisodes, TypedCalls, TypedClient
<1>6. /\ \A t \in Nat : Closed(t) => Closed(t)'
      /\ \A i \in Nat : SchedToken(i)' <=> SchedToken(i)
      /\ \A i \in Nat : TimerToken(i)' <=> TimerToken(i)
      /\ \A i \in Nat : Doomed(i)' <=> Doomed(i)
      /\ \A t \in Turns : chain'[t] \in {0, chain[t]}
  BY <1>1, <1>2 DEF Closed, Open, Asked, SchedToken, TimerToken, Doomed, BudgetInv
<1>7. Calm
  <2>1. Fades
    BY <1>3, TypedFacts DEF BudgetInv, Fades
  <2> QED
    BY <1>6, <2>1 DEF Calm, Settles, Resets, SchedKept, TimerKept, DoomKept
<1>8. Linkage' /\ Asking' /\ Granted'
  <2>1. Asking' /\ Granted'
    BY <1>3 DEF BudgetInv, Asking, Granted, Awaited
  <2>2. Linkage'
    BY <1>2 DEF BudgetInv, Linkage, Open, Asked
  <2> QED
    BY <2>1, <2>2
<1> QED
  BY <1>4, <1>5, <1>7, <1>8, CalmStep DEF BudgetInv, Core

\* An episode that waits for its continuation is told of it.
Continued(e, t) == [e EXCEPT !.awaiting = FALSE, !.succ = t, !.inFlight = TRUE]

\* A continued episode has the type of an episode.
LEMMA ContinuedTyped ==
    ASSUME NEW e \in EpisodeType, NEW t \in Nat
    PROVE  /\ Continued(e, t) \in EpisodeType
           /\ Continued(e, t).succ = t /\ Continued(e, t).turn = e.turn
           /\ Continued(e, t).count = e.count /\ Continued(e, t).key = e.key
           /\ Continued(e, t).gen = e.gen
BY DEF Continued, EpisodeType

\* A continuation that its episode admitted is linked to its failure.
LEMMA DriveLinkedBudget ==
    ASSUME BudgetInv, NEW d \in drives, drives' = drives \ {d}, Startable,
           active' = fresh, fresh' = fresh + 1, d.ep \in Live,
           d.key \in episodes[d.ep].admitted, ObserveStarted(d),
           UNCHANGED <<failures, ending, session, gen, observed, pending, timer, wire, seen>>
    PROVE  BudgetInv'
<1>0. PICK f \in Turns : f = fresh
  <2>1. fresh \in Nat /\ fresh # 0 /\ fresh <= MaxTurns /\ MaxTurns \in Nat
    BY TypedFacts DEF Startable, BudgetInv, Typed, TypedTurns
  <2>2. fresh \in Turns
    BY <2>1 DEF Turns
  <2> QED
    BY <2>2
<1>1. PICK i, e : f = fresh /\ i = d.ep /\ e = episodes[d.ep]
  BY <1>0
<1>2. /\ f \in Nat /\ f # 0 /\ f <= MaxTurns /\ active = 0 /\ active' = f /\ fresh = f
      /\ fresh' = f + 1 /\ i \in Live /\ i \in Nat /\ i = d.ep
  BY <1>1, TypedFacts DEF Startable, Turns, BudgetInv
<1>3. /\ e \in EpisodeType /\ e.awaiting /\ d.key <= e.count
      /\ e.count \in Nat /\ e.key \in Nat /\ d.key \in Nat /\ e = episodes[i]
      /\ e.turn \in Nat /\ e.succ \in Nat
  BY <1>1, <1>2, TypedFacts DEF BudgetInv, Granted, Awaited, Typed, TypedEpisodes
<1>4. PICK c \in Nat : c = chain[d.turn]
  BY TypedFacts DEF BudgetInv, Values, Val
<1>5. /\ c + 1 <= d.key /\ d.key <= MaxRetries /\ MaxRetries \in Nat
      /\ chain' = [chain EXCEPT ![f] = c + 1]
      /\ Live' = Live
      /\ \A j \in Live \ {i} : episodes'[j] = episodes[j]
      /\ episodes'[i] = Continued(e, f)
  <2>1. c + 1 <= d.key /\ d.key <= MaxRetries /\ MaxRetries \in Nat
    BY <1>3, <1>4, TypedFacts DEF BudgetInv, Values, Val
  <2>2. /\ chain' = [chain EXCEPT ![f] = c + 1]
        /\ episodes' = [episodes EXCEPT ![d.ep].awaiting = FALSE, ![d.ep].succ = fresh,
                                        ![d.ep].inFlight = TRUE]
    BY <1>1, <1>2, <1>3, <1>4 DEF ObserveStarted
  <2>3. episodes'[i] = Continued(e, f)
    BY <1>1, <1>2, <1>3, <2>2 DEF Continued
  <2> QED
    BY <1>1, <1>2, <2>1, <2>2, <2>3
<1>6. /\ episodes'[i] \in EpisodeType /\ episodes'[i].succ = f /\ episodes'[i].turn = e.turn
      /\ episodes'[i].count = e.count /\ episodes'[i].key = e.key
  <2>1. /\ Continued(e, f) \in EpisodeType
        /\ Continued(e, f).succ = f /\ Continued(e, f).turn = e.turn
        /\ Continued(e, f).count = e.count /\ Continued(e, f).key = e.key
    BY <1>2, <1>3, ContinuedTyped, ZenonT(20)
  <2> QED
    BY <1>5, <2>1
<1>7. chain'[f] = c + 1 /\ \A t \in Turns \ {f} : chain'[t] = chain[t]
  BY <1>5 DEF BudgetInv, Typed, TypedTurns
<1>8. /\ \A t \in Nat : Closed(t) => Closed(t)'
      /\ \A t : Open(t)' => t = f \/ Open(t)
      /\ \A j \in Nat : SchedToken(j)' <=> SchedToken(j)
      /\ \A j \in Nat : TimerToken(j)' <=> TimerToken(j)
      /\ \A j \in Nat : DriveToken(j)' => DriveToken(j)
      /\ \A j \in Nat : Doomed(j)' <=> Doomed(j)
  BY <1>2 DEF Closed, Open, Asked, SchedToken, TimerToken, DriveToken, Doomed
<1>9. /\ \A j \in Nat : Token(j)' => Token(j)
      /\ ~Token(i)' /\ Token(i) /\ ~Doomed(i)
  <2>1. DriveToken(i) /\ ~SchedToken(i) /\ ~TimerToken(i) /\ ~DriveToken(i)'
    BY <1>2 DEF BudgetInv, OneToken, DriveToken
  <2> QED
    BY <1>2, <1>8, <2>1 DEF BudgetInv, DoomedQuiet, Token
<1>10. \A j \in Live : /\ j \in Nat /\ episodes[j].turn \in Nat /\ episodes[j].succ \in Nat
  BY TypedFacts DEF BudgetInv, EpisodesClosed, Closed
<1>11. Typed'
  <2>1. TypedTurns'
    <3>1. chain' \in [Turns -> Nat]
      BY <1>4, <1>5 DEF BudgetInv, Typed, TypedTurns
    <3>2. f + 1 \in Nat /\ f < f + 1 /\ f + 1 <= MaxTurns + 1
      BY <1>2, TypedFacts DEF BudgetInv
    <3> QED
      BY <1>2, <3>1, <3>2 DEF BudgetInv, Typed, TypedTurns
  <2>2. TypedEpisodes'
    BY <1>5, <1>6 DEF BudgetInv, Typed, TypedEpisodes
  <2> QED
    BY <2>1, <2>2 DEF BudgetInv, Typed, TypedCalls, TypedClient
<1>12. Frame'
  <2>1. \A t \in DOMAIN failures \cup observed : t \in Nat /\ t < f
    BY <1>2, TypedFacts DEF BudgetInv, Frame, Typed, TypedTurns
  <2>2. \A t \in DOMAIN failures \cup observed : t < f + 1 /\ t # f
    BY <1>2, <2>1
  <2> QED
    BY <1>2, <2>2 DEF BudgetInv, Frame
<1>13. EpisodesClosed' /\ HeldClosed'
  <2>1. EpisodesClosed'
    <3> SUFFICES ASSUME NEW j \in Live' PROVE Closed(j)' /\ Closed(episodes[j].turn)'
      BY DEF EpisodesClosed
    <3>1. j \in Live /\ episodes'[j].turn = episodes[j].turn
      BY <1>2, <1>3, <1>5, <1>6
    <3>2. PICK u \in Nat : u = episodes[j].turn
      BY <1>10, <3>1
    <3>3. Closed(j) /\ Closed(u)
      BY <3>1, <3>2 DEF BudgetInv, EpisodesClosed
    <3>4. Closed(j)' /\ Closed(u)'
      BY <1>8, <1>10, <3>1, <3>3
    <3> QED
      BY <3>1, <3>2, <3>4 DEF Closed, Open
  <2> QED
    BY <1>8, <1>9, <2>1 DEF BudgetInv, HeldClosed
<1>14. OneToken'
  BY <1>5, <1>8, <1>10 DEF BudgetInv, OneToken
<1>15. TokenWaits' /\ DoomedQuiet'
  <2> SUFFICES ASSUME NEW j \in Live
               PROVE  /\ Token(j)' => episodes'[j].succ \in {0, episodes'[j].turn}
                      /\ Doomed(j)' => ~Token(j)' /\ Closed(episodes[j].succ)'
    BY <1>5 DEF TokenWaits, DoomedQuiet
  <2>1. CASE j = i
    BY <1>2, <1>8, <1>9, <2>1
  <2>2. CASE j # i
    <3>1. episodes'[j] = episodes[j]
      BY <1>5, <2>2
    <3>2. PICK u \in Nat : u = episodes[j].succ
      BY <1>10
    <3>3. Closed(u) => Closed(episodes[j].succ)'
      BY <1>8, <3>1, <3>2 DEF Closed, Open
    <3> QED
      BY <1>8, <1>9, <1>10, <3>1, <3>2, <3>3 DEF BudgetInv, TokenWaits, DoomedQuiet
  <2> QED
    BY <2>1, <2>2
<1>16. Linkage'
  <2> SUFFICES ASSUME NEW t \in Turns, chain'[t] > 0, Open(t)'
               PROVE  \E j \in Live' : episodes'[j].succ = t
    BY DEF Linkage
  <2>1. CASE t = f
    BY <1>2, <1>5, <1>6, <2>1
  <2>2. CASE t # f
    <3>1. Open(t) /\ chain[t] > 0
      BY <1>7, <1>8, <2>2
    <3>2. PICK j \in Live : episodes[j].succ = t
      BY <3>1 DEF BudgetInv, Linkage
    <3>3. j # i
      <4>1. e.succ \in {0, e.turn} /\ Closed(e.turn)
        BY <1>2, <1>3, <1>9 DEF BudgetInv, TokenWaits, EpisodesClosed
      <4>2. ~Closed(t) /\ t # 0
        BY <3>1, TypedFacts DEF Closed, BudgetInv
      <4> QED
        BY <1>3, <3>2, <4>1, <4>2
    <3> QED
      BY <1>5, <3>2, <3>3
  <2> QED
    BY <2>1, <2>2
<1>17. ChainCount'
  <2> SUFFICES ASSUME NEW j \in Live
               PROVE  /\ episodes'[j].key <= episodes'[j].count + 1
                      /\ episodes'[j].succ # 0 =>
                           /\ episodes'[j].succ \in Turns /\ episodes'[j].succ < fresh'
                           /\ chain'[episodes'[j].succ] <= episodes'[j].count
    BY <1>5 DEF ChainCount
  <2>1. CASE j = i
    BY <1>2, <1>3, <1>4, <1>5, <1>6, <1>7, <2>1 DEF BudgetInv, ChainCount
  <2>2. CASE j # i
    <3>1. episodes'[j] = episodes[j]
      BY <1>5, <2>2
    <3> QED
      BY <1>2, <1>7, <1>10, <3>1 DEF BudgetInv, ChainCount
  <2> QED
    BY <2>1, <2>2
<1>18. Values'
  <2>1. ASSUME NEW t, NEW k, Val(t, k) PROVE Val(t, k)'
    BY <1>2, <1>7, <2>1 DEF Val, Turns
  <2>2. \A j \in Nat : SchedToken(j)' => Val(sched.turn, sched.key)'
    BY <1>8, <2>1 DEF BudgetInv, Values, Val
  <2>3. (timer \in {"sleeping", "asking"} => Val(pending.turn, pending.key))'
    BY <2>1 DEF BudgetInv, Values, Val
  <2>4. \A x \in drives' : Val(x.turn, x.key)'
    BY <2>1 DEF BudgetInv, Values
  <2> QED
    BY <2>2, <2>3, <2>4 DEF Values
<1>19. BudgetShared'
  BY <1>4, <1>5, <1>7, <1>3 DEF BudgetInv, BudgetShared
<1>20. Asking'
  BY DEF BudgetInv, Asking
<1>21. Granted'
  <2>1. ASSUME NEW x \in Nat, NEW k, Awaited(x, k), x # i PROVE Awaited(x, k)'
    BY <1>5, <2>1 DEF Awaited
  <2>2. \A x \in drives' : x \in drives /\ x.ep \in Nat /\ x.ep # i
    BY <1>2, TypedFacts DEF BudgetInv, OneToken
  <2>3. timer = "asking" => admit.ep \in Nat /\ admit.ep # i
    BY <1>2, TypedFacts DEF BudgetInv, Asking, OneToken, TimerToken, DriveToken
  <2> QED
    BY <2>1, <2>2, <2>3 DEF BudgetInv, Granted, Awaited
<1> QED
  BY <1>11, <1>12, <1>13, <1>14, <1>15, <1>16, <1>17, <1>18, <1>19, <1>20, <1>21
     DEF BudgetInv

\* So an attempt that starts leaves the invariant true.
LEMMA DriveStartBudget ==
    ASSUME BudgetInv, NEW d \in drives, DriveStart(d)
    PROVE  BudgetInv'
<1>1. /\ drives' = drives \ {d}
      /\ UNCHANGED <<failures, ending, session, gen, observed, pending, timer, wire, seen>>
  BY DEF DriveStart
<1>2. fresh \in Nat
  BY DEF BudgetInv, Typed, TypedTurns
<1>3. CASE ~(Startable /\ work # "queued")
  <2>1. UNCHANGED <<turns, episodes, chain>>
    BY <1>3 DEF DriveStart
  <2> QED
    BY <1>1, <1>2, <2>1, DriveRefusedBudget
<1>4. CASE Startable /\ ~(d.ep \in Live /\ d.key \in episodes[d.ep].admitted)
  <2>1. \/ UNCHANGED <<turns, episodes, chain>>
        \/ Startable /\ active' = fresh /\ fresh' = fresh + 1 /\ TakeOver
    BY <1>4 DEF DriveStart, ObserveStarted
  <2> QED
    BY <1>1, <1>2, <2>1, DriveRefusedBudget
<1>5. CASE /\ Startable /\ work # "queued"
           /\ d.ep \in Live /\ d.key \in episodes[d.ep].admitted
  <2>1. active' = fresh /\ fresh' = fresh + 1 /\ ObserveStarted(d)
    BY <1>5 DEF DriveStart
  <2> QED
    BY <1>1, <1>5, <2>1, DriveLinkedBudget
<1> QED
  BY <1>3, <1>4, <1>5

-----------------------------------------------------------------------------
(* The budget *)

\* Nothing has happened at first.
LEMMA InitBudget ==
    ASSUME Init
    PROVE  BudgetInv
<1>1. Typed
  BY RecoveryAssumption, NoCallTyped
     DEF Init, Typed, TypedTurns, TypedEpisodes, TypedCalls, TypedClient
<1>2. ~Asked /\ \A i : ~Token(i) /\ ~Doomed(i)
  BY DEF Init, NoCall, Asked, Token, SchedToken, TimerToken, DriveToken, Doomed
<1>3. /\ Frame /\ EpisodesClosed /\ HeldClosed /\ OneToken /\ TokenWaits /\ DoomedQuiet
      /\ Linkage /\ ChainCount /\ Asking
  BY <1>2
     DEF Init, NoCall, Frame, EpisodesClosed, HeldClosed, OneToken, TokenWaits,
         DoomedQuiet, Linkage, ChainCount, Asking
<1>4. Values /\ Granted /\ BudgetShared
  BY RecoveryAssumption DEF Init, NoCall, Values, SchedToken, Granted, BudgetShared
<1> QED
  BY <1>1, <1>3, <1>4 DEF BudgetInv

\* Every step keeps the invariant.
LEMMA NextBudget ==
    ASSUME BudgetInv, [Next]_vars
    PROVE  BudgetInv'
<1>1. CASE UNCHANGED vars
  BY <1>1
     DEF vars, BudgetInv, Typed, TypedTurns, TypedEpisodes, TypedCalls, TypedClient,
         Frame, EpisodesClosed, HeldClosed, OneToken, TokenWaits, DoomedQuiet,
         Linkage, ChainCount, Values, Asking, Granted, BudgetShared, Val, Awaited,
         Token, SchedToken, TimerToken, DriveToken, Doomed, Closed, Open, Asked
<1>2. CASE \/ StartUser \/ StartLoop \/ Enqueued \/ TurnEnds \/ TurnFails
           \/ Type \/ Submit \/ \E t \in Turns : Observe(t)
  BY <1>2, StartUserBudget, StartLoopBudget, EnqueuedBudget, TurnEndsBudget,
     TurnFailsBudget, InputBudget, ObserveBudget
<1>3. CASE GateStep
  BY <1>3, ScheduleRefusedBudget, ScheduleStopsBudget, ScheduleAcceptedBudget,
     ScheduleToldBudget, AdmitRefusedBudget, AdmitStopsBudget, AdmitKnownBudget,
     AdmitDeferredBudget, AdmitGrantedBudget, CancelBudget, ToldBudget
     DEF GateStep
<1>4. CASE ClientStep
  BY <1>4, ScheduledBudget, WakeBudget, CancelledBudget, AdmittedBudget,
     DeferredBudget, DeclinedBudget, AdmitIgnoredBudget, DriveBeginBudget,
     DriveStartBudget
     DEF ClientStep
<1>5. CASE ScheduleLost \/ AdmitLost \/ Redelivered \/ Poison \/ ChangeSession
  BY <1>5, ScheduleLostBudget, AdmitLostBudget, RedeliveredBudget, PoisonBudget,
     ChangeSessionBudget
<1> QED
  BY <1>1, <1>2, <1>3, <1>4, <1>5 DEF Next

\* The attempts of the gate and the interface agree in every reachable state.
THEOREM Attempts == Spec => []BudgetInv
<1>1. Init => BudgetInv
  BY InitBudget
<1>2. BudgetInv /\ [Next]_vars => BudgetInv'
  BY NextBudget
<1> QED
  BY <1>1, <1>2, PTL DEF Spec

\* No turn is continued more often than the budget allows before somebody else
\* starts a turn (_episode_for, admit).
THEOREM Budget == Spec => []BudgetShared
<1>1. BudgetInv => BudgetShared
  BY DEF BudgetInv
<1> QED
  BY <1>1, Attempts, PTL

-----------------------------------------------------------------------------
(* Input of the user *)

\* The gate's steps know of a failure what was observed.
LEMMA GateInput ==
    ASSUME BudgetInv, InputInv, GateStep
    PROVE  InputInv'
<1> USE DEF InputInv
<1>1. CASE ScheduleRefused \/ ScheduleTold
  BY <1>1
     DEF ScheduleRefused, ScheduleTold, Answered, BudgetInv, Typed, TypedCalls,
         CallType
<1>2. CASE ScheduleStops
  <2>1. /\ sched.pc # "idle" /\ sched'.gen = sched.gen /\ sched'.turn = sched.turn
    BY <1>2 DEF ScheduleStops, Asked, Answered, BudgetInv, Typed, TypedCalls, CallType
  <2>2. \A i \in Live' : i \in Live /\ episodes'[i] = episodes[i]
    BY <1>2 DEF ScheduleStops, End, Drop
  <2> QED
    BY <1>2, <2>1, <2>2 DEF ScheduleStops
<1>3. CASE ScheduleAccepted
  <2> DEFINE id == EpisodeFor(sched.turn)
  <2>1. PICK n, m : /\ n = Episode(id) /\ m = [n EXCEPT !.key = n.count + 1, !.turn = sched.turn, !.gen = sched.gen]
                    /\ episodes' = Put(id, m)
    BY <1>3 DEF ScheduleAccepted
  <2>2. /\ sched.pc = "sent" /\ sched'.gen = sched.gen /\ sched'.turn = sched.turn
        /\ UNCHANGED <<observed, seen, admit>>
    BY <1>3 DEF ScheduleAccepted, Asked, BudgetInv, Typed
  <2>3. m.turn = sched.turn /\ m.gen = sched.gen
    <3>1. n \in EpisodeType
      BY <2>1 DEF Episode, NoEpisode, BudgetInv, Typed, TypedEpisodes, EpisodeType
    <3> QED
      BY <2>1, <3>1 DEF EpisodeType
  <2>4. \A i \in Live' : \/ i \in Live /\ episodes'[i] = episodes[i]
                         \/ episodes'[i] = m
    BY <2>1 DEF Put
  <2> QED
    BY <2>2, <2>3, <2>4 DEF BudgetInv, Frame
<1>4. ASSUME NEW who \in Deliveries,
             AdmitRefused(who) \/ AdmitStops(who) \/ AdmitKnown(who) \/ AdmitDeferred(who)
      PROVE  InputInv'
  <2>1. UNCHANGED <<observed, seen, sched>>
    BY <1>4 DEF AdmitRefused, AdmitStops, AdmitKnown, AdmitDeferred
  <2>2. admit' = admit \/ ~(admit'.pc = "answered" /\ admit'.reply = "admitted")
    BY <1>4
       DEF AdmitRefused, AdmitStops, AdmitKnown, AdmitDeferred, Reply, Answered,
           BudgetInv, Typed, TypedCalls, CallType
  <2>3. \A i \in Live' : /\ i \in Live /\ episodes'[i].turn = episodes[i].turn
                         /\ episodes'[i].gen = episodes[i].gen
    BY <1>4
       DEF AdmitRefused, AdmitStops, AdmitKnown, AdmitDeferred, End, Drop, BudgetInv,
           Typed, TypedEpisodes, EpisodeType
  <2> QED
    BY <2>1, <2>2, <2>3
<1>5. ASSUME NEW who \in Deliveries, AdmitGranted(who)
      PROVE  InputInv'
  <2>1. /\ UNCHANGED <<observed, seen, sched>>
        /\ Message(who).ep \in Live
        /\ Message(who).turn = episodes[Message(who).ep].turn
        /\ Message(who).gen = episodes[Message(who).ep].gen
    BY <1>5 DEF AdmitGranted, Admissible, Found, Matches, InputCame
  <2>2. \A i \in Live' : /\ i \in Live /\ episodes'[i].turn = episodes[i].turn
                         /\ episodes'[i].gen = episodes[i].gen
    BY <1>5 DEF AdmitGranted, BudgetInv, Typed, TypedEpisodes, EpisodeType
  <2>3. \/ admit' = admit
        \/ /\ admit'.turn = Message(who).turn /\ admit'.gen = Message(who).gen
    BY <1>5
       DEF AdmitGranted, Reply, Answered, Message, BudgetInv, Typed, TypedCalls,
           CallType
  <2> QED
    BY <2>1, <2>2, <2>3
<1>6. ASSUME NEW id \in Turns, Cancel(id)
      PROVE  InputInv'
  BY <1>6 DEF Cancel, End, Drop
<1>7. ASSUME NEW id \in Turns, NEW who \in Deliveries \cup {"sched", "cancel"}, Told(id, who)
      PROVE  InputInv'
  BY <1>7 DEF Told, Drop, Answered, BudgetInv, Typed
<1> QED
  BY <1>1, <1>2, <1>3, <1>4, <1>5, <1>6, <1>7 DEF GateStep

\* The interface's steps keep what is known.
LEMMA ClientInput ==
    ASSUME BudgetInv, InputInv, ClientStep
    PROVE  InputInv'
<1> USE DEF InputInv
<1>1. CASE Scheduled \/ Cancelled \/ Admitted \/ Deferred \/ Declined \/ AdmitIgnored
  BY <1>1 DEF Scheduled, Cancelled, Admitted, Deferred, Declined, AdmitIgnored, NoCall
<1>2. CASE Wake
  BY <1>2 DEF Wake, NoCall
<1>3. ASSUME NEW d \in drives, DriveBegin(d)
      PROVE  InputInv'
  BY <1>3 DEF DriveBegin
<1>4. ASSUME NEW d \in drives, DriveStart(d)
      PROVE  InputInv'
  <2>1. UNCHANGED <<observed, seen, sched, admit>>
    BY <1>4 DEF DriveStart
  <2>2. \A i \in Live' : /\ i \in Live /\ episodes'[i].turn = episodes[i].turn
                         /\ episodes'[i].gen = episodes[i].gen
    BY <1>4
       DEF DriveStart, ObserveStarted, TakeOver, Drop, BudgetInv, Typed,
           TypedEpisodes, EpisodeType
  <2> QED
    BY <2>1, <2>2
<1> QED
  BY <1>1, <1>2, <1>3, <1>4 DEF ClientStep

\* So does everything else.
LEMMA NextInput ==
    ASSUME BudgetInv, InputInv, [Next]_vars
    PROVE  InputInv'
<1> USE DEF InputInv
<1>1. CASE UNCHANGED vars
  BY <1>1 DEF vars
<1>2. CASE StartUser \/ StartLoop \/ Enqueued \/ TurnEnds
  BY <1>2 DEF StartUser, StartLoop, Enqueued, TurnEnds, TakeOver, Drop
<1>3. CASE TurnFails
  <2>1. \A i \in Live' : /\ i \in Live /\ episodes'[i].turn = episodes[i].turn
                         /\ episodes'[i].gen = episodes[i].gen
    BY <1>3 DEF TurnFails, BudgetInv, Typed, TypedEpisodes, EpisodeType
  <2>2. UNCHANGED <<observed, seen, sched, admit>>
    BY <1>3 DEF TurnFails
  <2> QED
    BY <2>1, <2>2
<1>4. CASE Type \/ Submit
  BY <1>4 DEF Type, Submit, Input, CancelLocal
<1>5. ASSUME NEW t \in Turns, Observe(t)
      PROVE  InputInv'
  <2>1. /\ t \notin observed /\ observed' = observed \cup {t} /\ UNCHANGED <<episodes, admit>>
        /\ seen'[t] = gen /\ \A u \in Turns \ {t} : seen'[u] = seen[u]
    BY <1>5 DEF Observe, BudgetInv, Typed, TypedTurns
  <2>2. sched'.pc # "idle" => sched'.turn = t /\ sched'.gen = gen
    BY <1>5 DEF Observe, NoCall
  <2>3. observed \subseteq Turns
    BY DEF BudgetInv, Typed, TypedTurns
  <2> QED
    BY <2>1, <2>2, <2>3
<1>6. CASE ScheduleLost \/ AdmitLost \/ Redelivered \/ Poison
  BY <1>6 DEF ScheduleLost, AdmitLost, Redelivered, Poison, NoCall
<1>7. CASE ChangeSession
  BY <1>7 DEF ChangeSession
<1> QED
  BY <1>1, <1>2, <1>3, <1>4, <1>5, <1>6, <1>7, GateInput, ClientInput DEF Next

\* A task appears with the answer to an admission, which asked with the input
\* generation of now.
LEMMA InputStep ==
    ASSUME BudgetInv, InputInv, Next, NEW d \in drives', ~d.begun, d \notin drives
    PROVE  gen = seen[d.turn]
<1>1. Admitted
  <2>1. ASSUME NEW e \in drives, DriveBegin(e) PROVE FALSE
    <3>1. e \in DriveType /\ d = [e EXCEPT !.begun = TRUE]
      BY <2>1 DEF DriveBegin, BudgetInv, Typed, TypedClient
    <3> QED
      BY <3>1 DEF DriveType
  <2>2. CASE StartUser \/ StartLoop \/ Enqueued \/ TurnEnds \/ TurnFails
             \/ Type \/ Submit \/ \E t \in Turns : Observe(t)
    BY <2>2
       DEF StartUser, StartLoop, Enqueued, TurnEnds, TurnFails, Type, Submit, Observe
  <2>3. CASE GateStep
    BY <2>3
       DEF GateStep, ScheduleRefused, ScheduleStops, ScheduleAccepted, ScheduleTold,
           AdmitRefused, AdmitStops, AdmitKnown, AdmitDeferred, AdmitGranted, Cancel,
           Told
  <2>4. CASE ClientStep
    BY <2>1, <2>4
       DEF ClientStep, Scheduled, Wake, Cancelled, Deferred, Declined, AdmitIgnored,
           DriveStart
  <2>5. CASE ScheduleLost \/ AdmitLost \/ Redelivered \/ Poison \/ ChangeSession
    BY <2>5 DEF ScheduleLost, AdmitLost, Redelivered, Poison, ChangeSession
  <2> QED
    BY <2>2, <2>3, <2>4, <2>5 DEF Next
<1>2. d.turn = admit.turn /\ timer = "asking" /\ admit.pc = "answered" /\ admit.reply = "admitted"
  BY <1>1 DEF Admitted
<1> QED
  BY <1>2 DEF InputInv, BudgetInv, Asking

\* No continuation is driven after input of the user (cancel_local, admit).
THEOREM InputFirst == Spec => InputWins
<1> DEFINE P == \A d \in drives' : ~d.begun /\ d \notin drives => gen = seen[d.turn]
<1>1. Init => InputInv
  BY DEF Init, InputInv, NoCall
<1>2. BudgetInv /\ InputInv /\ [Next]_vars => InputInv'
  BY NextInput
<1>3. BudgetInv /\ InputInv /\ [Next]_vars => [P]_vars
  BY InputStep
<1> HIDE DEF P
<1>4. Spec => [][P]_vars
  BY <1>1, <1>2, <1>3, Attempts, PTL DEF Spec
<1> QED
  BY <1>4 DEF P, InputWins
=============================================================================
