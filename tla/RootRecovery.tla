---------------------------- MODULE RootRecovery ----------------------------
(***************************************************************************)
(* Automatic recovery of a session's failed turns                          *)
(* (chartreux/app_server/_root_recovery.py, _turns.py,                     *)
(* chartreux/cli/textual_ui/root_recovery.py, turn_supervisor.py, app.py). *)
(*                                                                         *)
(* The terminal interface sees a turn fail and asks the server's gate for  *)
(* a schedule; a timer later asks it for the admission, and then starts    *)
(* the continuation.  The gate shares one budget and one deadline among    *)
(* the continuations of an episode.  Meanwhile the user types and submits, *)
(* loops start turns, and requests get lost or arrive twice.  The gate     *)
(* tells of an episode's end before it ends it, and that notice is an      *)
(* await.                                                                  *)
(***************************************************************************)
EXTENDS Naturals, FiniteSets

CONSTANTS
    MaxTurns,    \* turns ever started
    MaxRetries,  \* auto_retries_max
    MaxDeferrals,\* deferrals of an episode before its deadline
    MaxSurprises,\* input actions of the user, requests lost or delivered
                 \* twice, damaged transcripts, changes of session
    None

ASSUME RecoveryAssumption ==
    /\ {MaxTurns, MaxRetries, MaxDeferrals, MaxSurprises} \subseteq Nat
    /\ None \notin Nat

Turns == 1..MaxTurns

VARIABLES
    \* the gate and the turn controller
    active,     \* _active_turn, 0 without one
    fresh,      \* the next turn
    failures,   \* _projections: failed turn -> was work queued behind it?
    episodes,   \* _episodes: first failed turn -> episode
    ending,     \* episodes whose end is being told, and for which request
    poisoned,   \* does the transcript fail its integrity check?
    session,    \* session_id
    \* the interface
    gen,        \* _input_generation
    work,       \* a submission: "none", "local" or "queued" at the server
    observed,   \* _observed
    pending,    \* _pending
    timer,      \* what the task _timer does
    drives,     \* tasks that start an admitted continuation
    offer,      \* the retry presentation: "none", "armed" or "active"
    shown,      \* the last failure observed, and what the user sees of it
    \* the requests under way
    sched, admit, cancels, double,
    \* history
    surprises,   \* how many there have been
    seen,       \* the input generation when a failure was observed
    chain       \* linked continuations that led to each turn since somebody
                \* else last started one

gate == <<failures, episodes, ending, poisoned, session>>
turns == <<active, fresh>>
client == <<gen, work, observed, pending, timer, drives, offer, shown>>
wire == <<sched, admit, cancels, double>>
past == <<seen, chain>>
history == <<surprises, past>>
vars == <<turns, gate, client, wire, history>>

\* _RootEpisode; key is the pending attempt, whose number makes up its key
NoEpisode == [count |-> 0, key |-> 0, turn |-> 0, gen |-> 0, succ |-> 0,
              inFlight |-> FALSE, awaiting |-> FALSE, admitted |-> {},
              deferrals |-> 0]
Driven(e) == e.count > 0 \/ e.key # 0 \/ e.succ # 0

\* A request: idle, sent, waiting for a notice, or answered.
NoCall == [pc |-> "idle", turn |-> 0, ep |-> 0, key |-> 0, gen |-> 0,
           session |-> 0, reply |-> "none"]
Surprise == surprises < MaxSurprises /\ surprises' = surprises + 1
Live == DOMAIN episodes
Drop(ids) == [e \in Live \ ids |-> episodes[e]]
Put(id, e) == [i \in Live \cup {id} |-> IF i = id THEN e ELSE episodes[i]]

Init ==
    /\ active = 0 /\ fresh = 1
    /\ failures = <<>> /\ episodes = <<>>
    /\ ending = {} /\ surprises = 0 /\ poisoned = FALSE /\ session = 0
    /\ gen = 0 /\ work = "none" /\ observed = {} /\ pending = None
    /\ timer = "none" /\ drives = {} /\ offer = "none"
    /\ shown = [turn |-> 0, what |-> "nothing"]
    /\ sched = NoCall /\ admit = NoCall /\ cancels = {} /\ double = None
    /\ seen = [t \in Turns |-> 0] /\ chain = [t \in Turns |-> 0]

-----------------------------------------------------------------------------
(* Turns, as the gate observes them *)

\* A start that no live episode has admitted takes over: what is scheduled or
\* admitted but not started is cancelled.
TakeOver ==
    /\ episodes' = Drop({i \in Live : ~episodes[i].inFlight})
    /\ chain' = [t \in Turns |-> 0]

\* observe_turn_started with the key of continuation d
ObserveStarted(d) ==
    IF d.ep \in Live /\ d.key \in episodes[d.ep].admitted
    THEN /\ episodes' = IF episodes[d.ep].awaiting
                        THEN [episodes EXCEPT ![d.ep].awaiting = FALSE,
                                              ![d.ep].succ = fresh,
                                              ![d.ep].inFlight = TRUE]
                        ELSE episodes
         /\ chain' = [chain EXCEPT ![fresh] = chain[d.turn] + 1]
    ELSE TakeOver

Startable == active = 0 /\ fresh <= MaxTurns /\ ~poisoned

\* The user's submission becomes a turn, at once or from the queue.
StartUser ==
    /\ Startable /\ work # "none"
    /\ active' = fresh /\ fresh' = fresh + 1
    /\ TakeOver
    /\ work' = "none" /\ offer' = "none"
    /\ UNCHANGED <<failures, ending, poisoned, session, gen,
                   observed, pending, timer, drives, shown, wire, surprises,
                   seen>>

\* A scheduled loop starts a turn; queued work goes before it.
StartLoop ==
    /\ Startable /\ work # "queued"
    /\ active' = fresh /\ fresh' = fresh + 1
    /\ TakeOver
    /\ offer' = "none"
    /\ UNCHANGED <<failures, ending, poisoned, session, gen, work,
                   observed, pending, timer, drives, shown, wire, surprises,
                   seen>>

Enqueued ==
    /\ work = "local" /\ active # 0
    /\ work' = "queued"
    /\ UNCHANGED <<turns, gate, gen, observed, pending, timer, drives, offer,
                   shown, wire, history>>

Succeeds(id) == episodes[id].succ = active

\* observe_turn_finished: the end of a successor that did not fail ends its
\* episode; a failed one keeps it for the next schedule.
TurnEnds ==
    /\ active # 0
    /\ active' = 0
    /\ episodes' = Drop({i \in Live : Succeeds(i)})
    /\ UNCHANGED <<fresh, failures, ending, poisoned, session,
                   client, wire, history>>

\* The failure is captured, with what then stands against a retry.
TurnFails ==
    /\ active # 0
    /\ active' = 0
    /\ failures' = [t \in DOMAIN failures \cup {active} |->
                      IF t = active THEN work = "queued" ELSE failures[t]]
    /\ episodes' = [i \in Live |->
                      [episodes[i] EXCEPT !.inFlight = @ /\ ~Succeeds(i)]]
    /\ UNCHANGED <<fresh, ending, poisoned, session, client, wire,
                   history>>

-----------------------------------------------------------------------------
(* The interface: input *)

\* cancel_local, which also cancels a timer that waits for its admission
CancelLocal ==
    /\ pending' = None /\ timer' = "none"
    /\ cancels' = IF pending = None THEN cancels ELSE cancels \cup {pending.ep}

\* _invalidate_user_input
Input == Surprise /\ gen' = gen + 1 /\ CancelLocal

Type ==
    /\ Input
    /\ UNCHANGED <<turns, gate, work, observed, drives, offer, shown, sched,
                   admit, double, past>>

Submit ==
    /\ work = "none" /\ Input
    /\ work' = "local"
    /\ UNCHANGED <<turns, gate, observed, drives, offer, shown, sched, admit,
                   double, past>>

-----------------------------------------------------------------------------
(* The interface: observe_terminal *)

Reveal(t, what) ==
    shown' = IF shown.turn = t THEN [shown EXCEPT !.what = what] ELSE shown
Show(t, what) == Reveal(t, what) /\ offer' = "armed"

\* Failures are observed in order, once each; one behind local work is not
\* scheduled at all.
Observe(t) ==
    /\ t \in DOMAIN failures \ observed /\ sched.pc = "idle"
    /\ \A u \in DOMAIN failures \ observed : t <= u
    /\ observed' = observed \cup {t}
    /\ seen' = [seen EXCEPT ![t] = gen]
    /\ IF work # "none"
       THEN /\ shown' = [turn |-> t, what |-> "error"] /\ offer' = "armed"
            /\ UNCHANGED sched
       ELSE /\ shown' = [turn |-> t, what |-> "asking"]
            /\ sched' = [NoCall EXCEPT !.pc = "sent", !.turn = t, !.gen = gen,
                                       !.session = session]
            /\ UNCHANGED offer
    /\ UNCHANGED <<turns, gate, gen, work, pending, timer, drives, admit,
                   cancels, double, surprises, chain>>

\* The schedule is armed with the generation of now, not that of the request.
Scheduled ==
    /\ sched.pc = "answered"
    /\ sched' = NoCall
    /\ IF sched.reply = "scheduled"
       THEN /\ pending' = [ep |-> sched.ep, key |-> sched.key,
                           turn |-> sched.turn, session |-> sched.session]
            /\ timer' = "sleeping"
            /\ Show(sched.turn, "retrying")
       ELSE Show(sched.turn, "error") /\ UNCHANGED <<pending, timer>>
    /\ UNCHANGED <<turns, gate, gen, work, observed, drives, admit, cancels,
                   double, history>>

ScheduleLost ==
    /\ Surprise /\ sched.pc \in {"sent", "answered"}
    /\ sched' = NoCall
    /\ Show(sched.turn, "error")
    /\ UNCHANGED <<turns, gate, gen, work, observed, pending, timer, drives,
                   admit, cancels, double, past>>

-----------------------------------------------------------------------------
(* The gate: schedule *)

\* Request "who" ends an episode, at once or after it has told so.
End(id, who) ==
    IF Driven(episodes[id])
    THEN ending' = ending \cup {<<id, who>>} /\ UNCHANGED episodes
    ELSE episodes' = Drop({id}) /\ UNCHANGED ending

Linked(t) == {i \in Live : t \in {episodes[i].succ, episodes[i].turn, i}}
\* Defect: each failure gets an episode of its own.
EpisodeForEach(t) == t

\* _episode_for: the episode whose continuation failed, or a new one
EpisodeFor(t) ==
    IF \E i \in Live : episodes[i].succ = t
    THEN CHOOSE i \in Live : episodes[i].succ = t
    ELSE t
Episode(id) == IF id \in Live THEN episodes[id] ELSE NoEpisode

Answered(call, reply) == [call EXCEPT !.pc = "answered", !.reply = reply]
Asked == sched.pc = "sent" /\ sched.session = session

\* Disabled, another session, or no captured failure.
ScheduleRefused ==
    /\ sched.pc = "sent"
    /\ sched' = Answered(sched, "declined")
    /\ UNCHANGED <<turns, gate, client, admit, cancels, double, history>>

\* A failure that is not eligible, a barrier, the budget, the deadline or the
\* models' availability ends the episode, if there is one.
ScheduleStops ==
    /\ Asked
    /\ IF Linked(sched.turn) = {}
       THEN sched' = Answered(sched, "declined") /\ UNCHANGED <<episodes, ending>>
       ELSE \E i \in Linked(sched.turn) :
              /\ End(i, "sched")
              /\ sched' = IF Driven(episodes[i]) THEN [sched EXCEPT !.pc = "ending"]
                          ELSE Answered(sched, "declined")
    /\ UNCHANGED <<turns, failures, poisoned, session, client, admit,
                   cancels, double, history>>

ScheduleAccepted ==
    LET id == EpisodeFor(sched.turn)
        e == Episode(id) IN
    /\ Asked /\ sched.turn \in DOMAIN failures
    /\ ~failures[sched.turn] /\ ~poisoned /\ work # "queued"
    /\ e.count < MaxRetries
    /\ episodes' = Put(id, [e EXCEPT !.key = e.count + 1, !.turn = sched.turn,
                                     !.gen = sched.gen])
    /\ sched' = [sched EXCEPT !.pc = "telling", !.ep = id, !.key = e.count + 1]
    /\ UNCHANGED <<turns, failures, ending, poisoned, session, client,
                   admit, cancels, double, history>>

ScheduleTold ==
    /\ sched.pc = "telling"
    /\ sched' = Answered(sched, "scheduled")
    /\ UNCHANGED <<turns, gate, client, admit, cancels, double, history>>

-----------------------------------------------------------------------------
(* The gate: admit, of the request itself or of its second delivery *)

Deliveries == {"admit", "double"}
Arrived(who) == IF who = "admit" THEN admit.pc = "sent" ELSE double # None
Message(who) == IF who = "admit" THEN admit ELSE double

\* Nobody waits for the answer to a second delivery.
Reply(who, answer) ==
    IF who = "admit" THEN admit' = answer /\ UNCHANGED double
    ELSE double' = None /\ UNCHANGED admit

Found(m) == m.session = session /\ m.ep \in Live
Known(m) == m.key \in episodes[m.ep].admitted
Matches(m) == m.key = episodes[m.ep].key /\ m.turn = episodes[m.ep].turn

\* Defect: the admission trusts the timer to have been cancelled.
InputUnseen(m) == FALSE

\* User input since the failure was observed.
InputCame(m) == m.gen # episodes[m.ep].gen

Admissible(m) ==
    /\ Found(m) /\ ~poisoned /\ ~Known(m)
    /\ Matches(m) /\ ~InputCame(m)
    /\ work # "queued" /\ active = 0
    /\ episodes[m.ep].count < MaxRetries

\* The session or the episode is gone, or the key is not that of the attempt; or
\* recovery was disabled meanwhile, with the continuation under way.
AdmitRefused(who) ==
    LET m == Message(who) IN
    /\ Arrived(who)
    /\ Found(m) => \/ episodes[m.ep].inFlight
                   \/ ~poisoned /\ ~Known(m) /\ ~Matches(m)
    /\ Reply(who, Answered(admit, "declined"))
    /\ UNCHANGED <<turns, gate, client, sched, cancels, history>>

\* Input, a barrier, an active turn, the budget, the deadline or availability.  A
\* damaged transcript does it even when the admission was granted before, and so
\* does a configuration that disables recovery, unless the continuation is under
\* way; the configuration is read at every request.
AdmitStops(who) ==
    LET m == Message(who) IN
    /\ Arrived(who) /\ Found(m)
    /\ \/ poisoned \/ ~episodes[m.ep].inFlight
       \/ ~Known(m) /\ Matches(m)
    /\ End(m.ep, who)
    /\ Reply(who, IF Driven(episodes[m.ep]) THEN [admit EXCEPT !.pc = "ending"]
                  ELSE Answered(admit, "declined"))
    /\ UNCHANGED <<turns, failures, poisoned, session, client, sched,
                   cancels, history>>

\* An admission that was granted already names its successor, if it has started.
AdmitKnown(who) ==
    LET m == Message(who) IN
    /\ Arrived(who) /\ Found(m) /\ ~poisoned /\ Known(m)
    /\ Reply(who, Answered(admit, IF episodes[m.ep].awaiting THEN "unstarted"
                                  ELSE "started"))
    /\ UNCHANGED <<turns, gate, client, sched, cancels, history>>

\* No deployment is available just now; that goes on until the deadline.
AdmitDeferred(who) ==
    LET m == Message(who) IN
    /\ Arrived(who) /\ Admissible(m)
    /\ episodes[m.ep].deferrals < MaxDeferrals
    /\ episodes' = [episodes EXCEPT ![m.ep].deferrals = @ + 1]
    /\ Reply(who, Answered(admit, "deferred"))
    /\ UNCHANGED <<turns, failures, ending, poisoned, session, client, sched,
                   cancels, history>>

AdmitGranted(who) ==
    LET m == Message(who) IN
    /\ Arrived(who) /\ Admissible(m)
    /\ episodes' = [episodes EXCEPT ![m.ep].count = @ + 1,
                                    ![m.ep].admitted = @ \cup {m.key},
                                    ![m.ep].awaiting = TRUE]
    /\ Reply(who, Answered(admit, "admitted"))
    /\ UNCHANGED <<turns, failures, ending, poisoned, session, client,
                   sched, cancels, history>>

-----------------------------------------------------------------------------
(* The gate: cancel, and what awaits a notice *)

\* An admission that was consumed is not taken back.  Nobody notices when the
\* request is lost.
Cancel(id) ==
    /\ id \in cancels
    /\ \/ id \in Live /\ ~Episode(id).inFlight /\ End(id, "cancel")
       \/ UNCHANGED <<episodes, ending>>
    /\ cancels' = cancels \ {id}
    /\ UNCHANGED <<turns, failures, poisoned, session, client, sched, admit,
                   double, history>>

\* The notice is delivered, or not, and the episode ended.  A continuation that
\* was admitted and started in the meantime is forgotten, and its failure gets a
\* new budget.
Forgets(id, who, t) == who \in Deliveries /\ Episode(id).succ = t

Told(id, who) ==
    /\ <<id, who>> \in ending
    /\ ending' = ending \ {<<id, who>>}
    /\ episodes' = Drop({id})
    /\ chain' = [t \in Turns |-> IF Forgets(id, who, t) THEN 0 ELSE chain[t]]
    /\ sched' = IF who = "sched" /\ sched.pc = "ending"
                THEN Answered(sched, "declined") ELSE sched
    /\ admit' = IF who = "admit" /\ admit.pc = "ending"
                THEN Answered(admit, "declined") ELSE admit
    /\ UNCHANGED <<turns, failures, poisoned, session, client, cancels, double,
                   surprises, seen>>

-----------------------------------------------------------------------------
(* The interface: the timer *)

Disarm == pending' = None /\ timer' = "none"

Wake ==
    /\ timer = "sleeping" /\ admit.pc = "idle"
    /\ IF pending.session # session
       THEN Disarm /\ UNCHANGED <<admit, cancels>>
       ELSE IF work # "none"
       THEN /\ timer' = "cancelling" /\ cancels' = cancels \cup {pending.ep}
            /\ UNCHANGED <<pending, admit>>
       ELSE /\ timer' = "asking"
            /\ admit' = [NoCall EXCEPT !.pc = "sent", !.ep = pending.ep,
                            !.key = pending.key, !.turn = pending.turn,
                            !.gen = gen, !.session = session]
            /\ UNCHANGED <<pending, cancels>>
    /\ UNCHANGED <<turns, gate, gen, work, observed, drives, offer, shown, sched,
                   double, history>>

\* Queued work has cancelled the schedule.
Cancelled ==
    /\ timer = "cancelling"
    /\ pending.ep \notin cancels /\ <<pending.ep, "cancel">> \notin ending
    /\ Disarm /\ Show(pending.turn, "error")
    /\ UNCHANGED <<turns, gate, gen, work, observed, drives, wire, history>>

Admitted ==
    /\ timer = "asking" /\ admit.pc = "answered" /\ admit.reply = "admitted"
    /\ Disarm /\ admit' = NoCall
    /\ drives' = drives \cup {[ep |-> admit.ep, key |-> admit.key,
                               turn |-> admit.turn, begun |-> FALSE]}
    /\ UNCHANGED <<turns, gate, gen, work, observed, offer, shown, sched, cancels,
                   double, history>>

Deferred ==
    /\ timer = "asking" /\ admit.pc = "answered" /\ admit.reply = "deferred"
    /\ timer' = "sleeping" /\ admit' = NoCall
    /\ UNCHANGED <<turns, gate, gen, work, observed, pending, drives, offer,
                   shown, sched, cancels, double, history>>

\* Defect: a refusal leaves the user waiting.
DeclinedSilently ==
    /\ timer = "asking" /\ admit.pc = "answered"
    /\ admit.reply \in {"declined", "unstarted", "started"}
    /\ Disarm /\ admit' = NoCall
    /\ UNCHANGED <<turns, gate, gen, work, observed, drives, offer, shown, sched,
                   cancels, double, history>>

\* Without a continuation the user gets the failure after all.
Declined ==
    /\ timer = "asking" /\ admit.pc = "answered"
    /\ admit.reply \in {"declined", "unstarted", "started"}
    /\ Disarm /\ admit' = NoCall
    /\ IF admit.reply = "started" THEN UNCHANGED <<shown, offer>>
       ELSE Show(admit.turn, "error")
    /\ UNCHANGED <<turns, gate, gen, work, observed, drives, sched, cancels,
                   double, history>>

\* The request fails, whether or not the gate has had it.
AdmitLost ==
    /\ Surprise /\ timer = "asking"
    /\ Disarm /\ Show(admit.turn, "error")
    /\ admit' \in {admit, NoCall} /\ (admit' = NoCall => admit.pc # "ending")
    /\ UNCHANGED <<turns, gate, gen, work, observed, drives, sched, cancels,
                   double, past>>

\* The answer to a cancelled timer goes nowhere.
AdmitIgnored ==
    /\ timer # "asking" /\ admit.pc = "answered"
    /\ admit' = NoCall
    /\ UNCHANGED <<turns, gate, client, sched, cancels, double, history>>

Redelivered ==
    /\ Surprise /\ admit.pc = "sent" /\ double = None
    /\ double' = admit
    /\ UNCHANGED <<turns, gate, client, sched, admit, cancels, past>>

-----------------------------------------------------------------------------
(* The interface: the continuation, auto_retry_incomplete_stream *)

\* A message of the user's in the meantime withdraws the presentation.
DriveBegin(d) ==
    /\ d \in drives /\ ~d.begun
    /\ IF offer = "armed"
       THEN /\ offer' = "active"
            /\ drives' = (drives \ {d}) \cup {[d EXCEPT !.begun = TRUE]}
       ELSE drives' = drives \ {d} /\ UNCHANGED offer
    /\ UNCHANGED <<turns, gate, gen, work, observed, pending, timer, shown, wire,
                   history>>

\* turn/start, refused while a turn runs or work is queued
DriveStart(d) ==
    /\ d \in drives /\ d.begun
    /\ drives' = drives \ {d}
    /\ IF Startable /\ work # "queued"
       THEN /\ active' = fresh /\ fresh' = fresh + 1
            /\ ObserveStarted(d)
            /\ Reveal(d.turn, "continued")
            /\ UNCHANGED offer
       ELSE Show(d.turn, "error") /\ UNCHANGED <<turns, episodes, chain>>
    /\ UNCHANGED <<failures, ending, poisoned, session, gen, work, observed,
                   pending, timer, wire, surprises,
                   seen>>

-----------------------------------------------------------------------------
(* What happens to both *)

Poison ==
    /\ Surprise /\ ~poisoned
    /\ poisoned' = TRUE
    /\ UNCHANGED <<turns, failures, episodes, ending, session, client, wire,
                   past>>

\* The gate forgets everything; the interface cancels what it has armed.
ChangeSession ==
    /\ Surprise /\ session = 0 /\ active = 0 /\ \A d \in drives : ~d.begun
    /\ session' = 1 /\ failures' = <<>> /\ episodes' = <<>> /\ poisoned' = FALSE
    /\ CancelLocal
    /\ work' = "none" /\ offer' = "none"
    /\ UNCHANGED <<turns, ending, gen, observed, drives, shown, sched,
                   admit, double, past>>

-----------------------------------------------------------------------------
GateStep ==
    \/ ScheduleRefused \/ ScheduleStops \/ ScheduleAccepted \/ ScheduleTold
    \/ \E who \in Deliveries :
         \/ AdmitRefused(who) \/ AdmitStops(who) \/ AdmitKnown(who)
         \/ AdmitDeferred(who) \/ AdmitGranted(who)
    \/ \E id \in Turns : Cancel(id)
    \/ \E id \in Turns, who \in Deliveries \cup {"sched", "cancel"} : Told(id, who)

ClientStep ==
    \/ Scheduled \/ Wake \/ Cancelled
    \/ Admitted \/ Deferred \/ Declined \/ AdmitIgnored
    \/ \E d \in drives : DriveBegin(d)
    \/ \E d \in drives : DriveStart(d)

Next ==
    \/ StartUser \/ StartLoop \/ Enqueued \/ TurnEnds \/ TurnFails
    \/ Type \/ Submit
    \/ \E t \in Turns : Observe(t)
    \/ GateStep \/ ClientStep
    \/ ScheduleLost \/ AdmitLost \/ Redelivered \/ Poison \/ ChangeSession

\* The event loops run what is ready, requests are answered, notices delivered
\* and timers fire.  Nothing makes turns start or end.
Fairness == WF_vars(GateStep) /\ WF_vars(ClientStep)

Spec == Init /\ [][Next]_vars /\ Fairness

-----------------------------------------------------------------------------
(* Properties *)

\* However failures, requests and starts interleave, no turn is continued more
\* often than the budget allows before somebody else starts a turn, each failed
\* continuation being continued in its turn: they share one episode
\* (_episode_for, admit).
BudgetShared == \A t \in Turns : chain[t] <= MaxRetries

\* A continuation is driven only if there was no input since its failure was
\* observed, be it while the schedule was asked for, while the timer ran or while
\* the admission was asked for (cancel_local, admit).
InputWins ==
    [][\A d \in drives' : ~d.begun /\ d \notin drives => gen = seen[d.turn]]_vars

\* A failure that is kept from the user while its recovery is arranged is shown
\* to them in the end, or continued, or overtaken by what they or a loop did, or
\* its continuation gives way to that of an earlier failure, which holds the
\* retry presentation (observe_terminal, _on_wake, begin_retry).
Overtaken(t) == gen > seen[t] \/ fresh > t + 1 \/ session = 1
GivesWay(t) == \E d \in drives : d.turn < t
FailureAnswered ==
    \A t \in Turns :
        shown = [turn |-> t, what |-> "asking"] ~>
            shown.what \in {"error", "continued"} \/ Overtaken(t) \/ GivesWay(t)
=============================================================================
