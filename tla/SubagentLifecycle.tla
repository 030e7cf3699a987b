------------------------- MODULE SubagentLifecycle -------------------------
(***************************************************************************)
(* The subagent registry of one root session (chartreux/app_server): the   *)
(* admission of background runs against the active-work cap, the monitor   *)
(* that publishes each run, busy replacement, suspension and resume,       *)
(* failure-time replacement claims, eviction and release.                  *)
(*                                                                         *)
(* A launch is one invocation of the task tool or of resume_agent.  It     *)
(* allocates at most one slot and starts at most one run, so a launch also *)
(* names its slot, its run, that run's write token and that run's monitor. *)
(*                                                                         *)
(* No block of code under the registry lock awaits, so taking the lock     *)
(* never yields: an action is everything one coroutine does between two    *)
(* awaits that really suspend it.                                          *)
(***************************************************************************)
EXTENDS Naturals, FiniteSets

CONSTANTS
    Agents,             \* agent_id handles
    Launches,           \* invocations of task(background=True), resume_agent
    Packages,           \* work_package_id values
    Cap,                \* max_running_subagents
    MaxResumes,         \* same_agent_resumes_max
    MaxSuspended,       \* max_suspended_agents
    RecoveryConcurrency,\* recovery_concurrency
    None

ASSUME LifecycleAssumption ==
    /\ None \notin Agents \cup Launches \cup Packages
    /\ IsFiniteSet(Launches) /\ IsFiniteSet(Agents)
    /\ Cap \in Nat /\ MaxResumes \in Nat /\ MaxSuspended \in Nat
    /\ RecoveryConcurrency \in Nat

VARIABLES
    \* the agent records (AgentRecord)
    state,      \* _AgentState, "absent" before and "closed"/"released" after
    current,    \* current_run
    latest,     \* latest_run_id, the run last admitted
    workSlot,   \* work_slot
    retained,   \* retained
    reserved,   \* reserved_for_replacement
    owner,      \* replacement_owner
    pending,    \* pending_resume
    superseded, \* recovery_superseded
    resumes,    \* same_agent_resumes_used
    package,    \* work_package_id
    \* the launches
    pc,         \* where the launch is suspended
    job,        \* what it is about, fixed when it starts
    \* the runs (RunRecord) and their monitors
    mon,        \* where the monitor is
    outcome,    \* how the run ended
    \* the registry
    slots,      \* _active_work_slots
    transferred,\* slots whose transferred flag is set
    lingering,  \* slots released by a done callback of the child's task
    tokens,     \* runs with a registered write token
    results,    \* _result_store
    unwinds     \* finish_unwind tasks

records == <<state, current, latest, workSlot, retained, reserved, owner,
             pending, superseded, resumes, package>>
launchVars == <<pc, job>>
runVars == <<mon, outcome>>
vars == <<records, launchVars, runVars, slots, transferred, lingering,
          tokens, results, unwinds>>

LiveStates == {"running", "finalizing", "idle", "suspended", "restoring"}
States == {"absent", "closed", "released"} \cup LiveStates
Kinds == {"fresh", "claim", "reuse", "replace", "replaceSuspended", "resume"}
Phases == {"new", "creating", "joining", "restoring", "preparing", "ack",
           "done"}
\* a run is "stopping" once it has a requested_stop_reason
MonitorPhases == {"none", "turn", "stopping", "ended", "audit", "published",
                  "settled", "done"}
\* "final" is a completed or cancelled run, or one that failed beyond
\* recovery; "rejected" failed its completion audit; "recoverable" failed with
\* eligibility ELIGIBLE (a reconciled barrier counts as eligible).
Outcomes == {"none", "final", "rejected", "recoverable"}

NoJob == [kind |-> "none", agent |-> None, slot |-> None, prior |-> None,
          package |-> None]
Jobs == {NoJob} \cup [kind : Kinds, agent : Agents, slot : Launches,
                      prior : Launches \cup {None},
                      package : Packages \cup {None}]

Resident(a) == state[a] \in LiveStates
RunsOf(a) == {l \in Launches : job[l].agent = a}

\* The run is executing: its turn or its completion audit is under way.
Working(l) == mon[l] \in {"turn", "stopping", "ended", "audit"}

Suspended == {a \in Agents : state[a] = "suspended"}

Init ==
    /\ state = [a \in Agents |-> "absent"]
    /\ current = [a \in Agents |-> None]
    /\ latest = [a \in Agents |-> None]
    /\ workSlot = [a \in Agents |-> None]
    /\ retained = [a \in Agents |-> FALSE]
    /\ reserved = [a \in Agents |-> FALSE]
    /\ owner = [a \in Agents |-> None]
    /\ pending = [a \in Agents |-> None]
    /\ superseded = [a \in Agents |-> FALSE]
    /\ resumes = [a \in Agents |-> 0]
    /\ package = [a \in Agents |-> None]
    /\ pc = [l \in Launches |-> "new"]
    /\ job = [l \in Launches |-> NoJob]
    /\ mon = [l \in Launches |-> "none"]
    /\ outcome = [l \in Launches |-> "none"]
    /\ slots = {} /\ transferred = {} /\ lingering = {}
    /\ tokens = {} /\ results = {} /\ unwinds = {}

-----------------------------------------------------------------------------
(* Admission. *)

\* run() and resume_agent: the check and the reservation have no await between
Capacity == Cardinality(slots) < Cap

\* The handle of a new agent is not yet known to anybody.
Unused(a) == /\ state[a] = "absent"
             /\ \A l \in RunsOf(a) : pc[l] = "done"

Begin(l, phase, what) ==
    /\ pc[l] = "new"
    /\ pc' = [pc EXCEPT ![l] = phase]
    /\ job' = [job EXCEPT ![l] = what]

\* task(background=True) without agent_id
LaunchFresh(l, a, p) ==
    /\ Unused(a) /\ Capacity
    /\ Begin(l, "creating", [kind |-> "fresh", agent |-> a, slot |-> l,
                             prior |-> None, package |-> p])
    /\ slots' = slots \cup {l}
    /\ UNCHANGED <<records, runVars, transferred, lingering, tokens, results,
                   unwinds>>

\* The latest run of q failed with an envelope and is terminal, or its monitor
\* has recorded the failure already (_predecessor_envelope_locked).
ClaimableRun(q) ==
    LET r == latest[q]
    IN /\ Resident(q) /\ r # None
       /\ current[q] \in {None, r}
       /\ outcome[r] \in {"rejected", "recoverable"}

\* validate_replacement_claim: a new agent takes over the package of the
\* failed agent q, whose recovery is disabled first (invalidate_locked)
LaunchClaim(l, a, q, p) ==
    /\ Unused(a) /\ Capacity
    /\ ClaimableRun(q)
    /\ package[q] \in {None, p}
    /\ ~superseded[q] /\ ~reserved[q]
    /\ Begin(l, "creating", [kind |-> "claim", agent |-> a, slot |-> l,
                             prior |-> latest[q], package |-> p])
    /\ slots' = slots \cup {l}
    /\ pending' = [pending EXCEPT ![q] = None]
    /\ superseded' = [superseded EXCEPT ![q] = TRUE]
    /\ UNCHANGED <<state, current, latest, workSlot, retained, reserved,
                   owner, resumes, package, runVars, transferred, lingering,
                   tokens, results, unwinds>>

\* task(agent_id=a): an idle instance is retasked
LaunchReuse(l, a) ==
    /\ state[a] = "idle" /\ ~reserved[a] /\ Capacity
    /\ Begin(l, "preparing", [kind |-> "reuse", agent |-> a, slot |-> l,
                              prior |-> None, package |-> package[a]])
    /\ slots' = slots \cup {l}
    /\ state' = [state EXCEPT ![a] = "running"]
    /\ UNCHANGED <<current, latest, workSlot, retained, reserved, owner,
                   pending, superseded, resumes, package, runVars,
                   transferred, lingering, tokens, results, unwinds>>

\* task(agent_id=a, replace_run=True) on a working instance: the run is asked
\* to stop and its slot is reserved for the replacement
ReserveBusy(l, a) ==
    LET r == current[a]
    IN /\ state[a] = "running" /\ ~reserved[a]
       /\ r # None /\ mon[r] = "turn"
       /\ workSlot[a] \in slots
       /\ Begin(l, "joining", [kind |-> "replace", agent |-> a,
                               slot |-> workSlot[a], prior |-> r,
                               package |-> package[a]])
       /\ mon' = [mon EXCEPT ![r] = "stopping"]
       /\ reserved' = [reserved EXCEPT ![a] = TRUE]
       /\ owner' = [owner EXCEPT ![a] = l]
       /\ UNCHANGED <<state, current, latest, workSlot, retained, pending,
                      superseded, resumes, package, outcome, slots,
                      transferred, lingering, tokens, results, unwinds>>

\* the same on a suspended instance: a slot is added outside the cap, and
\* pending recovery is superseded
ReserveSuspended(l, a) ==
    /\ state[a] = "suspended" /\ ~reserved[a]
    /\ Begin(l, "joining", [kind |-> "replaceSuspended", agent |-> a,
                            slot |-> l, prior |-> latest[a],
                            package |-> package[a]])
    /\ slots' = slots \cup {l}
    /\ workSlot' = [workSlot EXCEPT ![a] = l]
    /\ pending' = [pending EXCEPT ![a] = None]
    /\ superseded' = [superseded EXCEPT ![a] = TRUE]
    /\ reserved' = [reserved EXCEPT ![a] = TRUE]
    /\ owner' = [owner EXCEPT ![a] = l]
    /\ UNCHANGED <<state, current, latest, retained, resumes, package,
                   runVars, transferred, lingering, tokens, results, unwinds>>

\* The recovery runs that recovery_concurrency bounds.
Recovering == {a \in Agents :
                 \/ state[a] = "restoring"
                 \/ Resident(a) /\ current[a] # None
                    /\ job[current[a]].kind = "resume"}

\* Defect: a second resume is admitted while one is in flight.
ResumableWhileRestoring(a) ==
    /\ state[a] \in {"suspended", "restoring"}
    /\ ~superseded[a] /\ ~reserved[a]
    /\ outcome[latest[a]] = "recoverable"

\* resume_agent's disposition matrix, ending in an admission
Resumable(a) ==
    /\ state[a] = "suspended" /\ pending[a] = None
    /\ ~superseded[a] /\ ~reserved[a]
    /\ outcome[latest[a]] = "recoverable"

\* resume_agent
Resume(l, a) ==
    /\ Resumable(a)
    /\ resumes[a] < MaxResumes
    /\ Cardinality(Recovering) < RecoveryConcurrency
    /\ Capacity
    /\ Begin(l, "restoring", [kind |-> "resume", agent |-> a, slot |-> l,
                              prior |-> latest[a], package |-> package[a]])
    /\ pending' = [pending EXCEPT ![a] = l]
    /\ state' = [state EXCEPT ![a] = "restoring"]
    /\ resumes' = [resumes EXCEPT ![a] = @ + 1]
    /\ slots' = slots \cup {l}
    /\ UNCHANGED <<current, latest, workSlot, retained, reserved, owner,
                   superseded, package, runVars, transferred, lingering,
                   tokens, results, unwinds>>

-----------------------------------------------------------------------------
(* Joining the previous run, and the end of a handoff. *)

\* _close_unretained_locked, else IDLE
Rest(a) == IF retained[a] THEN "idle" ELSE "closed"

\* Handoff.finally and clear_locked.  The claim of launch l ends; trans is the
\* transferred set at that time.  A reservation that is still held is cleared:
\* the record waits for its run to settle, or comes to rest.
EndHandoff(l, trans) ==
    LET a == job[l].agent
        clears == owner[a] = l /\ reserved[a]
        settled == current[a] = None
        waits == mon[latest[a]] # "done"
    IN /\ reserved' = [reserved EXCEPT ![a] = reserved[a] /\ ~clears]
       /\ owner' = [owner EXCEPT ![a] = IF owner[a] = l THEN None ELSE owner[a]]
       /\ state' = IF clears /\ settled /\ Resident(a)
                   THEN [state EXCEPT ![a] = IF waits THEN "finalizing"
                                                      ELSE Rest(a)]
                   ELSE state
       /\ unwinds' = IF clears /\ settled /\ Resident(a) /\ waits
                     THEN unwinds \cup {<<a, latest[a]>>} ELSE unwinds
       /\ slots' = slots \ {s \in Launches :
                              \/ clears /\ settled /\ s = workSlot[a]
                              \/ /\ owner[a] \in {None, l}
                                 /\ s = job[l].slot /\ s \notin trans}

\* the replaced run's monitor is done: the slot is the replacement's to pass
\* on, and prepare_background takes the reservation over (validate_locked)
Join(l) ==
    LET a == job[l].agent
    IN /\ pc[l] = "joining" /\ mon[job[l].prior] = "done"
       /\ Resident(a) /\ reserved[a] /\ owner[a] = l
       /\ job[l].slot \in slots
       /\ transferred' = transferred \ {job[l].slot}
       /\ reserved' = [reserved EXCEPT ![a] = FALSE]
       /\ state' = [state EXCEPT ![a] = "running"]
       /\ pc' = [pc EXCEPT ![l] = "preparing"]
       /\ UNCHANGED <<current, latest, workSlot, retained, owner, pending,
                      superseded, resumes, package, job, runVars, slots,
                      lingering, tokens, results, unwinds>>

\* the caller is cancelled while it joins, or the validation after it fails
LeaveJoin(l) ==
    /\ pc[l] = "joining"
    /\ \/ transferred' = transferred
       \/ /\ mon[job[l].prior] = "done"
          /\ transferred' = transferred \ {job[l].slot}
    /\ EndHandoff(l, transferred')
    /\ pc' = [pc EXCEPT ![l] = "done"]
    /\ UNCHANGED <<current, latest, workSlot, retained, pending, superseded,
                   resumes, package, job, runVars, lingering, tokens,
                   results>>

\* _admit_successor after joining the failed run: prepare_background
Restore(l) ==
    LET a == job[l].agent
    IN /\ pc[l] = "restoring" /\ mon[job[l].prior] = "done"
       /\ state[a] = "restoring" /\ ~reserved[a]
       /\ state' = [state EXCEPT ![a] = "running"]
       /\ pc' = [pc EXCEPT ![l] = "preparing"]
       /\ UNCHANGED <<current, latest, workSlot, retained, reserved, owner,
                      pending, superseded, resumes, package, job, runVars,
                      slots, transferred, lingering, tokens, results,
                      unwinds>>

\* Defect: a failed resume refunds the attempt but leaves the record restoring.
UndoResumeKeepsState(l, rolledBack) ==
    LET a == job[l].agent
        mine == Resident(a) /\ pending[a] = l
    IN /\ state' = [state EXCEPT ![a] = rolledBack]
       /\ resumes' = [resumes EXCEPT ![a] = IF mine THEN @ - 1 ELSE @]
       /\ pending' = [pending EXCEPT ![a] = IF mine THEN None ELSE @]

\* Defect: a failed resume refunds an attempt that it did not reserve.
UndoResumeTwice(l, rolledBack) ==
    LET a == job[l].agent
        mine == Resident(a) /\ pending[a] = l
    IN /\ state' = [state EXCEPT ![a] = IF mine THEN "suspended"
                                               ELSE rolledBack]
       /\ resumes' = [resumes EXCEPT ![a] = @ - 2]
       /\ pending' = [pending EXCEPT ![a] = IF mine THEN None ELSE @]

\* The state resume_agent's except block leaves, from what the record was
\* rolled back to: suspended again if the admission is still the pending one.
UndoResume(l, rolledBack) ==
    LET a == job[l].agent
        mine == Resident(a) /\ pending[a] = l
    IN /\ state' = [state EXCEPT ![a] = IF mine THEN "suspended"
                                               ELSE rolledBack]
       /\ resumes' = [resumes EXCEPT ![a] = IF mine THEN @ - 1 ELSE @]
       /\ pending' = [pending EXCEPT ![a] = IF mine THEN None ELSE @]

\* the join or the backend refresh fails, or the caller is cancelled
RestoreFails(l) ==
    /\ pc[l] = "restoring"
    /\ UndoResume(l, state[job[l].agent])
    /\ slots' = slots \ {l}
    /\ pc' = [pc EXCEPT ![l] = "done"]
    /\ UNCHANGED <<current, latest, workSlot, retained, reserved, owner,
                   superseded, package, job, runVars, transferred, lingering,
                   tokens, results, unwinds>>

-----------------------------------------------------------------------------
(* Acceptance, its rollback, and the end of the launching call. *)

Created(l) == job[l].kind \in {"fresh", "claim"}
Replaces(l) == job[l].kind \in {"replace", "replaceSuspended"}

\* Admitted: prepared, with the record it was prepared for still resident.
Prepared(l) ==
    \/ pc[l] = "creating" /\ state[job[l].agent] = "absent"
    \/ pc[l] = "preparing" /\ Resident(job[l].agent)

\* Defect: registering a write token revokes no other.
RivalsSpared(l) == {}

\* The write tokens that registering the token of run l revokes: those of
\* other agents of the same work package (register_writer_locked).
Rivals(l) ==
    LET p == job[l].package
    IN IF p = None THEN {}
       ELSE {r \in tokens : /\ job[r].agent # job[l].agent
                            /\ Resident(job[r].agent)
                            /\ package[job[r].agent] = p}

\* the tail of prepare_background: the run becomes the record's current and
\* latest one.  Only a new or reused instance may change its retention policy.
InstallRun(l, keep) ==
    LET a == job[l].agent
    IN /\ Created(l) \/ job[l].kind = "reuse" \/ keep = retained[a]
       /\ state' = [state EXCEPT ![a] = "running"]
       /\ current' = [current EXCEPT ![a] = l]
       /\ latest' = [latest EXCEPT ![a] = l]
       /\ workSlot' = [workSlot EXCEPT ![a] = job[l].slot]
       /\ retained' = [retained EXCEPT ![a] = keep]
       /\ package' = [package EXCEPT ![a] = job[l].package]

\* the run record is installed and accept_background registers its token,
\* creates the monitor, starts the turn and transfers the slot; a resume then
\* publishes its successor
Accept(l, keep) ==
    LET a == job[l].agent
    IN /\ Prepared(l)
       /\ InstallRun(l, keep)
       /\ pending' = [pending EXCEPT ![a] = IF job[l].kind = "resume" THEN None
                                            ELSE @]
       /\ tokens' = (tokens \ Rivals(l)) \cup {l}
       /\ mon' = [mon EXCEPT ![l] = "turn"]
       /\ transferred' = transferred \cup {job[l].slot}
       /\ pc' = [pc EXCEPT ![l] = "ack"]
       /\ UNCHANGED <<reserved, owner, superseded, resumes, job, outcome,
                      slots, lingering, results, unwinds>>

\* rollback_reuse: the state of the record after a failed admission
RolledBack(l) ==
    LET a == job[l].agent
    IN IF state[a] # "running" \/ reserved[a] THEN state[a]
       ELSE IF Replaces(l) THEN Rest(a) ELSE "idle"

\* creation, reconfiguration, linking or acceptance fails, before or after
\* the write token was registered: rollback_background and the callers'
\* finally blocks.  Revoked tokens are not given back.  The work_slot that
\* prepare_background may have set is left out: nothing reads it before the
\* next acceptance or reservation sets it again.
AdmissionFails(l, registered) ==
    LET a == job[l].agent
    IN /\ pc[l] \in {"creating", "preparing"}
       /\ registered => Prepared(l)
       /\ tokens' = IF registered THEN tokens \ Rivals(l) ELSE tokens
       /\ IF job[l].kind = "resume"
          THEN UndoResume(l, RolledBack(l))
          ELSE /\ state' = [state EXCEPT ![a] = IF Created(l) THEN @
                                                ELSE RolledBack(l)]
               /\ UNCHANGED <<resumes, pending>>
       /\ owner' = [owner EXCEPT ![a] = IF @ = l THEN None ELSE @]
       /\ slots' = IF Replaces(l) /\ (owner[a] \notin {None, l} \/
                                      job[l].slot \in transferred)
                   THEN slots ELSE slots \ {job[l].slot}
       /\ pc' = [pc EXCEPT ![l] = "done"]
       /\ UNCHANGED <<current, latest, workSlot, retained, reserved,
                      superseded, package, job, runVars, transferred,
                      lingering, results, unwinds>>

\* Defect: the launching call discards its slot although the run took it over.
DropSlotAlways(l) ==
    /\ slots' = slots \ {l}
    /\ UNCHANGED <<state, reserved, owner, unwinds>>

\* the finally of run(), and of resume_agent when it is cancelled: a slot that
\* is not marked transferred is discarded, whoever cleared the mark
DropSlot(l) ==
    /\ slots' = IF l \in transferred THEN slots ELSE slots \ {l}
    /\ UNCHANGED <<state, reserved, owner, unwinds>>

\* the acknowledgment was delivered and the launching call unwinds
AckEnds(l) ==
    /\ pc[l] = "ack"
    /\ pc' = [pc EXCEPT ![l] = "done"]
    /\ \/ Replaces(l) /\ EndHandoff(l, transferred)
       \/ ~Replaces(l) /\ DropSlot(l)
       \/ /\ job[l].kind = "resume"
          /\ UNCHANGED <<state, reserved, owner, slots, unwinds>>
    /\ UNCHANGED <<current, latest, workSlot, retained, pending, superseded,
                   resumes, package, job, runVars, transferred, lingering,
                   tokens, results>>

-----------------------------------------------------------------------------
(* The monitor of an accepted run. *)

\* the operation reaches its terminal turn
TurnEnds(l) ==
    /\ mon[l] \in {"turn", "stopping"}
    /\ mon' = [mon EXCEPT ![l] = "ended"]
    /\ UNCHANGED <<records, launchVars, outcome, slots, transferred,
                   lingering, tokens, results, unwinds>>

\* wait_for_operation returns: status and failure envelope are recorded, then
\* the completion audit runs
Observe(l, how) ==
    /\ mon[l] = "ended"
    /\ mon' = [mon EXCEPT ![l] = "audit"]
    /\ outcome' = [outcome EXCEPT ![l] = how]
    /\ UNCHANGED <<records, launchVars, slots, transferred, lingering, tokens,
                   results, unwinds>>

\* Defect: the monitor gives the slot up although a handoff has reserved it.
FreesSlotAlways(l, lingers) ==
    IF lingers
    THEN lingering' = lingering \cup {job[l].slot} /\ UNCHANGED slots
    ELSE slots' = slots \ {job[l].slot} /\ UNCHANGED lingering

\* Defect: the slot stays with any handoff, one that has started its run too.
FreesSlotUnlessOwned(l, lingers) ==
    IF owner[job[l].agent] # None
    THEN UNCHANGED <<slots, lingering>>
    ELSE IF lingers
         THEN lingering' = lingering \cup {job[l].slot} /\ UNCHANGED slots
         ELSE slots' = slots \ {job[l].slot} /\ UNCHANGED lingering

\* The end of a run gives up its slot: at once, or when the child's current
\* task is done; a slot reserved by a handoff stays with it.
FreesSlot(l, lingers) ==
    IF reserved[job[l].agent]
    THEN UNCHANGED <<slots, lingering>>
    ELSE IF lingers
         THEN lingering' = lingering \cup {job[l].slot} /\ UNCHANGED slots
         ELSE slots' = slots \ {job[l].slot} /\ UNCHANGED lingering

\* the finally of the monitor up to its first await, with publish_locked: the
\* slot, the write token, the record's residency and the result store
Publish(l, rejected, lingers) ==
    LET a == job[l].agent
        resident == Resident(a) /\ current[a] = l
        write == l \in tokens
    IN /\ mon[l] = "audit"
       /\ rejected => outcome[l] = "final"
       /\ outcome' = [outcome EXCEPT ![l] = IF rejected THEN "rejected" ELSE @]
       /\ FreesSlot(l, lingers)
       /\ tokens' = tokens \ {l}
       /\ state' = IF resident
                   THEN [state EXCEPT ![a] = IF reserved[a] THEN "running"
                                                            ELSE "finalizing"]
                   ELSE state
       /\ current' = IF resident THEN [current EXCEPT ![a] = None] ELSE current
       /\ results' = IF write THEN results \cup {l} ELSE results
       /\ mon' = [mon EXCEPT ![l] = IF write /\ resident THEN "published"
                                                         ELSE "done"]
       /\ UNCHANGED <<latest, workSlot, retained, reserved, owner, pending,
                      superseded, resumes, package, launchVars, transferred,
                      unwinds>>

\* The record still waits for this completion transition.
InTransition(a) == state[a] = "finalizing" /\ ~reserved[a]

\* suspend_after_failure_locked up to the byte cap
MaySuspend(l) ==
    LET a == job[l].agent
    IN /\ outcome[l] = "recoverable" /\ latest[a] = l
       /\ resumes[a] < MaxResumes
       /\ Cardinality(Suspended) < MaxSuspended

\* Suspended records that expire (expire_locked), to make room or otherwise.
Expired(victims, next) ==
    /\ state' = [b \in Agents |-> IF b \in victims THEN "closed" ELSE next[b]]
    /\ pending' = [b \in Agents |-> IF b \in victims THEN None ELSE pending[b]]
    /\ superseded' = [b \in Agents |-> b \in victims \/ superseded[b]]

\* What the byte cap decides for run l (admit_locked): other suspended records
\* may expire to make room, and the suspension may be refused; which, is left
\* open.
RoomMade(l, victims, suspends) ==
    /\ victims \subseteq Suspended
    /\ (victims # {} \/ suspends) => InTransition(job[l].agent) /\ MaySuspend(l)

\* after the update was emitted: the parent is notified and the record takes
\* its completion transition
Settle(l, victims, suspends) ==
    LET a == job[l].agent
    IN /\ mon[l] = "published"
       /\ RoomMade(l, victims, suspends)
       /\ mon' = [mon EXCEPT ![l] = "settled"]
       /\ Expired(victims,
                  IF ~InTransition(a) THEN state
                  ELSE [state EXCEPT ![a] = IF suspends THEN "suspended"
                                                        ELSE Rest(a)])
       /\ UNCHANGED <<current, latest, workSlot, retained, reserved, owner,
                      resumes, package, launchVars, outcome, slots,
                      transferred, lingering, tokens, results, unwinds>>

\* the last update was emitted and the monitor task is done
MonitorDone(l) ==
    /\ mon[l] = "settled"
    /\ mon' = [mon EXCEPT ![l] = "done"]
    /\ UNCHANGED <<records, launchVars, outcome, slots, transferred,
                   lingering, tokens, results, unwinds>>

\* the release teardown cancels the monitors of the detached record
MonitorCancelled(l, lingers) ==
    /\ mon[l] \notin {"none", "done"}
    /\ state[job[l].agent] = "released"
    /\ mon' = [mon EXCEPT ![l] = "done"]
    /\ IF Working(l) THEN FreesSlot(l, lingers)
                     ELSE UNCHANGED <<slots, lingering>>
    /\ tokens' = tokens \ {l}
    /\ UNCHANGED <<records, launchVars, outcome, transferred, results,
                   unwinds>>

\* the done callback of the child's task
LingerEnds(s) ==
    /\ s \in lingering
    /\ lingering' = lingering \ {s}
    /\ slots' = slots \ {s}
    /\ UNCHANGED <<records, launchVars, runVars, transferred, tokens, results,
                   unwinds>>

\* Defect: the unwind task does not look at what happened while it waited.
UnwindUnchecked(a, r) ==
    /\ <<a, r>> \in unwinds /\ mon[r] = "done"
    /\ unwinds' = unwinds \ {<<a, r>>}
    /\ state' = IF Resident(a) THEN [state EXCEPT ![a] = Rest(a)] ELSE state
    /\ UNCHANGED <<current, latest, workSlot, retained, reserved, owner,
                   pending, superseded, resumes, package, launchVars, runVars,
                   slots, transferred, lingering, tokens, results>>

\* Defect: the unwind task leaves the record as it is.
UnwindForgets(a, r) ==
    /\ <<a, r>> \in unwinds /\ mon[r] = "done"
    /\ unwinds' = unwinds \ {<<a, r>>}
    /\ UNCHANGED <<records, launchVars, runVars, slots, transferred,
                   lingering, tokens, results>>

\* finish_unwind: the run of an abandoned handoff has settled
Unwind(a, r) ==
    /\ <<a, r>> \in unwinds /\ mon[r] = "done"
    /\ unwinds' = unwinds \ {<<a, r>>}
    /\ state' = IF latest[a] = r /\ current[a] = None /\ InTransition(a)
                THEN [state EXCEPT ![a] = Rest(a)] ELSE state
    /\ UNCHANGED <<current, latest, workSlot, retained, reserved, owner,
                   pending, superseded, resumes, package, launchVars, runVars,
                   slots, transferred, lingering, tokens, results>>

-----------------------------------------------------------------------------
(* Cancellation, eviction, expiry and release. *)

\* cancel_agent on a working run
Cancel(a) ==
    LET r == current[a]
    IN /\ state[a] = "running" /\ r # None
       /\ mon[r] = "turn"
       /\ mon' = [mon EXCEPT ![r] = "stopping"]
       /\ UNCHANGED <<records, launchVars, outcome, slots, transferred,
                      lingering, tokens, results, unwinds>>

\* the idle TTL or the idle cap (evict)
Evict(a) ==
    /\ state[a] = "idle" /\ ~reserved[a]
    /\ state' = [state EXCEPT ![a] = "closed"]
    /\ UNCHANGED <<current, latest, workSlot, retained, reserved, owner,
                   pending, superseded, resumes, package, launchVars, runVars,
                   slots, transferred, lingering, tokens, results, unwinds>>

\* the suspension TTL, or cancel_agent on a suspended instance
Expire(a) ==
    /\ state[a] = "suspended"
    /\ Expired({a}, state)
    /\ UNCHANGED <<current, latest, workSlot, retained, reserved, owner,
                   resumes, package, launchVars, runVars, slots, transferred,
                   lingering, tokens, results, unwinds>>

\* Defect: release leaves the write tokens of the agent registered.
PurgedTokensKept(a) == tokens

\* purge_agent_locked: the write tokens left
PurgedTokens(a) == tokens \ RunsOf(a)

\* prepare_locked: the record is detached, a reservation is cleared, and
\* everything kept for the handle is purged; the teardown task cancels later
Release(a) ==
    /\ Resident(a) \/ RunsOf(a) \cap results # {}
    /\ state' = [state EXCEPT ![a] = "released"]
    /\ reserved' = [reserved EXCEPT ![a] = @ /\ ~Resident(a)]
    /\ owner' = [owner EXCEPT ![a] = IF Resident(a) /\ reserved[a] THEN None
                                                                    ELSE @]
    /\ slots' = IF Resident(a) /\ reserved[a] /\ current[a] = None
                THEN slots \ {workSlot[a]} ELSE slots
    /\ tokens' = PurgedTokens(a)
    /\ results' = results \ RunsOf(a)
    /\ UNCHANGED <<current, latest, workSlot, retained, pending, superseded,
                   resumes, package, launchVars, runVars, transferred,
                   lingering, unwinds>>

\* release_guarded answers CONFLICT for a busy or reserved record
ReleaseGuarded(a) ==
    /\ ~reserved[a] /\ state[a] \notin {"running", "finalizing"}
    /\ Release(a)

\* nothing is in progress
Quiescent ==
    /\ \A l \in Launches : /\ pc[l] \in {"new", "done"}
                           /\ mon[l] \in {"none", "done"}
    /\ lingering = {} /\ unwinds = {}
    /\ UNCHANGED vars

-----------------------------------------------------------------------------

\* What launch l can do once it was started.
LaunchSteps(l) ==
    \/ Join(l) \/ LeaveJoin(l) \/ Restore(l) \/ RestoreFails(l)
    \/ \E keep \in BOOLEAN : Accept(l, keep)
    \/ \E registered \in BOOLEAN : AdmissionFails(l, registered)
    \/ AckEnds(l)

\* What the monitor of run l can do.
MonitorSteps(l) ==
    \/ TurnEnds(l) \/ MonitorDone(l)
    \/ \E how \in {"final", "recoverable"} : Observe(l, how)
    \/ \E rejected, lingers \in BOOLEAN : Publish(l, rejected, lingers)
    \/ \E victims \in SUBSET Agents, suspends \in BOOLEAN :
          Settle(l, victims, suspends)
    \/ \E lingers \in BOOLEAN : MonitorCancelled(l, lingers)

\* What callers start or ask for.
Requests ==
    \/ \E l \in Launches, a \in Agents :
          \/ \E p \in Packages \cup {None} : LaunchFresh(l, a, p)
          \/ \E q \in Agents, p \in Packages : LaunchClaim(l, a, q, p)
          \/ LaunchReuse(l, a) \/ ReserveBusy(l, a) \/ ReserveSuspended(l, a)
          \/ Resume(l, a)
    \/ \E a \in Agents : Cancel(a) \/ Evict(a) \/ Expire(a) \/ Release(a)
                         \/ ReleaseGuarded(a)

Next ==
    \/ Requests
    \/ \E l \in Launches : LaunchSteps(l) \/ MonitorSteps(l)
    \/ \E s \in Launches : LingerEnds(s)
    \/ \E a \in Agents, r \in Launches : Unwind(a, r)
    \/ Quiescent

Spec == Init /\ [][Next]_vars

\* The event loop runs every coroutine that is ready: a handoff or a resume
\* whose joined run is done, an admission whose awaited preparation answers, an
\* acknowledgment, a monitor, a done callback and an unwind task.  That a turn
\* ends is assumed of the agent loop.
Fairness ==
    /\ \A l \in Launches :
          LET joined == mon[job[l].prior] = "done"
          IN /\ WF_vars(Join(l) \/ (LeaveJoin(l) /\ joined))
             /\ WF_vars(Restore(l) \/ (RestoreFails(l) /\ joined))
             /\ WF_vars(\/ \E keep \in BOOLEAN : Accept(l, keep)
                        \/ \E registered \in BOOLEAN :
                              AdmissionFails(l, registered))
             /\ WF_vars(AckEnds(l))
             /\ WF_vars(MonitorSteps(l))
             /\ WF_vars(LingerEnds(l))
    /\ \A a \in Agents, r \in Launches : WF_vars(Unwind(a, r))

FairSpec == Spec /\ Fairness

-----------------------------------------------------------------------------
(* Properties. *)

TypeOK ==
    /\ state \in [Agents -> States]
    /\ current \in [Agents -> Launches \cup {None}]
    /\ latest \in [Agents -> Launches \cup {None}]
    /\ workSlot \in [Agents -> Launches \cup {None}]
    /\ retained \in [Agents -> BOOLEAN]
    /\ reserved \in [Agents -> BOOLEAN]
    /\ owner \in [Agents -> Launches \cup {None}]
    /\ pending \in [Agents -> Launches \cup {None}]
    /\ superseded \in [Agents -> BOOLEAN]
    /\ resumes \in [Agents -> Nat]
    /\ package \in [Agents -> Packages \cup {None}]
    /\ pc \in [Launches -> Phases]
    /\ job \in [Launches -> Jobs]
    /\ mon \in [Launches -> MonitorPhases]
    /\ outcome \in [Launches -> Outcomes]
    /\ slots \subseteq Launches
    /\ transferred \subseteq Launches /\ lingering \subseteq Launches
    /\ tokens \subseteq Launches
    /\ results \subseteq Launches /\ unwinds \subseteq Agents \X Launches

\* A working run is the current run of its resident agent, which shows as
\* running; otherwise the agent was released and its teardown is pending.  So
\* eviction, expiry, reuse, resume and a guarded release never meet a run at
\* work.
WorkIsCurrent ==
    \A l \in Launches : Working(l) =>
        LET a == job[l].agent
        IN \/ state[a] = "running" /\ current[a] = l
           \/ state[a] = "released"

\* One agent works on one run at a time, through retasks, replacements,
\* resumes and release.
OneRunPerAgent ==
    \A l, m \in Launches :
        Working(l) /\ Working(m) /\ job[l].agent = job[m].agent => l = m

\* The work of an agent is its current run, and only one.
WorkInv == WorkIsCurrent /\ OneRunPerAgent

\* A working run is counted: the slot that its own launch allocated stays in
\* _active_work_slots (a slot taken over by a replacement may be lost, since
\* handoff clears slot.transferred while the first call still acknowledges).
SlotAccounted ==
    \A l \in Launches : Working(l) /\ job[l].slot = l => l \in slots

\* No slot leaks: each one counted belongs to a launch on its way, to a
\* working run, or to a child task that has not finished.
SlotBacked ==
    \A s \in slots :
        \/ s \in lingering
        \/ \E l \in Launches :
              /\ job[l].slot = s
              /\ \/ pc[l] \in {"creating", "joining", "restoring", "preparing"}
                 \/ Working(l)

\* Launches, retasks and resumes never take the count past the cap
\* (replacements of suspended agents are not held to it).
AdmittedWithinCap ==
    Cardinality({s \in slots : job[s].kind # "replaceSuspended"}) <= Cap

\* _active_work_slots counts the work there is: no run is left out, no slot is
\* left over, and admissions respect the cap.
SlotInv == SlotAccounted /\ SlotBacked /\ AdmittedWithinCap

\* A handle that was released has no stored result, and no run of it can store
\* one later.
ReleasedSilent ==
    \A a \in Agents : state[a] = "released" => RunsOf(a) \cap results = {}

\* Agents of one work package never hold publication authority together: at
\* most one of them can still store a result, whatever claims, retasks and
\* failed admissions came before.
PackageExclusive ==
    \A l, m \in tokens :
        job[l].package = job[m].package /\ job[l].package # None
            => job[l].agent = job[m].agent

\* resume_agent is single-flight and run-pinned: a failed run has at most one
\* admission on its way or accepted.
SingleSuccessor ==
    \A l, m \in Launches :
        /\ job[l].kind = "resume" /\ job[m].kind = "resume"
        /\ job[l].prior = job[m].prior
        /\ pc[l] \in {"restoring", "preparing"} \/ mon[l] # "none"
        /\ pc[m] \in {"restoring", "preparing"} \/ mon[m] # "none"
        => l = m

\* A reservation has an owner that is joining the run, and the slot it holds
\* is still counted.
ReservationHeld ==
    \A a \in Agents : reserved[a] =>
        /\ owner[a] # None
        /\ pc[owner[a]] = "joining" /\ job[owner[a]].agent = a
        /\ job[owner[a]].slot = workSlot[a]
        /\ workSlot[a] \in slots

\* "an admitted resume moves it to restoring until the successor run starts":
\* a restoring record has that admission on its way, and it can be undone, as
\* long as no claim has superseded the recovery.
RestoringBacked ==
    \A a \in Agents : state[a] = "restoring" /\ ~superseded[a] =>
        /\ pending[a] # None
        /\ pc[pending[a]] = "restoring" /\ job[pending[a]].agent = a

\* "a claim never launches a replacement alongside a resumed successor"
\* (_predecessor_envelope_locked), and a superseded resume that is in flight
\* "still fails its residency revalidation" (invalidate_locked).
NoRivalSuccessor ==
    \A l, m \in Launches :
        /\ job[l].kind = "claim" /\ job[m].kind = "resume"
        /\ job[l].prior = job[m].prior
        => ~(Working(l) /\ Working(m))

\* A finishing record leaves that state: it comes to rest, suspends or closes.
FinalizingSettles ==
    \A a \in Agents : state[a] = "finalizing" ~> state[a] # "finalizing"

\* A restoring record leaves that state.
RestoringSettles ==
    \A a \in Agents : state[a] = "restoring" ~> state[a] # "restoring"

\* A running record does not stay running for ever.
RunningSettles ==
    \A a \in Agents : state[a] = "running" ~> state[a] # "running"

\* Every busy state of a record is left: work ends, completion settles and a
\* restore is accepted or undone.
RecordsSettle == FinalizingSettles /\ RestoringSettles /\ RunningSettles

\* Every slot is given back.
SlotsReturn == \A s \in Launches : s \in slots ~> s \notin slots
=============================================================================
