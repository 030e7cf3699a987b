# Chartreux: a TLA+ verification project

Chartreux is a coding-agent harness written in Python. This directory models
the parts of it in which several coroutines (and, for the session lease,
several processes) act on shared state, checks them with TLC on small
instances and proves the most important results with TLAPS for every value of
the parameters. The code is the reference; paths below are relative to
`src/chartreux/`.

## 1. Inventory

Everything in one process runs on one asyncio thread, except the file work of
the session log, which runs on worker threads. What interleaves are coroutines,
and they interleave at awaits that really suspend: a lock that is free is taken
without yielding, and a synchronous call chain is atomic. The terminal interface
is a client of the app server: its requests, their answers and the notifications
between them are further places where things cross.

| Component | State | Operations | What is hard |
|---|---|---|---|
| Backend lifetime (`core/agent_loop/backend_lifetime.py`) | active client, retired clients, publications, borrow counts, close tasks | publish, rollback, finalize, borrow, retire, drain, aclose | a client must not be closed while a turn, a borrow or a possible rollback needs it, and must be closed once in the end |
| Completion coordinator (`core/agent_loop/_completion_coordinator.py`) | identity and health of the deployments tried | attempt: publish, borrow, stream, finalize or roll back | failures and cancellation in mid stream |
| Configuration transactions (`core/agent_loop/_config_transactions.py`, `app_server/_resources.py`) | prepared reload, reservation | prepare, commit, roll back, finally | a failure between commit and finally |
| Subagent registry (`app_server/_sessions.py`, `_subagent_*.py`, `_suspension_lifecycle.py`) | agent records, runs, active-work slots, write tokens, stored results | launch, retask, busy replacement, resume, claim, cancel, monitor, evict, expire, release | every operation awaits in the middle while the others run |
| Run results (`app_server/_subagent_results.py`) | result store, leases, tokens, collected markers | publish, wait, collect, expire, purge | waits pinned to a run while it is replaced or released |
| Session lease (`core/session/session_lease.py`) | lock files shared by processes | acquire, release | unlinking a lock file while others open it, crashes |
| Turn runner and queue (`app_server/_turns.py`, `_turn_queue.py`) | active turn, queue, receipts | start, enqueue, replace, steer, interrupt | idempotent retries, an interrupt racing the end of a turn |
| Execution admission (`core/agent_loop/_execution_admission.py`) | permits and grants | approve, snapshot, revalidate, invoke | grants that change during an await |
| Recovery controller (`app_server/_recovery_controller.py`) | schedules, episodes | observe, schedule, fire, stand down | timers racing explicit resumes |
| Interaction broker (`core/agent_loop/_request_broker.py`) | pending requests | bind, request, resolve, reject | late answers |
| Session log and loader (`core/session/session_logger.py`, `session_loader.py`, `transcript_archive.py`) | transcript, metadata, files set aside, cursor, save lock, archive descriptor | save, append, rewrite, quarantine, verify, seal, trim, load | appends on the word of a cursor; failed writes and crashes between two writes; payloads whose only copy is the file |
| Compaction and rewind (`core/compaction/manager.py`, `core/rewind/manager.py`, `core/message_list.py`) | message list, epoch | append, insert, stamp, replace, trim, rewind and its undo | saves under way share the list's objects |
| Automatic root recovery (`app_server/_root_recovery.py`, `cli/textual_ui/root_recovery.py`) | failures, episodes; timer, pending attempt, retry presentation | observe, schedule, admit, cancel, start the continuation | two processes, lost and repeated requests, input of the user at any time |
| Prompt queue of the interface (`cli/textual_ui/message_queue.py`) | blocks, deliveries, unconfirmed steering | submit, merge, pop, steer, retry, discard | the server promotes while the interface asks |
| Background jobs | process table, output | start, read, reap | output limits |
| Tools, LLM adapters, model catalog | none of their own | calls to the outside | external behaviour |
| Transport, projection, CLI, ACP, the rest of the UI | presentation | render, serialise | none of the kind modelled here |

How they interact: the registry creates child runtimes, each with its own
agent loop and hence its own backend lifetime; a retask publishes a client
into the child's lifetime (`accept_background`), suspension and resume refresh
it. A configuration write reserves the session so that no turn starts before
it ends. Every resident session holds a session lease, under which its log is
the only writer of the transcript. A turn saves at every step; a compaction seals
what it leaves behind. The recovery gate observes the turns of the controller and
starts none itself: the interface asks it and then starts the continuation as a
turn like any other. The interface's prompt queue and the controller's turn queue
are two views of the same items.

What makes each component correct, in a sentence:

- backend lifetime: what is in use is open; everything built is closed in the
  end, once;
- registry: an agent works on one run at a time; work is counted against the
  cap from admission to its real end, and given back; every busy state is left;
  one agent of a work package may publish; a released handle stays silent;
- session lease: at most one process has a session open, and a crash never
  leaves it locked;
- turns: they come one by one, each owns the session, an interrupt ends the
  running one and holds the waiting items back, unless the turn ends as failed;
- session log: what a save reported durable can be loaded again; the transcript
  follows the list; what was dropped from memory is on disk where it is looked
  for; no trimmed copy replaces an original;
- root recovery: continuations share one budget, the user's input comes first, a
  failure is shown or continued;
- prompt queue: what the interface accepted reaches the model once, or waits.

## 2. Modules

### BackendLifetime

One agent loop's clients. `active`, `retired`, `pubs` and `holds` are the
fields of `BackendLifetime` (the borrow counts are derived from what each
attempt holds); `exits` counts committed closes per client, at the time the
close task is created; `made` is the set of clients built; `mode` says whether
a turn or a manual compaction occupies the session; `write` is the configuration
write in progress.

The methods of the class are operators on the pair of fields they change
(`Retire`, `Drain`, `ScheduleCloses`), so that a caller which makes several
calls without an await is a single action. `BeginAttempt`, `AttemptSucceeds`
and `AttemptFails` are the failover attempts, `BorrowActive` / `EndBorrow` the
call without candidates; `LaunchReconfigure*`, `CommitReload*`,
`RefreshForResume` and `Write*` are the other callers.

Left out: a client that was prepared and given up before publication (its
transport opens on first use), and what else a reload changes.

### SessionLease and SessionOwner

`SessionOwner` is what a lease promises: one owner, passed on only through
being free. `SessionLease` is how it is done with files: `path` is the inode at
the lock path (unlinked by a release, created again by the next open), `fd` the
inode each process has open, `locked` who has the flock on each inode,
`registry` who has the lock on `.registry`. Every system call of `acquire`, of
its rollback and of `release` is a step, and `Abandon` ends a process at any of
them; the operating system then closes its descriptors. `Publish` may fail
(disk full, Ctrl-C), and so may `Unlink`. A process may open the session again
after it died, so the set of contenders bounds concurrency and not history; an
inode may be used again once nobody has it open.

Left out: a flock that fails for another reason than contention, which the code
reports as `SessionBusyError` as well.

### TurnController

One session's turns. `queue` and `paused` are `TurnQueue`'s, `activeTurn`,
`activeTask` and `lock` the controller's `_active_turn`, `_active_task` and
`_queue_lock`, `execution` the reservation in `SessionExecution`. `pc` says at
which await each task is suspended: the driver of a turn (`Run`), the settlement
of a turn cancelled before its first step (`Settle`), and the tasks that queue
requests spawn (`QueueTask`). A queued item is also the identity of its turn.

| Step of the code | Action |
|---|---|
| `start`, `TurnStartAction`, `_abort_unstarted_turn`, `_run_scheduler` | `Start`, `StartAction`, `Abort`, `FireLoop` |
| `_run_turn` with phase, finalization and recovery | `Begin`, `PhaseEnds`, `Finalized`, `Recorded`, `Announced`, `Published`, `FinalizeFails`, `Recovered` |
| `_after_turn_terminal`, `_promote_next` | `AfterTurnTerminal`, `Paused`, `PromoteNext` and what follows its awaits: `Promoted`, `Popped`, `Injected` |
| `enqueue`, `replace_queued_turn`, `remove_queued_turn`, `resume_queue` | `Enqueue`, `Replace`, `RemoveItem`, `Resume` |
| response, `_after_queue_mutation` | `Responded`, `TakeLock`, `Emitted` |
| `interrupt`, `_settle_unstarted_cancellation`, `_publish_turn_completed` | `Interrupt`, `SettleUnstarted`, `Settled` |
| shell commands and lifecycle operations, `reset` | `BeginOther`, `EndOther`, `Reset` |

Three constants select what the environment does: `Others` (shell commands and
lifecycle operations), `LostResponses` and `Snapshots` (clients learn the id of
a turn from a snapshot or from an error before its `turn/started`). `held` (the
turns behind whose interrupt items wait) and `asked` are history variables. `Reset` is one step: the operation that calls it
has the reservation, so that no turn starts while the tasks are cancelled and
joined. Left out: what items say, their keys and steering (`PromptQueue` has them; a
retried request changes nothing and spawns nothing here), callbacks, refusals of `start`
for other reasons than a busy session, policy reservations, the close timeout,
and `next_turn_id`, which no caller passes. Notifications are taken to
succeed, since sending them swallows the transport's errors; the failures of
`_finalize_turn` come from the projector and the callbacks.

### SubagentLifecycle

The registry of one root session. A *launch* is one call of the task tool or
of `resume_agent`; it allocates at most one slot and starts at most one run,
so the launch also names the slot, the run, its write token and its monitor.
`pc` says at which await the launching call is suspended, `mon` where the run's
monitor is. The record fields keep their names from `AgentRecord`.

| Step of the code | Action |
|---|---|
| `run`: cap check, slot, admission | `LaunchFresh`, `LaunchClaim`, `LaunchReuse` |
| `reserve`, `_reserve_suspended_locked` | `ReserveBusy`, `ReserveSuspended` |
| `handoff`, `validate_locked`, `clear_locked` | `Join`, `LeaveJoin`, `EndHandoff` |
| `resume_agent`, `_admit_successor` | `Resume`, `Restore`, `RestoreFails` |
| `prepare_background` tail, `accept_background` | `Accept` |
| `rollback_background`, `rollback_reuse` | `AdmissionFails` |
| end of `acknowledge_background` and of `run` | `AckEnds` |
| `monitor` up to each of its awaits | `TurnEnds`, `Observe`, `Publish`, `Settle`, `MonitorDone` |
| `finish_unwind` | `Unwind` |
| `cancel`, `evict`, `expire_locked`, `release`, `release_guarded` | `Cancel`, `Evict`, `Expire`, `Release`, `ReleaseGuarded` |
| teardown after release, done callback of the child task | `MonitorCancelled`, `LingerEnds` |

Abstracted: the byte cap of suspension is a free choice (`RoomMade`: which
suspended records expire and whether the suspension is refused); expiry clocks
are free choices (`Evict`, `Expire`); a reconciled barrier counts as eligible;
agent handles are never reused, as in the code, so `Agents` bounds how many are
ever created. Left out for now: change of the root generation and drain,
foreground launches, replacement budget and policy, notification suppression,
result expiry and waits, the automatic controller (it calls `resume_agent`).

### SessionLog

One session's transcript, in memory and on disk. `live`, `epoch`, `owned` are
`MessageList`'s messages, epoch and archive descriptor; `disk`, `meta`, `kept` the
transcript, the metadata and the transcripts set aside; `cursor`, `since`, `gen`,
`descr`, `trimmed` the logger's fields of (nearly) the same names; `queue` the
save lock, whose first task holds it. `job` says what each task is doing and has
the snapshot it took. Savers are tasks that call `save_interaction`; `Main` is
the flow that compacts and rewinds, one at a time.

| Step of the code | Action |
|---|---|
| `MessageList` append, insert, replace; timing stamp | `AppendMessage`, `InsertMessage`, `ReplacePlaceholder`, `StampTiming` |
| `_patch_assistant_tool_call_args`, `record_presentation`, `record_call_clock` | `EditCall` |
| `save_interaction` up to the lock, under the lock | `SaveBegin`, `SaveDiscard`, `LockGranted`, `SaveCancelled` |
| `_save_interaction_sync` in the worker | `WriteAppend`, `WriteReplace`, `WriteNothing`, `Quarantine`, `ArchiveUnavailable`, `WriteMetadata` |
| a failing write | `WriteFails`, `MetadataFails` |
| installation of the cursor, handling of errors | `SaveDone`, `SaveFailed` |
| `_rewind_legacy` and its undo | `Rewind`, `RewindFailed`, `RewindCancelled` |
| post-turn and compaction trim | `PostTurnTrim`, `Drained`, `CompactionTrim`, `SealPlan`, `SealPersisted`, `Publish`, `SealRefused`, `SealCancelled` |
| death of the process, `load_session` | `Crash`, `Restart` |

A message is a settled exchange, known by its identity, its kind and whether
its object was changed in place, by the duration of its turn (which invalidates
the cursor) or by an edit of a tool call in it (which does not). Either happens to a
message once at most. The message may be sealed: calls are looked up by an id that
models use again. All records have one size, which is the
worst case for the cursor's check of the file's size. `swapped` is a history variable,
the messages changed without a word to the logger since a full save last read the
file against them. What a worker reads and
writes it does in one step per file, since the save lock keeps other writers
out, so an edit falls before or after a full save's comparison and write, not
between them; a failed or interrupted append leaves any number of whole records and
perhaps a part of the next. Left out: reset, fork and clear of a session, the
reseal at a warm resume, staged repair and migration, titles and launch
metadata, the rollback branch of the post-turn trim, and the set of boundaries
in flight (`Main` does one thing at a time).

### RootRecovery

Automatic recovery of a session's failed turns, by the gate in the app server
(`failures`, `episodes`, `session`, and `ending`, the episodes whose end is just
being told) and by the terminal interface (`gen` is its input generation,
`pending` and `timer` the armed attempt, `drives` the tasks that start an admitted
continuation, `offer` the retry presentation, `shown` what the user sees of the
last failure). `sched`, `admit`, `cancels` and `double` are the requests under
way.

| Step of the code | Action |
|---|---|
| `observe_turn_started`, `observe_turn_finished` with the turns | `StartUser`, `StartLoop`, `TurnEnds`, `TurnFails` |
| input, submissions | `Type`, `Submit`, `Enqueued` |
| `observe_terminal` and the answer | `Observe`, `Scheduled`, `ScheduleLost` |
| `schedule` | `ScheduleRefused`, `ScheduleStops`, `ScheduleAccepted`, `ScheduleTold` |
| `admit` | `AdmitRefused`, `AdmitStops`, `AdmitKnown`, `AdmitDeferred`, `AdmitGranted` |
| `cancel`, notices that are awaited | `Cancel`, `Told` |
| the timer | `Wake`, `Cancelled`, `Admitted`, `Deferred`, `Declined`, `AdmitLost`, `AdmitIgnored` |
| `auto_retry_incomplete_stream` | `DriveBegin`, `DriveStart` |
| second delivery of a request, damaged transcript, change of session | `Redelivered`, `Poison`, `ChangeSession` |

Abstracted: delays are free; the availability of deployments and the deadline are
free choices (a deferral, or a stop). One schedule request is under way at a
time, and failures are observed in order. The configuration is read at each request,
so whether it disables recovery is a free choice there. Left out: the replies `already_scheduled` (the interface asks once per
failure) and a repeated terminal notice, the check of the pending generation that
cancelling the timer makes redundant, capacities of the gate's tables, the text of
notices, and the notice awaited in `observe_turn_finished`, which is one step
with the end of the turn.

### PromptQueue

Prompts written while a turn runs, in the interface and in the server's queue.
`items`, `paused`, `keys`, `turn`, `receipts` are the server's `_items`, `_paused`,
`_idempotency`, `_active_turn` and `_steer_receipts`; `expired` says for which turns
a missing receipt proves nothing (`_steer_replay_floor`, `_steer_evidence_lost`).
`blocks` are the interface's merged, restored and optimistic blocks with the item
each stands for, `unresolved` its unconfirmed deliveries, `known` the items it
has learned to have started, `op` the operation that holds its lock and the
request that operation waits for. `fate` and `delivered` are history.

| Step of the code | Action |
|---|---|
| `_promote_next`, end of a turn, `resume_queue`, `reset` | `Promote`, `TurnEnds`, `Resume`, `Reset` |
| `enqueue`, `replace`, `remove`, and their refusal | `Enqueue`, `Replace`, `Remove`, `Refuse` |
| `steer`, `_run_steer`, `steer_committed`, eviction of receipts | `Steer`, `SteerRuns`, `SteerAnswered`, `Prune` |
| `enqueue_prompt`, `_enqueue_merged` and the answers | `Submit`, `Created`, `CreateRefused`, `Appended`, `AppendRefused`, `AppendMissed` |
| `pop_at`, `discard_unresolved` | `Pop`, `Popped`, `PopMissed`, `Discard` |
| `steer_prepared`, `steer_pending`, retry and the answers | `SteerPrepared`, `SteerPending`, `Taken`, `TakeMissed`, `RetrySteering`, `Steered`, `SteerRejected`, `SteerUnconfirmed`, `RequeueRefused` |
| `turn_started` | `Learn`, `Settle` |

The capacity of the table of receipts is abstracted as eviction at any time.
Answers to enqueue and replace are not lost: the interface never sends these
again. Left out: edits of a prompt's text (a replacement by the same prompts),
blocks restored from the server after a reconnect, an enqueue cancelled by the
user, and the new turn id that a compaction gives a receipt.

## 3. Runs

| Run | Instance | Shows |
|---|---|---|
| `backend_lifetime` | 5 clients, 2 attempts | clients in use are open, none is forgotten, `aclose` joins |
| `session_lease` | 3 processes, 4 inodes, fair | one owner, whose lock others find; honest refusals; registry lock returned; refinement of `SessionOwner` |
| `turns` | 3 items (1 of context only), 1 start, 2 queue tasks, limit 2 | turns come one by one and own the session; an interrupt of a turn that does not fail holds the waiting items back; `TurnInv`, which the proofs rest on |
| `turn_progress` | 2 items, 1 start, 2 queue tasks, fair | interrupts settle, queues drain, no turn is active without a task |
| `turn_wedge` | 1 item, 1 start, fair | **finding**: an interrupt during a promotion leaves the session busy |
| `subagent_retask` | 1 agent, 3 launches, cap 2 | one run at a time (`WorkInv`), slots counted and backed (`SlotInv`), reservations held, one successor |
| `subagent_claim` | 2 agents, 2 launches, 1 package, cap 2 | publication exclusive to one agent of a package, released handles silent |
| `subagent_rivals` | 2 agents, 3 launches, 1 package, cap 2 | **finding**: a replacement beside a resumed run |
| `subagent_progress` | 1 agent, 2 launches, cap 1, fair | every busy state is left (`RecordsSettle`), every slot returns |
| `session_log` | 2 savers, verification every 2nd save; 2 messages with 1 edit, 1 fault and 1 crash, with 2 trims, 1 rewind and 1 fault or with 1 trim, 1 edit and 1 rewind, or 3 messages with 1 trim and 1 fault or 1 edit; fair | the cursor is true but for what was edited behind its back, what was reported durable stays, originals of trimmed messages are on disk, no trimmed copy is written, the transcript catches up |
| `root_recovery` | 3 turns, 1 retry, 1 deferral, 1 surprise, fair | continuations share a budget, input stops them, no failure stays unanswered |
| `prompt_queue` | 3 prompts, 3 turns, 2 deliveries | an accepted prompt is given to the model once, or waits |

Bounds. Five clients let two attempts overlap with a reload and a write and
leave a retired client besides. Three processes are a holder, one that opened
the file and one that comes after the unlink, and with four inodes a new file
can always be created. A turn that ends, one that is promoted by its driver or by
a queue task, and an item that still waits or carries context only are the
parties of every race at the queue; with a limit of two the third is refused or
comes later. Three launches on one agent are enough for a
run, its replacement or resume, and a third caller that interferes with the
handoff between them; two agents with one package give a rival. The number of
resumes, suspended records and concurrent recoveries is bounded by the same
constants the code has. Two savers let one wait behind the other with an older
snapshot, and with verification every second save one that goes by the cursor is
followed by one that verifies; with two seals the second starts from trimmed
messages, and of two messages one can lie before and one behind the boundary. The
behaviours have one of five budgets (`Budgets`): edits and crashes; trims and
rewinds; a third message, so that a write can fail behind a sealed prefix; a third
message and an edit, of a sealed message or of one behind the seal; and an edit with
a trim and a rewind, which reads the sealed messages back without the edit. Each is
spent in every order with saves. A budget of one retry is exhausted by the second failure of three
turns; a surprise is one input action, one lost or repeated request, one damaged
transcript or one change of session, and every interleaving of it with the rest
is explored. Three prompts make a block of two with another beside it, three
turns put a delivery before, in and after its turn, and two deliveries let one
be retried while the next is made. Symmetry is used in safety runs only, over
launches, agents, queue items and prompts, which the specifications never order.

Fairness (`FairSpec`). The event loop runs whatever is ready: launches whose
awaited run is done, admissions, acknowledgments, monitors, done callbacks and
unwind tasks are weakly fair. That a turn reaches its end is assumed of the
agent loop: the provider calls under it have timeouts. Nothing requires a
caller to launch, cancel or release anything, and leaving a join early is fair
only once the joined run is done. For the lease, a process that has the
registry lock makes its next system call or dies; nobody has to acquire, to
release or to be served. For turns, ready tasks run (weak fairness), the queue
lock serves its waiters in turn (strong fairness of taking it: `asyncio.Lock`
is first in first out), a pending response is sent, and shell and
lifecycle operations end; no client has to ask for anything. For the session log
the worker threads end and the loop goes on (`LockStep`, `WorkerStep`, `LoopStep`
and `MainStep`), a turn saves again and again (`SaveBegin`), and a dead process is
started again if its session can be loaded; writes may fail as often as the
budget says. For recovery the gate answers, notices are delivered or given up,
and timers fire (`GateStep`, `ClientStep`); nothing makes turns start or end, or
the user act.

Deadlock is checked in the runs of `BackendLifetime`, `SessionLease` and
`SubagentLifecycle`, where `Finished` and `Quiescent` are the states in which the
system may stop. The other systems may stop whenever their clients ask for nothing
more and the bounded items, turns and messages are used up, or, in `SessionLog`,
when a crash left a transcript that cannot be loaded, so there deadlock says
nothing; the liveness properties say that no work is left then.

Each property has a mutant in `PROJECT.json`: a plausible defect of the code
(a definition marked "Defect" next to the one it replaces) that TLC refutes.

## 4. Findings

`InterruptSettles` with snapshots (`turn_wedge`). While the driver of a turn is
suspended in the queue notification of `_promote_next`, the promoted turn is the
active turn and that driver still the active task. `interrupt` cancels the driver,
whose `abort` returns early because there is an active task: the turn stays
active and reserved, with nobody to end it. `PROJECT.json` quotes the statement
it contradicts. The theorem `Backed` says that snapshots are the only way to it.

`NoRivalSuccessor` (`subagent_rivals`). A claim names an agent whose latest run
failed. While that agent is being resumed it has no current run yet, and the
failed run is still its latest, so the claim is admitted; `invalidate_locked`
clears `pending_resume`, but nothing on the rest of the resume's way looks at it.
The replacement and the resumed run then work side by side. If the resume fails
instead, its undo is skipped, since the pending operation is not its own any more,
and the record stays `RESTORING`.

Some things the code does are weaker than one might expect, and the properties
are stated so as to allow for them:

- a rollback in mid turn passes `whole_turn_active=False` and so closes
  unborrowed clients that were retired under the turn's protection; `InUseOpen`
  speaks of the active, borrowed and restorable clients;
- `_reserve_suspended_locked` adds a slot without a cap check;
  `AdmittedWithinCap` leaves such replacements out;
- a configuration write whose commit raises after publication closes its client
  twice: the rollback closes it, and the `finally` retires it again, since it is
  not active. `NoLeak` and `CloseJoins` ask that it is closed;
- `handoff` resets `slot.transferred`, so that a first launching call which is
  still acknowledging discards the slot of the replacement; `SlotInv` speaks of
  the slots a run's own record holds;
- a revoked writer may not notify, and its monitor returns before the completion
  transition, so that its record stays finalizing; `RecordsSettle` is checked
  without work packages;
- a superseded record may stay restoring (the second finding), so `RestoringBacked`
  leaves it out, and `RecordsSettle` is checked without claims;
- a promotion is spawned after the response only, a retried enqueue spawns none,
  and a promotion that finds the session reserved is given up, while the end of
  a shell command or lifecycle operation promotes nothing. An item may thus wait
  in an idle session until another queue request; `QueueDrains` is checked
  without lost responses and shell commands;
- an interrupted turn whose finalization raises, and one that is interrupted while
  a failed finalization is being recovered, end as failed, and `_run_turn` (1272 to
  1314) then promotes the next waiting item. ADR 0009 (254) says "An interrupted turn
  preserves the remaining items and pauses automatic draining." without exception;
  `InterruptHolds` excepts the turns that end so (`EndsFailed`), and no others;
- a late tool result replaces its placeholder without telling the logger, and a
  recorded tool call gets other arguments, its presentation or its clock in the same
  way (`agent_loop_hooks.py` 432 to 447, `_transcript_recorder.py` 243 to 266). After
  a save in the middle of a turn, or when a call id comes again, the file has such a
  message as it was until the periodic verification. `Persists`, and so `CursorTrue`,
  allows it for these messages (`swapped`), and `CatchesUp` waits for the
  verification;
- an edit of a sealed message is on no trimmed copy's record, so from then on each full
  verification finds the archive unavailable and nothing is saved by it, until a
  restart, which drops the edit, or a rewind (`EditedArchive` in `CatchesUp`;
  `session_logger.py` 2501 to 2532, 2597 to 2603). The code calls this an
  authority-state failure that a restart recovers, and so it does;
- an append cut short behind a sealed prefix makes the archive unavailable and
  every later save refused until a restart (`TornArchive`);
- an in-place rewind whose save meets a full disk keeps the shorter list and says
  nothing; a list a rewind left empty is not saved before its first message; and
  after a rewind of a trimmed session the logger's descriptor has a stale epoch,
  so that later post-turn seals are refused;
- a crash between quarantine and rewrite leaves no transcript but the one set
  aside, which the loader does not read (`Durable` counts it, `Restart` needs a
  transcript);
- the recovery gate tells of an episode's end before it ends it. An admission that
  arrives then is granted, the continuation it starts is forgotten with the
  episode, and its failure gets a fresh budget (`Forgets`); `BudgetShared` counts
  from there;
- of two failures that are recovered at once the second continuation gives way
  without a word, because `begin_retry` refuses it (`GivesWay`);
- a continuation whose key no longer belongs to a live episode starts as a turn
  of its own.

## 5. Proofs

`BackendLifetimeProofs` proves, for every set of clients and every finite set
of attempts (`BackendAssumption`):

- `Typing`: `Spec => []TypeOK`;
- `Invariance`: `Spec => []SafeInv`;
- `Safety`: `Spec => []InUseOpen`;
- `Custody`: `Spec => []CustodyInv`;
- `NothingLeaks`: `Spec => []NoLeak`;
- `JoinsCloses`: `Spec => CloseJoins`.

`InUseOpen` alone is not inductive. A rollback makes the previous client of a
publication active again, so one needs that no two publications have the same
previous client and that none is retired (`PublicationChain`); that the
attempt holds the replacement it published (`AttemptsInTurn`), so that draining
spares it; that a client prepared by a write is in nobody else's hands
(`PreparedApart`); and that a client not built yet is untouched
(`BuiltFirst`). `SafeInv` is their conjunction. The proof goes through
footprint lemmas: each action changes `retired` and `exits` only as `Retire` and
`Drain` do, these close nothing that is borrowed, and they touch at most one
client that was not retired before.

`NoLeak` needs the other direction: what an action does not close it keeps
where `aclose` finds it. `CustodyInv` adds to `SafeInv` and `NoLeak` that the
replacement of an unsettled publication is active, retired, closed, or the
previous client of a later publication (`Replaced`), since its rollback retires
nothing else; and that a client which waits for its close was not closed before
(`RetiredOpen`), which is `CloseJoins` one step earlier. There is one lemma per
action for what it keeps. TLC checks `CustodyInv`, with `SafeInv` in it, in
`backend_lifetime`.

`SessionLeaseProofs` proves, for every set of processes and inodes
(`LeaseAssumption`: the null value is neither):

- `LeaseInvariance`: `Spec => []LeaseInv`;
- `Exclusion`: `Spec => []MutualExclusion`;
- `Visibility`: `Spec => []HolderVisible`;
- `HonestRefusal`: `Spec => RefusedOnlyIfHeld`;
- `Ownership`: `Spec => ProvidesOwnership`, the refinement of `SessionOwner`.

Mutual exclusion alone is not inductive, since two processes could hold flocks
on two inodes. `LeaseInv` says that there are no two: every open descriptor is
of the file at the path (`Descriptors`), the flocks are those of the processes
in a locked phase (`LocksOwned`), and when a file is about to be unlinked
nobody has its flock (`UnlinkedFree`). All rest on the registry lock being with
the one process in a guarded phase (`RegistryHeld`). Two holders would then have
the same flock. There is one lemma per action; the refinement needs that the
step which grants the lease starts from no holder (`GrantStep`).

`RootRecoveryProofs` proves, for every number of turns, retries, deferrals and
surprises (`RecoveryAssumption`: they are natural numbers):

- `Attempts`: `Spec => []BudgetInv`, with the typing of the state;
- `Budget`: `Spec => []BudgetShared`;
- `InputFirst`: `Spec => InputWins`.

`BudgetShared` is a statement about the past, `chain`, that the code keeps nothing
of; the gate only has the counts of its episodes. `ChainCount` relates the two: the
last continuation of an episode is no longer a chain than the episode has counted.
It is of use only if that continuation, should it fail, finds this episode again
(`Linkage`), and a continuation is linked only if its episode still waits for it
(`Granted`). Both rest on an attempt being in one place: in the answer to its
schedule, at the timer, or in a task that is about to start it (`OneToken`). While
it is there the episode's last continuation is the very failure that is retried
(`TokenWaits`), so nothing is lost when the next continuation takes its place, and
an episode that is being ended on request of the interface or of a schedule has no
attempt under way (`DoomedQuiet`). A turn that may yet be scheduled (`Open`) is
neither an episode's first failure nor the one it retries (`EpisodesClosed`), so a
new episode overwrites none. Most steps create no attempt and only close turns;
`CalmStep` deals with all of these at once, and the steps that move an attempt
(`Scheduled`, `Admitted`, `DriveBegin`), create one (`ScheduleAccepted`) or use it
up (`DriveStart`, `Wake`, input) have lemmas of their own. `InputFirst` needs
besides that what was observed of a failure stays known wherever it is asked about
(`InputInv`), and that the timer that asks has the generation of now (`Asking`).

`TurnControllerProofs` proves, for every number of items, starts and queue tasks
and every choice of what the environment does (`TurnAssumption`):

- `Invariance`: `Spec => []TurnInv`, with the typing of the state;
- `Sequential`: `Spec => []OneByOne`;
- `Owned`: `Spec => []ExecutionOwned`;
- `Holds`: `Spec => InterruptHolds`;
- `Backed`: `Spec => []TurnBacked`, if clients take no snapshots.

Two turns under way would both be the controller's active task (`ActiveRuns`). To
preserve that, one has to know that a turn which gets its driver finds none: a
pending start has no task beside it (`StartPending`), and a promoted item whose
promoter is still in the queue notification has that promoter as the holder of the
queue lock and nobody else as the active task (`LockHeld`, `PromotionHeld`). The
reservation stays with a turn until its idle status (`Reserved`) and with an operation
until its end (`OtherReserved`). An item in the queue was not promoted before
(`ItemsWait`). `InterruptHolds` needs the reasons why nothing can be promoted
(`HoldBacked`): for each interrupted turn behind which items wait, the queue is paused,
or the turn's own task is still there and pauses it at its end, or the turn is wedged
and keeps the reservation for ever; or it has failed although it was interrupted
(`EndsFailed`), and then the property claims nothing for it.

`SubagentLifecycleProofs` proves, for every number of agents, launches and packages
and all capacities (`LifecycleAssumption`):

- `Registry`: `Spec => []RegistryInv`, of which the others are conjuncts;
- `Types`, `Work`, `SingleFlight`, `Silence`, `Exclusive`, `Backed`: `TypeOK`, `WorkInv`,
  `SingleSuccessor`, `ReleasedSilent`, `PackageExclusive` and `RestoringBacked` are
  invariant.

None of them is inductive alone, since every operation leaves the lock in the middle
and relies on what it finds when it comes back. `RegistryInv` says on what. A launch
that restores or prepares an agent is alone with it until the record is released
(`RestoringAlone`, `PreparingAlone`); released is a state that nothing leaves, so the
launches that were on their way fail. A record's reservation belongs to the launch
that joins its last run (`ReservedJoins`), so that only this launch may take the next
step. An agent's current run is at work (`CurrentWorks`) and a write token is that of
a current run, of the record's package (`TokensCurrent`): revoking the tokens of the
package's agents revokes all there are. For `SingleSuccessor`, `latest` moves only to
newly accepted runs, so an accepted resume is never again preceded by the run it
continued (`LatestAccepted`), and one that is not accepted yet is the pending operation
of its record (`PendingOnWay`). There is one lemma per action, with one step per
conjunct.

`SubagentSlotProofs` proves, under the same assumption:

- `Slots`: `Spec => [](SlotOwnership /\ AdmittedWithinCap)`;
- `Reservation`: `Spec => []ReservationHeld`;
- `SlotCount`: `Spec => []SlotInv`.

A slot is allocated by one launch and given up by whoever comes last of four: the
launching call, the handoff to the monitor, the monitor, and the callback of the
child's task. Replacements pass it on meanwhile, and what tells the parties apart is
the flag `transferred`. `SlotOwnership` says whose each slot is. It is that of the
launch that allocated it, or of a run that replaced that launch's run (`SlotChain`).
The flag is set while a run works, and clear while a replacement prepares to use the
slot (`FlagsTrue`), so the monitor that ends meanwhile gives nothing up. A launch that
joins a run owns its agent's reservation until the agent is released
(`JoiningOwned`), waits for the only work there is (`JoinsWork`), and
`ReservationHeld` and `ReservedStands` keep the slot counted for it. A slot that
waits for a cancelled child has no other user (`LingeringSpent`). Then each counted slot
has somebody who will give it up (`SlotUsed`, `SlotsCounted`), where a joining launch
counts only by its reservation, which is stronger than `SlotBacked`. The cap needs
counting: only an admission adds to the set it bounds, after comparing its size.

Most actions change no slot at all, some only allocate, give up, or end a run:
`Still`, `Allocates`, `GivesUp` and `RunEnds` name these steps, each with one lemma
for the whole of `SlotOwnership`. The rest (reserving, joining, leaving a join,
restoring, accepting, and the ends of acknowledgement and child task) have lemmas of
their own.

`PromptQueueProofs` proves, for every set of prompts and any bounds on turns and
steers (`QueueAssumption`):

- `Whereabouts`: `Spec => []QueueInv`;
- `Once`: `Spec => []DeliveredOnce`;
- `Held`: `Spec => []NothingLost`.

Both properties count what was given to the model, and both need to know where a
prompt is before that. `QueueInv` names the places: an item of the server, a block of
the interface that has no item and gets none, a delivery, a receipt that still runs,
or the operation under way (`InItem` to `InOp`). A prompt is in one of them at most,
the delivery's own receipt apart (`PlacesApart`, and `ItemsDisjoint`, `BlocksDisjoint`,
`DeliveriesDisjoint` within one kind), no turn has taken it while it is there
(`PlacesFresh`; a delivery that was committed without the interface knowing it may
stay, but is not `Undecided` any more), and an accepted one is in one of them or was
delivered (`PromptsHeld`).

The interface edits its blocks, the server its items, and each replacement sends the
whole content. So a block must say what its item has (`BlocksBacked`), except while an
answer is there that the interface has not applied: `Changed` and `Removed` say what
the item has in that window. A block whose item became a turn may stay until the
interface learns it, and then all its prompts were delivered. New items never get the
id of an old one (`ItemsApart`, `BlocksApart`), nor a prompt the key of another
(`KeysSpent`); without the latter an enqueue would be taken for a repetition and its
prompt lost. For steering, a rejected delivery may be put back in the queue only if it
cannot be committed afterwards: that takes `ReceiptsTrue`, and `Open`, which says which
deliveries the server may still commit. An evicted receipt of an ended turn leaves its
delivery neither open nor rejected, which is why `steer_committed` must answer that it
does not know. There is one lemma per action; each first says what the action does to
the places of a prompt and then takes the conjuncts in turn. The lemmas about
sequences (`TailItems`, `AppendItems`, `RewrittenItems`, `WithoutItems`) let all of
them speak of the set of items instead of places in the queue.

`SessionLogProofs` proves, for every set of savers, any budgets and any interval of
verification (`LogAssumption`):

- `Agreement`: `Spec => []LogInv`;
- `Typing`: `Spec => []TypeOK`;
- `Backed`: `Spec => []TrimBacked`;
- `Originals`: `Spec => []OriginalsOnly`;
- `Copies`: `Spec => []CopyInv`;
- `CursorHolds`: `Spec => []CursorTrue`;
- `Lasting`: `Spec => []Durable`.

What is sealed is written down in four places that change at different moments: the
list with its descriptor, the logger's descriptor, the snapshots that wait for the
save lock, and the files. `LogInv` says that they agree. A list's trimmed messages are
among those its descriptor covers, and the descriptor's records are the originals of
these messages (`ListSealed`, `SealShared`); the transcript starts with those records
(`FileSealed`). A snapshot goes with the descriptor of its moment (`SnapshotSealed`):
if its generation is still the logger's, that is the one there is now, and so it is
for every snapshot that a worker writes, because older ones are discarded under the
lock and the next trim waits for the lock. Until it is published, a seal works on a
list that does not change (`SealTrue`); a rewind gives the descriptor up and keeps the
whole list aside for its undo (`RewindTrue`). That an incremental append has no
trimmed copy is not in any of these: it needs that a cursor counts at least what is
sealed, and to keep that true, that the file has as many lines as the cursor or the
snapshot whose metadata is being written (`Lengths`).

There is a lemma for each kind of step, `WorkerMoves`, `GoesIdle`, `TakesUp`,
`ListMoves` and `ListTaken`, and one for each action, which says of which kind it is;
`Publish`, `Crash` and `Restart` are of no kind. `WantedItems`, `TailOriginal` and
`LeavesOriginal` say what a save wants, appends and leaves when it fails.

`CursorTrue` and `Durable` are about copies of a message: in the list, in every
snapshot that waits, in the transcript, and by count in two cursors, the logger's and
the one that the worker was given. `CopyInv` says how far the copies agree. A snapshot
of the logger's generation is still the start of the list, except for messages
replaced or edited since it was taken, all of them in `swapped`; of two snapshots in the lock's
queue the later has all of the first that is still in the list and no older copy of it
(`OrderTrue`). So when the first is written and its worker read the whole file, the
messages it takes out of `swapped` are those the later one has right as well, and what
it reports durable is in the later one, which will replace it. The worker's cursor is
the logger's unless the list was invalidated, and then the logger has none
(`CursorsTrue`); what has been written are the messages of the snapshot, and while its
generation is the logger's each is as it is in memory, `swapped` apart
(`WrittenTrue`); what is durable is in each snapshot that may still be written, and in
the list a rewind keeps aside (`AckedTrue`). A partial append is a start of the
complete one (`Cut`), longer than the file was, so it either has another size than the
cursor names or says what the cursor says (`LeavesSpeak`); here the sizes must tell a
record cut short from a whole one (`SizeExact`). A save behind a seal writes the sealed
records from the file and not from memory; that these are the records of the list's
messages is one part of it (`RecordsTrue`), and that they are as the messages are now
is what the worker compares (`ArchiveFails`) before it writes. The proof takes
`LogInv` for granted and has the same shape: a lemma for each kind of step
(`CopyWorks`, `CopyIdle`, `CopyTakes`, `ListCopies`, `TakenCopies`, `InstallCopies`)
and one for each action or group of actions.

Only model-checked: liveness, `FailureAnswered` of `RootRecovery` included (TLAPS does
not reason about fairness here).

## 6. Not modelled, and what comes next

`RunResults` (waits, leases, expiry, collected markers, on top of publication and
purge), the execution gate with its permits and the interaction broker, the
controller that resumes subagents by itself, root generation change and drain,
background jobs. They have state that several coroutines change and are within
reach of TLC. Not within reach, or without a state machine worth checking: what
models and tools answer, wire formats, rendering, configuration parsing, and the
text of messages.
