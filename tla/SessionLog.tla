----------------------------- MODULE SessionLog -----------------------------
(***************************************************************************)
(* The transcript of one session, in memory and on disk                    *)
(* (chartreux/core/session/session_logger.py, session_loader.py,           *)
(* transcript_archive.py, chartreux/core/message_list.py,                  *)
(* chartreux/core/rewind/manager.py, chartreux/core/compaction/manager.py, *)
(* chartreux/utils/durable_io.py).                                         *)
(*                                                                         *)
(* The agent loop's message list is saved by any number of tasks.  A save  *)
(* takes its snapshot at once, waits for the save lock and hands the       *)
(* writing to a worker thread: the transcript first, the metadata after    *)
(* it.  A cursor lets a save append the tail without reading the file.     *)
(* Compaction seals a prefix of the file and then drops the payloads of    *)
(* those messages from memory, so from then on the file is their only      *)
(* copy.  A write may fail half way, and the process may die at any time.  *)
(*                                                                         *)
(* A message is a settled exchange: its content is its identity, its kind  *)
(* and its stamp: whether its object was changed in place, by the duration *)
(* of its turn or by an edit of a tool call it holds.  That happens to a   *)
(* message once at most.  All records have one size, the worst case for a  *)
(* check of the file's size.                                               *)
(***************************************************************************)
EXTENDS Naturals, FiniteSets, SequencesExt

CONSTANTS
    Savers,          \* tasks that call save_interaction
    VerifyInterval,  \* TRANSCRIPT_VERIFY_INTERVAL
    Budgets,         \* how often the Kinds may happen together: each behaviour is
                     \* bounded by one of these; each message ever created is a
                     \* "message", whatever its shape; a write that fails and a
                     \* save that is cancelled are both a "fault"
    None

Main == "main"       \* the flow that compacts and rewinds, one at a time
Tasks == Savers \cup {Main}
Shapes == {"message", "placeholder", "boundary"}
Kinds == Shapes \cup {"edit", "rewind", "trim", "fault", "crash"}

\* The lines of the transcript, one of which may be cut short, and what the
\* logger knows of a sealed prefix.
Torn == [id |-> 0, kind |-> "torn", stamp |-> FALSE, trim |-> FALSE]
Lines == [id : Nat, kind : Shapes \cup {"result"}, stamp : BOOLEAN, trim : BOOLEAN]
           \cup {Torn}
Seals == [epoch : Nat, count : Nat, recs : Seq(Lines), boundary : Nat]

ASSUME LogAssumption ==
    /\ Main \notin Savers /\ None \notin Savers \cup Seq(Lines) \cup Seals
    /\ VerifyInterval \in Nat \ {0}
    /\ Budgets \subseteq [Kinds -> Nat]

VARIABLES
    live,     \* MessageList._data without the system prompt
    epoch,    \* MessageList._message_epoch
    owned,    \* MessageList._archive_descriptor
    stamped,  \* messages whose object was changed in place
    fresh,    \* the next message
    disk,     \* messages.jsonl
    meta,     \* meta.json: total_messages and last_message_fingerprint
    kept,     \* messages.jsonl.corrupt-*
    cursor,   \* _transcript_cursor
    since,    \* _transcript_saves_since_verify
    gen,      \* _transcript_cursor_generation
    descr,    \* _archive_descriptor
    trimmed,  \* _trim_published_boundaries
    queue,    \* _save_lock: its holder and then those who wait, in order
    job,      \* what each task is doing
    used,     \* how often each of Kinds happened
    acked,    \* history: messages a completed save reported durable
    swapped   \* history: messages replaced or changed in place since the last
              \* verify, without a word to the logger

list == <<live, epoch, owned, stamped, fresh>>
files == <<disk, meta, kept>>
log == <<cursor, since, gen, descr, trimmed>>
vars == <<list, files, log, queue, job, used, acked, swapped>>

-----------------------------------------------------------------------------
(* Messages, records and files *)

Entry(i, k) == [id |-> i, kind |-> k, trim |-> FALSE]
Record(e) == [id |-> e.id, kind |-> e.kind, stamp |-> e.id \in stamped,
              trim |-> e.trim]
Records(s) == [i \in DOMAIN s |-> Record(s[i])]

Content(f) == IF f = None THEN <<>> ELSE f
Ids(s) == {s[i].id : i \in DOMAIN s} \ {0}
Marked(s) == \E i \in DOMAIN s : s[i].trim
Size(f) == IF f = None THEN <<>>
           ELSE <<Len(f), Cardinality({i \in DOMAIN f : f[i] = Torn})>>
Before(s, i) == SubSeq(s, 1, i)
After(s, i) == SubSeq(s, i + 1, Len(s))

\* What a final record cut short leaves of the file, and whether the rest loads.
Recovered(f) == IF f # <<>> /\ Last(f) = Torn THEN Front(f) ELSE f
Loadable ==
    /\ disk # None /\ meta # None
    /\ Torn \notin ToSet(Recovered(disk))
    /\ Recovered(disk) # <<>> \/ (disk = <<>> /\ meta.total = 0)

\* eligible_archive_prefix: all that settled before the newest boundary.
IsBoundary(e) == e.kind = "boundary"
Boundary(s) == SelectLastInSeq(s, IsBoundary)
Eligible(s) == IF Boundary(s) = 0 THEN 0 ELSE Boundary(s) - 1

\* ArchiveSaveSnapshot.is_authoritative, for the list as it is now.
Authority == IF descr # None /\ descr.epoch = epoch THEN descr ELSE None

-----------------------------------------------------------------------------
(* Tasks and the save lock *)

Idle == [op |-> "idle", pc |-> "idle", gen |-> 0, msgs |-> <<>>, auth |-> None,
         empty |-> FALSE, cursor |-> None, since |-> 0, full |-> FALSE,
         digest |-> None, plan |-> None, orig |-> <<>>]

Snapshot(op, pc) == [Idle EXCEPT !.op = op, !.pc = pc, !.gen = gen,
                                 !.msgs = live, !.auth = Authority]

Holds(t) == queue # <<>> /\ Head(queue) = t
At(t, pc) == job[t].pc = pc
Goto(t, pc) == job' = [job EXCEPT ![t].pc = pc]
Leave(t) ==
    \/ ~Contains(queue, t) /\ UNCHANGED queue
    \/ \E n \in DOMAIN queue : queue[n] = t /\ queue' = RemoveAt(queue, n)
Release(t) == queue' = Tail(queue) /\ job' = [job EXCEPT ![t] = Idle]
Spend(K) ==
    /\ used' = [k \in Kinds |-> IF k \in K THEN used[k] + 1 ELSE used[k]]
    /\ \E b \in Budgets : \A k \in Kinds : used'[k] <= b[k]
Quiet == At(Main, "idle")
Down == At(Main, "down")    \* the process is dead

Init ==
    /\ live = <<>> /\ epoch = 0 /\ owned = None /\ stamped = {} /\ fresh = 1
    /\ disk = None /\ meta = None /\ kept = {}
    /\ cursor = None /\ since = 0 /\ gen = 0 /\ descr = None /\ trimmed = {}
    /\ queue = <<>> /\ job = [t \in Tasks |-> Idle]
    /\ used = [k \in Kinds |-> 0]
    /\ acked = {} /\ swapped = {}

\* invalidate_transcript_cursor: appending needs a new proof, and saves whose
\* snapshot is older write nothing any more.
Invalidate == gen' = gen + 1 /\ cursor' = None /\ since' = 0

-----------------------------------------------------------------------------
(* The agent loop changes the list; it does not while it compacts or rewinds. *)

AppendMessage(k) ==
    /\ Quiet /\ Spend({"message", k})
    /\ live' = Append(live, Entry(fresh, k)) /\ fresh' = fresh + 1
    /\ UNCHANGED <<epoch, owned, stamped, files, log, queue, job, acked, swapped>>

\* A late tool result, or the placeholder for one that never came, goes to its
\* place after the call, before what was said since.
InsertMessage(i) ==
    /\ Quiet /\ Spend({"message", "edit"})
    /\ i > (IF owned = None THEN 0 ELSE owned.count)
    /\ Invalidate
    /\ live' = InsertAt(live, i, Entry(fresh, "message")) /\ fresh' = fresh + 1
    /\ UNCHANGED <<epoch, owned, stamped, files, descr, trimmed, queue, job,
                   acked, swapped>>

\* The result that arrives after all replaces its placeholder.  Nothing tells
\* the logger.
ReplacePlaceholder(i) ==
    /\ Quiet /\ live[i].kind = "placeholder" /\ ~live[i].trim /\ Spend({"edit"})
    /\ live' = [live EXCEPT ![i].kind = "result"]
    /\ swapped' = swapped \cup {live[i].id}
    /\ UNCHANGED <<epoch, owned, stamped, fresh, files, log, queue, job, acked>>

\* Defect: the logger is not told.
StampTimingSilent(i) ==
    /\ Quiet /\ live[i].id \notin stamped /\ Spend({"edit"})
    /\ stamped' = stamped \cup {live[i].id}
    /\ UNCHANGED <<live, epoch, owned, fresh, files, log, queue, job, acked,
                   swapped>>

\* The turn's duration is written into its last answer, an object that the
\* snapshots of saves under way share, and its trimmed copy too if it has one.
StampTiming(i) ==
    /\ Quiet /\ live[i].id \notin stamped /\ Spend({"edit"})
    /\ stamped' = stamped \cup {live[i].id}
    /\ Invalidate
    /\ UNCHANGED <<live, epoch, owned, fresh, files, descr, trimmed, queue, job,
                   acked, swapped>>

\* A recorded tool call gets other arguments from a hook, its presentation or its
\* clock (_patch_assistant_tool_call_args, record_presentation and
\* record_call_clock).  It is found by an id that the model may have used before,
\* so it may be in any message, a sealed one included.  Nothing tells the logger.
EditCall(i) ==
    /\ Quiet /\ live[i].id \notin stamped /\ Spend({"edit"})
    /\ stamped' = stamped \cup {live[i].id}
    /\ swapped' = swapped \cup {live[i].id}
    /\ UNCHANGED <<live, epoch, owned, fresh, files, log, queue, job, acked>>

-----------------------------------------------------------------------------
(* save_interaction *)

\* The snapshot; a list with trimmed messages needs the authority for them.
SaveBegin(t) ==
    /\ At(t, "idle") /\ live # <<>>
    /\ Marked(live) => Authority # None
    /\ job' = [job EXCEPT ![t] = Snapshot("save", "queued")]
    /\ queue' = Append(queue, t)
    /\ UNCHANGED <<list, files, log, used, acked, swapped>>

\* Under the lock, a snapshot from before an invalidation is discarded.
SaveDiscard(t) ==
    /\ Holds(t) /\ At(t, "queued") /\ job[t].op = "save" /\ job[t].gen # gen
    /\ Release(t)
    /\ UNCHANGED <<list, files, log, used, acked, swapped>>

\* Defect: the save starts without waiting for the lock.
LockGrantedEarly(t) ==
    /\ At(t, "queued") /\ job[t].op # "drain"
    /\ job[t].gen = gen /\ (job[t].op = "seal" => descr = job[t].auth)
    /\ job' = [job EXCEPT ![t].pc = "write", ![t].cursor = cursor,
                          ![t].since = since]
    /\ UNCHANGED <<list, files, log, queue, used, acked, swapped>>

\* A seal also needs the authority it was planned from.
LockGranted(t) ==
    /\ Holds(t) /\ At(t, "queued") /\ job[t].op # "drain"
    /\ job[t].gen = gen /\ (job[t].op = "seal" => descr = job[t].auth)
    /\ job' = [job EXCEPT ![t].pc = "write", ![t].cursor = cursor,
                          ![t].since = since]
    /\ UNCHANGED <<list, files, log, queue, used, acked, swapped>>

-----------------------------------------------------------------------------
(* The worker thread: _save_interaction_sync *)

\* The cursor saves reading the file while nothing speaks against it.
Incremental(t) ==
    LET j == job[t] IN
    /\ j.cursor # None /\ ~j.empty
    /\ j.since + 1 < VerifyInterval
    /\ Size(disk) = j.cursor.size
    /\ Len(j.msgs) >= j.cursor.count
    /\ IF j.cursor.count = 0 THEN j.cursor.digest = None
       ELSE j.cursor.digest = Record(j.msgs[j.cursor.count])

\* Defect: the sealed messages are written from memory.
WantedFromMemory(t) == Records(job[t].msgs)

\* The whole file as a save wants it: the sealed records as they are on disk.
Wanted(t) ==
    LET j == job[t] IN
    IF j.auth = None THEN Records(j.msgs)
    ELSE j.auth.recs \o Records(After(j.msgs, j.auth.count))

Tail_(t) ==
    IF Incremental(t) THEN Records(After(job[t].msgs, job[t].cursor.count))
    ELSE After(Wanted(t), Len(disk))

\* A message kept in memory is its record on disk or the declared trim of it.
Retains(r, a) == r = a \/ r = [a EXCEPT !.trim = TRUE]
ArchiveFails(t) ==
    LET j == job[t] IN
    /\ j.auth # None
    /\ \/ ~IsPrefix(j.auth.recs, Content(disk))
       \/ Torn \in ToSet(Content(disk))
       \/ \E i \in DOMAIN j.auth.recs \cap DOMAIN j.msgs :
             ~Retains(Record(j.msgs[i]), j.auth.recs[i])

Unreadable(t) == job[t].auth = None /\ Torn \in ToSet(Content(disk))
Verifies(t) == ~Incremental(t) /\ ~ArchiveFails(t) /\ ~Unreadable(t)

\* Published metadata confirms the boundary: there is nothing to write at all.
Confirmed(t) ==
    \/ Incremental(t) /\ Len(job[t].msgs) = job[t].cursor.count
    \/ /\ Verifies(t) /\ Content(disk) = Wanted(t) /\ meta # None
       /\ meta = [total |-> Len(Wanted(t)),
                  last |-> IF Wanted(t) = <<>> THEN None ELSE Last(Wanted(t))]

Appends(t) ==
    \/ Incremental(t) /\ Len(job[t].msgs) > job[t].cursor.count
    \/ Verifies(t) /\ disk # None /\ IsStrictPrefix(disk, Wanted(t))
Replaces(t) ==
    \/ At(t, "rewrite")
    \/ At(t, "write") /\ Verifies(t) /\ ~IsPrefix(Content(disk), Wanted(t))
    \/ At(t, "write") /\ Verifies(t) /\ disk = None /\ ~Confirmed(t)
Writing(t) == Holds(t) /\ job[t].pc \in {"write", "rewrite"}

\* The cursor's digest of the last message.
Digest(m) == IF m = <<>> THEN None ELSE Record(Last(m))
Move(t, pc, digest) ==
    job' = [job EXCEPT ![t].pc = pc, ![t].full = ~Incremental(t), ![t].digest = digest]

\* A full save reads the file against the messages of its snapshot.  It verifies
\* those that nobody replaced since, unless the list was invalidated meanwhile.
Unchanged(m) == {e.id : e \in ToSet(m) \cap ToSet(live)}
Checked(t) == IF job[t].gen = gen THEN swapped \ Unchanged(job[t].msgs) ELSE swapped

\* A trimmed message never reaches a file: its record is refused (pc "error").
WriteAppend(t) ==
    /\ Writing(t) /\ Appends(t)
    /\ IF Marked(Tail_(t))
       THEN Move(t, "error", None) /\ UNCHANGED <<disk, swapped>>
       ELSE /\ Move(t, "meta", Digest(job[t].msgs))
            /\ disk' = disk \o Tail_(t)
            /\ swapped' = IF Incremental(t) THEN swapped ELSE Checked(t)
    /\ UNCHANGED <<list, meta, kept, log, queue, used, acked>>

WriteReplace(t) ==
    /\ Writing(t) /\ Replaces(t)
    /\ IF Marked(Wanted(t)) THEN Goto(t, "error") /\ UNCHANGED <<disk, swapped>>
       ELSE /\ job' = [job EXCEPT ![t].pc = "meta", ![t].full = TRUE]
            /\ disk' = Wanted(t)
            /\ swapped' = Checked(t)
    /\ UNCHANGED <<list, meta, kept, log, queue, used, acked>>

WriteNothing(t) ==
    /\ Writing(t) /\ At(t, "write") /\ ~Appends(t) /\ ~Replaces(t)
    /\ Incremental(t) \/ Verifies(t)
    /\ Move(t, IF Confirmed(t) THEN "done" ELSE "meta",
             IF Incremental(t) THEN job[t].cursor.digest ELSE Digest(job[t].msgs))
    /\ swapped' = IF Incremental(t) THEN swapped ELSE Checked(t)
    /\ UNCHANGED <<list, files, log, queue, used, acked>>

\* Defect: it is not set aside but removed.
QuarantineDrops(t) ==
    /\ Writing(t) /\ At(t, "write") /\ ~Incremental(t) /\ Unreadable(t)
    /\ disk' = None
    /\ Goto(t, "rewrite")
    /\ UNCHANGED <<list, meta, kept, log, queue, used, acked, swapped>>

\* A transcript that does not parse is set aside whole before a new one is
\* written, except beside an archive.
Quarantine(t) ==
    /\ Writing(t) /\ At(t, "write") /\ ~Incremental(t) /\ Unreadable(t)
    /\ kept' = kept \cup {disk} /\ disk' = None
    /\ Goto(t, "rewrite")
    /\ UNCHANGED <<list, meta, log, queue, used, acked, swapped>>

ArchiveUnavailable(t) ==
    /\ Writing(t) /\ At(t, "write") /\ ~Incremental(t) /\ ArchiveFails(t)
    /\ Goto(t, "unavailable")
    /\ UNCHANGED <<list, files, log, queue, used, acked, swapped>>

WriteMetadata(t) ==
    /\ Holds(t) /\ At(t, "meta")
    /\ LET m == Records(job[t].msgs) IN
       meta' = [total |-> Len(m),
                last |-> IF m = <<>> THEN None ELSE Last(m)]
    /\ job' = [job EXCEPT ![t].pc = "done",
                          ![t].digest = IF job[t].full THEN Digest(job[t].msgs) ELSE @]
    /\ UNCHANGED <<list, disk, kept, log, queue, used, acked, swapped>>

\* What an append that did not complete may leave: some records, and a part of
\* the next one.
AppendLeaves(t) ==
    {disk \o Before(Tail_(t), k) : k \in 0..Len(Tail_(t))}
      \cup {disk \o Append(Before(Tail_(t), k), Torn) : k \in 0..(Len(Tail_(t)) - 1)}

\* A write fails, on a full disk or otherwise.  What was published before the
\* failure stays.
WriteFails(t) ==
    /\ Writing(t) /\ Spend({"fault"})
    /\ \/ Appends(t) /\ ~Marked(Tail_(t)) /\ disk' \in AppendLeaves(t)
       \/ Replaces(t) /\ ~Marked(Wanted(t)) /\ disk' \in {disk, Wanted(t)}
    /\ Goto(t, "failed")
    /\ UNCHANGED <<list, meta, kept, log, queue, acked, swapped>>

MetadataFails(t) ==
    /\ Holds(t) /\ At(t, "meta") /\ Spend({"fault"})
    /\ Goto(t, "failed")
    /\ UNCHANGED <<list, files, log, queue, acked, swapped>>

-----------------------------------------------------------------------------
(* Back on the event loop *)

CursorFor(t) ==
    [count |-> Len(job[t].msgs), size |-> Size(Content(disk)),
     digest |-> job[t].digest]

\* Defect: every save counts as a verification.
InstallCursorFresh(t) ==
    IF job[t].gen = gen THEN cursor' = CursorFor(t) /\ since' = 0
    ELSE UNCHANGED <<cursor, since>>

\* The worker's proof is installed unless the list was invalidated meanwhile.
InstallCursor(t) ==
    IF job[t].gen = gen
    THEN /\ cursor' = CursorFor(t)
         /\ since' = IF job[t].full THEN 0 ELSE job[t].since + 1
    ELSE UNCHANGED <<cursor, since>>

SaveDone(t) ==
    /\ Holds(t) /\ At(t, "done") /\ job[t].op \in {"save", "rewind"}
    /\ InstallCursor(t)
    /\ acked' = acked \cup (Ids(job[t].msgs) \cap Ids(live))
    /\ Release(t)
    /\ UNCHANGED <<list, files, gen, descr, trimmed, used, swapped>>

\* A full disk and an unavailable archive are reported by nothing but a log
\* line; an error reaches the caller, and a rewind then takes the list back.
SaveFailed(t) ==
    /\ Holds(t) /\ job[t].op \in {"save", "rewind"}
    /\ \/ job[t].pc \in {"failed", "unavailable"}
       \/ At(t, "error") /\ job[t].op = "save"
    /\ Release(t)
    /\ UNCHANGED <<list, files, log, used, acked, swapped>>

\* A task that is cancelled while it waits for the lock leaves the queue.  One
\* that is cancelled later keeps the lock until its worker is done.
SaveCancelled(t) ==
    /\ At(t, "queued") /\ job[t].op = "save" /\ Spend({"fault"})
    /\ Leave(t) /\ job' = [job EXCEPT ![t] = Idle]
    /\ UNCHANGED <<list, files, log, acked, swapped>>

-----------------------------------------------------------------------------
(* Rewind in place: RewindManager._rewind_legacy *)

\* complete_history: the sealed messages are read back from the file.
Hydratable == owned # None => /\ owned.epoch = epoch
                              /\ IsPrefix(owned.recs, Content(disk))
HydratedNot == live    \* Defect: the trimmed copies stay in the list.
Hydrated == [i \in DOMAIN live |-> [live[i] EXCEPT !.trim = FALSE]]

\* What is read back lacks the changes that were made in memory since the seal.
\* (A worker still busy with an older snapshot loses them here too.)
Reread == IF owned = None THEN {}
          ELSE {r.id : r \in {a \in ToSet(owned.recs) : ~a.stamp}}

\* Fence first, then the list; both happen again when the rewind fails.
ResetList(m) ==
    /\ Invalidate
    /\ live' = m /\ epoch' = epoch + 1 /\ owned' = None
    /\ UNCHANGED <<fresh, descr, trimmed>>

Rewind(i) ==
    /\ Quiet /\ Hydratable /\ Spend({"rewind"})
    /\ ResetList(Before(Hydrated, i - 1)) /\ stamped' = stamped \ Reread
    /\ acked' = acked \cap Ids(live')
    /\ job' = [job EXCEPT ![Main] =
                  [Idle EXCEPT !.op = "rewind", !.pc = "queued", !.gen = gen',
                               !.msgs = live', !.empty = TRUE,
                               !.orig = Hydrated]]
    /\ queue' = Append(queue, Main)
    /\ UNCHANGED <<files, swapped>>

RewindFailed ==
    /\ Holds(Main) /\ job[Main].op = "rewind"
    /\ job[Main].pc \in {"failed", "error"}
    /\ ResetList(job[Main].orig)
    /\ Release(Main)
    /\ UNCHANGED <<stamped, files, used, acked, swapped>>

\* The cancellation of a rewind takes the list back whatever the worker wrote.
RewindCancelled ==
    /\ job[Main].op = "rewind"
    /\ job[Main].pc \in {"queued", "done", "failed", "unavailable"}
    /\ ResetList(job[Main].orig)
    /\ Leave(Main) /\ job' = [job EXCEPT ![Main] = Idle]
    /\ UNCHANGED <<stamped, files, used, acked, swapped>>

-----------------------------------------------------------------------------
(* Sealing a prefix and trimming it in memory *)

\* The post-turn trim waits for the saves before it; the one that follows a
\* compaction does not.
PostTurnTrim ==
    /\ Quiet /\ Eligible(live) > 0 /\ Spend({"trim"})
    /\ job' = [job EXCEPT ![Main] = [Idle EXCEPT !.op = "drain", !.pc = "queued"]]
    /\ queue' = Append(queue, Main)
    /\ UNCHANGED <<list, files, log, acked, swapped>>

Drained ==
    /\ Holds(Main) /\ job[Main].op = "drain"
    /\ queue' = Tail(queue)
    /\ job' = [job EXCEPT ![Main] =
                  IF live[Boundary(live)].id \in trimmed
                       \/ (descr # None /\ descr.epoch # epoch)
                  THEN Idle ELSE Snapshot("seal", "plan")]
    /\ UNCHANGED <<list, files, log, used, acked, swapped>>

CompactionTrim ==
    /\ Quiet /\ live # <<>> /\ IsBoundary(Last(live)) /\ Spend({"trim"})
    /\ job' = [job EXCEPT ![Main] = Snapshot("seal", "plan")]
    /\ UNCHANGED <<list, files, log, queue, acked, swapped>>

\* _plan_archive_seal: what is sealed already is taken from the file, never
\* from the trimmed copies.
SealCount == Eligible(job[Main].msgs)
Sealable ==
    LET j == job[Main] IN
    /\ SealCount > 0 /\ descr = j.auth
    /\ j.auth # None => /\ j.auth.count <= SealCount
                        /\ IsPrefix(j.auth.recs, Content(disk))
Sealed ==
    LET j == job[Main]
        old == IF j.auth = None THEN <<>> ELSE j.auth.recs IN
    [epoch |-> epoch, count |-> SealCount,
     recs |-> old \o Records(SubSeq(j.msgs, Len(old) + 1, SealCount)),
     boundary |-> j.msgs[SealCount + 1].id]

SealPlan ==
    /\ job[Main].op = "seal" /\ At(Main, "plan") /\ Sealable
    /\ job' = [job EXCEPT ![Main].pc = "queued", ![Main].plan = Sealed]
    /\ queue' = Append(queue, Main)
    /\ UNCHANGED <<list, files, log, used, acked, swapped>>

\* The sealing save has run under the lock; now its bytes are read back.
SealPersisted ==
    /\ Holds(Main) /\ job[Main].op = "seal" /\ At(Main, "done")
    /\ InstallCursor(Main)
    /\ Goto(Main, "verify")
    /\ UNCHANGED <<list, files, gen, descr, trimmed, queue, used, acked, swapped>>

Verified == IsPrefix(job[Main].plan.recs, Content(disk))

\* fence_and_publish_archive_trim, in the same step as the receipt.
Publish ==
    LET p == job[Main].plan IN
    /\ Holds(Main) /\ job[Main].op = "seal" /\ At(Main, "verify") /\ Verified
    /\ p.epoch = epoch /\ Eligible(live) = p.count /\ job[Main].gen = gen
    /\ Invalidate
    /\ live' = [i \in DOMAIN live |->
                  IF i <= p.count THEN [live[i] EXCEPT !.trim = TRUE] ELSE live[i]]
    /\ owned' = p /\ descr' = p
    /\ trimmed' = trimmed \cup {p.boundary}
    /\ Release(Main)
    /\ UNCHANGED <<epoch, stamped, fresh, files, used, acked, swapped>>

\* Defect: the save lock is not given up.
SealRefusedHolding ==
    LET j == job[Main] IN
    /\ j.op = "seal"
    /\ \/ At(Main, "plan") /\ ~Sealable
       \/ At(Main, "verify") /\ ~Verified
       \/ j.pc \in {"failed", "error", "unavailable"}
    /\ job' = [job EXCEPT ![Main] = Idle]
    /\ UNCHANGED <<list, files, log, queue, used, acked, swapped>>

\* A refused or failed seal leaves the originals in memory.
SealRefused ==
    LET j == job[Main] IN
    /\ j.op = "seal"
    /\ \/ At(Main, "plan") /\ ~Sealable
       \/ At(Main, "verify") /\ ~Verified
       \/ j.pc \in {"failed", "error", "unavailable"}
    /\ Leave(Main) /\ job' = [job EXCEPT ![Main] = Idle]
    /\ UNCHANGED <<list, files, log, used, acked, swapped>>

SealCancelled ==
    /\ job[Main].op \in {"drain", "seal"}
    /\ job[Main].pc \in {"plan", "queued", "done", "verify"}
    /\ Leave(Main) /\ job' = [job EXCEPT ![Main] = Idle]
    /\ UNCHANGED <<list, files, log, used, acked, swapped>>

-----------------------------------------------------------------------------
(* The process dies, and a new one resumes the session *)

Crash ==
    /\ ~Down /\ Spend({"crash"})
    /\ \/ UNCHANGED disk
       \/ \E t \in Tasks : Writing(t) /\ Appends(t) /\ disk' \in AppendLeaves(t)
    /\ live' = <<>> /\ epoch' = 0 /\ owned' = None /\ stamped' = {}
    /\ cursor' = None /\ since' = 0 /\ gen' = 0 /\ descr' = None /\ trimmed' = {}
    /\ queue' = <<>> /\ swapped' = {}
    /\ job' = [t \in Tasks |-> IF t = Main THEN [Idle EXCEPT !.pc = "down"]
                               ELSE Idle]
    /\ UNCHANGED <<fresh, meta, kept, acked>>

\* SessionLoader.load_session: a final record cut short is left out.
Restart ==
    /\ Down /\ Loadable
    /\ Goto(Main, "idle")
    /\ live' = [i \in DOMAIN Recovered(disk) |->
                  Entry(disk[i].id, disk[i].kind)]
    /\ stamped' = {disk[i].id : i \in {j \in DOMAIN disk : disk[j].stamp}}
    /\ UNCHANGED <<epoch, owned, fresh, files, log, queue, used, acked, swapped>>

-----------------------------------------------------------------------------
LockStep(t) == SaveDiscard(t) \/ LockGranted(t)
WorkerStep(t) ==
    \/ WriteAppend(t) \/ WriteReplace(t) \/ WriteNothing(t)
    \/ Quarantine(t) \/ ArchiveUnavailable(t) \/ WriteMetadata(t)
LoopStep(t) == SaveDone(t) \/ SaveFailed(t)
MainStep == RewindFailed \/ Drained \/ SealPlan \/ SealPersisted \/ Publish
              \/ SealRefused

Next ==
    \/ \E k \in Shapes : AppendMessage(k)
    \/ \E i \in DOMAIN live : \/ InsertMessage(i) \/ ReplacePlaceholder(i)
                              \/ StampTiming(i) \/ EditCall(i) \/ Rewind(i)
    \/ \E t \in Savers : SaveBegin(t) \/ SaveCancelled(t)
    \/ \E t \in Tasks : LockStep(t) \/ WorkerStep(t) \/ LoopStep(t)
    \/ \E t \in Tasks : WriteFails(t) \/ MetadataFails(t)
    \/ MainStep \/ RewindCancelled
    \/ PostTurnTrim \/ CompactionTrim \/ SealCancelled
    \/ Crash \/ Restart

\* Worker threads end, the loop goes on, and it saves at every step of a turn.
Fairness ==
    /\ \A t \in Tasks : WF_vars(LockStep(t) \/ WorkerStep(t) \/ LoopStep(t))
    /\ WF_vars(MainStep)
    /\ \A t \in Savers : WF_vars(SaveBegin(t))
    /\ WF_vars(Restart)

Spec == Init /\ [][Next]_vars /\ Fairness

-----------------------------------------------------------------------------
(* Properties *)

Phases == {"down", "idle", "plan", "queued", "write", "rewrite", "meta", "done",
           "verify", "failed", "error", "unavailable"}

\* Only the head of the lock's queue has a worker, and every task in the queue
\* is there once.
TypeOK ==
    /\ Len(live) < fresh /\ fresh = used["message"] + 1
    /\ \A t \in Tasks : job[t].pc \in Phases
    /\ Cardinality(ToSet(queue)) = Len(queue)
    /\ \A t \in Tasks : Contains(queue, t) <=> job[t].pc \notin {"down", "idle", "plan"}
    /\ \A t \in Tasks : Holds(t) \/ job[t].pc \in {"down", "idle", "plan", "queued"}

\* On disk a message is as it is in memory, or as it was before its payload was
\* trimmed.  Where it was replaced or edited in memory since the last verify, and
\* only there, the file may have it as it was before that.
Persists(r, e) ==
    /\ r.id = e.id /\ ~r.trim
    /\ r.stamp = (e.id \in stamped) \/ e.id \in swapped
    /\ r.kind = e.kind \/ (r.kind = "placeholder" /\ e.id \in swapped)

\* While the cursor stands and the file has the size it names, the file is what
\* the cursor says: the first messages of the list, each as it is now or, if it
\* was edited behind the logger's back since the last verify, as it was.  Every
\* append without a verification relies on it (_save_interaction_sync).
CursorTrue ==
    cursor # None /\ Size(disk) = cursor.size =>
      /\ Len(disk) = cursor.count /\ cursor.count <= Len(live)
      /\ \A i \in DOMAIN disk : Persists(disk[i], live[i])

\* What a completed save reported durable is in the transcript, or, between the
\* quarantine of an unreadable transcript and its replacement, in the file set
\* aside.  No failed write, crash or restart takes it away (save_interaction).
Durable ==
    \/ acked \subseteq Ids(Content(disk))
    \/ disk = None /\ \E f \in kept : acked \subseteq Ids(f)

\* Where a message's payload was dropped from memory, the transcript has the
\* original in the same place, under the descriptor by which list and logger
\* find it (fence_and_publish_archive_trim).
TrimBacked ==
    Marked(live) =>
      /\ owned # None /\ owned = descr /\ owned.epoch = epoch
      /\ IsPrefix(owned.recs, Content(disk))
      /\ \A i \in DOMAIN live :
            live[i].trim => i <= owned.count /\ owned.recs[i].id = live[i].id

\* No file ever loses a payload to its trimmed copy, and the refusal that stands
\* against that is never needed: every save whose list has trimmed messages
\* takes them from the file (_message_record, _save_full_verify_archived).
OriginalsOnly ==
    /\ \A f \in kept \cup {Content(disk)} : ~Marked(f)
    /\ \A t \in Tasks : ~At(t, "error")

InSync == Content(disk) = [i \in DOMAIN live |->
                              [Record(live[i]) EXCEPT !.trim = FALSE]]
TornArchive == Authority # None /\ Torn \in ToSet(Content(disk))
EditedArchive ==
    /\ Authority # None
    /\ \E i \in 1..Authority.count :
          ~Retains(Record(live[i]), Authority.recs[i])

\* Once the writes succeed the transcript follows the list again, whatever had
\* failed before.  Three things wait: part of a record behind a sealed prefix,
\* for a restart; the change of a sealed message, which no record of its trimmed
\* copy may show, for a restart or a rewind; and a list a rewind left empty, for
\* its first message, as an empty list is not saved (_save_interaction_sync,
\* _verify_archived_prefix, _verify_archived_live_tail).
CatchesUp == []<>(InSync \/ TornArchive \/ EditedArchive \/ live = <<>>)
=============================================================================
