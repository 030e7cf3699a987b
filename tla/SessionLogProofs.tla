-------------------------- MODULE SessionLogProofs --------------------------
(***************************************************************************)
(* Proofs about SessionLog: whatever the savers and the budgets, a message *)
(* whose payload was dropped from memory has its original in the           *)
(* transcript (TrimBacked), no file has a trimmed copy in its place        *)
(* (OriginalsOnly), the save lock has one holder (TypeOK), the cursor      *)
(* tells the truth (CursorTrue), and what was reported durable is not      *)
(* lost (Durable).                                                         *)
(*                                                                         *)
(* None is inductive.  The invariant LogInv, for the first three, relates  *)
(* four things that are changed at different moments: the list with its    *)
(* descriptor, the logger's descriptor, the snapshots that wait for the    *)
(* lock, and the files.  What is trimmed in a list, or in a snapshot of    *)
(* it, is among the messages its descriptor covers (Covers), the           *)
(* transcript starts with the descriptor's records (FileSealed), and the   *)
(* snapshot that a worker writes goes with the descriptor there is now     *)
(* (SnapshotSealed), as snapshots from before an invalidation are          *)
(* discarded under the lock.  The proof that an append writes no trimmed   *)
(* copy needs more: a cursor counts at least what is sealed, and the file  *)
(* has as many lines as the cursor or the metadata that is being written   *)
(* says (Lengths).                                                         *)
(*                                                                         *)
(* Most actions are of a few kinds: a worker goes on (WorkerMoves), a task *)
(* goes idle (GoesIdle) or takes up a job (TakesUp), the loop changes the  *)
(* list (ListMoves), a rewind replaces it (ListTaken).  There is a lemma   *)
(* for each kind, and one per action that says of which kind it is.        *)
(*                                                                         *)
(* The invariant CopyInv, for the last two, says that the copies of a      *)
(* message agree: its identity is in a list or a file once (IdsTrue), a    *)
(* snapshot that is not from before an invalidation is still the start of  *)
(* the list, but for placeholders replaced since, and of two that wait the *)
(* later has no older copy (OrderTrue), the worker's cursor is the         *)
(* logger's (CursorsTrue), what it has written are the messages of its     *)
(* snapshot (WrittenTrue), and what is durable is in every snapshot that   *)
(* may still replace the file (AckedTrue).  A message that is edited in    *)
(* place changes in the list and in every snapshot at once, but not in a   *)
(* file or a seal; a save that reads the file writes nothing behind a seal *)
(* that has such a message as it was (ArchiveFails), and without one it    *)
(* writes what is in memory.  Its proof goes the same way, with LogInv     *)
(* assumed.                                                                *)
(***************************************************************************)
EXTENDS SessionLog, SequenceTheorems, FiniteSetTheorems, WellFoundedInduction, TLAPS

\* What the variables hold.
Messages == [id : Nat, kind : Shapes \cup {"result"}, trim : BOOLEAN]
Cursors == [count : Nat, size : Nat \X Nat, digest : Lines \cup {None}]
Jobs ==
    [op : {"idle", "save", "rewind", "drain", "seal"}, pc : Phases, gen : Nat,
     msgs : Seq(Messages), auth : Seals \cup {None}, empty : BOOLEAN,
     cursor : Cursors \cup {None}, since : Nat, full : BOOLEAN,
     digest : Lines \cup {None}, plan : Seals \cup {None}, orig : Seq(Messages)]

Typed ==
    /\ live \in Seq(Messages) /\ epoch \in Nat /\ owned \in Seals \cup {None}
    /\ fresh \in Nat /\ disk \in Seq(Lines) \cup {None} /\ kept \subseteq Seq(Lines)
    /\ cursor \in Cursors \cup {None} /\ since \in Nat /\ gen \in Nat
    /\ descr \in Seals \cup {None} /\ queue \in Seq(Tasks) /\ job \in [Tasks -> Jobs]
    /\ used \in [Kinds -> Nat]

\* A task that has the lock and a worker, or the worker's answer; and one that
\* has a snapshot of the list.
Works(t) == job[t].pc \notin {"down", "idle", "plan", "queued"}
Saves(t) == job[t].op \in {"save", "rewind", "seal"}

\* The job goes to its next phase, with the same operation and snapshot.
Goes(t, pc) ==
    \E x \in Jobs :
       /\ job' = [job EXCEPT ![t] = x]
       /\ x.op = job[t].op /\ x.gen = job[t].gen /\ x.msgs = job[t].msgs
       /\ x.auth = job[t].auth /\ x.plan = job[t].plan /\ x.orig = job[t].orig
       /\ x.cursor = job[t].cursor /\ x.pc = pc

\* Each task waits once, and only the first has the lock.
Among(t) == \E n \in DOMAIN queue : queue[n] = t
Apart == \A m, n \in DOMAIN queue : queue[m] = queue[n] => m = n
QueueTrue ==
    /\ Apart
    /\ \A t \in Tasks : Among(t) <=> job[t].pc \notin {"down", "idle", "plan"}
    /\ \A t \in Tasks : Works(t) => Holds(t)

\* Which steps an operation has.  No worker ever refuses a record, and none sets a
\* transcript aside that has an archive.
StepsTrue ==
    /\ \A t \in Savers : job[t].op \in {"idle", "save"}
    /\ job[Main].op # "save"
    /\ \A t \in Tasks :
          /\ job[t].op = "idle" <=> job[t].pc \in {"down", "idle"}
          /\ job[t].op = "drain" => job[t].pc = "queued"
          /\ job[t].pc \in {"plan", "verify"} => job[t].op = "seal"
          /\ job[t].pc # "error"
          /\ job[t].pc = "rewrite" => job[t].auth = None
    /\ \A t \in Savers : job[t].pc # "down"
    /\ Down => live = <<>> /\ owned = None /\ \A t \in Savers : At(t, "idle")

\* Nothing is longer than what was said, and a cursor counts what the file had.
Counted(c) == c # None => c.size[1] = c.count
Lengths ==
    /\ fresh = used["message"] + 1
    /\ Len(live) < fresh /\ Len(Content(disk)) < fresh
    /\ Counted(cursor)
    /\ \A t \in Tasks :
          /\ Len(job[t].msgs) < fresh /\ Len(job[t].orig) < fresh
          /\ Counted(job[t].cursor)
          /\ job[t].pc \in {"meta", "done"} => Len(Content(disk)) = Len(job[t].msgs)

\* A descriptor has the originals, the trimmed messages of a list are among those
\* it describes, and it describes the messages at these places.
Whole(d) == d # None => Len(d.recs) = d.count /\ ~Marked(d.recs)
Covers(d, s) ==
    /\ d # None => d.count <= Len(s)
    /\ \A i \in DOMAIN s : s[i].trim => d # None /\ i <= d.count
Names(d, s) == d # None => \A i \in 1..d.count : d.recs[i].id = s[i].id

\* The list and the logger agree on the descriptor until a rewind gives it up.
SealShared ==
    /\ Whole(descr)
    /\ owned # None => owned = descr /\ owned.epoch = epoch
    /\ descr # None => descr.epoch <= epoch
    /\ descr # None /\ descr.epoch = epoch => owned = descr

\* What is trimmed in the list is sealed in the file, and the file has originals.
ListSealed == Covers(owned, live) /\ Names(owned, live)
FileSealed ==
    /\ owned # None => IsPrefix(owned.recs, Content(disk))
    /\ ~Marked(Content(disk)) /\ \A f \in kept : ~Marked(f)
    /\ cursor # None /\ owned # None => owned.count <= cursor.count

\* A snapshot goes with the descriptor that was there when it was taken, and no
\* other is published while a worker writes it.
SnapshotSealed(t) ==
    /\ Whole(job[t].auth) /\ Covers(job[t].auth, job[t].msgs)
    /\ job[t].gen <= gen
    /\ job[t].gen = gen => job[t].auth = owned
    /\ Works(t) => /\ owned # None => job[t].auth = owned
                   /\ job[t].cursor # None /\ job[t].auth # None =>
                          job[t].auth.count <= job[t].cursor.count
SnapshotsSealed == \A t \in Tasks : Saves(t) => SnapshotSealed(t)

\* The list stays as it is while a prefix of it is sealed, and a rewind keeps the
\* whole list aside.
SealTrue ==
    job[Main].op = "seal" =>
        /\ job[Main].gen = gen /\ job[Main].msgs = live
        /\ job[Main].pc # "plan" =>
              /\ job[Main].plan \in Seals /\ Whole(job[Main].plan)
              /\ Covers(job[Main].plan, live) /\ Names(job[Main].plan, live)
              /\ job[Main].plan.epoch = epoch
RewindTrue == job[Main].op = "rewind" => owned = None /\ ~Marked(job[Main].orig)

LogInv ==
    /\ Typed /\ QueueTrue /\ StepsTrue /\ Lengths /\ SealShared /\ ListSealed
    /\ FileSealed /\ SnapshotsSealed /\ SealTrue /\ RewindTrue

-----------------------------------------------------------------------------
(* Sequences *)

\* The largest of some places of a list is one of them.
LEMMA MaxIs ==
    ASSUME NEW n \in Nat, NEW I \in SUBSET (1..n), I # {}
    PROVE  Max(I) \in I
<1> DEFINE Above(i) == {j \in 1..n : j > i}
           T == {Above(i) : i \in I}
           R == StrictSubsetOrdering(1..n)
<1>1. IsFiniteSet(1..n)
  BY FS_Interval
<1>2. FiniteSubsetsOf(1..n) = SUBSET (1..n)
  BY <1>1, FS_FiniteSubsetsOfFinite
<1>3. T \subseteq FiniteSubsetsOf(1..n) /\ T # {}
  <2>1. \A i \in I : Above(i) \in FiniteSubsetsOf(1..n)
    BY <1>2
  <2> QED
    BY <2>1
<1>4. PICK x \in T : \A y \in T : ~(<<y, x>> \in R)
  <2> HIDE DEF T, R
  <2>1. IsWellFoundedOn(R, FiniteSubsetsOf(1..n))
    BY FS_StrictSubsetOrderingWellFounded DEF R
  <2> QED
    BY <1>3, <2>1, WFMin
<1>5. PICK i \in I : x = Above(i)
  BY <1>4
<1>6. \A j \in I : i >= j
  <2> SUFFICES ASSUME NEW j \in I, j > i
               PROVE  FALSE
    OBVIOUS
  <2>1. Above(j) \subseteq Above(i) /\ j \in Above(i) /\ j \notin Above(j)
    OBVIOUS
  <2>2. <<Above(j), Above(i)>> \in R
    BY <2>1 DEF StrictSubsetOrdering
  <2> QED
    BY <1>4, <1>5, <2>2
<1> QED
  BY <1>6 DEF Max

\* The newest boundary is one of the list's places, and what is before it may be
\* sealed (eligible_archive_prefix).
LEMMA BoundaryIs ==
    ASSUME NEW S, NEW s \in Seq(S)
    PROVE  Eligible(s) \in Nat /\ Eligible(s) <= Len(s)
           /\ (Eligible(s) > 0 => Eligible(s) + 1 \in DOMAIN s)
<1> DEFINE I == {i \in 1..Len(s) : IsBoundary(s[i])}
<1>1. Boundary(s) = IF I # {} THEN Max(I) ELSE 0
  BY DEF Boundary, SelectLastInSeq
<1>2. I # {} => Max(I) \in I
  <2>1. I \in SUBSET (1..Len(s)) /\ Len(s) \in Nat
    BY LenProperties
  <2> HIDE DEF I
  <2> QED
    BY <2>1, MaxIs
<1>3. Boundary(s) \in 0..Len(s) /\ DOMAIN s = 1..Len(s)
  BY <1>1, <1>2, LenProperties
<1> QED
  BY <1>3, LenProperties DEF Eligible

\* The start and the rest of a list.
LEMMA AfterItems ==
    ASSUME NEW S, NEW s \in Seq(S), NEW n \in 0..Len(s)
    PROVE  /\ After(s, n) \in Seq(S) /\ Len(After(s, n)) = Len(s) - n
           /\ \A i \in 1..(Len(s) - n) : After(s, n)[i] = s[n + i]
<1>1. Len(s) \in Nat /\ \A i \in 1..Len(s) : s[i] \in S
  BY LenProperties, ElementOfSeq
<1>2. n + 1 \in Int /\ Len(s) \in Int /\ \A i \in (n + 1)..Len(s) : s[i] \in S
  BY <1>1
<1> QED
  BY <1>1, <1>2, SubSeqProperties DEF After

\* The first messages of a list.
LEMMA BeforeItems ==
    ASSUME NEW S, NEW s \in Seq(S), NEW n \in 0..Len(s)
    PROVE  /\ Before(s, n) \in Seq(S) /\ Len(Before(s, n)) = n
           /\ \A i \in 1..n : Before(s, n)[i] = s[i]
<1>1. Len(s) \in Nat /\ \A i \in 1..Len(s) : s[i] \in S
  BY LenProperties, ElementOfSeq
<1>2. n \in Int /\ \A i \in 1..n : s[i] \in S
  BY <1>1
<1> QED
  BY <1>1, <1>2, SubSeqProperties DEF Before

\* A prefix of a file has its first lines.
LEMMA PrefixItems ==
    ASSUME NEW S, NEW s \in Seq(S), NEW t \in Seq(S)
    PROVE  IsPrefix(s, t) <=> Len(s) <= Len(t) /\ \A i \in 1..Len(s) : s[i] = t[i]
<1>1. Len(s) \in Nat /\ Len(t) \in Nat
  BY LenProperties
<1>2. SubSeq(s, 1, Len(s)) = s
  BY SubSeqFull
<1>3. ASSUME Len(s) <= Len(t)
      PROVE  s = SubSeq(t, 1, Len(s)) <=> \A i \in 1..Len(s) : s[i] = t[i]
  <2>1. /\ SubSeq(t, 1, Len(s)) \in Seq(S) /\ Len(SubSeq(t, 1, Len(s))) = Len(s)
        /\ \A i \in 1..Len(s) : SubSeq(t, 1, Len(s))[i] = t[i]
    BY <1>1, <1>3, BeforeItems DEF Before
  <2> QED
    BY <1>1, <2>1, SeqEqual
<1> QED
  BY <1>1, <1>2, <1>3 DEF IsPrefix

\* What was a prefix of a file is one of the longer file.
LEMMA PrefixGrows ==
    ASSUME NEW S, NEW r \in Seq(S), NEW s \in Seq(S), NEW t \in Seq(S),
           IsPrefix(r, s)
    PROVE  IsPrefix(r, s \o t)
<1>1. s \o t \in Seq(S) /\ Len(s \o t) = Len(s) + Len(t)
      /\ \A i \in 1..Len(s) : (s \o t)[i] = s[i]
  BY ConcatProperties, LenProperties
<1>2. Len(s) \in Nat /\ Len(t) \in Nat /\ Len(r) \in Nat
  BY LenProperties
<1>3. Len(r) <= Len(s) /\ \A i \in 1..Len(r) : r[i] = s[i]
  BY PrefixItems
<1>4. Len(r) <= Len(s \o t) /\ \A i \in 1..Len(r) : r[i] = (s \o t)[i]
  BY <1>1, <1>2, <1>3
<1> QED
  BY <1>1, <1>4, PrefixItems

\* A list as records: as long, and with the same marks.
LEMMA RecordsItems ==
    ASSUME NEW s \in Seq(Messages)
    PROVE  /\ Records(s) \in Seq(Lines) /\ Len(Records(s)) = Len(s)
           /\ \A i \in 1..Len(s) :
                 /\ Records(s)[i] = Record(s[i])
                 /\ Records(s)[i].id = s[i].id /\ Records(s)[i].trim = s[i].trim
           /\ Marked(Records(s)) = Marked(s)
<1>1. Len(s) \in Nat /\ DOMAIN s = 1..Len(s) /\ \A i \in 1..Len(s) : s[i] \in Messages
  BY LenProperties, ElementOfSeq
<1>2. \A e \in Messages : Record(e) \in Lines /\ Record(e).id = e.id /\ Record(e).trim = e.trim
  BY DEF Messages, Lines, Record
<1>3. Records(s) \in [1..Len(s) -> Lines] /\ \A i \in 1..Len(s) : Records(s)[i] = Record(s[i])
  BY <1>1, <1>2 DEF Records
<1>4. Records(s) \in Seq(Lines) /\ Len(Records(s)) = Len(s) /\ DOMAIN Records(s) = 1..Len(s)
  BY <1>1, <1>3, IsASeq, LenProperties
<1>5. \A i \in 1..Len(s) : Records(s)[i].id = s[i].id /\ Records(s)[i].trim = s[i].trim
  BY <1>1, <1>2, <1>3
<1>6. Marked(Records(s)) = Marked(s)
  BY <1>1, <1>4, <1>5 DEF Marked
<1> QED
  BY <1>3, <1>4, <1>5, <1>6

\* Marks of a file in two parts, and of a part.
LEMMA MarkedConcat ==
    ASSUME NEW s \in Seq(Lines), NEW t \in Seq(Lines), ~Marked(s), ~Marked(t)
    PROVE  ~Marked(s \o t)
<1>1. /\ Len(s) \in Nat /\ Len(t) \in Nat /\ DOMAIN s = 1..Len(s) /\ DOMAIN t = 1..Len(t)
      /\ DOMAIN (s \o t) = 1..(Len(s) + Len(t))
      /\ \A i \in 1..(Len(s) + Len(t)) :
            (s \o t)[i] = IF i <= Len(s) THEN s[i] ELSE t[i - Len(s)]
  BY ConcatProperties, LenProperties
<1>2. \A i \in 1..(Len(s) + Len(t)) : i \in 1..Len(s) \/ i - Len(s) \in 1..Len(t)
  BY <1>1
<1> QED
  BY <1>1, <1>2 DEF Marked

\* The size of a file says how long it is.
LEMMA SizeCounts ==
    ASSUME NEW f \in Seq(Lines), f # None
    PROVE  Size(f) \in Nat \X Nat /\ Size(f)[1] = Len(f)
<1>1. Len(f) \in Nat /\ DOMAIN f = 1..Len(f)
  BY LenProperties
<1>2. IsFiniteSet(1..Len(f))
  BY <1>1, FS_Interval
<1>3. Cardinality({i \in DOMAIN f : f[i] = Torn}) \in Nat
  BY <1>1, <1>2, FS_Subset, FS_CardinalityType
<1> QED
  BY <1>1, <1>3 DEF Size

\* The size of a file is not that of a missing one.
LEMMA SizeMissing ==
    ASSUME NEW f, Size(f) \in Nat \X Nat
    PROVE  f # None
<1>1. \A p \in Nat \X Nat : p # <<>>
  OBVIOUS
<1> QED
  BY <1>1 DEF Size

\* A file with lines is its content; a file that is missing has none.
LEMMA ContentIs ==
    ASSUME NEW f \in Seq(Lines)
    PROVE  /\ Content(f) = f /\ f # None /\ Content(None) = <<>>
           /\ <<>> \in Seq(Lines) /\ Len(<<>>) = 0 /\ ~Marked(<<>>)
<1>1. f # None
  BY LogAssumption
<1>2. <<>> \in Seq(Lines) /\ Len(<<>>) = 0
  BY EmptySeq
<1> QED
  BY <1>1, <1>2 DEF Content, Marked

-----------------------------------------------------------------------------
(* The lock's queue *)

\* One item of a queue is taken out, and those behind it move up.
LEMMA RemoveItems ==
    ASSUME NEW S, NEW q \in Seq(S), NEW n \in 1..Len(q)
    PROVE  /\ RemoveAt(q, n) \in Seq(S) /\ Len(RemoveAt(q, n)) = Len(q) - 1
           /\ \A i \in 1..(Len(q) - 1) :
                 RemoveAt(q, n)[i] = IF i < n THEN q[i] ELSE q[i + 1]
<1>1. Len(q) \in Nat /\ n \in 0..Len(q) /\ n - 1 \in 0..Len(q)
  BY LenProperties
<1>2. /\ Before(q, n - 1) \in Seq(S) /\ Len(Before(q, n - 1)) = n - 1
      /\ \A i \in 1..(n - 1) : Before(q, n - 1)[i] = q[i]
  BY <1>1, BeforeItems
<1>3. /\ After(q, n) \in Seq(S) /\ Len(After(q, n)) = Len(q) - n
      /\ \A i \in 1..(Len(q) - n) : After(q, n)[i] = q[n + i]
  BY <1>1, AfterItems
<1> DEFINE b == Before(q, n - 1)
           a == After(q, n)
<1>4. RemoveAt(q, n) = b \o a
  BY DEF RemoveAt, Before, After
<1> HIDE DEF b, a
<1>5. /\ b \in Seq(S) /\ Len(b) = n - 1 /\ \A i \in 1..(n - 1) : b[i] = q[i]
      /\ a \in Seq(S) /\ Len(a) = Len(q) - n /\ \A i \in 1..(Len(q) - n) : a[i] = q[n + i]
      /\ Len(b) + Len(a) = Len(q) - 1
  <2>1. b \in Seq(S) /\ Len(b) = n - 1 /\ \A i \in 1..(n - 1) : b[i] = q[i]
    BY <1>2 DEF b
  <2>2. a \in Seq(S) /\ Len(a) = Len(q) - n /\ \A i \in 1..(Len(q) - n) : a[i] = q[n + i]
    BY <1>3 DEF a
  <2>3. Len(b) + Len(a) = Len(q) - 1
    BY <1>1, <2>1, <2>2
  <2> QED
    BY <2>1, <2>2, <2>3
<1>6. /\ b \o a \in Seq(S) /\ Len(b \o a) = Len(b) + Len(a)
      /\ \A i \in 1..(Len(b) + Len(a)) :
            (b \o a)[i] = IF i <= Len(b) THEN b[i] ELSE a[i - Len(b)]
  BY <1>5, ConcatProperties
<1>7. ASSUME NEW i \in 1..(Len(q) - 1)
      PROVE  (b \o a)[i] = IF i < n THEN q[i] ELSE q[i + 1]
  <2>1. (b \o a)[i] = IF i <= n - 1 THEN b[i] ELSE a[i - (n - 1)]
    BY <1>5, <1>6
  <2>2. CASE i < n
    <3>1. i \in 1..(n - 1) /\ i <= n - 1
      BY <1>1, <2>2
    <3> QED
      BY <1>5, <2>1, <2>2, <3>1
  <2>3. CASE i >= n
    <3>1. /\ i - (n - 1) \in 1..(Len(q) - n) /\ n + (i - (n - 1)) = i + 1
          /\ ~(i <= n - 1) /\ ~(i < n)
      BY <1>1, <2>3
    <3>2. a[i - (n - 1)] = q[i + 1]
      BY <1>5, <3>1
    <3> QED
      BY <2>1, <3>1, <3>2
  <2>4. i < n \/ i >= n
    BY <1>1
  <2> QED
    BY <2>2, <2>3, <2>4
<1> QED
  BY <1>4, <1>5, <1>6, <1>7

\* A task gives the lock up, or stops waiting for it: the others stay.
LEMMA LeaveQueue ==
    ASSUME queue \in Seq(Tasks), Apart, NEW t,
           Leave(t) \/ (Holds(t) /\ queue' = Tail(queue))
    PROVE  /\ queue' \in Seq(Tasks) /\ Apart'
           /\ \A u : Among(u)' <=> Among(u) /\ u # t
           /\ \A u : Holds(u) /\ u # t => Holds(u)'
<1>1. Len(queue) \in Nat /\ DOMAIN queue = 1..Len(queue)
      /\ (queue # <<>> <=> Len(queue) > 0) /\ (queue # <<>> => Head(queue) = queue[1])
  BY SMTT(30), LenProperties, EmptySeq
<1>2. CASE ~Contains(queue, t) /\ UNCHANGED queue
  BY <1>1, <1>2 DEF Contains, Among, Apart, Holds
<1>3. ASSUME NEW n \in 1..Len(queue), queue[n] = t, queue' \in Seq(Tasks),
             Len(queue') = Len(queue) - 1,
             \A i \in 1..(Len(queue) - 1) :
                queue'[i] = IF i < n THEN queue[i] ELSE queue[i + 1]
      PROVE  /\ Apart'
             /\ \A u : Among(u)' <=> Among(u) /\ u # t
             /\ \A u : Holds(u) /\ u # t => Holds(u)'
  <2>1. DOMAIN queue' = 1..(Len(queue) - 1)
        /\ (queue' # <<>> <=> Len(queue) - 1 > 0)
        /\ (queue' # <<>> => Head(queue') = queue'[1])
    BY <1>1, <1>3, LenProperties, EmptySeq
  <2>2. ASSUME NEW i \in 1..(Len(queue) - 1), NEW j \in 1..(Len(queue) - 1),
               queue'[i] = queue'[j]
        PROVE  i = j
    <3>1. queue[IF i < n THEN i ELSE i + 1] = queue[IF j < n THEN j ELSE j + 1]
      BY <1>1, <1>3, <2>2
    <3>2. (IF i < n THEN i ELSE i + 1) = (IF j < n THEN j ELSE j + 1)
      BY <1>1, <3>1 DEF Apart
    <3> QED
      BY <1>1, <3>2
  <2>3. \A i \in 1..(Len(queue) - 1) : queue'[i] # t
    BY SMTT(30), <1>1, <1>3 DEF Apart
  <2>4. \A i \in 1..(Len(queue) - 1) : \E m \in 1..Len(queue) : queue'[i] = queue[m]
    BY <1>1, <1>3
  <2>5. ASSUME NEW m \in 1..Len(queue), queue[m] # t
        PROVE  \E i \in 1..(Len(queue) - 1) : queue'[i] = queue[m]
    <3>1. CASE m < n
      BY <1>1, <1>3, <3>1
    <3>2. CASE m > n
      <4>1. m - 1 \in 1..(Len(queue) - 1) /\ ~(m - 1 < n) /\ (m - 1) + 1 = m
        BY <1>1, <3>2
      <4>2. queue'[m - 1] = queue[m]
        BY <1>3, <4>1
      <4> QED
        BY <4>1, <4>2
    <3> QED
      BY <1>1, <1>3, <2>5, <3>1, <3>2
  <2>6. Apart'
    BY <2>1, <2>2 DEF Apart
  <2>7. \A u : Among(u)' <=> Among(u) /\ u # t
    <3>1. ASSUME NEW u, Among(u)'
          PROVE  Among(u) /\ u # t
      BY <1>1, <2>1, <2>3, <2>4, <3>1 DEF Among
    <3>2. ASSUME NEW u, Among(u), u # t
          PROVE  Among(u)'
      BY <1>1, <2>1, <2>5, <3>2 DEF Among
    <3> QED
      BY <3>1, <3>2
  <2>8. \A u : Holds(u) /\ u # t => Holds(u)'
    <3> SUFFICES ASSUME NEW u, Holds(u), u # t
                 PROVE  Holds(u)'
      OBVIOUS
    <3>1. queue # <<>> /\ queue[1] = u /\ n # 1
      BY <1>1, <1>3 DEF Holds
    <3>2. 1 \in 1..(Len(queue) - 1) /\ 1 < n
      BY <1>1, <3>1
    <3> QED
      BY <1>3, <2>1, <3>1, <3>2 DEF Holds
  <2> QED
    BY <2>6, <2>7, <2>8
<1>4. CASE \E n \in DOMAIN queue : queue[n] = t /\ queue' = RemoveAt(queue, n)
  <2>1. PICK n \in 1..Len(queue) : queue[n] = t /\ queue' = RemoveAt(queue, n)
    BY <1>1, <1>4
  <2>2. /\ queue' \in Seq(Tasks) /\ Len(queue') = Len(queue) - 1
        /\ \A i \in 1..(Len(queue) - 1) :
              queue'[i] = IF i < n THEN queue[i] ELSE queue[i + 1]
    BY <2>1, RemoveItems
  <2> QED
    BY <1>3, <2>1, <2>2
<1>5. CASE Holds(t) /\ queue' = Tail(queue)
  <2>1. queue # <<>> /\ 1 \in 1..Len(queue) /\ queue[1] = t
    BY <1>1, <1>5 DEF Holds
  <2>2. /\ queue' \in Seq(Tasks) /\ Len(queue') = Len(queue) - 1
        /\ \A i \in 1..(Len(queue) - 1) : queue'[i] = queue[i + 1]
    BY <1>5, <2>1, HeadTailProperties
  <2>3. \A i \in 1..(Len(queue) - 1) :
              queue'[i] = IF i < 1 THEN queue[i] ELSE queue[i + 1]
    BY <1>1, <2>2
  <2> QED
    BY <1>3, <2>1, <2>2, <2>3
<1> QED
  BY <1>2, <1>4, <1>5 DEF Leave

\* A task asks for the lock: it is behind all others.
LEMMA JoinQueue ==
    ASSUME queue \in Seq(Tasks), Apart, NEW t \in Tasks, ~Among(t),
           queue' = Append(queue, t)
    PROVE  /\ queue' \in Seq(Tasks) /\ Apart'
           /\ \A u : Among(u)' <=> Among(u) \/ u = t
           /\ \A u : Holds(u) => Holds(u)'
<1>1. Len(queue) \in Nat /\ DOMAIN queue = 1..Len(queue)
      /\ (queue # <<>> <=> Len(queue) > 0) /\ (queue # <<>> => Head(queue) = queue[1])
  BY LenProperties, EmptySeq
<1>2. /\ queue' \in Seq(Tasks) /\ Len(queue') = Len(queue) + 1
      /\ \A i \in 1..Len(queue) : queue'[i] = queue[i]
      /\ queue'[Len(queue) + 1] = t
  BY AppendProperties
<1>3. DOMAIN queue' = 1..(Len(queue) + 1) /\ queue' # <<>> /\ Head(queue') = queue'[1]
  BY <1>1, <1>2, LenProperties, EmptySeq
<1>4. \A i \in 1..(Len(queue) + 1) : i \in 1..Len(queue) \/ i = Len(queue) + 1
  BY <1>1
<1>5. Apart'
  BY <1>1, <1>2, <1>3, <1>4 DEF Apart, Among
<1>6. \A u : Among(u)' <=> Among(u) \/ u = t
  BY <1>1, <1>2, <1>3, <1>4 DEF Among
<1>7. \A u : Holds(u) => Holds(u)'
  BY <1>1, <1>2, <1>3 DEF Holds
<1> QED
  BY <1>2, <1>5, <1>6, <1>7

-----------------------------------------------------------------------------
(* Kinds of steps *)

\* The worker of the task that has the lock, or the loop with its answer: the
\* file and the cursor may change, and the job goes to its next phase.
LEMMA WorkerMoves ==
    ASSUME LogInv, NEW t \in Tasks, Holds(t), Saves(t), Works(t) \/ At(t, "queued"),
           NEW x \in Jobs, job' = [job EXCEPT ![t] = x],
           x.op = job[t].op, x.gen = job[t].gen, x.msgs = job[t].msgs,
           x.auth = job[t].auth, x.plan = job[t].plan, x.orig = job[t].orig,
           x.pc \in {"write", "rewrite", "meta", "done", "verify", "failed", "unavailable"},
           x.pc = "verify" => x.op = "seal", x.pc = "rewrite" => x.auth = None,
           Counted(x.cursor), owned # None => x.auth = owned,
           x.cursor # None /\ x.auth # None => x.auth.count <= x.cursor.count,
           disk' \in Seq(Lines) \cup {None}, Len(Content(disk')) < fresh,
           ~Marked(Content(disk')),
           owned # None => IsPrefix(owned.recs, Content(disk')),
           x.pc \in {"meta", "done"} => Len(Content(disk')) = Len(x.msgs),
           kept' \subseteq Seq(Lines), \A f \in kept' : ~Marked(f),
           cursor' \in Cursors \cup {None}, since' \in Nat, Counted(cursor'),
           cursor' # None /\ owned # None => owned.count <= cursor'.count,
           used' \in [Kinds -> Nat], used'["message"] = used["message"],
           UNCHANGED <<list, gen, descr, queue>>
    PROVE  LogInv'
<1> USE DEF LogInv
<1>0. /\ UNCHANGED <<live, epoch, owned, fresh, gen, descr, queue>>
      /\ job'[t] = x /\ \A u \in Tasks : u # t => job'[u] = job[u]
      /\ job' \in [Tasks -> Jobs]
  BY DEF Typed, list
<1>1. \A u \in Tasks : u # t => ~Works(u)
  BY DEF QueueTrue, Holds
<1>2. Typed'
  BY <1>0 DEF Typed
<1>3. QueueTrue'
  BY <1>0 DEF QueueTrue, Apart, Among, Works, Holds, At
<1>4. StepsTrue'
  BY <1>0 DEF StepsTrue, Saves, Works, At, Down, Tasks
<1>5. Lengths'
  <2>1. \A u \in Tasks : u # t => job[u].pc \notin {"meta", "done"}
    BY <1>1 DEF Works
  <2> QED
    BY <1>0, <2>1 DEF Lengths, Counted
<1>6. SealShared' /\ ListSealed'
  BY <1>0 DEF SealShared, ListSealed, Whole, Covers, Names, Marked
<1>7. FileSealed'
  BY <1>0 DEF FileSealed
<1>8. SnapshotsSealed'
  <2>1. ASSUME NEW u \in Tasks, u # t, Saves(u)'
        PROVE  SnapshotSealed(u)'
    BY <1>0, <1>1, <2>1 DEF SnapshotsSealed, SnapshotSealed, Saves, Works, Whole, Covers,
       Marked
  <2>2. SnapshotSealed(t)'
    BY <1>0 DEF SnapshotsSealed, SnapshotSealed, Saves, Works, Whole, Covers, Marked
  <2> QED
    BY <2>1, <2>2 DEF SnapshotsSealed
<1>9. SealTrue' /\ RewindTrue'
  BY <1>0 DEF SealTrue, RewindTrue, StepsTrue, Whole, Covers, Names, Marked, Works, At
<1> QED
  BY <1>2, <1>3, <1>4, <1>5, <1>6, <1>7, <1>8, <1>9

\* A task is done with its job, or drops it, and goes idle: the cursor may change.
LEMMA GoesIdle ==
    ASSUME LogInv, NEW t \in Tasks, ~At(t, "down"),
           Leave(t) \/ (Holds(t) /\ queue' = Tail(queue)),
           job' = [job EXCEPT ![t] = Idle],
           cursor' \in Cursors \cup {None}, since' \in Nat, Counted(cursor'),
           cursor' # None /\ owned # None => owned.count <= cursor'.count,
           used' \in [Kinds -> Nat], used'["message"] = used["message"],
           UNCHANGED <<list, gen, descr, disk, kept>>
    PROVE  LogInv'
<1> USE DEF LogInv
<1>0. /\ UNCHANGED <<live, epoch, owned, fresh, gen, descr, disk, kept>>
      /\ Idle \in Jobs
      /\ job'[t] = Idle /\ \A u \in Tasks : u # t => job'[u] = job[u]
      /\ job' \in [Tasks -> Jobs]
  <2>1. Idle \in Jobs
    BY EmptySeq DEF Idle, Jobs, Phases
  <2> QED
    BY <2>1 DEF Typed, list
<1>1. /\ queue' \in Seq(Tasks) /\ Apart'
      /\ \A u : Among(u)' <=> Among(u) /\ u # t
      /\ \A u : Holds(u) /\ u # t => Holds(u)'
  BY LeaveQueue DEF Typed, QueueTrue
<1>2. Typed'
  BY <1>0, <1>1 DEF Typed
<1>3. QueueTrue'
  BY <1>0, <1>1 DEF QueueTrue, Works, Idle
<1>4. StepsTrue'
  BY <1>0 DEF StepsTrue, At, Down, Tasks, Idle
<1>5. Lengths'
  BY <1>0, EmptySeq DEF Lengths, Counted, Idle, Typed
<1>6. SealShared' /\ ListSealed'
  BY <1>0 DEF SealShared, ListSealed, Whole, Covers, Names, Marked
<1>7. FileSealed'
  BY <1>0 DEF FileSealed
<1>8. SnapshotsSealed'
  <2>1. ASSUME NEW u \in Tasks, Saves(u)'
        PROVE  u # t /\ SnapshotSealed(u)'
    BY <1>0, <2>1 DEF SnapshotsSealed, SnapshotSealed, Saves, Works, Whole, Covers, Marked,
       Idle
  <2> QED
    BY <2>1 DEF SnapshotsSealed
<1>9. SealTrue' /\ RewindTrue'
  BY <1>0 DEF SealTrue, RewindTrue, Whole, Covers, Names, Marked, Idle
<1> QED
  BY <1>2, <1>3, <1>4, <1>5, <1>6, <1>7, <1>8, <1>9

\* The agent loop changes the list while nothing is sealed or rewound.
LEMMA ListMoves ==
    ASSUME LogInv, Quiet, live' \in Seq(Messages), fresh' \in Nat, fresh <= fresh',
           Len(live') < fresh', fresh' = used'["message"] + 1, used' \in [Kinds -> Nat],
           Covers(owned, live'), Names(owned, live'),
           \/ UNCHANGED <<gen, cursor, since>>
           \/ Invalidate,
           UNCHANGED <<epoch, owned, disk, kept, descr, queue, job>>
    PROVE  LogInv'
<1> USE DEF LogInv
<1>0. /\ gen' \in {gen, gen + 1} /\ cursor' \in {cursor, None} /\ since' \in {since, 0}
      /\ gen \in Nat /\ gen' \in Nat /\ since' \in Nat
      /\ (gen' = gen + 1 => cursor' = None)
  BY DEF Invalidate, Typed
<1>1. Typed'
  BY <1>0 DEF Typed
<1>2. QueueTrue'
  BY DEF QueueTrue, Apart, Among, Works, Holds
<1>3. ~Down /\ Main \in Tasks /\ job[Main].op = "idle"
  BY DEF Quiet, Down, At, StepsTrue, Tasks
<1>4. StepsTrue'
  BY <1>3 DEF StepsTrue, At, Down
<1>5. Lengths'
  <2>1. \A t \in Tasks : Len(job[t].msgs) \in Nat /\ Len(job[t].orig) \in Nat
    BY LenProperties DEF Typed, Jobs
  <2>2. Len(Content(disk)) \in Nat
    BY LenProperties, EmptySeq DEF Typed, Content
  <2>3. Counted(cursor)'
    BY <1>0 DEF Lengths, Counted, Typed
  <2>4. fresh \in Nat /\ fresh' \in Nat /\ fresh <= fresh'
    BY DEF Typed
  <2>5. (Len(Content(disk)) < fresh)'
    <3>1. Len(Content(disk)) < fresh
      BY DEF Lengths
    <3>2. Content(disk)' = Content(disk)
      BY DEF Content
    <3> HIDE DEF LogInv
    <3> QED
      BY <2>2, <2>4, <3>1, <3>2
  <2>6. ASSUME NEW t \in Tasks
        PROVE  /\ (Len(job[t].msgs) < fresh)' /\ (Len(job[t].orig) < fresh)'
               /\ Counted(job[t].cursor)'
               /\ (job[t].pc \in {"meta", "done"} => Len(Content(disk)) = Len(job[t].msgs))'
    <3>1. /\ Len(job[t].msgs) < fresh /\ Len(job[t].orig) < fresh
          /\ Counted(job[t].cursor)
          /\ job[t].pc \in {"meta", "done"} => Len(Content(disk)) = Len(job[t].msgs)
      BY DEF Lengths
    <3>2. Len(job[t].msgs) \in Nat /\ Len(job[t].orig) \in Nat
      BY <2>1
    <3>3. Content(disk)' = Content(disk) /\ Counted(job[t].cursor)' = Counted(job[t].cursor)
      BY DEF Content, Counted
    <3> HIDE DEF LogInv
    <3> QED
      BY <2>4, <3>1, <3>2, <3>3
  <2> HIDE DEF LogInv
  <2> QED
    BY <2>3, <2>5, <2>6 DEF Lengths, Tasks
<1>6. SealShared' /\ ListSealed'
  BY DEF SealShared, ListSealed, Whole, Covers, Names, Marked
<1>7. FileSealed'
  BY <1>0 DEF FileSealed
<1>8. SnapshotsSealed'
  <2>1. ASSUME NEW u \in Tasks, Saves(u)'
        PROVE  SnapshotSealed(u)'
    <3>1. Saves(u) /\ job[u].gen <= gen /\ job[u].gen \in Nat
      BY <2>1 DEF SnapshotsSealed, SnapshotSealed, Saves, Typed, Jobs
    <3> QED
      BY SMTT(30), <1>0, <3>1 DEF SnapshotsSealed, SnapshotSealed, Works, Whole, Covers, Marked
  <2> QED
    BY <2>1 DEF SnapshotsSealed
<1>9. SealTrue' /\ RewindTrue'
  BY <1>3 DEF SealTrue, RewindTrue
<1> QED
  BY <1>1, <1>2, <1>4, <1>5, <1>6, <1>7, <1>8, <1>9

\* A task takes up a job: it asks for the lock, or plans a seal first.
LEMMA TakesUp ==
    ASSUME LogInv, NEW t \in Tasks, job[t].pc \in {"idle", "plan"} \/ job[t].op = "drain",
           live # <<>> \/ t = Main,
           NEW x \in Jobs, job' = [job EXCEPT ![t] = x],
           \/ x.pc = "queued" /\ ~Among(t) /\ queue' = Append(queue, t)
           \/ x.pc = "plan" /\ ~Among(t) /\ UNCHANGED queue
           \/ x.pc = "plan" /\ Holds(t) /\ queue' = Tail(queue),
           t \in Savers => x.op = "save", t = Main => x.op \in {"drain", "seal"},
           x.pc = "plan" => x.op = "seal",
           x.op = "drain" => x.msgs = <<>>,
           x.op # "drain" => x.gen = gen /\ x.msgs = live /\ x.auth = owned,
           Len(x.orig) < fresh, Counted(x.cursor),
           x.op = "seal" /\ x.pc = "queued" =>
                 /\ x.plan \in Seals /\ Whole(x.plan) /\ Covers(x.plan, live)
                 /\ Names(x.plan, live) /\ x.plan.epoch = epoch,
           used' \in [Kinds -> Nat], used'["message"] = used["message"],
           UNCHANGED <<list, gen, cursor, since, descr, disk, kept>>
    PROVE  LogInv'
<1> USE DEF LogInv
<1>0. /\ UNCHANGED <<live, epoch, owned, fresh, gen, descr, disk, kept, cursor, since>>
      /\ job'[t] = x /\ \A u \in Tasks : u # t => job'[u] = job[u]
      /\ job' \in [Tasks -> Jobs]
  BY DEF Typed, list
<1>1. /\ queue' \in Seq(Tasks) /\ Apart'
      /\ \A u \in Tasks : u # t => (Among(u)' <=> Among(u))
      /\ Among(t)' <=> x.pc = "queued"
      /\ \A u \in Tasks : u # t /\ Holds(u) => Holds(u)'
  <2>1. CASE x.pc = "queued" /\ ~Among(t) /\ queue' = Append(queue, t)
    BY <2>1, JoinQueue DEF Typed, QueueTrue
  <2>2. CASE x.pc = "plan" /\ ~Among(t) /\ UNCHANGED queue
    BY <2>2 DEF Typed, QueueTrue, Apart, Among, Holds
  <2>3. CASE x.pc = "plan" /\ Holds(t) /\ queue' = Tail(queue)
    BY <2>3, LeaveQueue DEF Typed, QueueTrue
  <2> QED
    BY <2>1, <2>2, <2>3
<1>2. Typed'
  BY <1>0, <1>1 DEF Typed
<1>3. QueueTrue'
  <2>1. \A u \in Tasks : Among(u)' <=> job'[u].pc \notin {"down", "idle", "plan"}
    BY <1>0, <1>1 DEF QueueTrue
  <2>2. \A u \in Tasks : Works(u)' => Holds(u)'
    BY <1>0, <1>1 DEF QueueTrue, Works
  <2> QED
    BY <1>1, <2>1, <2>2 DEF QueueTrue
<1>4. StepsTrue'
  <2>1. ~Down
    BY DEF StepsTrue, Down, At, Tasks
  <2> QED
    BY <1>0, <2>1, LogAssumption DEF StepsTrue, At, Down, Tasks
<1>5. Lengths'
  <2>1. Len(<<>>) < fresh
    BY LenProperties DEF Lengths, Typed
  <2>2. Len(x.msgs) < fresh
    BY <2>1 DEF Lengths
  <2> QED
    BY <1>0, <2>2 DEF Lengths, Counted
<1>6. SealShared' /\ ListSealed'
  BY <1>0 DEF SealShared, ListSealed, Whole, Covers, Names, Marked
<1>7. FileSealed'
  BY <1>0 DEF FileSealed
<1>8. SnapshotsSealed'
  <2>1. ASSUME NEW u \in Tasks, Saves(u)', u # t
        PROVE  SnapshotSealed(u)'
    BY <1>0, <2>1 DEF SnapshotsSealed, SnapshotSealed, Saves, Works, Whole, Covers, Marked
  <2>2. ASSUME Saves(t)'
        PROVE  SnapshotSealed(t)'
    <3>1. x.op # "drain" /\ gen \in Nat /\ (owned # None => owned = descr)
      BY <1>0, <2>2 DEF Saves, Typed, SealShared
    <3>2. Whole(owned) /\ Covers(owned, live)
      BY <3>1 DEF SealShared, ListSealed, Whole
    <3> QED
      BY <1>0, <3>1, <3>2 DEF SnapshotSealed, Works, Whole, Covers, Marked
  <2> QED
    BY <2>1, <2>2 DEF SnapshotsSealed
<1>9. SealTrue' /\ RewindTrue'
  <2>1. CASE t = Main
    BY <1>0, <2>1 DEF SealTrue, RewindTrue, Whole, Covers, Names, Marked
  <2>2. CASE t # Main
    BY <1>0, <2>2 DEF SealTrue, RewindTrue, Whole, Covers, Names, Marked, Tasks
  <2> QED
    BY <2>1, <2>2
<1> QED
  BY <1>2, <1>3, <1>4, <1>5, <1>6, <1>7, <1>8, <1>9

\* A rewind takes up the list that it wants, or the one there was.
LEMMA ListTaken ==
    ASSUME LogInv, ~Down, NEW m \in Seq(Messages), ~Marked(m), Len(m) < fresh,
           ResetList(m), NEW x \in Jobs, job' = [job EXCEPT ![Main] = x],
           \/ x = Idle /\ (Leave(Main) \/ (Holds(Main) /\ queue' = Tail(queue)))
           \/ /\ x.op = "rewind" /\ x.pc = "queued" /\ x.gen = gen' /\ x.msgs = m
              /\ x.auth = None /\ x.cursor = None /\ ~Marked(x.orig)
              /\ Len(x.orig) < fresh /\ ~Among(Main) /\ queue' = Append(queue, Main),
           used' \in [Kinds -> Nat], used'["message"] = used["message"],
           UNCHANGED files
    PROVE  LogInv'
<1> USE DEF LogInv
<1>0. /\ live' = m /\ epoch' = epoch + 1 /\ owned' = None /\ gen' = gen + 1
      /\ cursor' = None /\ since' = 0
      /\ UNCHANGED <<fresh, descr, disk, kept>> /\ Main \in Tasks
      /\ job'[Main] = x /\ \A u \in Tasks : u # Main => job'[u] = job[u]
      /\ job' \in [Tasks -> Jobs] /\ epoch \in Nat /\ gen \in Nat
  BY DEF ResetList, Invalidate, files, Typed, Tasks
<1>1. /\ queue' \in Seq(Tasks) /\ Apart'
      /\ \A u \in Tasks : u # Main => (Among(u)' <=> Among(u))
      /\ Among(Main)' <=> x.op = "rewind"
      /\ \A u \in Tasks : u # Main /\ Holds(u) => Holds(u)'
  <2>1. CASE x = Idle /\ (Leave(Main) \/ (Holds(Main) /\ queue' = Tail(queue)))
    BY <2>1, LeaveQueue DEF Typed, QueueTrue, Idle
  <2>2. CASE x.op = "rewind" /\ ~Among(Main) /\ queue' = Append(queue, Main)
    BY <1>0, <2>2, JoinQueue DEF Typed, QueueTrue
  <2> QED
    BY <2>1, <2>2
<1>2. x.op = "rewind" \/ x = Idle
  OBVIOUS
<1>3. Typed'
  BY <1>0, <1>1 DEF Typed
<1>4. QueueTrue'
  <2>1. x.op = "rewind" <=> x.pc \notin {"down", "idle", "plan"}
    BY DEF Idle
  <2>2. \A u \in Tasks : Among(u)' <=> job'[u].pc \notin {"down", "idle", "plan"}
    BY <1>0, <1>1, <2>1 DEF QueueTrue
  <2>3. \A u \in Tasks : Works(u)' => Holds(u)'
    BY <1>0, <1>1 DEF QueueTrue, Works, Idle
  <2> QED
    BY <1>1, <2>2, <2>3 DEF QueueTrue
<1>5. StepsTrue'
  BY <1>0, LogAssumption DEF StepsTrue, At, Down, Tasks, Idle
<1>6. Lengths'
  <2>1. Len(x.msgs) < fresh /\ Len(x.orig) < fresh /\ Counted(x.cursor)
    BY LenProperties, EmptySeq DEF Lengths, Typed, Idle, Counted
  <2>2. x.pc \notin {"meta", "done"}
    BY DEF Idle
  <2> QED
    BY <1>0, <2>1, <2>2 DEF Lengths, Counted
<1>7. SealShared' /\ ListSealed'
  <2>1. descr # None => descr.epoch \in Nat /\ descr.epoch <= epoch
    BY DEF SealShared, Typed, Seals
  <2> QED
    BY <1>0, <2>1 DEF SealShared, ListSealed, Whole, Covers, Names, Marked
<1>8. FileSealed'
  BY <1>0 DEF FileSealed
<1>9. SnapshotsSealed'
  <2>1. ASSUME NEW u \in Tasks, Saves(u)', u # Main
        PROVE  SnapshotSealed(u)'
    <3>1. job[u].gen \in Nat /\ job[u].gen <= gen
      BY <1>0, <2>1 DEF SnapshotsSealed, SnapshotSealed, Saves, Typed, Jobs
    <3> QED
      BY <1>0, <2>1, <3>1 DEF SnapshotsSealed, SnapshotSealed, Saves, Works, Whole, Covers,
         Marked
  <2>2. ASSUME Saves(Main)'
        PROVE  SnapshotSealed(Main)'
    BY <1>0, <2>2 DEF SnapshotSealed, Saves, Works, Whole, Covers, Marked, Idle
  <2> QED
    BY <2>1, <2>2 DEF SnapshotsSealed
<1>10. SealTrue' /\ RewindTrue'
  BY <1>0 DEF SealTrue, RewindTrue, Marked, Idle
<1> QED
  BY <1>3, <1>4, <1>5, <1>6, <1>7, <1>8, <1>9, <1>10

-----------------------------------------------------------------------------
(* The list changes *)

\* Every message counts, and nothing else counts as one.
LEMMA SpendCounts ==
    ASSUME Typed, NEW K, Spend(K)
    PROVE  /\ used' \in [Kinds -> Nat]
           /\ "message" \notin K => used'["message"] = used["message"]
           /\ "message" \in K => used'["message"] = used["message"] + 1
<1>1. /\ used \in [Kinds -> Nat] /\ "message" \in Kinds
      /\ used' = [k \in Kinds |-> IF k \in K THEN used[k] + 1 ELSE used[k]]
  BY DEF Typed, Spend, Kinds, Shapes
<1>2. \A k \in Kinds : used[k] \in Nat /\ used[k] + 1 \in Nat
  BY <1>1
<1>3. used' \in [Kinds -> Nat]
  BY <1>1, <1>2
<1> QED
  BY <1>1, <1>3

\* A message goes between two others, and those behind it move down.
LEMMA InsertItems ==
    ASSUME NEW S, NEW s \in Seq(S), NEW n \in 1..Len(s), NEW e \in S
    PROVE  /\ InsertAt(s, n, e) \in Seq(S) /\ Len(InsertAt(s, n, e)) = Len(s) + 1
           /\ \A i \in 1..(n - 1) : InsertAt(s, n, e)[i] = s[i]
           /\ InsertAt(s, n, e)[n] = e
           /\ \A i \in (n + 1)..(Len(s) + 1) : InsertAt(s, n, e)[i] = s[i - 1]
<1>1. /\ Len(s) \in Nat /\ n - 1 \in 0..Len(s) /\ <<e>> \in Seq(S) /\ Len(<<e>>) = 1
      /\ <<e>>[1] = e /\ n - 1 + 1 = n
  BY LenProperties
<1>2. /\ Before(s, n - 1) \in Seq(S) /\ Len(Before(s, n - 1)) = n - 1
      /\ \A i \in 1..(n - 1) : Before(s, n - 1)[i] = s[i]
  BY <1>1, BeforeItems
<1>3. /\ After(s, n - 1) \in Seq(S) /\ Len(After(s, n - 1)) = Len(s) - (n - 1)
      /\ \A i \in 1..(Len(s) - (n - 1)) : After(s, n - 1)[i] = s[n - 1 + i]
  BY <1>1, AfterItems
<1> DEFINE b == Before(s, n - 1)
           a == After(s, n - 1)
           c == b \o <<e>>
<1>4. InsertAt(s, n, e) = c \o a
  BY <1>1 DEF InsertAt, Before, After
<1> HIDE DEF b, a
<1>5. b \in Seq(S) /\ Len(b) = n - 1 /\ \A i \in 1..(n - 1) : b[i] = s[i]
  BY <1>2 DEF b
<1>6. a \in Seq(S) /\ Len(a) = Len(s) - (n - 1)
      /\ \A i \in 1..(Len(s) - (n - 1)) : a[i] = s[n - 1 + i]
  BY <1>3 DEF a
<1>7. /\ c \in Seq(S) /\ Len(c) = Len(b) + Len(<<e>>)
      /\ \A i \in 1..(Len(b) + Len(<<e>>)) :
            c[i] = IF i <= Len(b) THEN b[i] ELSE <<e>>[i - Len(b)]
  BY <1>1, <1>5, ConcatProperties
<1> HIDE DEF c
<1>8. Len(c) = n /\ \A i \in 1..n : c[i] = IF i < n THEN s[i] ELSE e
  <2>1. Len(c) = n
    BY <1>1, <1>5, <1>7
  <2>2. ASSUME NEW i \in 1..(n - 1)
        PROVE  c[i] = s[i]
    <3>1. i \in 1..(Len(b) + Len(<<e>>)) /\ i <= Len(b)
      BY <1>1, <1>5
    <3> QED
      BY <1>5, <1>7, <3>1
  <2>3. c[n] = e
    <3>1. n \in 1..(Len(b) + Len(<<e>>)) /\ ~(n <= Len(b)) /\ n - Len(b) = 1
      BY <1>1, <1>5
    <3> QED
      BY <1>1, <1>7, <3>1
  <2>4. \A i \in 1..n : i \in 1..(n - 1) \/ i = n
    BY <1>1
  <2>5. \A i \in 1..(n - 1) : i < n
    BY <1>1
  <2>6. ~(n < n)
    BY <1>1
  <2> QED
    BY <2>1, <2>2, <2>3, <2>4, <2>5, <2>6
<1>9. /\ c \o a \in Seq(S) /\ Len(c \o a) = Len(c) + Len(a)
      /\ \A i \in 1..(Len(c) + Len(a)) :
            (c \o a)[i] = IF i <= Len(c) THEN c[i] ELSE a[i - Len(c)]
  <2>1. c \in Seq(S) /\ a \in Seq(S)
    BY <1>6, <1>7
  <2> QED
    BY <2>1, ConcatProperties
<1>10. Len(c) + Len(a) = Len(s) + 1
  BY <1>1, <1>6, <1>8
<1>11. ASSUME NEW i \in 1..(Len(s) + 1)
       PROVE  (c \o a)[i] = IF i < n THEN s[i] ELSE IF i = n THEN e ELSE s[i - 1]
  <2>1. (c \o a)[i] = IF i <= n THEN c[i] ELSE a[i - n]
    BY <1>8, <1>9, <1>10
  <2>2. CASE i <= n
    <3>1. i \in 1..n
      BY <1>1, <2>2
    <3>2. c[i] = IF i < n THEN s[i] ELSE e
      BY <1>8, <3>1
    <3>3. ~(i < n) => i = n
      BY <1>1, <2>2
    <3> QED
      BY <2>1, <2>2, <3>2, <3>3
  <2>3. CASE i > n
    <3>1. /\ i - n \in 1..(Len(s) - (n - 1)) /\ n - 1 + (i - n) = i - 1
          /\ ~(i <= n) /\ ~(i < n) /\ i # n
      BY <1>1, <2>3
    <3>2. a[i - n] = s[i - 1]
      BY <1>6, <3>1
    <3> QED
      BY <2>1, <3>1, <3>2
  <2>4. i <= n \/ i > n
    BY <1>1
  <2> QED
    BY <2>2, <2>3, <2>4
<1>12. /\ \A i \in 1..(n - 1) : (c \o a)[i] = s[i]
       /\ (c \o a)[n] = e
       /\ \A i \in (n + 1)..(Len(s) + 1) : (c \o a)[i] = s[i - 1]
  <2>1. ASSUME NEW i \in 1..(n - 1)
        PROVE  (c \o a)[i] = s[i]
    <3>1. i \in 1..(Len(s) + 1) /\ i < n
      BY <1>1
    <3> QED
      BY <1>11, <3>1
  <2>2. (c \o a)[n] = e
    <3>1. n \in 1..(Len(s) + 1) /\ ~(n < n)
      BY <1>1
    <3> QED
      BY <1>11, <3>1
  <2>3. ASSUME NEW i \in (n + 1)..(Len(s) + 1)
        PROVE  (c \o a)[i] = s[i - 1]
    <3>1. i \in 1..(Len(s) + 1) /\ ~(i < n) /\ i # n
      BY <1>1
    <3> QED
      BY <1>11, <3>1
  <2> QED
    BY <2>1, <2>2, <2>3
<1> QED
  BY <1>4, <1>9, <1>10, <1>12

\* A message is appended: the descriptor covers as much as before.
LEMMA AppendMessageStep ==
    ASSUME LogInv, NEW k \in Shapes, AppendMessage(k)
    PROVE  LogInv'
<1> USE DEF LogInv
<1>1. /\ live' = Append(live, Entry(fresh, k)) /\ fresh' = fresh + 1 /\ Quiet
      /\ UNCHANGED <<epoch, owned, disk, kept, descr, queue, job, gen, cursor, since>>
      /\ used' \in [Kinds -> Nat] /\ used'["message"] = used["message"] + 1
  BY SpendCounts DEF AppendMessage, files, log
<1>2. Entry(fresh, k) \in Messages /\ ~Entry(fresh, k).trim
  BY DEF Entry, Messages, Typed
<1>3. /\ live' \in Seq(Messages) /\ Len(live') = Len(live) + 1
      /\ \A i \in 1..Len(live) : live'[i] = live[i]
      /\ live'[Len(live) + 1] = Entry(fresh, k)
  BY <1>1, <1>2, AppendProperties DEF Typed
<1>4. /\ Len(live) \in Nat /\ DOMAIN live = 1..Len(live)
      /\ DOMAIN live' = 1..(Len(live) + 1) /\ fresh \in Nat
  BY <1>3, LenProperties DEF Typed
<1>5. Covers(owned, live') /\ Names(owned, live')
  <2>1. owned # None => owned.count \in Nat /\ owned.count <= Len(live)
    BY DEF ListSealed, Covers, Typed, Seals
  <2>2. Covers(owned, live')
    BY <1>2, <1>3, <1>4, <2>1 DEF ListSealed, Covers
  <2>3. Names(owned, live')
    BY <1>3, <1>4, <2>1 DEF ListSealed, Names
  <2> QED
    BY <2>2, <2>3
<1> QED
  BY <1>1, <1>3, <1>4, <1>5, ListMoves DEF Lengths

\* A message is inserted, behind what is sealed.
LEMMA InsertMessageStep ==
    ASSUME LogInv, NEW n \in 1..Len(live), InsertMessage(n)
    PROVE  LogInv'
<1> USE DEF LogInv
<1> DEFINE e == Entry(fresh, "message")
<1>1. /\ live' = InsertAt(live, n, e) /\ fresh' = fresh + 1 /\ Quiet /\ Invalidate
      /\ n > (IF owned = None THEN 0 ELSE owned.count)
      /\ UNCHANGED <<epoch, owned, disk, kept, descr, queue, job>>
      /\ used' \in [Kinds -> Nat] /\ used'["message"] = used["message"] + 1
  BY SpendCounts DEF InsertMessage, files
<1>2. e \in Messages /\ ~e.trim
  BY DEF Entry, Messages, Typed, Shapes
<1> HIDE DEF e
<1>3. Len(live) \in Nat /\ DOMAIN live = 1..Len(live) /\ fresh \in Nat
  BY LenProperties DEF Typed
<1>4. /\ live' \in Seq(Messages) /\ Len(live') = Len(live) + 1
      /\ \A i \in 1..(n - 1) : live'[i] = live[i]
      /\ live'[n] = e
      /\ \A i \in (n + 1)..(Len(live) + 1) : live'[i] = live[i - 1]
  <2>1. live \in Seq(Messages) /\ n \in 1..Len(live)
    BY <1>3 DEF Typed
  <2> QED
    BY SMTT(30), <1>1, <1>2, <2>1, InsertItems
<1>5. DOMAIN live' = 1..(Len(live) + 1)
  BY <1>4, LenProperties
<1>6. Covers(owned, live') /\ Names(owned, live')
  <2>1. owned # None => owned.count \in Nat /\ owned.count <= Len(live) /\ n > owned.count
    BY <1>1 DEF ListSealed, Covers, Typed, Seals
  <2>2. ASSUME NEW i \in 1..(Len(live) + 1), live'[i].trim
        PROVE  owned # None /\ i <= owned.count
    <3>1. CASE i < n
      <4>1. i \in 1..Len(live) /\ live[i].trim
        BY <1>3, <1>4, <2>2, <3>1
      <4> QED
        BY <1>3, <4>1 DEF ListSealed, Covers
    <3>2. CASE i > n
      <4>1. i - 1 \in 1..Len(live) /\ live[i - 1].trim /\ i - 1 >= n
        BY <1>3, <1>4, <2>2, <3>2
      <4>2. owned # None /\ i - 1 <= owned.count
        BY <1>3, <4>1 DEF ListSealed, Covers
      <4> QED
        BY <1>3, <2>1, <4>1, <4>2
    <3> QED
      BY <1>2, <1>3, <1>4, <2>2, <3>1, <3>2
  <2>3. Covers(owned, live')
    BY <1>3, <1>4, <1>5, <2>1, <2>2 DEF Covers
  <2>4. Names(owned, live')
    BY <1>3, <1>4, <2>1 DEF ListSealed, Names
  <2> QED
    BY <2>3, <2>4
<1> QED
  BY <1>1, <1>3, <1>4, <1>6, ListMoves DEF Lengths

\* A placeholder is replaced at its place, under the same identity.
LEMMA ReplacePlaceholderStep ==
    ASSUME LogInv, NEW n \in DOMAIN live, ReplacePlaceholder(n)
    PROVE  LogInv'
<1> USE DEF LogInv
<1>1. /\ live' = [live EXCEPT ![n].kind = "result"] /\ Quiet
      /\ UNCHANGED <<fresh, epoch, owned, disk, kept, descr, queue, job, gen, cursor, since>>
      /\ used' \in [Kinds -> Nat] /\ used'["message"] = used["message"]
  BY SpendCounts DEF ReplacePlaceholder, files, log
<1>2. /\ Len(live) \in Nat /\ DOMAIN live = 1..Len(live) /\ fresh \in Nat
      /\ live[n] \in Messages
  BY LenProperties, ElementOfSeq DEF Typed
<1>3. [live[n] EXCEPT !.kind = "result"] \in Messages
  BY <1>2 DEF Messages
<1>4. /\ live' \in Seq(Messages) /\ Len(live') = Len(live)
      /\ \A i \in 1..Len(live) :
            live'[i] = IF i = n THEN [live[n] EXCEPT !.kind = "result"] ELSE live[i]
  BY <1>1, <1>2, <1>3, ExceptSeq DEF Typed
<1>5. /\ DOMAIN live' = 1..Len(live)
      /\ \A i \in 1..Len(live) : live'[i].id = live[i].id /\ live'[i].trim = live[i].trim
  BY <1>2, <1>4, LenProperties DEF Messages
<1>6. Covers(owned, live') /\ Names(owned, live')
  <2>1. owned # None => owned.count \in Nat /\ owned.count <= Len(live)
    BY DEF ListSealed, Covers, Typed, Seals
  <2> QED
    BY <1>2, <1>4, <1>5, <2>1 DEF ListSealed, Covers, Names
<1> QED
  BY <1>1, <1>2, <1>4, <1>6, ListMoves DEF Lengths

\* A stamp changes no message's place.
LEMMA StampTimingStep ==
    ASSUME LogInv, NEW n \in DOMAIN live, StampTiming(n)
    PROVE  LogInv'
<1> USE DEF LogInv
<1>1. /\ Quiet /\ Invalidate
      /\ UNCHANGED <<live, fresh, epoch, owned, disk, kept, descr, queue, job>>
      /\ used' \in [Kinds -> Nat] /\ used'["message"] = used["message"]
  BY SpendCounts DEF StampTiming, files
<1>2. fresh \in Nat /\ live' \in Seq(Messages)
  BY <1>1 DEF Typed
<1> QED
  BY <1>1, <1>2, ListMoves DEF Lengths, ListSealed

\* Nor does an edit of a tool call.
LEMMA EditCallStep ==
    ASSUME LogInv, NEW n \in DOMAIN live, EditCall(n)
    PROVE  LogInv'
<1> USE DEF LogInv
<1>1. /\ Quiet
      /\ UNCHANGED <<live, fresh, epoch, owned, disk, kept, descr, queue, job, gen, cursor,
                     since>>
      /\ used' \in [Kinds -> Nat] /\ used'["message"] = used["message"]
  BY SpendCounts DEF EditCall, files, log
<1>2. fresh \in Nat /\ live' \in Seq(Messages)
  BY <1>1 DEF Typed
<1> QED
  BY <1>1, <1>2, ListMoves DEF Lengths, ListSealed

-----------------------------------------------------------------------------
(* Saves *)

\* The authority of a snapshot is the descriptor the list has.
LEMMA AuthorityOwned ==
    ASSUME LogInv
    PROVE  Authority = owned
  BY DEF LogInv, SealShared, Authority

\* A snapshot is the list as it is, with the descriptor the list has.
LEMMA SnapshotIs ==
    ASSUME LogInv, NEW op \in {"save", "seal"}, NEW pc \in {"queued", "plan"}
    PROVE  LET x == Snapshot(op, pc) IN
           /\ x \in Jobs /\ x.op = op /\ x.pc = pc /\ x.gen = gen /\ x.msgs = live
           /\ x.auth = owned /\ x.orig = <<>> /\ x.cursor = None
<1>1. Authority = owned
  BY AuthorityOwned
<1>2. <<>> \in Seq(Messages) /\ live \in Seq(Messages) /\ gen \in Nat
      /\ owned \in Seals \cup {None}
  BY EmptySeq DEF LogInv, Typed
<1>3. Idle \in Jobs
  BY <1>2 DEF Idle, Jobs, Phases
<1> QED
  BY <1>1, <1>2, <1>3 DEF Snapshot, Idle, Jobs, Phases

\* A save takes its snapshot and asks for the lock.
LEMMA SaveBeginStep ==
    ASSUME LogInv, NEW t \in Savers, SaveBegin(t)
    PROVE  LogInv'
<1> DEFINE x == Snapshot("save", "queued")
<1>1. /\ x \in Jobs /\ x.op = "save" /\ x.pc = "queued" /\ x.gen = gen /\ x.msgs = live
      /\ x.auth = owned /\ x.orig = <<>> /\ x.cursor = None
  BY SnapshotIs
<1>2. /\ t \in Tasks /\ t # Main /\ At(t, "idle") /\ live # <<>>
      /\ job' = [job EXCEPT ![t] = x] /\ queue' = Append(queue, t)
      /\ UNCHANGED <<list, gen, cursor, since, descr, disk, kept, used>>
  BY LogAssumption DEF SaveBegin, Tasks, log, files
<1> HIDE DEF x
<1>3. ~Among(t) /\ used \in [Kinds -> Nat] /\ Len(<<>>) < fresh
  BY <1>2, LenProperties, EmptySeq DEF LogInv, QueueTrue, At, Typed, Lengths
<1> QED
  BY <1>1, <1>2, <1>3, TakesUp DEF At, Counted

\* A snapshot from before an invalidation is given up under the lock.
LEMMA SaveDiscardStep ==
    ASSUME LogInv, NEW t \in Tasks, SaveDiscard(t)
    PROVE  LogInv'
<1>1. /\ Holds(t) /\ queue' = Tail(queue) /\ job' = [job EXCEPT ![t] = Idle]
      /\ ~At(t, "down")
      /\ UNCHANGED <<list, gen, cursor, since, descr, disk, kept, used>>
  BY DEF SaveDiscard, Release, log, files, At
<1> QED
  BY <1>1, GoesIdle DEF LogInv, Typed, Lengths, FileSealed

\* The lock's head gets the cursor and a worker.
LEMMA LockGrantedStep ==
    ASSUME LogInv, NEW t \in Tasks, LockGranted(t)
    PROVE  LogInv'
<1> USE DEF LogInv
<1> DEFINE x == [job[t] EXCEPT !.pc = "write", !.cursor = cursor, !.since = since]
<1>1. /\ Holds(t) /\ At(t, "queued") /\ job[t].gen = gen
      /\ job' = [job EXCEPT ![t] = x]
      /\ UNCHANGED <<list, gen, cursor, since, descr, queue, disk, kept, used>>
  BY DEF LockGranted, log, files
<1>2. job[t] \in Jobs /\ Saves(t) /\ cursor \in Cursors \cup {None} /\ since \in Nat
  BY <1>1 DEF Typed, StepsTrue, At, Saves, LockGranted, Jobs
<1>3. /\ x \in Jobs /\ x.op = job[t].op /\ x.gen = job[t].gen /\ x.msgs = job[t].msgs
      /\ x.auth = job[t].auth /\ x.plan = job[t].plan /\ x.orig = job[t].orig
      /\ x.pc = "write" /\ x.cursor = cursor
  BY <1>2 DEF Jobs, Phases
<1> HIDE DEF x
<1>4. job[t].auth = owned
  BY <1>1, <1>2 DEF SnapshotsSealed, SnapshotSealed
<1> QED
  BY <1>1, <1>2, <1>3, <1>4, WorkerMoves DEF Typed, Lengths, FileSealed

\* A save that failed gives the lock up.
LEMMA SaveFailedStep ==
    ASSUME LogInv, NEW t \in Tasks, SaveFailed(t)
    PROVE  LogInv'
<1>1. /\ Holds(t) /\ queue' = Tail(queue) /\ job' = [job EXCEPT ![t] = Idle]
      /\ ~At(t, "down")
      /\ UNCHANGED <<list, gen, cursor, since, descr, disk, kept, used>>
  BY DEF SaveFailed, Release, log, files, At
<1> QED
  BY <1>1, GoesIdle DEF LogInv, Typed, Lengths, FileSealed

\* A save that waits is cancelled, and leaves the queue.
LEMMA SaveCancelledStep ==
    ASSUME LogInv, NEW t \in Tasks, SaveCancelled(t)
    PROVE  LogInv'
<1>1. /\ Leave(t) /\ job' = [job EXCEPT ![t] = Idle] /\ ~At(t, "down")
      /\ used' \in [Kinds -> Nat] /\ used'["message"] = used["message"]
      /\ UNCHANGED <<list, gen, cursor, since, descr, disk, kept>>
  BY SpendCounts DEF SaveCancelled, log, files, At, LogInv
<1> QED
  BY <1>1, GoesIdle DEF LogInv, Typed, Lengths, FileSealed

\* The cursor that is installed counts the snapshot, which the file has.
LEMMA CursorInstalled ==
    ASSUME LogInv, NEW t \in Tasks, Holds(t), At(t, "done"), Saves(t), InstallCursor(t)
    PROVE  /\ cursor' \in Cursors \cup {None} /\ since' \in Nat /\ Counted(cursor')
           /\ cursor' # None /\ owned # None => owned.count <= cursor'.count
<1> USE DEF LogInv
<1>1. /\ job[t] \in Jobs /\ job[t].msgs \in Seq(Messages) /\ job[t].since \in Nat
      /\ Len(Content(disk)) = Len(job[t].msgs)
  BY DEF Typed, Jobs, Lengths, At
<1>2. CASE job[t].gen # gen
  BY <1>2 DEF InstallCursor, Typed, Lengths, FileSealed
<1>3. CASE job[t].gen = gen
  <2> DEFINE m == job[t].msgs
  <2>1. cursor' = CursorFor(t) /\ since' \in Nat
    BY <1>1, <1>3 DEF InstallCursor
  <2>2. /\ Content(disk) \in Seq(Lines) /\ Content(disk) # None
    BY EmptySeq, LogAssumption DEF Typed, Content
  <2>3. Size(Content(disk)) \in Nat \X Nat /\ Size(Content(disk))[1] = Len(m)
    BY <1>1, <2>2, SizeCounts
  <2>4. Len(m) \in Nat /\ job[t].digest \in Lines \cup {None}
    BY <1>1, LenProperties DEF Jobs
  <2>5. /\ CursorFor(t).count = Len(m) /\ CursorFor(t).size = Size(Content(disk))
        /\ CursorFor(t) \in Cursors
    BY <2>3, <2>4 DEF CursorFor, Cursors
  <2>6. owned # None => owned.count <= Len(m)
    BY <1>3 DEF SnapshotsSealed, SnapshotSealed, Covers
  <2> QED
    BY <2>1, <2>3, <2>5, <2>6 DEF Counted
<1> QED
  BY <1>2, <1>3

\* A save is done: its cursor is installed and the lock given up.
LEMMA SaveDoneStep ==
    ASSUME LogInv, NEW t \in Tasks, SaveDone(t)
    PROVE  LogInv'
<1>1. /\ Holds(t) /\ At(t, "done") /\ Saves(t) /\ InstallCursor(t)
      /\ queue' = Tail(queue) /\ job' = [job EXCEPT ![t] = Idle] /\ ~At(t, "down")
      /\ UNCHANGED <<list, gen, descr, disk, kept, used>>
  BY DEF SaveDone, Release, files, At, Saves
<1>2. /\ cursor' \in Cursors \cup {None} /\ since' \in Nat /\ Counted(cursor')
      /\ cursor' # None /\ owned # None => owned.count <= cursor'.count
  BY <1>1, CursorInstalled
<1> QED
  BY <1>1, <1>2, GoesIdle DEF LogInv, Typed

-----------------------------------------------------------------------------
(* The worker thread *)

\* A save writes as many records as its list has messages, all of them originals,
\* and the sealed ones as they are on disk (_save_full_verify_archived).
LEMMA WantedItems ==
    ASSUME LogInv, NEW t \in Tasks, Saves(t)
    PROVE  /\ Wanted(t) \in Seq(Lines) /\ Len(Wanted(t)) = Len(job[t].msgs)
           /\ ~Marked(Wanted(t))
           /\ job[t].auth # None => IsPrefix(job[t].auth.recs, Wanted(t))
<1> USE DEF LogInv
<1> DEFINE m == job[t].msgs
           d == job[t].auth
<1>1. m \in Seq(Messages) /\ d \in Seals \cup {None} /\ Whole(d) /\ Covers(d, m)
  BY DEF Typed, Jobs, SnapshotsSealed, SnapshotSealed
<1>2. Len(m) \in Nat /\ DOMAIN m = 1..Len(m)
  BY <1>1, LenProperties
<1>3. Wanted(t) = IF d = None THEN Records(m) ELSE d.recs \o Records(After(m, d.count))
  BY DEF Wanted
<1> HIDE DEF m, d
<1>4. CASE d = None
  <2>1. ~Marked(m)
    BY <1>1, <1>2, <1>4 DEF Covers, Marked
  <2> QED
    BY <1>1, <1>3, <1>4, <2>1, RecordsItems DEF m, d
<1>5. CASE d # None
  <2> DEFINE a == After(m, d.count)
  <2>1. d.recs \in Seq(Lines) /\ Len(d.recs) = d.count /\ d.count \in 0..Len(m)
        /\ ~Marked(d.recs)
    BY <1>1, <1>2, <1>5 DEF Seals, Whole, Covers
  <2>2. a \in Seq(Messages) /\ Len(a) = Len(m) - d.count
        /\ \A i \in 1..(Len(m) - d.count) : a[i] = m[d.count + i]
    BY <1>1, <2>1, AfterItems
  <2> HIDE DEF a
  <2>3. DOMAIN a = 1..(Len(m) - d.count)
    BY <2>2, LenProperties
  <2>4. ~Marked(a)
    <3> SUFFICES ASSUME NEW i \in 1..(Len(m) - d.count), a[i].trim
                 PROVE  FALSE
      BY <2>3 DEF Marked
    <3>1. d.count + i \in 1..Len(m) /\ ~(d.count + i <= d.count)
      BY <1>2, <2>1
    <3>2. m[d.count + i].trim
      BY <2>2
    <3> QED
      BY <1>1, <1>2, <3>1, <3>2 DEF Covers
  <2>5. Records(a) \in Seq(Lines) /\ Len(Records(a)) = Len(m) - d.count
        /\ ~Marked(Records(a))
    BY <2>2, <2>4, RecordsItems
  <2>6. Wanted(t) = d.recs \o Records(a)
    BY <1>3, <1>5 DEF a
  <2>7. d.recs \o Records(a) \in Seq(Lines) /\ Len(d.recs \o Records(a)) = Len(m)
    <3>1. /\ d.recs \o Records(a) \in Seq(Lines)
          /\ Len(d.recs \o Records(a)) = Len(d.recs) + Len(Records(a))
      BY <2>1, <2>5, ConcatProperties
    <3> QED
      BY <1>2, <2>1, <2>5, <3>1
  <2>8. ~Marked(d.recs \o Records(a))
    BY <2>1, <2>5, MarkedConcat
  <2>9. IsPrefix(d.recs, d.recs \o Records(a))
    <3>1. IsPrefix(d.recs, d.recs)
      BY <2>1, PrefixItems, LenProperties
    <3> QED
      BY <2>1, <2>5, <3>1, PrefixGrows
  <2> QED
    BY <2>6, <2>7, <2>8, <2>9 DEF m, d
<1> QED
  BY <1>4, <1>5

\* The tail that is appended brings the file to the length of the list, and none
\* of its messages is trimmed: those are counted by the cursor.
LEMMA TailOriginal ==
    ASSUME LogInv, NEW t \in Tasks, Saves(t), Works(t), Appends(t)
    PROVE  /\ disk \in Seq(Lines) /\ Tail_(t) \in Seq(Lines) /\ ~Marked(Tail_(t))
           /\ Len(disk) + Len(Tail_(t)) = Len(job[t].msgs)
<1> USE DEF LogInv
<1> DEFINE m == job[t].msgs
           c == job[t].cursor
<1>1. /\ m \in Seq(Messages) /\ c \in Cursors \cup {None} /\ Counted(c)
      /\ Covers(job[t].auth, m) /\ job[t].auth \in Seals \cup {None}
      /\ c # None /\ job[t].auth # None => job[t].auth.count <= c.count
  BY DEF Typed, Jobs, SnapshotsSealed, SnapshotSealed, Lengths
<1>2. Len(m) \in Nat /\ DOMAIN m = 1..Len(m)
  BY <1>1, LenProperties
<1>3. CASE Incremental(t)
  <2>1. /\ c # None /\ Size(disk) = c.size /\ Len(m) >= c.count
        /\ Tail_(t) = Records(After(m, c.count))
    BY <1>3 DEF Incremental, Tail_
  <2>2. c \in Cursors /\ c.size \in Nat \X Nat /\ c.count \in Nat /\ c.size[1] = c.count
    BY <1>1, <2>1 DEF Cursors, Counted
  <2>3. disk # None
    <3>1. Size(disk) \in Nat \X Nat
      BY <2>1, <2>2
    <3> QED
      BY <3>1, SizeMissing
  <2>4. disk \in Seq(Lines)
    BY <2>3 DEF Typed
  <2>5. Len(disk) = c.count
    BY <2>1, <2>2, <2>3, <2>4, SizeCounts
  <2> DEFINE a == After(m, c.count)
  <2>6. a \in Seq(Messages) /\ Len(a) = Len(m) - c.count
        /\ \A i \in 1..(Len(m) - c.count) : a[i] = m[c.count + i]
    <3>1. c.count \in 0..Len(m)
      BY <1>2, <2>1, <2>2
    <3> QED
      BY <1>1, <3>1, AfterItems
  <2>7. Tail_(t) = Records(a)
    BY <2>1
  <2> HIDE DEF a
  <2>8. DOMAIN a = 1..(Len(m) - c.count)
    BY <2>6, LenProperties
  <2>9. ~Marked(a)
    <3> SUFFICES ASSUME NEW i \in 1..(Len(m) - c.count), a[i].trim
                 PROVE  FALSE
      BY <2>8 DEF Marked
    <3>1. c.count + i \in 1..Len(m)
      <4>1. Len(m) >= c.count /\ c.count \in Nat
        BY <2>1, <2>2
      <4> QED
        BY <1>2, <4>1
    <3>2. job[t].auth # None /\ c.count + i <= job[t].auth.count
      <4>1. m[c.count + i].trim
        BY <2>6
      <4> QED
        BY <1>1, <1>2, <3>1, <4>1 DEF Covers
    <3>3. job[t].auth.count \in Nat /\ job[t].auth.count <= c.count
      BY <1>1, <2>1, <3>2 DEF Seals
    <3> QED
      BY <2>2, <3>2, <3>3
  <2>10. Records(a) \in Seq(Lines) /\ Len(Records(a)) = Len(a) /\ ~Marked(Records(a))
    BY <2>6, <2>9, RecordsItems
  <2> QED
    BY SMTT(30), <1>2, <2>2, <2>4, <2>5, <2>6, <2>7, <2>10
<1>4. CASE ~Incremental(t)
  <2>1. disk # None /\ IsStrictPrefix(disk, Wanted(t)) /\ Tail_(t) = After(Wanted(t), Len(disk))
    BY <1>4 DEF Appends, Tail_
  <2>2. /\ disk \in Seq(Lines) /\ Wanted(t) \in Seq(Lines)
        /\ Len(Wanted(t)) = Len(m) /\ ~Marked(Wanted(t))
    BY <2>1, WantedItems DEF Typed
  <2> DEFINE w == Wanted(t)
  <2>3. Len(disk) \in 0..Len(w) /\ w \in Seq(Lines) /\ Len(w) = Len(m) /\ ~Marked(w)
    BY <1>2, <2>1, <2>2, LenProperties DEF IsStrictPrefix, IsPrefix
  <2> HIDE DEF w
  <2>4. /\ After(w, Len(disk)) \in Seq(Lines) /\ Len(After(w, Len(disk))) = Len(w) - Len(disk)
        /\ \A i \in 1..(Len(w) - Len(disk)) : After(w, Len(disk))[i] = w[Len(disk) + i]
    BY <2>3, AfterItems
  <2>5. DOMAIN After(w, Len(disk)) = 1..(Len(w) - Len(disk)) /\ DOMAIN w = 1..Len(w)
    BY <2>3, <2>4, LenProperties
  <2>6. ~Marked(After(w, Len(disk)))
    <3>1. \A i \in 1..(Len(w) - Len(disk)) : Len(disk) + i \in 1..Len(w)
      BY <1>2, <2>3
    <3> QED
      BY <2>3, <2>4, <2>5, <3>1 DEF Marked
  <2>7. Len(disk) + (Len(w) - Len(disk)) = Len(w)
    BY <1>2, <2>3
  <2> QED
    BY <2>1, <2>2, <2>3, <2>4, <2>6, <2>7 DEF w
<1> QED
  BY <1>3, <1>4

\* So does what an append leaves that was cut short, but for the length.
LEMMA LeavesOriginal ==
    ASSUME LogInv, NEW t \in Tasks, Saves(t), Works(t), Appends(t),
           NEW f \in AppendLeaves(t)
    PROVE  /\ disk \in Seq(Lines) /\ f \in Seq(Lines) /\ ~Marked(f)
           /\ Len(f) <= Len(job[t].msgs)
           /\ \A r \in Seq(Lines) : IsPrefix(r, disk) => IsPrefix(r, f)
<1> DEFINE s == Tail_(t)
<1>1. /\ disk \in Seq(Lines) /\ s \in Seq(Lines) /\ ~Marked(s) /\ ~Marked(disk)
      /\ Len(disk) + Len(s) = Len(job[t].msgs)
  <2>1. Content(disk) = disk
    BY TailOriginal, LogAssumption DEF Content
  <2> QED
    BY <2>1, TailOriginal DEF LogInv, FileSealed
<1>2. \/ \E k \in 0..Len(s) : f = disk \o Before(s, k)
      \/ \E k \in 0..(Len(s) - 1) : f = disk \o Append(Before(s, k), Torn)
  BY DEF AppendLeaves
<1> HIDE DEF s
<1>3. Len(disk) \in Nat /\ Len(s) \in Nat /\ DOMAIN s = 1..Len(s)
  BY <1>1, LenProperties
<1>4. ASSUME NEW k \in 0..Len(s)
      PROVE  Before(s, k) \in Seq(Lines) /\ Len(Before(s, k)) = k /\ ~Marked(Before(s, k))
  <2>1. /\ Before(s, k) \in Seq(Lines) /\ Len(Before(s, k)) = k
        /\ \A i \in 1..k : Before(s, k)[i] = s[i]
    BY <1>1, <1>3, BeforeItems
  <2>2. DOMAIN Before(s, k) = 1..k
    BY <2>1, LenProperties
  <2> QED
    BY <1>1, <1>3, <2>1, <2>2 DEF Marked
<1>5. ASSUME NEW p \in Seq(Lines), ~Marked(p), Len(p) <= Len(s), f = disk \o p
      PROVE  /\ f \in Seq(Lines) /\ ~Marked(f) /\ Len(f) <= Len(job[t].msgs)
             /\ \A r \in Seq(Lines) : IsPrefix(r, disk) => IsPrefix(r, f)
  <2>1. disk \o p \in Seq(Lines) /\ Len(disk \o p) = Len(disk) + Len(p) /\ Len(p) \in Nat
    BY <1>1, <1>5, ConcatProperties, LenProperties
  <2>2. ~Marked(disk \o p)
    BY <1>1, <1>5, MarkedConcat
  <2>3. \A r \in Seq(Lines) : IsPrefix(r, disk) => IsPrefix(r, disk \o p)
    BY <1>1, <1>5, PrefixGrows
  <2>4. Len(disk \o p) <= Len(job[t].msgs)
    BY <1>1, <1>3, <1>5, <2>1
  <2> QED
    BY <1>5, <2>1, <2>2, <2>3, <2>4
<1>6. CASE \E k \in 0..Len(s) : f = disk \o Before(s, k)
  <2>1. PICK k \in 0..Len(s) : f = disk \o Before(s, k)
    BY <1>6
  <2>2. k <= Len(s)
    BY <1>3
  <2> QED
    BY <1>1, <1>4, <1>5, <2>1, <2>2
<1>7. CASE \E k \in 0..(Len(s) - 1) : f = disk \o Append(Before(s, k), Torn)
  <2>1. PICK k \in 0..(Len(s) - 1) : f = disk \o Append(Before(s, k), Torn)
    BY <1>7
  <2>2. k \in 0..Len(s) /\ k + 1 <= Len(s) /\ k \in Nat
    BY <1>3
  <2> DEFINE b == Before(s, k)
             p == Append(b, Torn)
  <2>3. b \in Seq(Lines) /\ Len(b) = k /\ ~Marked(b)
    BY <1>4, <2>2
  <2> HIDE DEF b
  <2>4. Torn \in Lines /\ ~Torn.trim
    BY DEF Torn, Lines
  <2>5. /\ p \in Seq(Lines) /\ Len(p) = k + 1
        /\ \A i \in 1..k : p[i] = b[i]
        /\ p[k + 1] = Torn
    BY <2>3, <2>4, AppendProperties
  <2> HIDE DEF p
  <2>6. DOMAIN b = 1..k /\ DOMAIN p = 1..(k + 1)
    BY <2>3, <2>5, LenProperties
  <2>7. ~Marked(p)
    <3>1. \A i \in 1..(k + 1) : i \in 1..k \/ i = k + 1
      BY <2>2
    <3> QED
      BY <2>3, <2>4, <2>5, <2>6, <3>1 DEF Marked
  <2>8. f = disk \o p
    BY <2>1 DEF p, b
  <2> QED
    BY <1>1, <1>5, <2>2, <2>5, <2>7, <2>8
<1> QED
  BY <1>1, <1>2, <1>6, <1>7

\* The digest of a snapshot is that of its last record.
LEMMA DigestIs ==
    ASSUME Typed, NEW t \in Tasks
    PROVE  Digest(job[t].msgs) \in Lines \cup {None}
<1> DEFINE m == job[t].msgs
<1>1. m \in Seq(Messages)
  BY DEF Typed, Jobs
<1>2. m # <<>> => m[Len(m)] \in Messages
  BY <1>1, LenProperties, EmptySeq, ElementOfSeq
<1>3. m # <<>> => Record(Last(m)) \in Lines
  BY <1>2 DEF Last, Record, Messages, Lines
<1> QED
  BY <1>3 DEF Digest

\* The job of a worker that goes on.
LEMMA JobGoes ==
    ASSUME Typed, NEW t \in Tasks, NEW pc \in Phases, NEW full \in BOOLEAN,
           NEW digest \in Lines \cup {None},
           \/ Goto(t, pc)
           \/ job' = [job EXCEPT ![t].pc = pc, ![t].full = full]
           \/ job' = [job EXCEPT ![t].pc = pc, ![t].digest = digest]
           \/ job' = [job EXCEPT ![t].pc = pc, ![t].full = full, ![t].digest = digest]
    PROVE  Goes(t, pc)
<1> DEFINE j == job[t]
           y(b, d) == [j EXCEPT !.pc = pc, !.full = b, !.digest = d]
<1>1. j \in Jobs /\ j.full \in BOOLEAN /\ j.digest \in Lines \cup {None}
  BY DEF Typed, Jobs
<1>2. ASSUME NEW b \in BOOLEAN, NEW d \in Lines \cup {None}
      PROVE  /\ y(b, d) \in Jobs /\ y(b, d).op = j.op /\ y(b, d).gen = j.gen
             /\ y(b, d).msgs = j.msgs /\ y(b, d).auth = j.auth /\ y(b, d).plan = j.plan
             /\ y(b, d).orig = j.orig /\ y(b, d).cursor = j.cursor /\ y(b, d).pc = pc
  BY <1>1 DEF Jobs
<1>3. \E b \in BOOLEAN, d \in Lines \cup {None} : job' = [job EXCEPT ![t] = y(b, d)]
  <2>1. CASE Goto(t, pc)
    <3>1. y(j.full, j.digest) = [j EXCEPT !.pc = pc]
      BY <1>1 DEF Jobs
    <3>2. job' = [job EXCEPT ![t] = [j EXCEPT !.pc = pc]]
      BY <2>1 DEF Goto
    <3> QED
      BY <1>1, <3>1, <3>2
  <2>2. CASE job' = [job EXCEPT ![t].pc = pc, ![t].full = full]
    <3>1. y(full, j.digest) = [j EXCEPT !.pc = pc, !.full = full]
      BY <1>1 DEF Jobs
    <3>2. job' = [job EXCEPT ![t] = [j EXCEPT !.pc = pc, !.full = full]]
      BY <2>2
    <3> QED
      BY <1>1, <3>1, <3>2
  <2>3. CASE job' = [job EXCEPT ![t].pc = pc, ![t].digest = digest]
    <3>1. y(j.full, digest) = [j EXCEPT !.pc = pc, !.digest = digest]
      BY <1>1 DEF Jobs
    <3>2. job' = [job EXCEPT ![t] = [j EXCEPT !.pc = pc, !.digest = digest]]
      BY <2>3
    <3> QED
      BY <1>1, <3>1, <3>2
  <2>4. CASE job' = [job EXCEPT ![t].pc = pc, ![t].full = full, ![t].digest = digest]
    <3>1. job' = [job EXCEPT ![t] = y(full, digest)]
      BY <2>4
    <3> QED
      BY <3>1
  <2> QED
    BY <2>1, <2>2, <2>3, <2>4
<1>4. PICK b \in BOOLEAN, d \in Lines \cup {None} : job' = [job EXCEPT ![t] = y(b, d)]
  BY <1>3
<1> HIDE DEF y
<1> QED
  BY <1>2, <1>4 DEF Goes

\* In particular where only its phase changes.
LEMMA GotoGoes ==
    ASSUME Typed, NEW t \in Tasks, NEW pc \in Phases, Goto(t, pc)
    PROVE  Goes(t, pc)
  BY JobGoes

\* Or where it has written something, or nothing, or the metadata.
LEMMA MoveGoes ==
    ASSUME Typed, NEW t \in Tasks, NEW pc \in {"meta", "done"},
           \/ Move(t, pc, Digest(job[t].msgs))
           \/ /\ Incremental(t) \/ Verifies(t)
              /\ Move(t, pc, IF Incremental(t) THEN job[t].cursor.digest
                             ELSE Digest(job[t].msgs))
    PROVE  Goes(t, pc)
<1>1. PICK digest \in Lines \cup {None} : Move(t, pc, digest)
  <2>1. Incremental(t) => job[t].cursor.digest \in Lines \cup {None}
    BY DEF Incremental, Typed, Jobs, Cursors
  <2> QED
    BY <2>1, DigestIs
<1>2. job' = [job EXCEPT ![t].pc = pc, ![t].full = ~Incremental(t), ![t].digest = digest]
  BY <1>1 DEF Move
<1>3. (~Incremental(t)) \in BOOLEAN /\ pc \in Phases
  BY DEF Phases
<1> QED
  BY <1>2, <1>3, JobGoes

\* Or the worker has written the metadata.
LEMMA MetadataGoes ==
    ASSUME Typed, NEW t \in Tasks, WriteMetadata(t)
    PROVE  Goes(t, "done")
<1> DEFINE digest == IF job[t].full THEN Digest(job[t].msgs) ELSE job[t].digest
<1>1. job' = [job EXCEPT ![t].pc = "done", ![t].digest = digest]
  BY DEF WriteMetadata
<1>2. digest \in Lines \cup {None} /\ "done" \in Phases
  BY DigestIs DEF Typed, Jobs, Phases
<1> HIDE DEF digest
<1> QED
  BY <1>1, <1>2, JobGoes

\* The worker goes on, with the transcript it has written.
LEMMA WorkGoesOn ==
    ASSUME LogInv, NEW t \in Tasks, Holds(t), Works(t),
           NEW pc \in {"rewrite", "meta", "done", "failed", "unavailable"},
           Goes(t, pc), pc = "rewrite" => job[t].auth = None,
           disk' \in Seq(Lines) \cup {None}, Len(Content(disk')) < fresh,
           ~Marked(Content(disk')),
           owned # None => IsPrefix(owned.recs, Content(disk')),
           pc \in {"meta", "done"} => Len(Content(disk')) = Len(job[t].msgs),
           kept' \subseteq Seq(Lines), \A f \in kept' : ~Marked(f),
           used' \in [Kinds -> Nat], used'["message"] = used["message"],
           UNCHANGED <<list, log, queue>>
    PROVE  LogInv'
<1> USE DEF LogInv
<1> DEFINE j == job[t]
<1>1. Saves(t)
  BY DEF Typed, StepsTrue, Works, Saves, Jobs
<1>2. PICK x \in Jobs :
         /\ job' = [job EXCEPT ![t] = x]
         /\ x.op = j.op /\ x.gen = j.gen /\ x.msgs = j.msgs /\ x.auth = j.auth
         /\ x.plan = j.plan /\ x.orig = j.orig /\ x.cursor = j.cursor /\ x.pc = pc
  BY DEF Goes
<1>3. /\ Counted(x.cursor)
      /\ owned # None => x.auth = owned
      /\ x.cursor # None /\ x.auth # None => x.auth.count <= x.cursor.count
  BY <1>1, <1>2 DEF Lengths, SnapshotsSealed, SnapshotSealed
<1>4. /\ cursor' \in Cursors \cup {None} /\ since' \in Nat /\ Counted(cursor')
      /\ cursor' # None /\ owned # None => owned.count <= cursor'.count
      /\ UNCHANGED <<list, gen, descr, queue>>
  BY DEF log, Typed, Lengths, FileSealed
<1>5. /\ x.pc \in {"write", "rewrite", "meta", "done", "verify", "failed", "unavailable"}
      /\ x.pc = "verify" => x.op = "seal"
      /\ x.pc = "rewrite" => x.auth = None
      /\ x.pc \in {"meta", "done"} => Len(Content(disk')) = Len(x.msgs)
  BY <1>2
<1> QED
  BY <1>1, <1>2, <1>3, <1>4, <1>5, WorkerMoves

\* A writer works under the lock, and what it writes is no longer than all that
\* was said.
LEMMA WriterIs ==
    ASSUME LogInv, NEW t \in Tasks, Writing(t) \/ (Holds(t) /\ At(t, "meta"))
    PROVE  /\ Holds(t) /\ Works(t) /\ Saves(t) /\ Incremental(t) \in BOOLEAN
           /\ fresh \in Nat /\ Typed /\ Len(job[t].msgs) \in Nat /\ Len(job[t].msgs) < fresh
           /\ Len(Content(disk)) \in Nat /\ Len(Content(disk)) < fresh
           /\ disk \in Seq(Lines) \cup {None} /\ kept \subseteq Seq(Lines)
           /\ ~Marked(Content(disk)) /\ \A f \in kept : ~Marked(f)
           /\ owned \in Seals \cup {None} /\ (owned # None => job[t].auth = owned)
           /\ owned # None => IsPrefix(owned.recs, Content(disk))
           /\ used \in [Kinds -> Nat]
<1> USE DEF LogInv
<1>1. Holds(t) /\ Works(t) /\ Saves(t)
  BY DEF Writing, Works, At, Saves, StepsTrue, Typed, Jobs
<1>2. Incremental(t) \in BOOLEAN
  BY DEF Incremental
<1>3. job[t] \in Jobs /\ Content(disk) \in Seq(Lines)
  BY EmptySeq DEF Typed, Content
<1>4. Len(job[t].msgs) \in Nat /\ Len(Content(disk)) \in Nat
  BY <1>3, LenProperties DEF Jobs
<1> QED
  BY <1>1, <1>2, <1>4 DEF Typed, Lengths, FileSealed, SnapshotsSealed, SnapshotSealed

\* The tail is appended to the transcript.
LEMMA WriteAppendStep ==
    ASSUME LogInv, NEW t \in Tasks, WriteAppend(t)
    PROVE  LogInv'
<1>1. Writing(t) /\ Appends(t) /\ UNCHANGED <<list, log, queue, kept, used>>
  BY DEF WriteAppend
<1>2. Holds(t) /\ Works(t) /\ Saves(t)
  BY <1>1, WriterIs
<1>3. /\ disk \in Seq(Lines) /\ Tail_(t) \in Seq(Lines) /\ ~Marked(Tail_(t))
      /\ Len(disk) + Len(Tail_(t)) = Len(job[t].msgs)
  BY <1>1, <1>2, TailOriginal
<1>4. Goes(t, "meta") /\ disk' = disk \o Tail_(t)
  BY <1>1, <1>3, MoveGoes, WriterIs DEF WriteAppend
<1>5. /\ disk' \in Seq(Lines) /\ Len(disk') = Len(job[t].msgs) /\ Content(disk') = disk'
      /\ ~Marked(disk') /\ Content(disk) = disk
  <2>1. ~Marked(disk) /\ Content(disk) = disk
    BY <1>1, <1>3, ContentIs, WriterIs
  <2>2. disk' \in Seq(Lines) /\ Len(disk') = Len(job[t].msgs)
    BY <1>3, <1>4, ConcatProperties
  <2> QED
    BY <1>3, <1>4, <2>1, <2>2, ContentIs, MarkedConcat
<1>6. owned # None => IsPrefix(owned.recs, disk')
  BY <1>1, <1>3, <1>4, <1>5, PrefixGrows, WriterIs DEF Seals
<1> QED
  BY <1>1, <1>2, <1>4, <1>5, <1>6, WorkGoesOn, WriterIs

\* The transcript is replaced by the one the save wants.
LEMMA WriteReplaceStep ==
    ASSUME LogInv, NEW t \in Tasks, WriteReplace(t)
    PROVE  LogInv'
<1>1. Writing(t) /\ UNCHANGED <<list, log, queue, kept, used>>
  BY SMTT(30) DEF WriteReplace
<1>2. Holds(t) /\ Works(t) /\ Saves(t)
  BY SMTT(30), <1>1, WriterIs
<1>3. /\ Wanted(t) \in Seq(Lines) /\ Len(Wanted(t)) = Len(job[t].msgs)
      /\ ~Marked(Wanted(t)) /\ Content(Wanted(t)) = Wanted(t)
      /\ job[t].auth # None => IsPrefix(job[t].auth.recs, Wanted(t))
  BY SMTT(30), <1>2, WantedItems, ContentIs
<1>4. Goes(t, "meta") /\ disk' = Wanted(t)
  <2>1. job' = [job EXCEPT ![t].pc = "meta", ![t].full = TRUE] /\ disk' = Wanted(t)
    BY <1>3 DEF WriteReplace
  <2> QED
    BY <1>1, <2>1, JobGoes, WriterIs DEF Phases
<1>5. owned # None => IsPrefix(owned.recs, Wanted(t))
  BY <1>1, <1>3, WriterIs
<1>6. Len(Wanted(t)) < fresh
  BY <1>1, <1>3, WriterIs
<1> QED
  BY <1>1, <1>2, <1>3, <1>4, <1>5, <1>6, WorkGoesOn, WriterIs

\* Where nothing is left to write the file has a record for each message.
LEMMA WriteNothingStep ==
    ASSUME LogInv, NEW t \in Tasks, WriteNothing(t)
    PROVE  LogInv'
<1>1. /\ Writing(t) /\ At(t, "write") /\ ~Appends(t) /\ ~Replaces(t)
      /\ (Incremental(t) \/ Verifies(t)) /\ UNCHANGED <<list, files, log, queue, used>>
  BY DEF WriteNothing
<1>2. Holds(t) /\ Works(t) /\ Saves(t) /\ Len(job[t].msgs) \in Nat
  BY <1>1, WriterIs
<1>3. Len(Content(disk)) = Len(job[t].msgs)
  <2>1. CASE Incremental(t)
    <3> DEFINE c == job[t].cursor
    <3>1. c \in Cursors /\ Counted(c) /\ c # None /\ Size(disk) = c.size
          /\ Len(job[t].msgs) >= c.count
      BY <2>1 DEF Incremental, LogInv, Typed, Jobs, Lengths
    <3>2. c.size \in Nat \X Nat /\ c.size[1] = c.count /\ c.count \in Nat
      BY <3>1 DEF Cursors, Counted
    <3>3. disk # None
      <4>1. Size(disk) \in Nat \X Nat
        BY <3>1, <3>2
      <4> QED
        BY <4>1, SizeMissing
    <3>4. disk \in Seq(Lines)
      BY <1>1, <3>3, WriterIs
    <3>5. Len(disk) = c.count /\ Content(disk) = disk
      BY <3>1, <3>2, <3>3, <3>4, SizeCounts, ContentIs
    <3>6. ~(Len(job[t].msgs) > c.count)
      BY <1>1, <2>1 DEF Appends
    <3> QED
      BY <1>2, <3>1, <3>2, <3>5, <3>6
  <2>2. CASE Verifies(t)
    <3>1. Wanted(t) \in Seq(Lines) /\ Len(Wanted(t)) = Len(job[t].msgs)
      BY <1>2, WantedItems
    <3>2. Content(disk) = Wanted(t)
      <4>1. IsPrefix(Content(disk), Wanted(t)) /\ (disk = None => Confirmed(t))
        BY <1>1, <2>2 DEF Replaces
      <4>2. CASE disk = None
        BY <2>2, <4>1, <4>2 DEF Confirmed, Verifies
      <4>3. CASE disk # None
        BY <1>1, <2>2, <4>1, <4>3 DEF Appends, IsStrictPrefix, Content
      <4> QED
        BY <4>2, <4>3
    <3> QED
      BY <3>1, <3>2
  <2> QED
    BY <1>1, <2>1, <2>2
<1> DEFINE pc == IF Confirmed(t) THEN "done" ELSE "meta"
<1>4. Goes(t, pc) /\ UNCHANGED <<disk, kept>>
  BY <1>1, MoveGoes, WriterIs DEF WriteNothing, files
<1>5. pc \in {"meta", "done"}
  OBVIOUS
<1> HIDE DEF pc
<1>6. /\ pc \in {"rewrite", "meta", "done", "failed", "unavailable"}
      /\ pc # "rewrite"
  BY <1>5
<1>7. /\ disk' \in Seq(Lines) \cup {None} /\ Content(disk') = Content(disk)
      /\ Len(Content(disk)) < fresh /\ ~Marked(Content(disk))
      /\ kept' \subseteq Seq(Lines) /\ \A f \in kept' : ~Marked(f)
      /\ used' \in [Kinds -> Nat] /\ used'["message"] = used["message"]
      /\ owned # None => IsPrefix(owned.recs, Content(disk))
  BY <1>1, <1>4, WriterIs
<1> QED
  BY SMTT(30), <1>1, <1>2, <1>3, <1>4, <1>6, <1>7, WorkGoesOn

\* Where there is no archive nothing is trimmed, and the file may go.
LEMMA QuarantineStep ==
    ASSUME LogInv, NEW t \in Tasks, Quarantine(t)
    PROVE  LogInv'
<1>1. /\ Writing(t) /\ job[t].auth = None /\ Torn \in ToSet(Content(disk))
      /\ kept' = kept \cup {disk} /\ disk' = None /\ Goto(t, "rewrite")
      /\ UNCHANGED <<list, log, queue, used>>
  BY DEF Quarantine, Unreadable
<1>2. disk \in Seq(Lines) /\ Content(disk) = disk /\ ~Marked(disk)
  <2>1. disk # None
    BY <1>1, EmptySeq DEF Content, ToSet
  <2> QED
    BY <1>1, <2>1, ContentIs, WriterIs
<1>3. Content(disk') = <<>> /\ Len(<<>>) = 0 /\ ~Marked(<<>>)
  BY <1>1, <1>2, ContentIs
<1>4. owned = None /\ 0 < fresh
  BY <1>1, WriterIs
<1>5. /\ disk' \in Seq(Lines) \cup {None} /\ Len(Content(disk')) < fresh
      /\ ~Marked(Content(disk')) /\ kept' \subseteq Seq(Lines)
      /\ \A f \in kept' : ~Marked(f)
  BY <1>1, <1>2, <1>3, <1>4, WriterIs
<1> QED
  BY <1>1, <1>4, <1>5, GotoGoes, WorkGoesOn, WriterIs DEF Phases

\* An archive that does not verify is left as it is.
LEMMA ArchiveUnavailableStep ==
    ASSUME LogInv, NEW t \in Tasks, ArchiveUnavailable(t)
    PROVE  LogInv'
<1>1. /\ Writing(t) /\ Goto(t, "unavailable")
      /\ UNCHANGED <<list, disk, kept, log, queue, used>>
  BY DEF ArchiveUnavailable, files
<1> QED
  BY <1>1, GotoGoes, WorkGoesOn, WriterIs DEF Phases

\* The metadata follows the transcript.
LEMMA WriteMetadataStep ==
    ASSUME LogInv, NEW t \in Tasks, WriteMetadata(t)
    PROVE  LogInv'
<1>1. /\ Holds(t) /\ At(t, "meta") /\ Goes(t, "done")
      /\ UNCHANGED <<list, disk, kept, log, queue, used>>
  BY MetadataGoes DEF WriteMetadata, LogInv
<1>2. Len(Content(disk)) = Len(job[t].msgs)
  BY <1>1 DEF LogInv, Lengths, At
<1> QED
  BY <1>1, <1>2, WorkGoesOn, WriterIs

\* The metadata is not written, and the transcript stays.
LEMMA MetadataFailsStep ==
    ASSUME LogInv, NEW t \in Tasks, MetadataFails(t)
    PROVE  LogInv'
<1>1. /\ Holds(t) /\ At(t, "meta") /\ Goto(t, "failed")
      /\ used' \in [Kinds -> Nat] /\ used'["message"] = used["message"]
      /\ UNCHANGED <<list, disk, kept, log, queue>>
  BY SpendCounts DEF MetadataFails, files, LogInv
<1> QED
  BY <1>1, GotoGoes, WorkGoesOn, WriterIs DEF Phases

\* A write fails, and leaves a part of the append or one whole file.
LEMMA WriteFailsStep ==
    ASSUME LogInv, NEW t \in Tasks, WriteFails(t)
    PROVE  LogInv'
<1>1. /\ Writing(t) /\ Goto(t, "failed")
      /\ used' \in [Kinds -> Nat] /\ used'["message"] = used["message"]
      /\ UNCHANGED <<list, kept, log, queue>>
      /\ \/ Appends(t) /\ disk' \in AppendLeaves(t)
         \/ disk' \in {disk, Wanted(t)}
  BY SpendCounts DEF WriteFails, LogInv
<1>2. Holds(t) /\ Works(t) /\ Saves(t)
  BY <1>1, WriterIs
<1>3. /\ disk' \in Seq(Lines) \cup {None} /\ Len(Content(disk')) < fresh
      /\ ~Marked(Content(disk'))
      /\ owned # None => IsPrefix(owned.recs, Content(disk'))
  <2>1. CASE Appends(t) /\ disk' \in AppendLeaves(t)
    <3>1. /\ disk \in Seq(Lines) /\ disk' \in Seq(Lines) /\ ~Marked(disk')
          /\ Len(disk') <= Len(job[t].msgs)
          /\ \A r \in Seq(Lines) : IsPrefix(r, disk) => IsPrefix(r, disk')
      BY <1>2, <2>1, LeavesOriginal
    <3>2. Content(disk) = disk /\ Content(disk') = disk'
      BY <3>1, ContentIs
    <3>3. Len(disk') < fresh
      BY <1>1, <3>1, LenProperties, WriterIs
    <3> QED
      BY <1>1, <3>1, <3>2, <3>3, WriterIs DEF Seals
  <2>2. CASE disk' = Wanted(t)
    <3>1. /\ Wanted(t) \in Seq(Lines) /\ Len(Wanted(t)) = Len(job[t].msgs)
          /\ ~Marked(Wanted(t)) /\ Content(Wanted(t)) = Wanted(t)
          /\ job[t].auth # None => IsPrefix(job[t].auth.recs, Wanted(t))
      BY <1>2, WantedItems, ContentIs
    <3> QED
      BY <1>1, <2>2, <3>1, WriterIs
  <2>3. CASE disk' = disk
    BY <1>1, <2>3, WriterIs
  <2> QED
    BY <1>1, <2>1, <2>2, <2>3
<1>4. kept' \subseteq Seq(Lines) /\ \A f \in kept' : ~Marked(f)
  BY <1>1, WriterIs
<1> QED
  BY <1>1, <1>2, <1>3, <1>4, GotoGoes, WorkGoesOn, WriterIs DEF Phases

-----------------------------------------------------------------------------
(* Rewinds *)

\* The hydrated list is as long as the list, and nothing in it is trimmed.
LEMMA HydratedIs ==
    ASSUME LogInv
    PROVE  /\ Hydrated \in Seq(Messages) /\ Len(Hydrated) = Len(live)
           /\ \A i \in 1..Len(live) : ~Hydrated[i].trim
           /\ ~Marked(Hydrated)
<1>1. Len(live) \in Nat /\ DOMAIN live = 1..Len(live)
      /\ \A i \in 1..Len(live) : live[i] \in Messages
  BY LenProperties, ElementOfSeq DEF LogInv, Typed
<1>2. \A e \in Messages : [e EXCEPT !.trim = FALSE] \in Messages
                          /\ ~[e EXCEPT !.trim = FALSE].trim
  BY DEF Messages
<1>3. Hydrated \in [1..Len(live) -> Messages] /\ \A i \in 1..Len(live) : ~Hydrated[i].trim
  BY <1>1, <1>2 DEF Hydrated
<1>4. Hydrated \in Seq(Messages) /\ Len(Hydrated) = Len(live) /\ DOMAIN Hydrated = 1..Len(live)
  BY <1>1, <1>3, IsASeq, LenProperties
<1> QED
  BY <1>3, <1>4 DEF Marked

\* A rewind takes up the first messages and keeps all of them aside.
LEMMA RewindStep ==
    ASSUME LogInv, NEW n \in DOMAIN live, Rewind(n)
    PROVE  LogInv'
<1> DEFINE h == Hydrated
           m == Before(h, n - 1)
           x == [Idle EXCEPT !.op = "rewind", !.pc = "queued", !.gen = gen + 1,
                             !.msgs = m, !.empty = TRUE, !.orig = h]
<1>1. /\ Quiet /\ ResetList(m) /\ queue' = Append(queue, Main) /\ UNCHANGED files
      /\ used' \in [Kinds -> Nat] /\ used'["message"] = used["message"]
      /\ job' = [job EXCEPT ![Main] = [Idle EXCEPT !.op = "rewind", !.pc = "queued",
                    !.gen = gen', !.msgs = live', !.empty = TRUE, !.orig = h]]
  BY SpendCounts DEF Rewind, LogInv
<1>2. gen' = gen + 1 /\ live' = m
  BY <1>1 DEF ResetList, Invalidate
<1>3. job' = [job EXCEPT ![Main] = x]
  BY <1>1, <1>2
<1>4. /\ h \in Seq(Messages) /\ Len(h) = Len(live) /\ ~Marked(h)
      /\ \A i \in 1..Len(live) : ~h[i].trim
  BY HydratedIs
<1>5. live \in Seq(Messages) /\ Len(live) < fresh /\ gen \in Nat /\ fresh \in Nat
  BY DEF LogInv, Typed, Lengths
<1> HIDE DEF h
<1>6. Len(live) \in Nat /\ n \in 1..Len(live) /\ n - 1 \in 0..Len(h)
  BY <1>4, <1>5, LenProperties
<1>7. m \in Seq(Messages) /\ Len(m) = n - 1 /\ \A i \in 1..(n - 1) : m[i] = h[i]
  BY <1>4, <1>6, BeforeItems
<1> HIDE DEF m
<1>8. ~Marked(m) /\ Len(m) < fresh
  <2>1. DOMAIN m = 1..(n - 1) /\ \A i \in 1..(n - 1) : i \in 1..Len(live)
    BY <1>6, <1>7, LenProperties
  <2>2. ~Marked(m)
    BY <1>4, <1>7, <2>1 DEF Marked
  <2> QED
    BY <1>5, <1>6, <1>7, <2>2
<1>9. /\ x \in Jobs /\ x.op = "rewind" /\ x.pc = "queued" /\ x.gen = gen + 1 /\ x.msgs = m
      /\ x.auth = None /\ x.cursor = None /\ x.orig = h
  <2>1. Idle \in Jobs /\ Idle.auth = None /\ Idle.cursor = None
    BY EmptySeq DEF Idle, Jobs, Phases
  <2>2. gen + 1 \in Nat
    BY <1>5
  <2> QED
    BY <1>4, <1>7, <2>1, <2>2 DEF Jobs, Phases
<1> HIDE DEF x
<1>10. ~Down /\ ~Among(Main)
  BY <1>1 DEF Quiet, Down, At, LogInv, QueueTrue, Tasks
<1> QED
  BY <1>1, <1>2, <1>3, <1>4, <1>5, <1>7, <1>8, <1>9, <1>10, ListTaken

\* The list that the rewind kept aside has its originals.
LEMMA KeptAside ==
    ASSUME LogInv, job[Main].op = "rewind"
    PROVE  /\ job[Main].orig \in Seq(Messages) /\ ~Marked(job[Main].orig)
           /\ Len(job[Main].orig) < fresh /\ ~Down /\ Idle \in Jobs
           /\ used \in [Kinds -> Nat]
<1>1. Main \in Tasks
  BY DEF Tasks
<1>2. Idle \in Jobs
  BY EmptySeq DEF Idle, Jobs, Phases
<1> QED
  BY <1>1, <1>2 DEF LogInv, Typed, Jobs, RewindTrue, Lengths, StepsTrue, Down, At

\* A rewind that failed takes the list back.
LEMMA RewindFailedStep ==
    ASSUME LogInv, RewindFailed
    PROVE  LogInv'
<1>1. /\ Holds(Main) /\ queue' = Tail(queue) /\ job' = [job EXCEPT ![Main] = Idle]
      /\ ResetList(job[Main].orig) /\ UNCHANGED <<disk, meta, kept, used>>
      /\ job[Main].op = "rewind"
  BY DEF RewindFailed, Release, files
<1> QED
  BY <1>1, KeptAside, ListTaken DEF files

\* So does one that is cancelled.
LEMMA RewindCancelledStep ==
    ASSUME LogInv, RewindCancelled
    PROVE  LogInv'
<1>1. /\ Leave(Main) /\ job' = [job EXCEPT ![Main] = Idle]
      /\ ResetList(job[Main].orig) /\ UNCHANGED <<disk, meta, kept, used>>
      /\ job[Main].op = "rewind"
  BY DEF RewindCancelled, files
<1> QED
  BY <1>1, KeptAside, ListTaken DEF files

-----------------------------------------------------------------------------
(* Seals *)

\* The trim after a turn waits for the saves before it.
LEMMA PostTurnTrimStep ==
    ASSUME LogInv, PostTurnTrim
    PROVE  LogInv'
<1> DEFINE x == [Idle EXCEPT !.op = "drain", !.pc = "queued"]
<1>1. /\ Quiet /\ job' = [job EXCEPT ![Main] = x] /\ queue' = Append(queue, Main)
      /\ used' \in [Kinds -> Nat] /\ used'["message"] = used["message"]
      /\ UNCHANGED <<list, gen, cursor, since, descr, disk, kept>>
  BY SpendCounts DEF PostTurnTrim, log, files, LogInv
<1>2. /\ x \in Jobs /\ x.op = "drain" /\ x.pc = "queued" /\ x.msgs = <<>> /\ x.orig = <<>>
      /\ x.cursor = None
  BY EmptySeq DEF Idle, Jobs, Phases
<1> HIDE DEF x
<1>3. ~Among(Main) /\ Main \in Tasks /\ Main \notin Savers /\ job[Main].pc = "idle"
      /\ Len(<<>>) < fresh
  BY <1>1, LogAssumption, LenProperties, EmptySeq DEF Quiet, At, LogInv, QueueTrue, Tasks,
     Typed, Lengths
<1> QED
  BY <1>1, <1>2, <1>3, TakesUp DEF Counted

\* It gives the lock up and takes its snapshot, unless nothing is to be sealed.
LEMMA DrainedStep ==
    ASSUME LogInv, Drained
    PROVE  LogInv'
<1> DEFINE x == Snapshot("seal", "plan")
<1>1. /\ Holds(Main) /\ job[Main].op = "drain" /\ queue' = Tail(queue)
      /\ job' = [job EXCEPT ![Main] = Idle] \/ job' = [job EXCEPT ![Main] = x]
      /\ UNCHANGED <<list, gen, cursor, since, descr, disk, kept, used>>
  BY DEF Drained, log, files
<1>2. Main \in Tasks /\ Main \notin Savers /\ ~At(Main, "down") /\ Len(<<>>) < fresh
  BY <1>1, LogAssumption, LenProperties, EmptySeq DEF At, LogInv, StepsTrue, Tasks, Typed,
     Lengths
<1>3. CASE job' = [job EXCEPT ![Main] = Idle]
  BY <1>1, <1>2, <1>3, GoesIdle DEF LogInv, Typed, Lengths, FileSealed
<1>4. CASE job' = [job EXCEPT ![Main] = x]
  <2>1. /\ x \in Jobs /\ x.op = "seal" /\ x.pc = "plan" /\ x.gen = gen /\ x.msgs = live
        /\ x.auth = owned /\ x.orig = <<>> /\ x.cursor = None
    BY SnapshotIs
  <2> HIDE DEF x
  <2> QED
    BY <1>1, <1>2, <1>4, <2>1, TakesUp DEF Counted, LogInv, Typed
<1> QED
  BY <1>1, <1>3, <1>4

\* The trim after a compaction takes its snapshot at once.
LEMMA CompactionTrimStep ==
    ASSUME LogInv, CompactionTrim
    PROVE  LogInv'
<1> DEFINE x == Snapshot("seal", "plan")
<1>1. /\ Quiet /\ job' = [job EXCEPT ![Main] = x]
      /\ used' \in [Kinds -> Nat] /\ used'["message"] = used["message"]
      /\ UNCHANGED <<list, gen, cursor, since, descr, disk, kept, queue>>
  BY SpendCounts DEF CompactionTrim, log, files, LogInv
<1>2. /\ x \in Jobs /\ x.op = "seal" /\ x.pc = "plan" /\ x.gen = gen /\ x.msgs = live
      /\ x.auth = owned /\ x.orig = <<>> /\ x.cursor = None
  BY SnapshotIs
<1> HIDE DEF x
<1>3. ~Among(Main) /\ Main \in Tasks /\ Main \notin Savers /\ job[Main].pc = "idle"
      /\ Len(<<>>) < fresh
  BY <1>1, LogAssumption, LenProperties, EmptySeq DEF Quiet, At, LogInv, QueueTrue, Tasks,
     Typed, Lengths
<1> QED
  BY <1>1, <1>2, <1>3, TakesUp DEF Counted

\* A seal goes over the list as it is, from the descriptor the list has, to the
\* newest boundary.
LEMMA SealedIs ==
    ASSUME LogInv, job[Main].op = "seal", Sealable
    PROVE  /\ Sealed \in Seals /\ Whole(Sealed) /\ Covers(Sealed, live)
           /\ Names(Sealed, live) /\ Sealed.epoch = epoch
<1> USE DEF LogInv
<1> DEFINE n == Eligible(live)
           old == IF owned = None THEN <<>> ELSE owned.recs
           k == Len(old)
           sub == SubSeq(live, k + 1, n)
           new == Records(sub)
<1>1. /\ Main \in Tasks /\ job[Main].msgs = live /\ job[Main].gen = gen
      /\ job[Main].auth = owned
  BY DEF SealTrue, SnapshotsSealed, SnapshotSealed, Saves, Tasks
<1>2. /\ live \in Seq(Messages) /\ epoch \in Nat /\ owned \in Seals \cup {None}
      /\ Whole(owned) /\ Covers(owned, live) /\ Names(owned, live)
  BY DEF Typed, SealShared, ListSealed, Whole
<1>3. /\ Len(live) \in Nat /\ DOMAIN live = 1..Len(live)
      /\ \A i \in 1..Len(live) : live[i] \in Messages
  BY <1>2, LenProperties, ElementOfSeq
<1>4. n \in Nat /\ n <= Len(live) /\ n > 0 /\ n + 1 \in 1..Len(live)
      /\ (owned # None => owned.count <= n)
  BY <1>1, <1>2, <1>3, BoundaryIs DEF Sealable, SealCount
<1>5. /\ old \in Seq(Lines) /\ k \in 0..n /\ ~Marked(old)
      /\ (owned # None => k = owned.count)
      /\ \A i \in 1..k : old[i].id = live[i].id
  <2>1. CASE owned = None
    <3>1. old = <<>> /\ k = 0 /\ old \in Seq(Lines)
      BY <2>1, EmptySeq
    <3>2. ~Marked(<<>>)
      BY DEF Marked
    <3> HIDE DEF k, old
    <3>3. k \in 0..n /\ \A i \in 1..k : old[i].id = live[i].id
      BY <1>4, <3>1
    <3> QED
      BY <2>1, <3>1, <3>2, <3>3
  <2>2. CASE owned # None
    <3>1. /\ old = owned.recs /\ old \in Seq(Lines) /\ k = owned.count /\ ~Marked(old)
          /\ owned.count \in Nat
      BY <1>2, <2>2 DEF Seals, Whole
    <3> QED
      BY <1>2, <1>4, <2>2, <3>1 DEF Names
  <2> QED
    BY <2>1, <2>2
<1>6. Sealed = [epoch |-> epoch, count |-> n, recs |-> old \o new,
                boundary |-> live[n + 1].id]
  BY <1>1 DEF Sealed, SealCount
<1> HIDE DEF n, old
<1>7. /\ sub \in Seq(Messages) /\ Len(sub) = n - k
      /\ \A i \in 1..(n - k) : sub[i] = live[k + i]
  <2>1. k + 1 \in Int /\ n \in Int /\ \A i \in (k + 1)..n : live[i] \in Messages
    BY <1>3, <1>4, <1>5
  <2>2. /\ sub \in Seq(Messages)
        /\ Len(sub) = IF k + 1 <= n THEN n - (k + 1) + 1 ELSE 0
        /\ \A i \in 1..(n - (k + 1) + 1) : sub[i] = live[(k + 1) + i - 1]
    BY <2>1, SubSeqProperties
  <2>3. Len(sub) = n - k /\ n - (k + 1) + 1 = n - k
    BY <1>4, <1>5, <2>2
  <2>4. \A i \in 1..(n - k) : (k + 1) + i - 1 = k + i
    BY <1>5
  <2> QED
    BY <2>2, <2>3, <2>4
<1> HIDE DEF k, sub
<1>8. DOMAIN sub = 1..(n - k)
  BY <1>7, LenProperties
<1>9. \A i \in 1..(n - k) : k + i \in 1..Len(live) /\ ~(k + i <= k) /\ k + i \in (k + 1)..n
  BY <1>3, <1>4, <1>5
<1>10. ~Marked(sub)
  <2> SUFFICES ASSUME NEW i \in 1..(n - k), sub[i].trim
               PROVE  FALSE
    BY <1>8 DEF Marked
  <2>1. live[k + i].trim /\ k + i \in DOMAIN live
    BY <1>3, <1>7, <1>9
  <2>2. owned # None /\ k + i <= owned.count
    BY <1>2, <2>1 DEF Covers
  <2> QED
    BY <1>5, <1>9, <2>2
<1>11. /\ new \in Seq(Lines) /\ Len(new) = n - k /\ ~Marked(new)
       /\ \A i \in 1..(n - k) : new[i].id = live[k + i].id
  BY <1>7, <1>10, RecordsItems
<1> HIDE DEF new
<1>12. /\ old \o new \in Seq(Lines) /\ Len(old \o new) = n /\ ~Marked(old \o new)
       /\ \A i \in 1..n : (old \o new)[i] = IF i <= k THEN old[i] ELSE new[i - k]
  <2>1. /\ old \o new \in Seq(Lines) /\ Len(old \o new) = k + Len(new)
        /\ \A i \in 1..(k + Len(new)) :
              (old \o new)[i] = IF i <= k THEN old[i] ELSE new[i - k]
    BY <1>5, <1>11, ConcatProperties DEF k
  <2>2. k + Len(new) = n
    BY <1>4, <1>5, <1>11
  <2> QED
    BY <1>5, <1>11, <2>1, <2>2, MarkedConcat
<1>13. ASSUME NEW i \in 1..n
       PROVE  (old \o new)[i].id = live[i].id
  <2>1. CASE i <= k
    <3>1. i \in 1..k
      BY <1>4, <1>5, <2>1
    <3> QED
      BY <1>5, <1>12, <2>1, <3>1
  <2>2. CASE ~(i <= k)
    <3>1. i - k \in 1..(n - k) /\ k + (i - k) = i
      BY <1>4, <1>5, <2>2
    <3>2. new[i - k].id = live[i].id
      BY <1>11, <3>1
    <3> QED
      BY <1>12, <2>2, <3>2
  <2> QED
    BY <2>1, <2>2
<1>14. live[n + 1].id \in Nat
  BY <1>3, <1>4 DEF Messages
<1>15. /\ Sealed.count = n /\ Sealed.recs = old \o new /\ Sealed.epoch = epoch
       /\ Sealed \in Seals
  BY <1>2, <1>4, <1>6, <1>12, <1>14 DEF Seals
<1>16. \A i \in DOMAIN live : live[i].trim => i <= n
  <2> SUFFICES ASSUME NEW i \in 1..Len(live), live[i].trim
               PROVE  i <= n
    BY <1>3
  <2>1. owned # None /\ i <= owned.count
    BY <1>2, <1>3 DEF Covers
  <2> QED
    BY <1>3, <1>4, <1>5, <2>1
<1>17. Sealed # None
  BY <1>15, LogAssumption
<1> QED
  BY <1>4, <1>12, <1>13, <1>15, <1>16, <1>17 DEF Whole, Covers, Names

\* A seal that is planned asks for the lock.
LEMMA SealPlanStep ==
    ASSUME LogInv, SealPlan
    PROVE  LogInv'
<1> USE DEF LogInv
<1> DEFINE x == [job[Main] EXCEPT !.pc = "queued", !.plan = Sealed]
<1>1. /\ job[Main].op = "seal" /\ job[Main].pc = "plan" /\ Sealable
      /\ job' = [job EXCEPT ![Main] = x] /\ queue' = Append(queue, Main)
      /\ UNCHANGED <<list, gen, cursor, since, descr, disk, kept, used>>
  BY DEF SealPlan, At, log, files
<1>2. /\ Sealed \in Seals /\ Whole(Sealed) /\ Covers(Sealed, live)
      /\ Names(Sealed, live) /\ Sealed.epoch = epoch
  BY <1>1, SealedIs
<1>3. /\ Main \in Tasks /\ Main \notin Savers /\ job[Main] \in Jobs /\ ~Among(Main)
      /\ job[Main].msgs = live /\ job[Main].gen = gen /\ job[Main].auth = owned
      /\ Len(job[Main].orig) < fresh /\ Counted(job[Main].cursor)
      /\ used \in [Kinds -> Nat]
  BY <1>1, LogAssumption DEF SealTrue, SnapshotsSealed, SnapshotSealed, Saves, Tasks,
     Typed, QueueTrue, Lengths
<1>4. /\ x \in Jobs /\ x.op = "seal" /\ x.pc = "queued" /\ x.plan = Sealed
      /\ x.msgs = live /\ x.gen = gen /\ x.auth = owned /\ x.orig = job[Main].orig
      /\ x.cursor = job[Main].cursor
  BY <1>1, <1>2, <1>3 DEF Jobs, Phases
<1> HIDE DEF x
<1> QED
  BY <1>1, <1>2, <1>3, <1>4, TakesUp

\* The sealing save is done, and its bytes are to be read back.
LEMMA SealPersistedStep ==
    ASSUME LogInv, SealPersisted
    PROVE  LogInv'
<1> USE DEF LogInv
<1> DEFINE x == [job[Main] EXCEPT !.pc = "verify"]
<1>1. /\ Holds(Main) /\ job[Main].op = "seal" /\ At(Main, "done") /\ InstallCursor(Main)
      /\ job' = [job EXCEPT ![Main] = x]
      /\ UNCHANGED <<list, disk, kept, gen, descr, queue, used>>
  BY DEF SealPersisted, Goto, files
<1>2. Main \in Tasks /\ Saves(Main) /\ Works(Main) /\ job[Main] \in Jobs
  BY <1>1 DEF Tasks, Saves, Works, At, Typed
<1>3. /\ cursor' \in Cursors \cup {None} /\ since' \in Nat /\ Counted(cursor')
      /\ cursor' # None /\ owned # None => owned.count <= cursor'.count
  BY <1>1, <1>2, CursorInstalled
<1>4. /\ x \in Jobs /\ x.op = job[Main].op /\ x.gen = job[Main].gen
      /\ x.msgs = job[Main].msgs /\ x.auth = job[Main].auth /\ x.plan = job[Main].plan
      /\ x.orig = job[Main].orig /\ x.cursor = job[Main].cursor /\ x.pc = "verify"
  BY <1>2 DEF Jobs, Phases
<1> HIDE DEF x
<1>5. /\ Counted(x.cursor)
      /\ owned # None => x.auth = owned
      /\ x.cursor # None /\ x.auth # None => x.auth.count <= x.cursor.count
  BY <1>2, <1>4 DEF Lengths, SnapshotsSealed, SnapshotSealed
<1>6. /\ disk' \in Seq(Lines) \cup {None} /\ Len(Content(disk')) < fresh
      /\ ~Marked(Content(disk'))
      /\ owned # None => IsPrefix(owned.recs, Content(disk'))
      /\ kept' \subseteq Seq(Lines) /\ \A f \in kept' : ~Marked(f)
  BY <1>1 DEF Typed, Lengths, FileSealed
<1>7. used' \in [Kinds -> Nat] /\ used'["message"] = used["message"]
  BY <1>1 DEF Typed
<1> QED
  BY <1>1, <1>2, <1>3, <1>4, <1>5, <1>6, <1>7, WorkerMoves

\* The receipt, the fence and the trim are one step: no snapshot taken before it
\* is written after it, and no worker is between.
LEMMA PublishStep ==
    ASSUME LogInv, Publish
    PROVE  LogInv'
<1> USE DEF LogInv
<1> DEFINE p == job[Main].plan
<1>1. /\ Holds(Main) /\ job[Main].op = "seal" /\ job[Main].pc = "verify"
      /\ IsPrefix(p.recs, Content(disk)) /\ gen' = gen + 1 /\ cursor' = None /\ since' = 0
      /\ live' = [i \in DOMAIN live |->
                    IF i <= p.count THEN [live[i] EXCEPT !.trim = TRUE] ELSE live[i]]
      /\ owned' = p /\ descr' = p /\ queue' = Tail(queue)
      /\ job' = [job EXCEPT ![Main] = Idle]
      /\ UNCHANGED <<epoch, fresh, disk, kept, used>>
  BY DEF Publish, At, Verified, Invalidate, Release, files
<1>2. /\ p \in Seals /\ Whole(p) /\ Covers(p, live) /\ Names(p, live) /\ p.epoch = epoch
      /\ p # None
  BY <1>1, LogAssumption DEF SealTrue
<1> HIDE DEF p
<1>3. /\ Main \in Tasks /\ Idle \in Jobs /\ Idle.op = "idle" /\ Idle.pc = "idle"
      /\ Idle.msgs = <<>> /\ Idle.orig = <<>> /\ Idle.cursor = None
  BY EmptySeq DEF Tasks, Idle, Jobs, Phases
<1>4. /\ job' \in [Tasks -> Jobs] /\ job'[Main] = Idle
      /\ \A u \in Tasks : u # Main => job'[u] = job[u]
  BY <1>1, <1>3 DEF Typed
<1>5. /\ queue' \in Seq(Tasks) /\ Apart'
      /\ \A u : Among(u)' <=> Among(u) /\ u # Main
      /\ \A u : Holds(u) /\ u # Main => Holds(u)'
  BY <1>1, LeaveQueue DEF Typed, QueueTrue
<1>6. /\ Len(live) \in Nat /\ DOMAIN live = 1..Len(live)
      /\ \A i \in 1..Len(live) : live[i] \in Messages
  BY LenProperties, ElementOfSeq DEF Typed
<1>7. \A e \in Messages : /\ [e EXCEPT !.trim = TRUE] \in Messages
                          /\ [e EXCEPT !.trim = TRUE].id = e.id
  BY DEF Messages
<1>8. /\ live' \in [1..Len(live) -> Messages]
      /\ \A i \in 1..Len(live) :
            /\ live'[i].id = live[i].id
            /\ live'[i].trim => i <= p.count \/ live[i].trim
  BY <1>1, <1>6, <1>7
<1>9. live' \in Seq(Messages) /\ Len(live') = Len(live) /\ DOMAIN live' = 1..Len(live)
  BY <1>6, <1>8, IsASeq, LenProperties
<1>10. Typed'
  BY <1>1, <1>2, <1>4, <1>5, <1>9 DEF Typed
<1>11. QueueTrue'
  BY <1>3, <1>4, <1>5 DEF QueueTrue, Works
<1>12. StepsTrue'
  BY <1>3, <1>4 DEF StepsTrue, At, Down, Tasks
<1>13. Lengths'
  BY SMTT(30), <1>1, <1>3, <1>4, <1>9, EmptySeq DEF Lengths, Counted, Typed
<1>14. SealShared'
  BY <1>1, <1>2 DEF SealShared, Whole, Marked, Typed
<1>15. ListSealed'
  BY <1>1, <1>2, <1>6, <1>8, <1>9 DEF ListSealed, Covers, Names, Seals
<1>16. FileSealed'
  BY <1>1 DEF FileSealed
<1>17. SnapshotsSealed'
  <2>1. ASSUME NEW u \in Tasks, Saves(u)'
        PROVE  SnapshotSealed(u)'
    <3>1. u # Main /\ Saves(u) /\ job'[u] = job[u] /\ ~Works(u)
      BY <1>1, <1>3, <1>4, <2>1 DEF Saves, QueueTrue, Holds
    <3>2. job[u].gen \in Nat /\ job[u].gen <= gen /\ gen \in Nat
      BY <3>1 DEF Typed, Jobs, SnapshotsSealed, SnapshotSealed
    <3> QED
      BY <1>1, <3>1, <3>2 DEF SnapshotsSealed, SnapshotSealed, Works, Whole, Covers, Marked
  <2> QED
    BY <2>1 DEF SnapshotsSealed
<1>18. SealTrue' /\ RewindTrue'
  BY <1>3, <1>4 DEF SealTrue, RewindTrue
<1> QED
  BY <1>10, <1>11, <1>12, <1>13, <1>14, <1>15, <1>16, <1>17, <1>18

\* A seal that is refused leaves the originals in memory.
LEMMA SealRefusedStep ==
    ASSUME LogInv, SealRefused
    PROVE  LogInv'
<1>1. /\ Leave(Main) /\ job' = [job EXCEPT ![Main] = Idle] /\ job[Main].op = "seal"
      /\ UNCHANGED <<list, gen, cursor, since, descr, disk, kept, used>>
  BY DEF SealRefused, log, files
<1>2. Main \in Tasks /\ ~At(Main, "down")
  BY <1>1 DEF LogInv, StepsTrue, At, Tasks
<1> QED
  BY <1>1, <1>2, GoesIdle DEF LogInv, Typed, Lengths, FileSealed

\* So does one that is cancelled.
LEMMA SealCancelledStep ==
    ASSUME LogInv, SealCancelled
    PROVE  LogInv'
<1>1. /\ Leave(Main) /\ job' = [job EXCEPT ![Main] = Idle] /\ ~At(Main, "down")
      /\ UNCHANGED <<list, gen, cursor, since, descr, disk, kept, used>>
  BY DEF SealCancelled, log, files, At
<1>2. Main \in Tasks
  BY DEF Tasks
<1> QED
  BY <1>1, <1>2, GoesIdle DEF LogInv, Typed, Lengths, FileSealed

-----------------------------------------------------------------------------
(* Death and restart *)

\* The process dies: only the files stay, the transcript perhaps with a part of
\* what was being appended.
LEMMA CrashStep ==
    ASSUME LogInv, Crash
    PROVE  LogInv'
<1> USE DEF LogInv
<1>1. /\ live' = <<>> /\ epoch' = 0 /\ owned' = None /\ cursor' = None /\ since' = 0
      /\ gen' = 0 /\ descr' = None /\ queue' = <<>> /\ UNCHANGED <<fresh, kept>>
      /\ job' = [t \in Tasks |-> IF t = Main THEN [Idle EXCEPT !.pc = "down"] ELSE Idle]
      /\ used' \in [Kinds -> Nat] /\ used'["message"] = used["message"]
  BY SpendCounts DEF Crash
<1>2. /\ <<>> \in Seq(Messages) /\ <<>> \in Seq(Tasks) /\ Len(<<>>) = 0 /\ DOMAIN <<>> = {}
  BY EmptySeq
<1>3. \A x \in {Idle, [Idle EXCEPT !.pc = "down"]} :
         /\ x \in Jobs /\ x.op = "idle" /\ x.pc \in {"down", "idle"}
         /\ x.msgs = <<>> /\ x.orig = <<>> /\ x.cursor = None
  <2>1. /\ Idle \in Jobs /\ Idle.op = "idle" /\ Idle.pc = "idle"
        /\ Idle.msgs = <<>> /\ Idle.orig = <<>> /\ Idle.cursor = None
    BY <1>2 DEF Idle, Jobs, Phases
  <2> QED
    BY <2>1 DEF Jobs, Phases
<1>4. /\ job' \in [Tasks -> Jobs] /\ job'[Main].pc = "down"
      /\ \A t \in Tasks : /\ job'[t].op = "idle" /\ job'[t].pc \in {"down", "idle"}
                          /\ job'[t].msgs = <<>> /\ job'[t].orig = <<>>
                          /\ job'[t].cursor = None
      /\ \A t \in Savers : t \in Tasks /\ job'[t].pc = "idle"
  BY <1>1, <1>3, LogAssumption DEF Tasks, Idle
<1>5. /\ disk' \in Seq(Lines) \cup {None} /\ Len(Content(disk')) < fresh
      /\ ~Marked(Content(disk')) /\ fresh \in Nat
  <2>1. CASE UNCHANGED disk
    BY <2>1 DEF Typed, Lengths, FileSealed
  <2>2. CASE \E t \in Tasks : Writing(t) /\ Appends(t) /\ disk' \in AppendLeaves(t)
    <3>1. PICK t \in Tasks : Writing(t) /\ Appends(t) /\ disk' \in AppendLeaves(t)
      BY <2>2
    <3>2. Works(t) /\ Saves(t) /\ Len(job[t].msgs) \in Nat /\ Len(job[t].msgs) < fresh
          /\ fresh \in Nat
      BY <3>1, WriterIs
    <3>3. /\ disk' \in Seq(Lines) /\ ~Marked(disk') /\ Len(disk') <= Len(job[t].msgs)
      BY <3>1, <3>2, LeavesOriginal
    <3>4. Content(disk') = disk' /\ Len(disk') \in Nat
      BY <3>3, ContentIs, LenProperties
    <3> QED
      BY <3>2, <3>3, <3>4
  <2> QED
    BY <2>1, <2>2 DEF Crash
<1>6. Typed'
  BY <1>1, <1>2, <1>4, <1>5 DEF Typed
<1>7. QueueTrue'
  BY <1>1, <1>2, <1>4 DEF QueueTrue, Apart, Among, Works
<1>8. StepsTrue'
  <2>1. Main \notin Savers /\ Main \in Tasks
    BY LogAssumption DEF Tasks
  <2> QED
    BY <1>1, <1>4, <2>1 DEF StepsTrue, At, Down
<1>9. Lengths'
  <2>1. 0 < fresh
    BY <1>2 DEF Lengths, Typed
  <2>2. fresh' = fresh /\ fresh' = used'["message"] + 1
    BY <1>1 DEF Lengths
  <2> QED
    BY <1>1, <1>2, <1>4, <1>5, <2>1, <2>2 DEF Lengths, Counted
<1>10. SealShared' /\ ListSealed' /\ FileSealed'
  <2>1. \A f \in kept' : ~Marked(f)
    BY <1>1 DEF FileSealed
  <2> QED
    BY <1>1, <1>2, <1>5, <2>1 DEF SealShared, ListSealed, FileSealed, Whole, Covers, Names
<1>11. SnapshotsSealed' /\ SealTrue' /\ RewindTrue'
  <2>1. Main \in Tasks
    BY DEF Tasks
  <2> QED
    BY <1>4, <2>1 DEF SnapshotsSealed, SealTrue, RewindTrue, Saves
<1> QED
  BY <1>6, <1>7, <1>8, <1>9, <1>10, <1>11

\* What is recovered is the transcript, but for a last line cut short.
LEMMA RecoveredIs ==
    ASSUME NEW f \in Seq(Lines)
    PROVE  /\ Len(f) \in Nat /\ DOMAIN f = 1..Len(f)
           /\ Len(Recovered(f)) \in Nat /\ Len(Recovered(f)) <= Len(f)
           /\ DOMAIN Recovered(f) = 1..Len(Recovered(f))
           /\ \A i \in 1..Len(Recovered(f)) : Recovered(f)[i] = f[i]
           /\ \A i \in 1..Len(f) : i > Len(Recovered(f)) => f[i] = Torn
<1> DEFINE r == Recovered(f)
<1>1. Len(f) \in Nat /\ DOMAIN f = 1..Len(f)
  BY LenProperties
<1>2. CASE r = f
  BY <1>1, <1>2
<1>3. CASE r # f
  <2>1. r = Front(f) /\ f # <<>> /\ Last(f) = Torn
    BY <1>3 DEF Recovered
  <2>2. Len(f) > 0 /\ Len(f) - 1 \in 0..Len(f)
    BY <1>1, <2>1, EmptySeq
  <2>3. r = Before(f, Len(f) - 1) /\ f[Len(f)] = Torn
    BY <2>1 DEF Front, Last, Before
  <2>4. /\ r \in Seq(Lines) /\ Len(r) = Len(f) - 1
        /\ \A i \in 1..(Len(f) - 1) : r[i] = f[i]
    BY <2>2, <2>3, BeforeItems
  <2> HIDE DEF r
  <2>5. Len(r) \in Nat /\ Len(r) <= Len(f) /\ DOMAIN r = 1..Len(r)
    BY <1>1, <2>2, <2>4, LenProperties
  <2>6. ASSUME NEW i \in 1..Len(f), i > Len(r)
        PROVE  i = Len(f)
    <3>1. Len(r) = Len(f) - 1 /\ Len(f) \in Nat
      BY <1>1, <2>4
    <3> QED
      BY <2>6, <3>1
  <2>7. /\ Len(r) \in Nat /\ Len(r) <= Len(f) /\ DOMAIN r = 1..Len(r)
        /\ \A i \in 1..Len(r) : r[i] = f[i]
        /\ \A i \in 1..Len(f) : i > Len(r) => f[i] = Torn
    BY <2>3, <2>4, <2>5, <2>6
  <2> QED
    BY <1>1, <2>7 DEF r
<1> QED
  BY <1>2, <1>3

\* The list that is loaded is the transcript without a line cut short.
LEMMA RestartStep ==
    ASSUME LogInv, Restart
    PROVE  LogInv'
<1> USE DEF LogInv
<1> DEFINE r == Recovered(disk)
<1>1. /\ Down /\ Goto(Main, "idle") /\ disk # None /\ Torn \notin ToSet(r)
      /\ live' = [i \in DOMAIN r |-> Entry(disk[i].id, disk[i].kind)]
      /\ UNCHANGED <<epoch, owned, fresh, disk, kept, cursor, since, gen, descr, queue, used>>
  BY DEF Restart, Loadable, files, log
<1>2. disk \in Seq(Lines) /\ Content(disk) = disk /\ Len(disk) \in Nat
  BY <1>1, ContentIs, LenProperties DEF Typed
<1>3. /\ Len(r) \in Nat /\ Len(r) <= Len(disk) /\ DOMAIN r = 1..Len(r)
      /\ \A i \in 1..Len(r) : r[i] = disk[i]
  BY <1>2, RecoveredIs
<1> HIDE DEF r
<1>4. ASSUME NEW i \in 1..Len(r)
      PROVE  /\ Entry(disk[i].id, disk[i].kind) \in Messages
             /\ ~Entry(disk[i].id, disk[i].kind).trim
  <2>1. i \in 1..Len(disk) /\ disk[i] = r[i]
    BY <1>2, <1>3
  <2>2. disk[i] \in Lines /\ disk[i] # Torn
    <3>1. r[i] \in ToSet(r)
      BY <1>3 DEF ToSet
    <3> QED
      BY <1>1, <1>2, <2>1, <3>1, ElementOfSeq
  <2> QED
    BY <2>2 DEF Lines, Entry, Messages
<1>5. /\ live' \in [1..Len(r) -> Messages] /\ \A i \in 1..Len(r) : ~live'[i].trim
  BY <1>1, <1>3, <1>4
<1>6. live' \in Seq(Messages) /\ Len(live') = Len(r) /\ DOMAIN live' = 1..Len(r)
  BY <1>3, <1>5, IsASeq, LenProperties
<1>7. /\ Main \in Tasks /\ Main \notin Savers /\ job[Main] \in Jobs /\ job[Main].pc = "down"
      /\ job[Main].op = "idle" /\ owned = None /\ \A t \in Savers : job[t].pc = "idle"
  BY <1>1, LogAssumption DEF Tasks, Typed, StepsTrue, Down, At
<1>8. /\ job' \in [Tasks -> Jobs] /\ \A t \in Tasks : t # Main => job'[t] = job[t]
      /\ job'[Main].pc = "idle"
      /\ \A t \in Tasks : /\ job'[t].op = job[t].op /\ job'[t].gen = job[t].gen
                          /\ job'[t].msgs = job[t].msgs /\ job'[t].auth = job[t].auth
                          /\ job'[t].orig = job[t].orig /\ job'[t].cursor = job[t].cursor
  <2>1. job' = [job EXCEPT ![Main] = [job[Main] EXCEPT !.pc = "idle"]] /\ job \in [Tasks -> Jobs]
    BY <1>1 DEF Goto, Typed
  <2>2. [job[Main] EXCEPT !.pc = "idle"] \in Jobs
    BY <1>7 DEF Jobs, Phases
  <2>3. /\ job'[Main] = [job[Main] EXCEPT !.pc = "idle"]
        /\ \A t \in Tasks : t # Main => job'[t] = job[t]
        /\ job' \in [Tasks -> Jobs]
    BY <1>7, <2>1, <2>2
  <2> DEFINE d == [job[Main] EXCEPT !.pc = "idle"]
             j == job[Main]
  <2>4. /\ d.pc = "idle" /\ d.op = j.op /\ d.gen = j.gen /\ d.msgs = j.msgs
        /\ d.auth = j.auth /\ d.orig = j.orig /\ d.cursor = j.cursor
    BY <1>7 DEF Jobs
  <2> HIDE DEF d
  <2>5. job'[Main] = d
    BY <2>3 DEF d
  <2> QED
    BY <2>3, <2>4, <2>5
<1>9. Typed'
  BY <1>1, <1>6, <1>8 DEF Typed
<1>10. \A t \in Tasks : job[t].op = "idle" /\ job'[t].pc = "idle" /\ ~Works(t)
  BY <1>7, <1>8 DEF StepsTrue, Tasks, Works
<1>11. QueueTrue'
  BY <1>1, <1>7, <1>8, <1>10 DEF QueueTrue, Apart, Among, Works, Tasks
<1>12. StepsTrue'
  BY <1>7, <1>8, <1>10 DEF StepsTrue, At, Down, Tasks
<1>13. Lengths'
  <2>1. Len(live') < fresh /\ fresh \in Nat
    BY <1>2, <1>3, <1>6 DEF Lengths, Typed
  <2> QED
    BY <1>1, <1>8, <1>10, <2>1 DEF Lengths, Counted
<1>14. SealShared' /\ FileSealed'
  BY <1>1, <1>7 DEF SealShared, FileSealed, Whole, Marked
<1>15. ListSealed'
  BY <1>1, <1>5, <1>6, <1>7 DEF ListSealed, Covers, Names
<1>16. SnapshotsSealed' /\ SealTrue' /\ RewindTrue'
  BY <1>7, <1>8, <1>10 DEF SnapshotsSealed, SealTrue, RewindTrue, Saves
<1> QED
  BY <1>9, <1>11, <1>12, <1>13, <1>14, <1>15, <1>16

-----------------------------------------------------------------------------
(* The invariant *)

\* It holds in a new session.
LEMMA LogInit ==
    ASSUME Init
    PROVE  LogInv
<1>1. /\ <<>> \in Seq(Messages) /\ <<>> \in Seq(Tasks) /\ Len(<<>>) = 0 /\ DOMAIN <<>> = {}
  BY EmptySeq
<1>2. /\ Idle \in Jobs /\ Idle.op = "idle" /\ Idle.pc = "idle" /\ Idle.msgs = <<>>
      /\ Idle.orig = <<>> /\ Idle.cursor = None
  BY <1>1 DEF Idle, Jobs, Phases
<1>3. /\ live = <<>> /\ epoch = 0 /\ owned = None /\ fresh = 1 /\ disk = None /\ kept = {}
      /\ cursor = None /\ since = 0 /\ gen = 0 /\ descr = None /\ queue = <<>>
      /\ job \in [Tasks -> Jobs] /\ \A t \in Tasks : job[t] = Idle
      /\ used \in [Kinds -> Nat] /\ used["message"] = 0 /\ Content(disk) = <<>>
  BY <1>2 DEF Init, Kinds, Shapes, Content
<1>4. Main \in Tasks /\ \A t \in Savers : t \in Tasks
  BY DEF Tasks
<1>5. Typed
  BY <1>1, <1>3 DEF Typed
<1>6. QueueTrue
  BY <1>1, <1>2, <1>3 DEF QueueTrue, Apart, Among, Works
<1>7. StepsTrue
  BY <1>2, <1>3, <1>4 DEF StepsTrue, At, Down
<1>8. Lengths
  BY <1>1, <1>2, <1>3 DEF Lengths, Counted
<1>9. SealShared /\ ListSealed /\ FileSealed
  BY <1>1, <1>3 DEF SealShared, ListSealed, FileSealed, Whole, Covers, Names, Marked
<1>10. SnapshotsSealed /\ SealTrue /\ RewindTrue
  BY <1>2, <1>3, <1>4 DEF SnapshotsSealed, SealTrue, RewindTrue, Saves
<1> QED
  BY <1>5, <1>6, <1>7, <1>8, <1>9, <1>10 DEF LogInv

\* It holds when nothing happens.
LEMMA LogStutter ==
    ASSUME LogInv, UNCHANGED vars
    PROVE  LogInv'
<1>1. UNCHANGED <<live, epoch, owned, stamped, fresh, disk, meta, kept, cursor, since, gen,
                  descr, trimmed, queue, job, used>>
  BY DEF vars, list, files, log
<1>2. Typed' /\ QueueTrue' /\ StepsTrue' /\ Lengths'
  BY <1>1 DEF LogInv, Typed, QueueTrue, Apart, Among, Works, Holds, StepsTrue, At, Down,
     Lengths, Counted
<1>3. SealShared' /\ ListSealed' /\ FileSealed'
  BY <1>1 DEF LogInv, SealShared, ListSealed, FileSealed, Whole, Covers, Names, Marked
<1>4. SnapshotsSealed' /\ SealTrue' /\ RewindTrue'
  BY <1>1 DEF LogInv, SnapshotsSealed, SnapshotSealed, Saves, Works, SealTrue, RewindTrue,
     Whole, Covers, Names, Marked
<1> QED
  BY <1>2, <1>3, <1>4 DEF LogInv

\* Every step keeps it.
LEMMA LogNext ==
    ASSUME LogInv, [Next]_vars
    PROVE  LogInv'
<1>1. CASE \E k \in Shapes : AppendMessage(k)
  BY <1>1, AppendMessageStep
<1>2. CASE \E i \in DOMAIN live : \/ InsertMessage(i) \/ ReplacePlaceholder(i)
                                  \/ StampTiming(i) \/ EditCall(i) \/ Rewind(i)
  <2>1. PICK i \in DOMAIN live : \/ InsertMessage(i) \/ ReplacePlaceholder(i)
                                 \/ StampTiming(i) \/ EditCall(i) \/ Rewind(i)
    BY <1>2
  <2>2. i \in 1..Len(live)
    BY LenProperties DEF LogInv, Typed
  <2> QED
    BY <2>1, <2>2, InsertMessageStep, ReplacePlaceholderStep, StampTimingStep,
       EditCallStep, RewindStep
<1>3. CASE \E t \in Savers : SaveBegin(t) \/ SaveCancelled(t)
  <2>1. \A t \in Savers : t \in Tasks
    BY DEF Tasks
  <2> QED
    BY <1>3, <2>1, SaveBeginStep, SaveCancelledStep
<1>4. CASE \E t \in Tasks : LockStep(t)
  BY <1>4, SaveDiscardStep, LockGrantedStep DEF LockStep
<1>5. CASE \E t \in Tasks : WorkerStep(t)
  BY <1>5, WriteAppendStep, WriteReplaceStep, WriteNothingStep, QuarantineStep,
     ArchiveUnavailableStep, WriteMetadataStep DEF WorkerStep
<1>6. CASE \E t \in Tasks : LoopStep(t)
  BY <1>6, SaveDoneStep, SaveFailedStep DEF LoopStep
<1>7. CASE \E t \in Tasks : WriteFails(t) \/ MetadataFails(t)
  BY <1>7, WriteFailsStep, MetadataFailsStep
<1>8. CASE MainStep
  BY <1>8, RewindFailedStep, DrainedStep, SealPlanStep, SealPersistedStep, PublishStep,
     SealRefusedStep DEF MainStep
<1>9. CASE RewindCancelled \/ SealCancelled
  BY <1>9, RewindCancelledStep, SealCancelledStep
<1>10. CASE PostTurnTrim \/ CompactionTrim
  BY <1>10, PostTurnTrimStep, CompactionTrimStep
<1>11. CASE Crash \/ Restart
  BY <1>11, CrashStep, RestartStep
<1>12. CASE UNCHANGED vars
  BY <1>12, LogStutter
<1> QED
  BY <1>1, <1>2, <1>3, <1>4, <1>5, <1>6, <1>7, <1>8, <1>9, <1>10, <1>11, <1>12 DEF Next

\* The list, the descriptor, the snapshots that wait and the files agree about
\* what is sealed, at every moment and whatever failed or died before.
THEOREM Agreement == Spec => []LogInv
<1>1. Init => LogInv
  BY LogInit
<1>2. LogInv /\ [Next]_vars => LogInv'
  BY LogNext
<1> QED
  BY <1>1, <1>2, PTL DEF Spec

-----------------------------------------------------------------------------
(* What follows from it *)

\* Only the head of the save lock's queue has a worker, and every task that
\* waits is there once (TypeOK).
LEMMA TypeFollows ==
    ASSUME LogInv
    PROVE  TypeOK
<1> USE DEF LogInv
<1>1. Len(live) < fresh /\ fresh = used["message"] + 1
  BY DEF Lengths
<1>2. \A t \in Tasks : job[t].pc \in Phases
  BY DEF Typed, Jobs
<1>3. Len(queue) \in Nat /\ DOMAIN queue = 1..Len(queue)
  BY LenProperties DEF Typed
<1>4. Cardinality(ToSet(queue)) = Len(queue)
  <2> DEFINE n == Len(queue)
             S == ToSet(queue)
             f == [i \in 1..n |-> queue[i]]
  <2>1. S = {queue[i] : i \in 1..n}
    BY <1>3 DEF ToSet
  <2>2. ExistsBijection(1..n, S)
    <3>1. f \in [1..n -> S] /\ \A i \in 1..n : f[i] = queue[i]
      BY <2>1
    <3>2. \A i, k \in 1..n : f[i] = f[k] => i = k
      BY <1>3, <3>1 DEF QueueTrue, Apart
    <3>3. \A s \in S : \E i \in 1..n : f[i] = s
      BY <2>1, <3>1
    <3> HIDE DEF f, S
    <3> QED
      BY <3>1, <3>2, <3>3 DEF ExistsBijection, Bijection, Injection, Surjection,
         IsInjective
  <2>3. IsFiniteSet(1..n) /\ Cardinality(1..n) = n
    <3>1. n \in Int /\ 1 \in Int /\ (IF 1 > n THEN 0 ELSE n - 1 + 1) = n
      BY <1>3
    <3> HIDE DEF n
    <3> QED
      BY <3>1, FS_Interval
  <2> QED
    BY <2>2, <2>3, FS_Bijection
<1>5. \A t \in Tasks : Contains(queue, t) <=> job[t].pc \notin {"down", "idle", "plan"}
  BY DEF Contains, QueueTrue, Among
<1>6. \A t \in Tasks : Holds(t) \/ job[t].pc \in {"down", "idle", "plan", "queued"}
  BY DEF QueueTrue, Works
<1> QED
  BY <1>1, <1>2, <1>4, <1>5, <1>6 DEF TypeOK

\* The save lock has one holder, who alone has a worker, and a queue without
\* doubles; no list is longer than all that was said (session_logger's save lock).
THEOREM Typing == Spec => []TypeOK
<1>1. LogInv => TypeOK
  BY TypeFollows
<1> QED
  BY <1>1, Agreement, PTL

\* Where a message's payload was dropped from memory the transcript has the
\* original in the same place (fence_and_publish_archive_trim): no write, failed
\* write, rewind, cancellation, crash or restart in between takes it away.
THEOREM Backed == Spec => []TrimBacked
<1>1. ASSUME LogInv, Marked(live)
      PROVE  /\ owned # None /\ owned = descr /\ owned.epoch = epoch
             /\ IsPrefix(owned.recs, Content(disk))
             /\ \A i \in DOMAIN live :
                   live[i].trim => i <= owned.count /\ owned.recs[i].id = live[i].id
  <2>1. live \in Seq(Messages) /\ owned \in Seals \cup {None}
        /\ Covers(owned, live) /\ Names(owned, live)
    BY <1>1 DEF LogInv, Typed, ListSealed
  <2>2. owned # None
    BY <1>1, <2>1 DEF Covers, Marked
  <2>3. owned = descr /\ owned.epoch = epoch /\ IsPrefix(owned.recs, Content(disk))
    BY <1>1, <2>2 DEF LogInv, SealShared, FileSealed
  <2>4. ASSUME NEW i \in DOMAIN live, live[i].trim
        PROVE  i <= owned.count /\ owned.recs[i].id = live[i].id
    <3>1. i <= owned.count /\ owned.count \in Nat
      BY <2>1, <2>2, <2>4 DEF Covers, Seals
    <3>2. i \in 1..owned.count
      BY <2>1, <3>1, LenProperties
    <3> QED
      BY <2>1, <2>2, <3>1, <3>2 DEF Names
  <2> QED
    BY <2>2, <2>3, <2>4
<1>2. LogInv => TrimBacked
  BY <1>1 DEF TrimBacked
<1> QED
  BY <1>2, Agreement, PTL

\* No transcript, nor one set aside, ever has a trimmed copy in place of a
\* payload, and the refusal of one (_message_record) is never needed.
THEOREM Originals == Spec => []OriginalsOnly
<1>1. LogInv => OriginalsOnly
  BY DEF LogInv, OriginalsOnly, FileSealed, StepsTrue, At
<1> QED
  BY <1>1, Agreement, PTL

-----------------------------------------------------------------------------
(* What the copies of a message say *)

\* No two messages of a list, and no two whole lines of a file, are the same one.
Distinct(s) == \A i, k \in DOMAIN s : s[i].id = s[k].id => i = k
Lined(f) ==
    \A i, k \in DOMAIN f :
        f[i].kind # "torn" /\ f[k].kind # "torn" /\ f[i].id = f[k].id => i = k
Earlier(s) == \A i \in DOMAIN s : s[i].id < fresh
IdsTrue ==
    /\ Distinct(live) /\ Earlier(live)
    /\ Lined(Content(disk)) /\ Earlier(Content(disk))
    /\ \A t \in Tasks : /\ Distinct(job[t].msgs) /\ Earlier(job[t].msgs)
                        /\ Distinct(job[t].orig) /\ Earlier(job[t].orig)

\* The sealed records are those of the messages of a snapshot.
RecordsTrue == \A t \in Tasks : Saves(t) => Names(job[t].auth, job[t].msgs)

\* A record is the original of a message.
Speaks(r, e) ==
    r.id = e.id /\ r.kind = e.kind /\ r.stamp = (e.id \in stamped) /\ ~r.trim

\* A snapshot that still counts is the start of the list, but for placeholders
\* replaced since; and a later one in the queue is not the older one.
Counts(t) == Saves(t) /\ job[t].gen = gen
Follows(s) ==
    /\ Len(s) <= Len(live)
    /\ \A i \in DOMAIN s :
          /\ s[i].id = live[i].id /\ s[i].trim = live[i].trim
          /\ \/ s[i].kind = live[i].kind
             \/ s[i].kind = "placeholder" /\ s[i].id \in swapped /\ ~s[i].trim
Older(a, b) ==
    /\ Len(a) <= Len(b)
    /\ \A i \in DOMAIN a : a[i].kind = b[i].kind \/ a[i].kind = "placeholder"
Ordered(t, u) ==
    Saves(t) /\ Counts(u) =>
        /\ Ids(job[t].msgs) \cap Ids(live) \subseteq Ids(job[u].msgs)
        /\ job[t].gen = gen => Older(job[t].msgs, job[u].msgs)
OrderTrue ==
    /\ \A t \in Tasks : Counts(t) => Follows(job[t].msgs)
    /\ \A m, n \in DOMAIN queue : m < n => Ordered(queue[m], queue[n])

\* What the cursor promises, also to the worker that was given it.
Faithful(f) == Len(f) <= Len(live) /\ \A i \in DOMAIN f : Persists(f[i], live[i])
Exact(c) == c # None => c.size = <<c.count, 0>>
CursorsTrue ==
    /\ Exact(cursor) /\ CursorTrue /\ (Down => cursor = None)
    /\ \A t \in Tasks :
          /\ Works(t) /\ job[t].gen # gen => cursor = None
          /\ Works(t) /\ job[t].gen = gen /\ job[t].pc # "verify" => job[t].cursor = cursor
          /\ /\ job[t].pc \in {"write", "rewrite"} /\ job[t].cursor # None
             /\ Size(disk) = job[t].cursor.size
             => \A i \in DOMAIN disk :
                    i <= Len(job[t].msgs) => disk[i].id = job[t].msgs[i].id

\* What a worker has written is what its snapshot says.
WrittenTrue ==
    \A t \in Tasks : job[t].pc \in {"meta", "done"} =>
        /\ \A i \in DOMAIN Content(disk) : Content(disk)[i].id = job[t].msgs[i].id
        /\ job[t].gen = gen => Faithful(Content(disk))

\* What was reported durable is in the list, in what may replace the file, and in
\* the file.
AckedTrue ==
    /\ Durable
    /\ ~Down => acked \subseteq Ids(live)
    /\ \A t \in Tasks :
          Saves(t) /\ (Works(t) \/ job[t].gen = gen) => acked \subseteq Ids(job[t].msgs)
    /\ job[Main].op = "rewind" => Ids(live) \subseteq Ids(job[Main].orig)

CopyInv ==
    /\ IdsTrue /\ RecordsTrue /\ OrderTrue /\ CursorsTrue /\ WrittenTrue /\ AckedTrue

-----------------------------------------------------------------------------
(* Sizes, and the places of a queue *)

\* A file without a line cut short has the size of its length, and only such a one.
LEMMA SizeExact ==
    ASSUME NEW f \in Seq(Lines)
    PROVE  /\ (\A i \in DOMAIN f : f[i] # Torn) => Size(f) = <<Len(f), 0>>
           /\ \A c : Size(f) = <<c, 0>> => Len(f) = c /\ \A i \in DOMAIN f : f[i] # Torn
<1> DEFINE T == {i \in DOMAIN f : f[i] = Torn}
<1>1. Len(f) \in Nat /\ DOMAIN f = 1..Len(f) /\ f # None
  BY LenProperties, ContentIs
<1>2. Size(f) = <<Len(f), Cardinality(T)>>
  BY <1>1 DEF Size
<1>3. IsFiniteSet(T)
  <2>1. IsFiniteSet(1..Len(f))
    BY <1>1, FS_Interval
  <2> QED
    BY <1>1, <2>1, FS_Subset
<1>4. Cardinality(T) = 0 <=> T = {}
  <2> HIDE DEF T
  <2> QED
    BY <1>3, FS_EmptySet
<1>5. T = {} <=> \A i \in DOMAIN f : f[i] # Torn
  OBVIOUS
<1> HIDE DEF T
<1>6. ASSUME NEW c, Size(f) = <<c, 0>>
      PROVE  Len(f) = c /\ Cardinality(T) = 0
  BY <1>2, <1>6
<1> QED
  BY <1>2, <1>4, <1>5, <1>6

\* The size of a missing file is no pair.
LEMMA NoSize ==
    ASSUME NEW f, NEW c, NEW n, Size(f) = <<c, n>>
    PROVE  f # None
<1>1. <<c, n>> # <<>>
  OBVIOUS
<1> QED
  BY <1>1 DEF Size

\* Those who stay in the queue keep their order.
LEMMA OrderLeft ==
    ASSUME queue \in Seq(Tasks), NEW t, Leave(t) \/ (Holds(t) /\ queue' = Tail(queue)),
           NEW m \in DOMAIN queue', NEW n \in DOMAIN queue', m < n
    PROVE  \E k, l \in DOMAIN queue : k < l /\ queue[k] = queue'[m] /\ queue[l] = queue'[n]
<1>1. Len(queue) \in Nat /\ DOMAIN queue = 1..Len(queue)
      /\ (queue # <<>> <=> Len(queue) > 0) /\ (queue # <<>> => Head(queue) = queue[1])
  BY LenProperties, EmptySeq
<1>2. CASE UNCHANGED queue
  BY <1>2
<1>3. ASSUME NEW c \in 1..Len(queue), queue' \in Seq(Tasks), Len(queue') = Len(queue) - 1,
             \A i \in 1..(Len(queue) - 1) :
                queue'[i] = IF i < c THEN queue[i] ELSE queue[i + 1]
      PROVE  \E k, l \in DOMAIN queue : k < l /\ queue[k] = queue'[m] /\ queue[l] = queue'[n]
  <2>1. m \in 1..(Len(queue) - 1) /\ n \in 1..(Len(queue) - 1)
    BY <1>3, LenProperties
  <2> DEFINE k == IF m < c THEN m ELSE m + 1
             l == IF n < c THEN n ELSE n + 1
  <2>2. queue'[m] = queue[k] /\ queue'[n] = queue[l]
    BY <1>3, <2>1
  <2>3. k \in 1..Len(queue) /\ l \in 1..Len(queue) /\ k < l
    BY <1>1, <1>3, <2>1
  <2> HIDE DEF k, l
  <2> QED
    BY <1>1, <2>2, <2>3
<1>4. CASE \E c \in DOMAIN queue : queue[c] = t /\ queue' = RemoveAt(queue, c)
  <2>1. PICK c \in 1..Len(queue) : queue[c] = t /\ queue' = RemoveAt(queue, c)
    BY <1>1, <1>4
  <2>2. /\ queue' \in Seq(Tasks) /\ Len(queue') = Len(queue) - 1
        /\ \A i \in 1..(Len(queue) - 1) :
              queue'[i] = IF i < c THEN queue[i] ELSE queue[i + 1]
    BY <2>1, RemoveItems
  <2> QED
    BY <1>3, <2>1, <2>2
<1>5. CASE Holds(t) /\ queue' = Tail(queue)
  <2>1. queue # <<>> /\ 1 \in 1..Len(queue)
    BY <1>1, <1>5 DEF Holds
  <2>2. /\ queue' \in Seq(Tasks) /\ Len(queue') = Len(queue) - 1
        /\ \A i \in 1..(Len(queue) - 1) : queue'[i] = queue[i + 1]
    BY <1>5, <2>1, HeadTailProperties
  <2>3. \A i \in 1..(Len(queue) - 1) :
              queue'[i] = IF i < 1 THEN queue[i] ELSE queue[i + 1]
    BY <1>1, <2>2
  <2> QED
    BY <1>3, <2>1, <2>2, <2>3
<1> QED
  BY <1>2, <1>4, <1>5 DEF Leave

\* Who joins it is behind all others.
LEMMA OrderJoined ==
    ASSUME queue \in Seq(Tasks), NEW t \in Tasks, queue' = Append(queue, t),
           NEW m \in DOMAIN queue', NEW n \in DOMAIN queue', m < n
    PROVE  /\ m \in DOMAIN queue /\ queue'[m] = queue[m]
           /\ \/ n \in DOMAIN queue /\ queue'[n] = queue[n]
              \/ queue'[n] = t
<1>1. Len(queue) \in Nat /\ DOMAIN queue = 1..Len(queue)
  BY LenProperties
<1>2. /\ queue' \in Seq(Tasks) /\ Len(queue') = Len(queue) + 1
      /\ \A i \in 1..Len(queue) : queue'[i] = queue[i]
      /\ queue'[Len(queue) + 1] = t
  BY AppendProperties
<1>3. DOMAIN queue' = 1..(Len(queue) + 1)
  BY <1>1, <1>2, LenProperties
<1>4. m \in 1..Len(queue) /\ (n \in 1..Len(queue) \/ n = Len(queue) + 1)
  BY <1>1, <1>3
<1> QED
  BY <1>1, <1>2, <1>4

\* What the cursor promises, in one word.
LEMMA CursorIs ==
    ASSUME Exact(cursor), disk \in Seq(Lines) \cup {None}
    PROVE  CursorTrue <=> (cursor # None /\ Size(disk) = cursor.size => Faithful(disk))
<1> SUFFICES ASSUME cursor # None, Size(disk) = cursor.size
             PROVE  /\ Len(disk) = cursor.count
                    /\ Faithful(disk) <=> /\ cursor.count <= Len(live)
                                          /\ \A i \in DOMAIN disk : Persists(disk[i], live[i])
  BY DEF CursorTrue
<1>1. Size(disk) = <<cursor.count, 0>>
  BY DEF Exact
<1>2. disk \in Seq(Lines)
  BY <1>1, NoSize
<1>3. Len(disk) = cursor.count
  BY <1>1, <1>2, SizeExact
<1> QED
  BY <1>3 DEF Faithful

-----------------------------------------------------------------------------
(* What a worker writes says what its snapshot says *)

\* The places of a list with a descriptor, as a save wants them.
LEMMA WantedAt ==
    ASSUME LogInv, NEW t \in Tasks, Saves(t), NEW i \in 1..Len(job[t].msgs)
    PROVE  Wanted(t)[i] = IF job[t].auth # None /\ i <= job[t].auth.count
                          THEN job[t].auth.recs[i] ELSE Record(job[t].msgs[i])
<1> DEFINE m == job[t].msgs
           d == job[t].auth
<1>1. m \in Seq(Messages) /\ d \in Seals \cup {None} /\ Whole(d) /\ Covers(d, m)
  BY DEF LogInv, Typed, Jobs, SnapshotsSealed, SnapshotSealed
<1>2. Len(m) \in Nat /\ i \in 1..Len(m)
  BY <1>1, LenProperties
<1>3. Wanted(t) = IF d = None THEN Records(m) ELSE d.recs \o Records(After(m, d.count))
  BY DEF Wanted
<1> HIDE DEF m, d
<1>4. CASE d = None
  BY <1>1, <1>2, <1>3, <1>4, RecordsItems DEF m, d
<1>5. CASE d # None
  <2> DEFINE a == After(m, d.count)
             b == Records(a)
             k == d.count
  <2>1. d.recs \in Seq(Lines) /\ Len(d.recs) = k /\ k \in 0..Len(m)
    BY <1>1, <1>2, <1>5 DEF Seals, Whole, Covers
  <2>2. a \in Seq(Messages) /\ Len(a) = Len(m) - k
        /\ \A j \in 1..(Len(m) - k) : a[j] = m[k + j]
    BY <1>1, <2>1, AfterItems
  <2> HIDE DEF a
  <2>3. b \in Seq(Lines) /\ Len(b) = Len(m) - k
        /\ \A j \in 1..(Len(m) - k) : b[j] = Record(m[k + j])
    BY SMTT(30), <2>2, RecordsItems
  <2>4. Wanted(t) = d.recs \o b
    BY <1>3, <1>5 DEF a
  <2> HIDE DEF b
  <2>5. \A j \in 1..(k + (Len(m) - k)) :
           (d.recs \o b)[j] = IF j <= k THEN d.recs[j] ELSE b[j - k]
    <3> HIDE DEF k
    <3>1. \A j \in 1..(Len(d.recs) + Len(b)) :
             (d.recs \o b)[j] = IF j <= Len(d.recs) THEN d.recs[j] ELSE b[j - Len(d.recs)]
      BY <2>1, <2>3, ConcatProperties
    <3> QED
      BY <2>1, <2>3, <3>1
  <2>6. k + (Len(m) - k) = Len(m) /\ k \in Nat
    BY <1>2, <2>1
  <2> HIDE DEF k
  <2>7. (d.recs \o b)[i] = IF i <= k THEN d.recs[i] ELSE b[i - k]
    BY <1>2, <2>5, <2>6
  <2>8. CASE i <= k
    BY <1>5, <2>4, <2>7, <2>8 DEF k, m, d
  <2>9. CASE ~(i <= k)
    <3>1. i - k \in 1..(Len(m) - k) /\ k + (i - k) = i
      BY <1>2, <2>6, <2>9
    <3>2. b[i - k] = Record(m[i])
      BY <2>3, <3>1
    <3> QED
      BY <1>5, <2>4, <2>7, <2>9, <3>2 DEF k, m, d
  <2> QED
    BY <2>8, <2>9
<1> QED
  BY <1>4, <1>5

\* A record of a message of a snapshot that counts persists what the list has.
LEMMA RecordPersists ==
    ASSUME LogInv, CopyInv, NEW t \in Tasks, Counts(t), NEW i \in 1..Len(job[t].msgs),
           ~job[t].msgs[i].trim
    PROVE  i \in 1..Len(live) /\ Persists(Record(job[t].msgs[i]), live[i])
<1> DEFINE m == job[t].msgs
<1>1. m \in Seq(Messages) /\ live \in Seq(Messages) /\ Follows(m)
  BY DEF LogInv, CopyInv, Typed, Jobs, OrderTrue
<1>2. Len(m) \in Nat /\ Len(live) \in Nat /\ DOMAIN m = 1..Len(m)
  BY <1>1, LenProperties
<1>3. i \in 1..Len(live)
  BY <1>1, <1>2 DEF Follows
<1>4. /\ m[i].id = live[i].id
      /\ \/ m[i].kind = live[i].kind
         \/ m[i].kind = "placeholder" /\ m[i].id \in swapped
  BY <1>1, <1>2 DEF Follows
<1> HIDE DEF m
<1>5. Persists(Record(m[i]), live[i])
  BY <1>4 DEF Persists, Record, m
<1> QED
  BY <1>3, <1>5 DEF m

\* Who has the lock is before all others.
LEMMA HeadOrdered ==
    ASSUME LogInv, CopyInv, NEW t \in Tasks, Holds(t), NEW u \in Tasks, Among(u), u # t
    PROVE  Ordered(t, u)
<1>1. queue \in Seq(Tasks) /\ queue # <<>> /\ t = queue[1]
  BY HeadTailProperties DEF LogInv, Typed, Holds
<1>2. PICK n \in DOMAIN queue : queue[n] = u
  BY DEF Among
<1>3. DOMAIN queue = 1..Len(queue) /\ Len(queue) \in Nat
  BY <1>1, LenProperties
<1>4. 1 \in DOMAIN queue /\ 1 < n
  BY <1>1, <1>2, <1>3
<1>5. Ordered(queue[1], queue[n])
  BY <1>2, <1>4 DEF CopyInv, OrderTrue
<1> QED
  BY <1>1, <1>2, <1>5

\* A snapshot that counts has the messages that nobody replaced where they are.
LEMMA UnchangedIs ==
    ASSUME LogInv, CopyInv, NEW t \in Tasks, Counts(t), NEW i \in 1..Len(live),
           live[i].id \in Unchanged(job[t].msgs)
    PROVE  i \in 1..Len(job[t].msgs) /\ job[t].msgs[i] = live[i]
<1> DEFINE s == job[t].msgs
<1>1. /\ live \in Seq(Messages) /\ DOMAIN live = 1..Len(live) /\ Len(live) \in Nat
      /\ Distinct(live)
  BY LenProperties DEF LogInv, CopyInv, Typed, IdsTrue
<1>2. s \in Seq(Messages)
  BY DEF LogInv, Typed, Jobs
<1>3. DOMAIN s = 1..Len(s) /\ Len(s) \in Nat
  BY <1>2, LenProperties
<1>4. Follows(s)
  BY DEF CopyInv, OrderTrue
<1> HIDE DEF s
<1>5. PICK e \in ToSet(s) \cap ToSet(live) : e.id = live[i].id
  BY DEF Unchanged, s
<1>6. PICK j \in DOMAIN s : e = s[j]
  BY <1>5 DEF ToSet
<1>7. PICK k \in DOMAIN live : e = live[k]
  BY <1>5 DEF ToSet
<1>8. k = i
  BY <1>1, <1>5, <1>7 DEF Distinct
<1>9. j \in 1..Len(live) /\ s[j].id = live[j].id
  <2>1. j \in 1..Len(s) /\ Len(s) <= Len(live)
    BY <1>3, <1>4, <1>6 DEF Follows
  <2>2. j \in 1..Len(live)
    BY <1>1, <1>3, <2>1
  <2> QED
    BY <1>4, <1>6, <2>2 DEF Follows
<1>10. j = i
  BY <1>1, <1>5, <1>6, <1>9 DEF Distinct
<1> QED
  BY <1>3, <1>6, <1>7, <1>8, <1>10 DEF s

\* The task that has the lock is the only one with a worker, and whoever else has a
\* snapshot waits behind it or has the list as it is.
LEMMA OthersWait ==
    ASSUME LogInv, NEW t \in Tasks, Holds(t), NEW u \in Tasks, u # t
    PROVE  /\ ~Works(u) /\ job[u].pc \notin {"write", "rewrite", "meta", "done"}
           /\ Saves(u) => Among(u) \/ job[u].msgs = live
           /\ ~Down
<1>1. ~Works(u) /\ job[u].pc \notin {"write", "rewrite", "meta", "done"}
  BY DEF LogInv, QueueTrue, Holds, Works
<1>2. ASSUME Saves(u), ~Among(u)
      PROVE  job[u].msgs = live
  <2>1. job[u].pc \in {"down", "idle", "plan"} /\ job[u].op # "idle"
    BY <1>2 DEF LogInv, QueueTrue, Saves
  <2>2. job[u].pc = "plan"
    BY <2>1 DEF LogInv, StepsTrue
  <2>3. job[u].op = "seal"
    BY <2>2 DEF LogInv, StepsTrue
  <2>4. u = Main
    BY <2>3 DEF LogInv, StepsTrue, Tasks
  <2> QED
    BY <2>3, <2>4 DEF LogInv, SealTrue
<1>3. Among(t)
  <2>1. queue \in Seq(Tasks) /\ queue # <<>> /\ Head(queue) = t
    BY DEF LogInv, Typed, Holds
  <2>2. 1 \in DOMAIN queue /\ Head(queue) = queue[1]
    <3>1. Len(queue) \in Nat /\ DOMAIN queue = 1..Len(queue) /\ Len(queue) # 0
      BY <2>1, LenProperties, EmptySeq
    <3> QED
      BY <2>1, <3>1, HeadTailProperties
  <2> QED
    BY <2>1, <2>2 DEF Among
<1>4. ~Down
  BY <1>3 DEF LogInv, QueueTrue, StepsTrue, Tasks, Down, At
<1> QED
  BY <1>1, <1>2, <1>4

\* Who replaces the file has compared the archive, if there is one.
LEMMA ReplacesTrue ==
    ASSUME LogInv, NEW t \in Tasks, Replaces(t)
    PROVE  job[t].auth = None \/ ~ArchiveFails(t)
  BY DEF LogInv, StepsTrue, Replaces, Verifies, At

\* What a save writes has the messages of its snapshot, and, as the archive was
\* compared with them, is the originals of all of them.
LEMMA WantedSpeaks ==
    ASSUME LogInv, CopyInv, NEW t \in Tasks, Saves(t)
    PROVE  /\ \A i \in 1..Len(job[t].msgs) : Wanted(t)[i].id = job[t].msgs[i].id
           /\ job[t].auth = None \/ ~ArchiveFails(t) =>
                \A i \in 1..Len(job[t].msgs) : Speaks(Wanted(t)[i], job[t].msgs[i])
<1> DEFINE m == job[t].msgs
           d == job[t].auth
<1>1. /\ m \in Seq(Messages) /\ d \in Seals \cup {None} /\ Names(d, m)
      /\ Whole(d) /\ Covers(d, m)
  BY DEF LogInv, CopyInv, Typed, Jobs, RecordsTrue, SnapshotsSealed, SnapshotSealed
<1>2. Len(m) \in Nat /\ DOMAIN m = 1..Len(m) /\ \A i \in 1..Len(m) : m[i] \in Messages
  BY <1>1, LenProperties, ElementOfSeq
<1>3. ASSUME NEW i \in 1..Len(m)
      PROVE  Wanted(t)[i].id = m[i].id
  <2>1. CASE d # None /\ i <= d.count
    <3>1. i \in 1..d.count
      BY <1>1, <1>2, <2>1 DEF Seals
    <3>2. Wanted(t)[i] = d.recs[i]
      BY <2>1, WantedAt
    <3> QED
      BY <1>1, <2>1, <3>1, <3>2 DEF Names
  <2>2. CASE ~(d # None /\ i <= d.count)
    <3>1. Wanted(t)[i] = Record(m[i])
      BY <2>2, WantedAt
    <3> QED
      BY <3>1 DEF Record
  <2> QED
    BY <2>1, <2>2
<1>4. ASSUME d = None \/ ~ArchiveFails(t), NEW i \in 1..Len(m)
      PROVE  Speaks(Wanted(t)[i], m[i])
  <2>1. CASE d # None /\ i <= d.count
    <3>1. /\ i \in 1..d.count /\ d.recs \in Seq(Lines) /\ Len(d.recs) = d.count
          /\ d.count \in Nat /\ ~Marked(d.recs)
      BY <1>1, <1>2, <2>1 DEF Seals, Whole
    <3>2. Wanted(t)[i] = d.recs[i]
      BY <2>1, WantedAt
    <3>3. DOMAIN d.recs = 1..d.count /\ d.recs[i] \in Lines
      BY <3>1, LenProperties, ElementOfSeq
    <3>4. i \in DOMAIN d.recs \cap DOMAIN m
      BY <1>2, <3>1, <3>3
    <3>5. Retains(Record(m[i]), d.recs[i])
      BY <1>4, <2>1, <3>4 DEF ArchiveFails
    <3>6. ~d.recs[i].trim
      BY <3>1, <3>3 DEF Marked
    <3> DEFINE a == d.recs[i]
               e == m[i]
    <3>7. Retains(Record(e), a) /\ ~a.trim /\ a \in Lines
      BY <3>3, <3>5, <3>6
    <3> HIDE DEF a, e
    <3>8. [a EXCEPT !.trim = TRUE].id = a.id /\ [a EXCEPT !.trim = TRUE].kind = a.kind
          /\ [a EXCEPT !.trim = TRUE].stamp = a.stamp
      BY <3>7 DEF Lines, Torn
    <3>9. Record(e).id = a.id /\ Record(e).kind = a.kind /\ Record(e).stamp = a.stamp
      BY <3>7, <3>8 DEF Retains
    <3>10. Speaks(a, e)
      BY <3>7, <3>9 DEF Speaks, Record
    <3> QED
      BY <3>2, <3>10 DEF a, e
  <2>2. CASE ~(d # None /\ i <= d.count)
    <3>1. Wanted(t)[i] = Record(m[i])
      BY <2>2, WantedAt
    <3>2. ~m[i].trim
      BY <1>1, <1>2, <2>2 DEF Covers
    <3> QED
      BY <3>1, <3>2 DEF Speaks, Record
  <2> QED
    BY <2>1, <2>2
<1> QED
  BY <1>3, <1>4

\* The originals of a snapshot that counts are what the list has, and those of the
\* messages that nobody replaced are what it has now.
LEMMA SpeaksFaithful ==
    ASSUME LogInv, CopyInv, NEW t \in Tasks, Counts(t), NEW f \in Seq(Lines),
           Len(f) = Len(job[t].msgs), \A i \in 1..Len(f) : Speaks(f[i], job[t].msgs[i])
    PROVE  /\ Faithful(f)
           /\ \A i \in DOMAIN f : live[i].id \in Unchanged(job[t].msgs) =>
                                     Speaks(f[i], live[i])
<1> DEFINE m == job[t].msgs
<1>1. m \in Seq(Messages) /\ live \in Seq(Messages) /\ Follows(m)
  BY DEF LogInv, CopyInv, Typed, Jobs, OrderTrue
<1>2. /\ Len(m) \in Nat /\ Len(live) \in Nat /\ DOMAIN m = 1..Len(m)
      /\ DOMAIN f = 1..Len(m)
  BY <1>1, LenProperties
<1>3. ASSUME NEW i \in DOMAIN f
      PROVE  /\ Persists(f[i], live[i])
             /\ live[i].id \in Unchanged(m) => Speaks(f[i], live[i])
  <2>1. i \in 1..Len(m) /\ i \in 1..Len(live) /\ Speaks(f[i], m[i])
    BY <1>1, <1>2, <1>3 DEF Follows
  <2>2. /\ m[i].id = live[i].id
        /\ \/ m[i].kind = live[i].kind
           \/ m[i].kind = "placeholder" /\ m[i].id \in swapped
    BY <1>1, <1>2, <2>1 DEF Follows
  <2>3. live[i].id \in Unchanged(m) => m[i] = live[i]
    BY <2>1, UnchangedIs
  <2> HIDE DEF m
  <2> QED
    BY <2>1, <2>2, <2>3 DEF Speaks, Persists
<1>4. Len(f) <= Len(live)
  BY <1>1, <1>2 DEF Follows
<1> QED
  BY <1>3, <1>4 DEF Faithful

\* So are they once the worker has verified them.
LEMMA VerifiedFaithful ==
    ASSUME LogInv, CopyInv, NEW t \in Tasks, Counts(t), UNCHANGED <<live, stamped>>,
           swapped' \in {swapped, swapped \ Unchanged(job[t].msgs)},
           Content(disk') \in Seq(Lines), Len(Content(disk')) = Len(job[t].msgs),
           \A i \in 1..Len(Content(disk')) : Speaks(Content(disk')[i], job[t].msgs[i])
    PROVE  Faithful(Content(disk))'
<1> DEFINE f == Content(disk')
<1>1. /\ Faithful(f)
      /\ \A i \in DOMAIN f : live[i].id \in Unchanged(job[t].msgs) =>
                                Speaks(f[i], live[i])
  BY SpeaksFaithful
<1>2. ASSUME NEW i \in DOMAIN f
      PROVE  Persists(Content(disk)[i], live[i])'
  <2>1. Persists(f[i], live[i])
    BY <1>1, <1>2 DEF Faithful
  <2>2. Content(disk)' = f
    BY DEF Content
  <2> HIDE DEF f
  <2>3. CASE live[i].id \in Unchanged(job[t].msgs)
    BY <1>1, <1>2, <2>2, <2>3 DEF Speaks, Persists
  <2>4. CASE live[i].id \notin Unchanged(job[t].msgs)
    BY <2>1, <2>2, <2>4 DEF Persists
  <2> QED
    BY <2>3, <2>4
<1>3. Content(disk)' = f
  BY DEF Content
<1> QED
  BY <1>1, <1>2, <1>3 DEF Faithful

\* The other snapshots go on to follow the list: of two that differ from it at a
\* place, the one that was verified is the older.
LEMMA VerifiedFollow ==
    ASSUME LogInv, CopyInv, NEW t \in Tasks, Holds(t), Works(t), Counts(t),
           UNCHANGED live, swapped' \in {swapped, swapped \ Unchanged(job[t].msgs)},
           NEW u \in Tasks, Counts(u), job'[u].msgs = job[u].msgs
    PROVE  Follows(job[u].msgs)'
<1> DEFINE s == job[t].msgs
           r == job[u].msgs
<1>1. /\ live \in Seq(Messages) /\ Len(live) \in Nat /\ DOMAIN live = 1..Len(live)
      /\ s \in Seq(Messages) /\ Len(s) \in Nat /\ DOMAIN s = 1..Len(s)
      /\ r \in Seq(Messages) /\ Len(r) \in Nat /\ DOMAIN r = 1..Len(r)
  BY LenProperties DEF LogInv, Typed, Jobs
<1>2. Follows(r)
  BY DEF CopyInv, OrderTrue
<1>3. \A i \in 1..Len(live) : live[i].id \in Unchanged(s) =>
                                  i \in 1..Len(s) /\ s[i] = live[i]
  BY UnchangedIs
<1>4. r = live \/ Older(s, r)
  <2>1. CASE u = t
    BY <1>1, <2>1 DEF Older
  <2>2. CASE u # t
    <3>1. Among(u) \/ r = live
      BY <2>2, OthersWait DEF Counts
    <3>2. Among(u) => Ordered(t, u)
      BY <2>2, HeadOrdered
    <3> QED
      BY <3>1, <3>2 DEF Ordered, Counts
  <2> QED
    BY <2>1, <2>2
<1> HIDE DEF s, r
<1>5. ASSUME NEW i \in DOMAIN r
      PROVE  /\ r[i].id = live[i].id /\ r[i].trim = live[i].trim
             /\ \/ r[i].kind = live[i].kind
                \/ r[i].kind = "placeholder" /\ r[i].id \in swapped' /\ ~r[i].trim
  <2>1. /\ r[i].id = live[i].id /\ r[i].trim = live[i].trim /\ i \in 1..Len(live)
        /\ \/ r[i].kind = live[i].kind
           \/ r[i].kind = "placeholder" /\ r[i].id \in swapped /\ ~r[i].trim
    BY <1>1, <1>2, <1>5 DEF Follows
  <2>2. CASE r[i].kind # live[i].kind /\ r[i].id \in Unchanged(s)
    <3>1. i \in 1..Len(s) /\ s[i] = live[i]
      BY <1>3, <2>1, <2>2
    <3>2. Older(s, r)
      BY <1>4, <2>2
    <3>3. s[i].kind = r[i].kind \/ s[i].kind = "placeholder"
      BY <1>1, <3>1, <3>2 DEF Older
    <3> QED
      BY <2>1, <2>2, <3>1, <3>3
  <2>3. CASE ~(r[i].kind # live[i].kind /\ r[i].id \in Unchanged(s))
    BY <2>1, <2>3 DEF s
  <2> QED
    BY <2>2, <2>3
<1>6. job'[u].msgs = r /\ live' = live /\ Len(r) <= Len(live)
  BY <1>2 DEF r, Follows
<1> QED
  BY <1>5, <1>6 DEF Follows

\* So is the transcript when the tail is behind it.
LEMMA AppendSpeaks ==
    ASSUME LogInv, CopyInv, NEW t \in Tasks, Saves(t), Works(t),
           job[t].pc \in {"write", "rewrite"}, Appends(t), NEW w, w = disk \o Tail_(t)
    PROVE  /\ disk \in Seq(Lines) /\ Tail_(t) \in Seq(Lines) /\ w \in Seq(Lines)
           /\ Len(w) = Len(job[t].msgs) /\ Len(disk) + Len(Tail_(t)) = Len(w)
           /\ \A i \in 1..Len(w) : w[i].id = job[t].msgs[i].id
           /\ Counts(t) => Faithful(w)
           /\ ~Incremental(t) => \A i \in 1..Len(w) : Speaks(w[i], job[t].msgs[i])
<1> DEFINE m == job[t].msgs
           s == Tail_(t)
           n == Len(disk)
<1>1. /\ disk \in Seq(Lines) /\ s \in Seq(Lines) /\ ~Marked(s) /\ n + Len(s) = Len(m)
  BY TailOriginal
<1>2. m \in Seq(Messages) /\ live \in Seq(Messages)
  BY DEF LogInv, Typed, Jobs
<1>3. /\ Len(m) \in Nat /\ DOMAIN m = 1..Len(m) /\ n \in Nat /\ Len(s) \in Nat
      /\ DOMAIN s = 1..Len(s) /\ DOMAIN disk = 1..n /\ Len(live) \in Nat
      /\ DOMAIN live = 1..Len(live)
  BY <1>1, <1>2, LenProperties
<1>4. /\ w \in Seq(Lines) /\ Len(w) = Len(m) /\ DOMAIN w = 1..Len(m)
      /\ \A i \in 1..Len(m) : w[i] = IF i <= n THEN disk[i] ELSE s[i - n]
  <2>1. /\ w \in Seq(Lines) /\ Len(w) = n + Len(s)
        /\ \A i \in 1..(n + Len(s)) : w[i] = IF i <= n THEN disk[i] ELSE s[i - n]
    BY <1>1, ConcatProperties
  <2> QED
    BY <1>1, <2>1, LenProperties
<1>5. CASE Incremental(t)
  <2> DEFINE c == job[t].cursor
  <2>1. /\ c # None /\ Size(disk) = c.size /\ Len(m) >= c.count
        /\ s = Records(After(m, c.count))
    BY <1>5 DEF Incremental, Tail_
  <2>2. c \in Cursors /\ Counted(c) /\ c.count \in Nat
    BY <2>1 DEF LogInv, Typed, Jobs, Lengths, Cursors
  <2>3. n = c.count
    BY <1>1, <2>1, <2>2, SizeCounts, ContentIs DEF Counted
  <2>4. \A i \in 1..n : i \in 1..Len(m) /\ disk[i].id = m[i].id
    <3>1. n <= Len(m)
      BY <2>1, <2>2, <2>3
    <3>2. \A i \in DOMAIN disk : i <= Len(m) => disk[i].id = m[i].id
      BY <2>1 DEF CopyInv, CursorsTrue
    <3> QED
      BY <1>3, <3>1, <3>2
  <2>5. ASSUME NEW j \in 1..Len(s)
        PROVE  n + j \in 1..Len(m) /\ s[j] = Record(m[n + j]) /\ ~m[n + j].trim
    <3> DEFINE a == After(m, c.count)
    <3>1. a \in Seq(Messages) /\ Len(a) = Len(m) - c.count
          /\ \A i \in 1..(Len(m) - c.count) : a[i] = m[c.count + i]
      <4>1. c.count \in 0..Len(m)
        BY <1>3, <2>1, <2>2
      <4> QED
        BY <1>2, <4>1, AfterItems
    <3> HIDE DEF a
    <3>2. s = Records(a) /\ Len(s) = Len(m) - c.count
      <4>1. s = Records(a)
        BY <2>1 DEF a
      <4> QED
        BY <3>1, <4>1, RecordsItems
    <3> HIDE DEF s
    <3>3. s[j] = Record(a[j]) /\ s[j].trim = a[j].trim
      BY <3>1, <3>2, RecordsItems
    <3>4. a[j] = m[n + j]
      BY <2>3, <3>1, <3>2
    <3>5. n + j \in 1..Len(m)
      BY <1>1, <1>3
    <3>6. ~s[j].trim
      BY <1>1, <1>3 DEF Marked
    <3> QED
      BY <3>3, <3>4, <3>5, <3>6
  <2> HIDE DEF s, c
  <2>6. ASSUME NEW i \in 1..Len(m)
        PROVE  w[i].id = m[i].id
    <3>1. CASE i <= n
      <4>1. i \in 1..n
        BY <1>3, <3>1
      <4> QED
        BY <1>4, <2>4, <3>1, <4>1
    <3>2. CASE ~(i <= n)
      <4>1. i - n \in 1..Len(s) /\ n + (i - n) = i
        BY <1>1, <1>3, <3>2
      <4>2. s[i - n] = Record(m[i])
        BY <2>5, <4>1
      <4> QED
        BY SMTT(30), <1>4, <3>2, <4>2 DEF Record
    <3> QED
      BY <3>1, <3>2
  <2>7. ASSUME Counts(t)
        PROVE  Faithful(w)
    <3>1. Faithful(disk)
      <4>1. cursor = c
        BY <2>7 DEF CopyInv, CursorsTrue, Counts, c
      <4> QED
        BY <1>1, <2>1, <4>1, CursorIs DEF CopyInv, CursorsTrue
    <3>2. Len(m) <= Len(live)
      BY <2>7 DEF CopyInv, OrderTrue, Follows
    <3>3. ASSUME NEW i \in 1..Len(m)
          PROVE  Persists(w[i], live[i])
      <4>1. CASE i <= n
        <5>1. i \in 1..n
          BY <1>3, <4>1
        <5> QED
          BY <1>3, <1>4, <3>1, <4>1, <5>1 DEF Faithful
      <4>2. CASE ~(i <= n)
        <5>1. i - n \in 1..Len(s) /\ n + (i - n) = i
          BY <1>1, <1>3, <4>2
        <5>2. s[i - n] = Record(m[i]) /\ ~m[i].trim
          BY <2>5, <5>1
        <5>3. w[i] = s[i - n]
          BY <1>4, <4>2
        <5> QED
          BY <2>7, <5>2, <5>3, RecordPersists
      <4> QED
        BY <4>1, <4>2
    <3> QED
      BY <1>4, <3>2, <3>3 DEF Faithful
  <2> QED
    BY SMTT(30), <1>1, <1>4, <1>5, <2>6, <2>7 DEF s
<1>6. CASE ~Incremental(t)
  <2>1. IsStrictPrefix(disk, Wanted(t)) /\ s = After(Wanted(t), n) /\ ~ArchiveFails(t)
    BY <1>6 DEF Appends, Tail_, Verifies
  <2> DEFINE v == Wanted(t)
  <2>2. v \in Seq(Lines) /\ Len(v) = Len(m) /\ n \in 0..Len(v)
    BY <1>1, <1>3, WantedItems
  <2>3. \A i \in 1..n : disk[i] = v[i]
    BY <1>1, <2>1, <2>2, PrefixItems DEF IsStrictPrefix
  <2>4. \A j \in 1..(Len(m) - n) : s[j] = v[n + j]
    <3> HIDE DEF v
    <3>1. \A j \in 1..(Len(v) - n) : After(v, n)[j] = v[n + j]
      BY <2>2, AfterItems
    <3> QED
      BY <2>1, <2>2, <3>1 DEF v
  <2> HIDE DEF v, s
  <2>5. ASSUME NEW i \in 1..Len(m)
        PROVE  w[i] = v[i]
    <3>1. CASE i <= n
      <4>1. i \in 1..n
        BY <1>3, <3>1
      <4> QED
        BY <1>4, <2>3, <3>1, <4>1
    <3>2. CASE ~(i <= n)
      <4>1. i - n \in 1..(Len(m) - n) /\ n + (i - n) = i
        BY <1>1, <1>3, <3>2
      <4> QED
        BY <1>4, <2>4, <3>2, <4>1
    <3> QED
      BY <3>1, <3>2
  <2>6. w = v
    BY <1>4, <2>2, <2>5, SeqEqual
  <2>7. \A i \in 1..Len(m) : w[i].id = m[i].id /\ Speaks(w[i], m[i])
    BY <2>1, <2>6, WantedSpeaks DEF v
  <2>8. Counts(t) => Faithful(w)
    BY <1>4, <2>7, SpeaksFaithful
  <2> QED
    BY <1>1, <1>4, <2>7, <2>8 DEF s
<1> QED
  BY <1>5, <1>6

\* A file that has the messages of a snapshot has none of them twice.
LEMMA SpeaksLined ==
    ASSUME LogInv, CopyInv, NEW t \in Tasks, NEW f \in Seq(Lines),
           Len(f) = Len(job[t].msgs), \A i \in 1..Len(f) : f[i].id = job[t].msgs[i].id
    PROVE  Lined(f) /\ Earlier(f) /\ Ids(f) = Ids(job[t].msgs)
<1> DEFINE m == job[t].msgs
<1>1. m \in Seq(Messages) /\ Distinct(m) /\ Earlier(m)
  BY DEF LogInv, CopyInv, Typed, Jobs, IdsTrue
<1>2. DOMAIN m = 1..Len(f) /\ DOMAIN f = 1..Len(f)
  BY <1>1, LenProperties
<1>3. \A i \in 1..Len(f) : f[i].id = m[i].id
  OBVIOUS
<1> HIDE DEF m
<1>4. Lined(f) /\ Earlier(f)
  BY <1>1, <1>2, <1>3 DEF Lined, Distinct, Earlier
<1>5. Ids(f) = Ids(m)
  BY <1>2, <1>3 DEF Ids
<1> QED
  BY <1>4, <1>5 DEF m

\* A file that is another one cut short, behind what is on disk.
Cut(f, w) ==
    \E n \in Len(disk)..Len(w) :
        /\ \A i \in 1..n : f[i] = w[i]
        /\ \/ Len(f) = n
           \/ Len(f) = n + 1 /\ f[n + 1] = Torn

\* What an append leaves: the start of what it was to be, and perhaps a part of the
\* next line.
LEMMA LeavesAre ==
    ASSUME LogInv, CopyInv, NEW t \in Tasks, Saves(t), Works(t),
           job[t].pc \in {"write", "rewrite"}, Appends(t), NEW f \in AppendLeaves(t),
           NEW w, w = disk \o Tail_(t)
    PROVE  f \in Seq(Lines) /\ Cut(f, w)
<1> DEFINE s == Tail_(t)
           d == Len(disk)
<1>1. /\ disk \in Seq(Lines) /\ s \in Seq(Lines) /\ w \in Seq(Lines) /\ d + Len(s) = Len(w)
  BY AppendSpeaks
<1>2. d \in Nat /\ Len(s) \in Nat /\ Len(w) \in Nat
  BY <1>1, LenProperties
<1>3. \A i \in 1..Len(w) : w[i] = IF i <= d THEN disk[i] ELSE s[i - d]
  <2>1. \A i \in 1..(d + Len(s)) : w[i] = IF i <= d THEN disk[i] ELSE s[i - d]
    BY <1>1, ConcatProperties
  <2> QED
    BY <1>1, <2>1
<1>4. \/ \E k \in 0..Len(s) : f = disk \o Before(s, k)
      \/ \E k \in 0..(Len(s) - 1) : f = disk \o Append(Before(s, k), Torn)
  BY DEF AppendLeaves
<1> HIDE DEF s, d
<1>5. ASSUME NEW k \in 0..Len(s), NEW p \in Seq(Lines), f = disk \o p,
             \A i \in 1..k : p[i] = s[i],
             Len(p) = k \/ (Len(p) = k + 1 /\ p[k + 1] = Torn)
      PROVE  /\ f \in Seq(Lines) /\ d + k \in d..Len(w)
             /\ \A i \in 1..(d + k) : f[i] = w[i]
             /\ \/ Len(f) = d + k
                \/ Len(f) = d + k + 1 /\ f[d + k + 1] = Torn
  <2>1. /\ f \in Seq(Lines) /\ Len(f) = d + Len(p)
        /\ \A i \in 1..(d + Len(p)) : f[i] = IF i <= d THEN disk[i] ELSE p[i - d]
    BY <1>1, <1>5, ConcatProperties DEF d
  <2>2. k \in Nat /\ k <= Len(s) /\ Len(p) \in {k, k + 1}
    BY <1>2, <1>5
  <2>3. d + k \in d..Len(w)
    BY <1>1, <1>2, <2>2
  <2>4. ASSUME NEW i \in 1..(d + k)
        PROVE  f[i] = w[i]
    <3>1. i \in 1..(d + Len(p)) /\ i \in 1..Len(w)
      BY <1>1, <1>2, <2>2
    <3>2. CASE i <= d
      BY <1>3, <2>1, <3>1, <3>2
    <3>3. CASE ~(i <= d)
      <4>1. i - d \in 1..k
        BY <1>2, <2>2, <3>3
      <4> QED
        BY <1>3, <1>5, <2>1, <3>1, <3>3, <4>1
    <3> QED
      BY <3>2, <3>3
  <2>5. CASE Len(p) = k
    BY <2>1, <2>3, <2>4, <2>5
  <2>6. CASE Len(p) = k + 1 /\ p[k + 1] = Torn
    <3>1. ASSUME NEW j, j = d + k + 1
          PROVE  f[j] = Torn /\ Len(f) = j
      <4>1. j \in 1..(d + Len(p)) /\ ~(j <= d) /\ j - d = k + 1 /\ d + Len(p) = j
        BY <1>2, <2>2, <2>6, <3>1
      <4>2. f[j] = p[j - d]
        BY <2>1, <4>1
      <4> QED
        BY <2>1, <2>6, <4>1, <4>2
    <3>2. f[d + k + 1] = Torn /\ Len(f) = d + k + 1
      BY <3>1
    <3> QED
      BY <2>1, <2>3, <2>4, <3>2
  <2> QED
    BY <1>5, <2>5, <2>6
<1>6. ASSUME NEW k \in 0..Len(s)
      PROVE  /\ Before(s, k) \in Seq(Lines) /\ Len(Before(s, k)) = k
             /\ \A i \in 1..k : Before(s, k)[i] = s[i]
  BY <1>1, <1>2, BeforeItems DEF s
<1>7. CASE \E k \in 0..Len(s) : f = disk \o Before(s, k)
  <2>1. PICK k \in 0..Len(s) : f = disk \o Before(s, k)
    BY <1>7
  <2>2. /\ f \in Seq(Lines) /\ d + k \in d..Len(w)
        /\ \A i \in 1..(d + k) : f[i] = w[i]
        /\ \/ Len(f) = d + k
           \/ Len(f) = d + k + 1 /\ f[d + k + 1] = Torn
    BY <1>5, <1>6, <2>1
  <2> QED
    BY <2>2 DEF d, Cut
<1>8. CASE \E k \in 0..(Len(s) - 1) : f = disk \o Append(Before(s, k), Torn)
  <2>1. PICK k \in 0..(Len(s) - 1) : f = disk \o Append(Before(s, k), Torn)
    BY <1>8
  <2> DEFINE b == Before(s, k)
             p == Append(b, Torn)
  <2>2. k \in 0..Len(s)
    BY <1>2
  <2>3. /\ b \in Seq(Lines) /\ Len(b) = k /\ \A i \in 1..k : b[i] = s[i]
    BY <1>6, <2>2
  <2>4. Torn \in Lines
    BY DEF Lines
  <2> HIDE DEF b
  <2>5. /\ p \in Seq(Lines) /\ Len(p) = k + 1 /\ \A i \in 1..k : p[i] = b[i]
        /\ p[k + 1] = Torn
    BY <2>3, <2>4, AppendProperties
  <2>6. f = disk \o p
    BY <2>1 DEF b
  <2> HIDE DEF p
  <2>7. \A i \in 1..k : p[i] = s[i]
    BY <2>3, <2>5
  <2>8. /\ f \in Seq(Lines) /\ d + k \in d..Len(w)
        /\ \A i \in 1..(d + k) : f[i] = w[i]
        /\ \/ Len(f) = d + k
           \/ Len(f) = d + k + 1 /\ f[d + k + 1] = Torn
    BY <1>5, <2>2, <2>5, <2>6, <2>7
  <2> QED
    BY <2>8 DEF d, Cut
<1> QED
  BY <1>4, <1>7, <1>8

\* Such a file has no message twice, has what the file had, and, if it has the size
\* of which the cursor speaks, is what the cursor says.
LEMMA LeavesSpeak ==
    ASSUME LogInv, CopyInv, NEW t \in Tasks, Saves(t), Works(t),
           job[t].pc \in {"write", "rewrite"}, Appends(t), NEW f \in AppendLeaves(t),
           NEW w, w = disk \o Tail_(t)
    PROVE  /\ f \in Seq(Lines) /\ Lined(f) /\ Earlier(f) /\ Ids(disk) \subseteq Ids(f)
           /\ Counts(t) /\ cursor # None /\ Size(f) = cursor.size => Faithful(f)
<1> DEFINE m == job[t].msgs
<1>1. /\ disk \in Seq(Lines) /\ Tail_(t) \in Seq(Lines) /\ w \in Seq(Lines)
      /\ Len(disk) + Len(Tail_(t)) = Len(w) /\ Len(w) = Len(m)
      /\ \A i \in 1..Len(w) : w[i].id = m[i].id
      /\ Counts(t) => Faithful(w)
  BY AppendSpeaks
<1>2. f \in Seq(Lines) /\ Cut(f, w)
  BY LeavesAre
<1>3. PICK n \in Len(disk)..Len(w) :
            /\ \A i \in 1..n : f[i] = w[i]
            /\ \/ Len(f) = n
               \/ Len(f) = n + 1 /\ f[n + 1] = Torn
  BY <1>2 DEF Cut
<1>4. \A i \in 1..Len(disk) : w[i] = disk[i]
  <2>1. \A i \in 1..(Len(disk) + Len(Tail_(t))) :
           (disk \o Tail_(t))[i] = IF i <= Len(disk) THEN disk[i] ELSE Tail_(t)[i - Len(disk)]
    BY <1>1, ConcatProperties
  <2>2. Len(disk) \in Nat /\ Len(Tail_(t)) \in Nat
    BY <1>1, LenProperties
  <2> QED
    BY <2>1, <2>2
<1>5. /\ Len(disk) \in Nat /\ Len(w) \in Nat /\ Len(f) \in Nat /\ DOMAIN f = 1..Len(f)
      /\ DOMAIN disk = 1..Len(disk) /\ DOMAIN w = 1..Len(w)
  BY <1>1, <1>2, LenProperties
<1>6. n \in Nat /\ n <= Len(w) /\ Len(disk) <= n
  BY <1>5
<1>7. Lined(w) /\ Earlier(w)
  BY <1>1, SpeaksLined
<1>8. \A i \in 1..Len(f) : \/ i \in 1..n /\ i \in 1..Len(w) /\ f[i] = w[i]
                           \/ f[i] = Torn
  <2>1. ASSUME NEW i \in 1..Len(f), i <= n
        PROVE  i \in 1..n /\ i \in 1..Len(w) /\ f[i] = w[i]
    <3>1. i \in 1..n /\ i \in 1..Len(w)
      BY <1>5, <1>6, <2>1
    <3> QED
      BY <1>3, <3>1
  <2>2. ASSUME NEW i \in 1..Len(f), ~(i <= n)
        PROVE  f[i] = Torn
    <3>1. i > n /\ (Len(f) = n \/ Len(f) = n + 1)
      BY <1>3, <1>6, <2>2
    <3>2. Len(f) = n + 1 /\ i = n + 1
      BY <1>6, <3>1
    <3>3. f[n + 1] = Torn
      BY <1>3, <1>5, <1>6, <3>2
    <3> QED
      BY <3>2, <3>3
  <2> QED
    BY <2>1, <2>2
<1>9. Lined(f)
  <2>1. Torn.kind = "torn"
    BY DEF Torn
  <2>2. \A i \in 1..Len(f) : f[i].kind # "torn" => i \in 1..Len(w) /\ f[i] = w[i]
    BY <1>8, <2>1
  <2>3. \A i, k \in 1..Len(w) :
           w[i].kind # "torn" /\ w[k].kind # "torn" /\ w[i].id = w[k].id => i = k
    BY <1>5, <1>7 DEF Lined
  <2>4. ASSUME NEW i \in 1..Len(f), NEW k \in 1..Len(f), f[i].kind # "torn",
               f[k].kind # "torn", f[i].id = f[k].id
        PROVE  i = k
    <3>1. /\ i \in 1..Len(w) /\ k \in 1..Len(w) /\ f[i] = w[i] /\ f[k] = w[k]
      BY <2>2, <2>4
    <3> QED
      BY <2>3, <2>4, <3>1
  <2> QED
    BY <1>5, <2>4 DEF Lined
<1>10. Earlier(f)
  <2>1. 0 < fresh
    BY LenProperties DEF LogInv, Typed, Lengths
  <2> QED
    BY <1>5, <1>7, <1>8, <2>1 DEF Earlier, Torn
<1>11. Ids(disk) \subseteq Ids(f)
  <2>1. \A i \in 1..Len(disk) : i \in 1..Len(f) /\ f[i] = disk[i]
    BY <1>3, <1>4, <1>5, <1>6
  <2> QED
    BY <1>5, <2>1 DEF Ids
<1>12. ASSUME Counts(t), cursor # None, Size(f) = cursor.size
       PROVE  Faithful(f)
  <2>1. Size(f) = <<cursor.count, 0>>
    BY <1>12 DEF CopyInv, CursorsTrue, Exact
  <2>2. \A i \in 1..Len(f) : f[i] # Torn
    <3>1. \A c : Size(f) = <<c, 0>> => Len(f) = c /\ \A i \in DOMAIN f : f[i] # Torn
      BY <1>2, SizeExact
    <3> QED
      BY <1>5, <2>1, <3>1
  <2>3. Faithful(w) /\ Len(live) \in Nat
    BY <1>1, <1>12, LenProperties DEF LogInv, Typed
  <2>4. Len(f) = n
    <3>1. ~(Len(f) = n + 1 /\ f[n + 1] = Torn)
      <4>1. Len(f) = n + 1 => n + 1 \in 1..Len(f)
        BY <1>6
      <4> QED
        BY <2>2, <4>1
    <3> QED
      BY <1>3, <3>1
  <2>5. \A i \in 1..Len(f) : i \in 1..Len(w) /\ f[i] = w[i]
    BY <1>8, <2>2
  <2> QED
    BY SMTT(30), <1>5, <1>6, <2>3, <2>4, <2>5 DEF Faithful
<1> QED
  BY <1>2, <1>9, <1>10, <1>11, <1>12

-----------------------------------------------------------------------------
(* The worker, and what the copies say *)

\* What the cursor will promise.
LEMMA CursorWill ==
    ASSUME Exact(cursor'), disk' \in Seq(Lines) \cup {None},
           cursor' # None /\ Size(disk') = cursor'.size => Faithful(disk)'
    PROVE  CursorTrue'
<1> SUFFICES ASSUME cursor' # None, Size(disk') = cursor'.size
             PROVE  /\ Len(disk') = cursor'.count /\ cursor'.count <= Len(live')
                    /\ \A i \in DOMAIN disk' : Persists(disk[i], live[i])'
  BY DEF CursorTrue
<1>1. Size(disk') = <<cursor'.count, 0>>
  BY DEF Exact
<1>2. disk' \in Seq(Lines)
  BY <1>1, NoSize
<1>3. Len(disk') = cursor'.count
  BY <1>1, <1>2, SizeExact
<1> QED
  BY <1>3 DEF Faithful

\* The worker changes the file, which goes on to say what its cursor and the list
\* of messages durable say.
LEMMA CopyWorks ==
    ASSUME LogInv, CopyInv, NEW t \in Tasks, Holds(t),
           job[t].pc \in {"write", "rewrite", "meta"},
           NEW pc \in {"rewrite", "meta", "done", "failed", "unavailable"}, Goes(t, pc),
           \/ swapped' = swapped
           \/ Counts(t) /\ swapped' = swapped \ Unchanged(job[t].msgs),
           Lined(Content(disk')), Earlier(Content(disk')),
           Counts(t) /\ cursor # None /\ Size(disk') = cursor.size => Faithful(disk)',
           disk' \in Seq(Lines) \cup {None},
           pc = "rewrite" => disk' = None,
           pc \in {"meta", "done"} =>
               /\ \A i \in DOMAIN Content(disk') : Content(disk')[i].id = job[t].msgs[i].id
               /\ Counts(t) => Faithful(Content(disk))',
           \/ acked \subseteq Ids(Content(disk'))
           \/ disk' = None /\ \E f \in kept' : acked \subseteq Ids(f),
           UNCHANGED <<list, log, queue, acked>>
    PROVE  CopyInv'
<1> USE DEF LogInv, CopyInv
<1>1. pc \in Phases /\ Works(t) /\ Saves(t)
  BY DEF Phases, Works, Saves, StepsTrue, Typed, Jobs
<1>2. PICK x \in Jobs :
         /\ job' = [job EXCEPT ![t] = x]
         /\ x.op = job[t].op /\ x.gen = job[t].gen /\ x.msgs = job[t].msgs
         /\ x.auth = job[t].auth /\ x.plan = job[t].plan /\ x.orig = job[t].orig
         /\ x.cursor = job[t].cursor /\ x.pc = pc
  BY DEF Goes
<1>3. /\ job'[t] = x /\ \A u \in Tasks : u # t => job'[u] = job[u]
      /\ UNCHANGED <<live, epoch, owned, stamped, fresh, cursor, since, gen, descr, queue,
                     acked>>
  BY <1>2 DEF Typed, list, log
<1>4. \A u \in Tasks :
         /\ job'[u].op = job[u].op /\ job'[u].gen = job[u].gen
         /\ job'[u].msgs = job[u].msgs /\ job'[u].auth = job[u].auth
         /\ job'[u].plan = job[u].plan /\ job'[u].orig = job[u].orig
         /\ job'[u].cursor = job[u].cursor
  BY <1>2, <1>3
<1>5. \A u \in Tasks : u # t => ~Works(u)
  BY <1>1 DEF QueueTrue, Holds
<1>6. Main \in Tasks
  BY DEF Tasks
<1>7. IdsTrue'
  BY <1>3, <1>4 DEF IdsTrue, Distinct, Lined, Earlier
<1>8. RecordsTrue'
  <2>1. \A u \in Tasks : Saves(u)' <=> Saves(u)
    BY <1>4 DEF Saves
  <2> QED
    BY <1>4, <2>1 DEF RecordsTrue, Names
<1>9. \A u \in Tasks : Counts(u)' <=> Counts(u)
  BY <1>3, <1>4 DEF Counts, Saves
<1>10. OrderTrue'
  <2>1. ASSUME NEW u \in Tasks, Counts(u)'
        PROVE  Follows(job[u].msgs)'
    <3>1. Counts(u) /\ job'[u].msgs = job[u].msgs
      BY <1>4, <1>9, <2>1
    <3>2. CASE swapped' = swapped
      BY <1>3, <3>1, <3>2 DEF OrderTrue, Follows
    <3>3. CASE swapped' # swapped
      BY <1>1, <1>3, <3>1, <3>3, VerifiedFollow
    <3> QED
      BY <3>2, <3>3
  <2>2. ASSUME NEW u \in Tasks, NEW v \in Tasks, Ordered(u, v)
        PROVE  Ordered(u, v)'
    <3>1. Saves(u)' <=> Saves(u)
      BY <1>4 DEF Saves
    <3> QED
      BY <1>3, <1>4, <1>9, <2>2, <3>1 DEF Ordered, Older
  <2>3. \A m \in DOMAIN queue : queue[m] \in Tasks
    BY LenProperties, ElementOfSeq DEF Typed
  <2> QED
    BY <1>3, <2>1, <2>2, <2>3 DEF OrderTrue
<1>11. CursorsTrue'
  <2>1. Exact(cursor)' /\ (Down' => cursor' = None)
    <3>1. Down' => Down
      BY <1>1, <1>2, <1>3, <1>6 DEF Down, At
    <3> QED
      BY <1>3, <3>1 DEF CursorsTrue, Exact
  <2>2. CursorTrue'
    <3>1. cursor # None /\ Size(disk') = cursor.size => Faithful(disk)'
      BY <1>1 DEF CursorsTrue, Counts
    <3> QED
      BY <1>3, <2>1, <3>1, CursorWill
  <2>3. ASSUME NEW u \in Tasks, Works(u)', job'[u].gen # gen'
        PROVE  cursor' = None
    <3>1. Works(u)
      BY <1>1, <1>3, <2>3 DEF Works
    <3> QED
      BY <1>3, <1>4, <2>3, <3>1 DEF CursorsTrue
  <2>4. ASSUME NEW u \in Tasks, Works(u)', job'[u].gen = gen', job'[u].pc # "verify"
        PROVE  job'[u].cursor = cursor'
    <3>1. u = t
      BY <1>3, <1>5, <2>4 DEF Works
    <3> QED
      BY <1>1, <1>3, <1>4, <2>4, <3>1 DEF CursorsTrue
  <2>5. ASSUME NEW u \in Tasks, job'[u].pc \in {"write", "rewrite"},
               job'[u].cursor # None, Size(disk') = job'[u].cursor.size
        PROVE  FALSE
    <3>1. u = t /\ disk' = None
      BY <1>2, <1>3, <1>5, <2>5 DEF Works
    <3>2. x.cursor \in Cursors
      BY <1>3, <2>5, <3>1 DEF Jobs
    <3>3. Size(disk') \in Nat \X Nat
      BY <1>3, <2>5, <3>1, <3>2 DEF Cursors
    <3> QED
      BY <3>1, <3>3, SizeMissing
  <2> QED
    BY <2>1, <2>2, <2>3, <2>4, <2>5 DEF CursorsTrue
<1>12. WrittenTrue'
  <2>1. ASSUME NEW u \in Tasks, job'[u].pc \in {"meta", "done"}
        PROVE  u = t
    BY <1>3, <1>5, <2>1 DEF Works
  <2> QED
    BY <1>1, <1>2, <1>3, <2>1 DEF WrittenTrue, Counts, Content
<1>13. AckedTrue'
  <2>1. Durable'
    BY <1>3 DEF Durable
  <2>2. ~Down' => acked' \subseteq Ids(live')
    BY <1>1, <1>2, <1>3, <1>6 DEF AckedTrue, Down, At, Works
  <2>3. \A u \in Tasks : /\ Saves(u)' => Saves(u)
                         /\ Works(u)' => Works(u)
    BY <1>1, <1>3, <1>4 DEF Saves, Works
  <2>4. ASSUME NEW u \in Tasks, Saves(u)', Works(u)' \/ job'[u].gen = gen'
        PROVE  acked' \subseteq Ids(job'[u].msgs)
    BY <1>3, <1>4, <2>3, <2>4 DEF AckedTrue
  <2>5. job'[Main].op = "rewind" => Ids(live') \subseteq Ids(job'[Main].orig)
    BY <1>3, <1>4, <1>6 DEF AckedTrue
  <2> QED
    BY <2>1, <2>2, <2>4, <2>5 DEF AckedTrue
<1> QED
  BY <1>7, <1>8, <1>10, <1>11, <1>12, <1>13

\* A file without a line has no message twice, and has not the size of which a
\* cursor speaks when it is missing.
LEMMA NoLines ==
    ASSUME Typed
    PROVE  /\ Content(None) = <<>> /\ Lined(<<>>) /\ Earlier(<<>>)
           /\ Exact(cursor) /\ cursor # None => Size(None) # cursor.size
<1>1. <<>> \in Seq(Lines) /\ DOMAIN <<>> = {}
  BY EmptySeq
<1>2. Content(None) = <<>>
  BY DEF Content
<1>3. Exact(cursor) /\ cursor # None => Size(None) # cursor.size
  BY NoSize DEF Exact
<1> QED
  BY <1>1, <1>2, <1>3 DEF Lined, Earlier

\* A writer, and what is to be kept.
LEMMA WriterSaves ==
    ASSUME LogInv, CopyInv, NEW t \in Tasks, Writing(t)
    PROVE  /\ Holds(t) /\ Works(t) /\ Saves(t) /\ Incremental(t) \in BOOLEAN
           /\ job[t].pc \in {"write", "rewrite"}
           /\ acked \subseteq Ids(job[t].msgs)
           /\ Lined(Content(disk)) /\ Earlier(Content(disk)) /\ Durable
           /\ disk \in Seq(Lines) \cup {None}
           /\ Counts(t) /\ cursor # None /\ Size(disk) = cursor.size => Faithful(disk)
           /\ \A f \in Seq(Lines) : Content(f) = f
<1>1. /\ Holds(t) /\ Works(t) /\ Saves(t) /\ Incremental(t) \in BOOLEAN
      /\ job[t].pc \in {"write", "rewrite"}
  BY WriterIs DEF Writing
<1>2. /\ disk \in Seq(Lines) \cup {None}
      /\ Counts(t) /\ cursor # None /\ Size(disk) = cursor.size => Faithful(disk)
  BY CursorIs DEF LogInv, Typed, CopyInv, CursorsTrue
<1>3. \A f \in Seq(Lines) : Content(f) = f
  BY ContentIs
<1> QED
  BY <1>1, <1>2, <1>3 DEF CopyInv, AckedTrue, IdsTrue

\* The transcript is what the snapshot says, once the tail is appended.
LEMMA AppendCopies ==
    ASSUME LogInv, CopyInv, NEW t \in Tasks, WriteAppend(t)
    PROVE  CopyInv'
<1>1. Writing(t) /\ Appends(t) /\ UNCHANGED <<list, log, queue, acked>>
  BY DEF WriteAppend
<1>2. /\ Holds(t) /\ Works(t) /\ Saves(t) /\ Incremental(t) \in BOOLEAN
      /\ job[t].pc \in {"write", "rewrite"} /\ acked \subseteq Ids(job[t].msgs)
  BY <1>1, WriterSaves
<1>3. ~Marked(Tail_(t))
  BY <1>1, <1>2, TailOriginal
<1>4. /\ Move(t, "meta", Digest(job[t].msgs)) /\ disk' = disk \o Tail_(t)
      /\ swapped' = IF Incremental(t) THEN swapped ELSE Checked(t)
  BY <1>3 DEF WriteAppend
<1>5. Goes(t, "meta")
  BY <1>4, MoveGoes DEF LogInv
<1>6. /\ disk' \in Seq(Lines) /\ Len(disk') = Len(job[t].msgs)
      /\ \A i \in 1..Len(disk') : disk'[i].id = job[t].msgs[i].id
      /\ Counts(t) => Faithful(disk')
      /\ ~Incremental(t) => \A i \in 1..Len(disk') : Speaks(disk'[i], job[t].msgs[i])
  BY <1>1, <1>2, <1>4, AppendSpeaks
<1>7. Lined(disk') /\ Earlier(disk') /\ Ids(disk') = Ids(job[t].msgs)
  BY <1>6, SpeaksLined
<1>8. Content(disk') = disk' /\ DOMAIN disk' = 1..Len(disk')
  BY <1>6, ContentIs, LenProperties
<1>9. Counts(t) => Faithful(Content(disk))' /\ Faithful(disk)'
  <2> SUFFICES ASSUME Counts(t)
               PROVE  Faithful(Content(disk))'
    BY <1>8 DEF Content
  <2>1. UNCHANGED <<live, stamped>>
    BY <1>1 DEF list
  <2>2. CASE Incremental(t)
    BY ZenonT(40), <1>4, <1>6, <1>8, <2>1, <2>2 DEF Faithful, Persists, Content
  <2>3. CASE ~Incremental(t)
    <3>1. swapped' \in {swapped, swapped \ Unchanged(job[t].msgs)}
      BY <1>4, <2>3 DEF Checked
    <3> QED
      BY <1>6, <1>8, <2>1, <2>3, <3>1, VerifiedFaithful
  <2> QED
    BY <1>2, <2>2, <2>3
<1>10. \/ swapped' = swapped
       \/ Counts(t) /\ swapped' = swapped \ Unchanged(job[t].msgs)
  BY <1>2, <1>4 DEF Checked, Counts
<1> QED
  BY <1>1, <1>2, <1>5, <1>6, <1>7, <1>8, <1>9, <1>10, CopyWorks

\* So is the one that replaces it.
LEMMA ReplaceCopies ==
    ASSUME LogInv, CopyInv, NEW t \in Tasks, WriteReplace(t)
    PROVE  CopyInv'
<1>1. Writing(t) /\ Replaces(t) /\ UNCHANGED <<list, log, queue, acked>>
  BY DEF WriteReplace
<1>2. /\ Holds(t) /\ Works(t) /\ Saves(t) /\ job[t].pc \in {"write", "rewrite"}
      /\ acked \subseteq Ids(job[t].msgs)
  BY <1>1, WriterSaves
<1>3. Wanted(t) \in Seq(Lines) /\ Len(Wanted(t)) = Len(job[t].msgs) /\ ~Marked(Wanted(t))
  BY <1>2, WantedItems
<1>4. /\ job' = [job EXCEPT ![t].pc = "meta", ![t].full = TRUE] /\ disk' = Wanted(t)
      /\ swapped' = Checked(t)
  BY SMTT(30), <1>3 DEF WriteReplace
<1>5. Goes(t, "meta")
  BY <1>4, JobGoes DEF LogInv, Phases
<1>6. /\ disk' \in Seq(Lines) /\ Len(disk') = Len(job[t].msgs)
      /\ \A i \in 1..Len(disk') : disk'[i].id = job[t].msgs[i].id
      /\ \A i \in 1..Len(disk') : Speaks(disk'[i], job[t].msgs[i])
  BY <1>1, <1>2, <1>3, <1>4, ReplacesTrue, WantedSpeaks
<1>7. Lined(disk') /\ Earlier(disk') /\ Ids(disk') = Ids(job[t].msgs)
  BY <1>6, SpeaksLined
<1>8. Content(disk') = disk' /\ DOMAIN disk' = 1..Len(disk')
  BY <1>6, ContentIs, LenProperties
<1>9. Counts(t) => Faithful(Content(disk))' /\ Faithful(disk)'
  <2> SUFFICES ASSUME Counts(t)
               PROVE  Faithful(Content(disk))'
    BY <1>8 DEF Content
  <2>1. UNCHANGED <<live, stamped>>
    BY <1>1 DEF list
  <2>2. swapped' \in {swapped, swapped \ Unchanged(job[t].msgs)}
    BY <1>4 DEF Checked
  <2> QED
    BY <1>6, <1>8, <2>1, <2>2, VerifiedFaithful
<1>10. \/ swapped' = swapped
       \/ Counts(t) /\ swapped' = swapped \ Unchanged(job[t].msgs)
  BY <1>2, <1>4 DEF Checked, Counts
<1> QED
  BY <1>1, <1>2, <1>5, <1>6, <1>7, <1>8, <1>9, <1>10, CopyWorks

\* Where nothing was left to write it was so before.
LEMMA NothingCopies ==
    ASSUME LogInv, CopyInv, NEW t \in Tasks, WriteNothing(t)
    PROVE  CopyInv'
<1> DEFINE pc == IF Confirmed(t) THEN "done" ELSE "meta"
           digest == IF Incremental(t) THEN job[t].cursor.digest ELSE Digest(job[t].msgs)
<1>1. /\ Writing(t) /\ At(t, "write") /\ ~Appends(t) /\ ~Replaces(t)
      /\ (Incremental(t) \/ Verifies(t)) /\ Move(t, pc, digest)
      /\ swapped' = (IF Incremental(t) THEN swapped ELSE Checked(t))
      /\ UNCHANGED <<list, files, log, queue, acked>>
  BY DEF WriteNothing
<1>2. /\ Holds(t) /\ Works(t) /\ Saves(t) /\ Incremental(t) \in BOOLEAN
      /\ job[t].pc \in {"write", "rewrite"} /\ Durable
      /\ Lined(Content(disk)) /\ Earlier(Content(disk)) /\ disk \in Seq(Lines) \cup {None}
      /\ Counts(t) /\ cursor # None /\ Size(disk) = cursor.size => Faithful(disk)
  BY <1>1, WriterSaves
<1>3. Goes(t, pc) /\ pc \in {"meta", "done"}
  BY <1>1, MoveGoes DEF LogInv
<1>4. UNCHANGED <<disk, kept>> /\ UNCHANGED <<live, stamped>>
  BY <1>1 DEF files, list
<1> HIDE DEF pc, digest
<1>5. DOMAIN job[t].msgs = 1..Len(job[t].msgs) /\ Len(job[t].msgs) \in Nat
  BY LenProperties DEF LogInv, Typed, Jobs
<1>6. /\ \A i \in DOMAIN Content(disk) : Content(disk)[i].id = job[t].msgs[i].id
      /\ Counts(t) => Faithful(Content(disk))'
  <2>1. CASE Incremental(t)
    <3>1. job[t].cursor # None /\ Size(disk) = job[t].cursor.size
      BY <2>1 DEF Incremental
    <3>2. job[t].cursor \in Cursors /\ Size(disk) \in Nat \X Nat
      BY <3>1 DEF LogInv, Typed, Jobs, Cursors
    <3>3. disk \in Seq(Lines)
      BY <1>2, <3>2, SizeMissing
    <3>4. /\ Content(disk) = disk /\ DOMAIN disk = 1..Len(disk)
          /\ Len(disk) = Size(disk)[1]
      BY <3>3, ContentIs, LenProperties, SizeCounts
    <3>5. \A i \in DOMAIN disk : i <= Len(job[t].msgs) => disk[i].id = job[t].msgs[i].id
      BY <1>2, <3>1 DEF CopyInv, CursorsTrue
    <3>6. \A i \in DOMAIN disk : disk[i].id = job[t].msgs[i].id
      <4>1. /\ Len(disk) = job[t].cursor.count /\ job[t].cursor.count \in Nat
            /\ Len(job[t].msgs) >= job[t].cursor.count
        BY <2>1, <3>1, <3>2, <3>4 DEF Incremental, Counted, LogInv, Lengths, Cursors
      <4> QED
        BY <1>5, <3>4, <3>5, <4>1
    <3>7. Counts(t) => Faithful(disk)
      BY <1>2, <3>1 DEF CopyInv, CursorsTrue, Counts
    <3>8. Counts(t) => Faithful(Content(disk))'
      BY <1>1, <1>4, <2>1, <3>4, <3>7 DEF Faithful, Persists, Content
    <3> QED
      BY <3>4, <3>6, <3>8
  <2>2. CASE ~Incremental(t)
    <3>1. Content(disk) = Wanted(t) /\ ~ArchiveFails(t)
      <4>1. Verifies(t) /\ IsPrefix(Content(disk), Wanted(t)) /\ (disk = None => Confirmed(t))
        BY <1>1, <2>2 DEF Replaces
      <4>2. CASE disk = None
        BY <2>2, <4>1, <4>2 DEF Confirmed, Verifies
      <4>3. CASE disk # None
        BY <1>1, <4>1, <4>3 DEF Appends, IsStrictPrefix, Content, Verifies
      <4> QED
        BY <4>2, <4>3
    <3>2. Wanted(t) \in Seq(Lines) /\ Len(Wanted(t)) = Len(job[t].msgs)
      BY <1>2, WantedItems
    <3>3. DOMAIN Wanted(t) = 1..Len(job[t].msgs)
      BY <3>2, LenProperties
    <3>4. \A i \in 1..Len(job[t].msgs) : /\ Wanted(t)[i].id = job[t].msgs[i].id
                                         /\ Speaks(Wanted(t)[i], job[t].msgs[i])
      BY <1>2, <3>1, WantedSpeaks
    <3>5. swapped' \in {swapped, swapped \ Unchanged(job[t].msgs)}
      BY <1>1, <2>2 DEF Checked
    <3>6. Content(disk') = Wanted(t)
      BY <1>4, <3>1
    <3>7. Counts(t) => Faithful(Content(disk))'
      BY <1>4, <3>2, <3>4, <3>5, <3>6, VerifiedFaithful
    <3> QED
      BY <3>1, <3>3, <3>4, <3>7
  <2> QED
    BY <2>1, <2>2
<1>7. \/ swapped' = swapped
      \/ Counts(t) /\ swapped' = swapped \ Unchanged(job[t].msgs)
  BY <1>1, <1>2 DEF Checked, Counts
<1>8. Counts(t) /\ cursor # None /\ Size(disk') = cursor.size => Faithful(disk)'
  <2> SUFFICES ASSUME Counts(t), cursor # None, Size(disk) = cursor.size
               PROVE  Faithful(disk)'
    BY <1>4
  <2>1. disk # None
    BY NoSize DEF CopyInv, CursorsTrue, Exact
  <2> QED
    BY <1>4, <1>6, <2>1 DEF Content
<1> QED
  BY <1>1, <1>2, <1>3, <1>4, <1>6, <1>7, <1>8, CopyWorks DEF Durable

\* A transcript that is set aside has what is durable, until the next one has.
LEMMA QuarantineCopies ==
    ASSUME LogInv, CopyInv, NEW t \in Tasks, Quarantine(t)
    PROVE  CopyInv'
<1>1. /\ Writing(t) /\ Torn \in ToSet(Content(disk))
      /\ kept' = kept \cup {disk} /\ disk' = None /\ Goto(t, "rewrite")
      /\ UNCHANGED <<list, log, queue, acked, swapped>>
  BY DEF Quarantine, Unreadable
<1>2. /\ Holds(t) /\ job[t].pc \in {"write", "rewrite"} /\ Durable
      /\ disk \in Seq(Lines) \cup {None} /\ Goes(t, "rewrite")
  BY <1>1, GotoGoes, WriterSaves DEF LogInv, Phases
<1>3. disk # None /\ disk \in Seq(Lines)
  BY <1>1, <1>2, EmptySeq DEF Content, ToSet
<1>4. acked \subseteq Ids(disk) /\ disk \in kept'
  BY <1>1, <1>2, <1>3, ContentIs DEF Durable
<1>5. /\ Content(None) = <<>> /\ Lined(<<>>) /\ Earlier(<<>>)
      /\ cursor # None => Size(None) # cursor.size
  BY NoLines DEF LogInv, CopyInv, CursorsTrue
<1> QED
  BY <1>1, <1>2, <1>4, <1>5, CopyWorks

\* An archive that does not verify, and the metadata, leave the transcript alone.
LEMMA WorkCopies ==
    ASSUME LogInv, CopyInv, NEW t \in Tasks,
           ArchiveUnavailable(t) \/ WriteMetadata(t) \/ MetadataFails(t)
    PROVE  CopyInv'
<1>1. \E pc \in {"done", "failed", "unavailable"} :
         /\ Goes(t, pc) /\ (pc = "done" => job[t].pc = "meta")
         /\ Holds(t) /\ job[t].pc \in {"write", "rewrite", "meta"}
         /\ UNCHANGED <<list, disk, kept, log, queue, acked, swapped>>
  <2>1. CASE ArchiveUnavailable(t)
    <3>1. Goes(t, "unavailable")
      BY <2>1, GotoGoes DEF ArchiveUnavailable, LogInv, Phases
    <3> QED
      BY <2>1, <3>1 DEF ArchiveUnavailable, Writing, At, files
  <2>2. CASE WriteMetadata(t)
    <3>1. Goes(t, "done")
      BY <2>2, MetadataGoes DEF LogInv
    <3> QED
      BY <2>2, <3>1 DEF WriteMetadata, At
  <2>3. CASE MetadataFails(t)
    <3>1. Goes(t, "failed")
      BY <2>3, GotoGoes DEF MetadataFails, LogInv, Phases
    <3> QED
      BY <2>3, <3>1 DEF MetadataFails, At, files
  <2> QED
    BY <2>1, <2>2, <2>3
<1>2. PICK pc \in {"done", "failed", "unavailable"} :
         /\ Goes(t, pc) /\ (pc = "done" => job[t].pc = "meta")
         /\ Holds(t) /\ job[t].pc \in {"write", "rewrite", "meta"}
         /\ UNCHANGED <<list, disk, kept, log, queue, acked, swapped>>
  BY <1>1
<1>3. /\ Lined(Content(disk)) /\ Earlier(Content(disk)) /\ disk \in Seq(Lines) \cup {None}
      /\ Counts(t) /\ cursor # None /\ Size(disk) = cursor.size => Faithful(disk)
      /\ Durable
  BY CursorIs DEF LogInv, Typed, Jobs, CopyInv, CursorsTrue, IdsTrue, AckedTrue
<1>4. pc = "done" =>
        /\ \A i \in DOMAIN Content(disk) : Content(disk)[i].id = job[t].msgs[i].id
        /\ Counts(t) => Faithful(Content(disk))
  BY <1>2 DEF CopyInv, WrittenTrue, Counts
<1>5. UNCHANGED <<live, stamped, disk, swapped>>
  BY <1>2 DEF list
<1>6. /\ Faithful(disk) => Faithful(disk)'
      /\ Faithful(Content(disk)) => Faithful(Content(disk))'
  BY <1>5 DEF Faithful, Persists, Content
<1> QED
  BY <1>2, <1>3, <1>4, <1>5, <1>6, CopyWorks DEF Durable

\* A write that fails leaves a part of what it was to write, or all of it.
LEMMA FailsCopies ==
    ASSUME LogInv, CopyInv, NEW t \in Tasks, WriteFails(t)
    PROVE  CopyInv'
<1>1. /\ Writing(t) /\ Goto(t, "failed")
      /\ UNCHANGED <<list, kept, log, queue, acked, swapped>>
      /\ \/ Appends(t) /\ disk' \in AppendLeaves(t)
         \/ Replaces(t) /\ disk' \in {disk, Wanted(t)}
  BY DEF WriteFails
<1>2. /\ Holds(t) /\ Works(t) /\ Saves(t) /\ job[t].pc \in {"write", "rewrite"}
      /\ acked \subseteq Ids(job[t].msgs) /\ Durable /\ disk \in Seq(Lines) \cup {None}
      /\ Lined(Content(disk)) /\ Earlier(Content(disk)) /\ Goes(t, "failed")
      /\ Counts(t) /\ cursor # None /\ Size(disk) = cursor.size => Faithful(disk)
      /\ \A f \in Seq(Lines) : Content(f) = f
  BY <1>1, GotoGoes, WriterSaves DEF LogInv, Phases
<1>3. /\ Lined(Content(disk')) /\ Earlier(Content(disk'))
      /\ disk' \in Seq(Lines) \cup {None}
      /\ Counts(t) /\ cursor # None /\ Size(disk') = cursor.size => Faithful(disk')
      /\ \/ acked \subseteq Ids(Content(disk'))
         \/ disk' = None /\ \E f \in kept' : acked \subseteq Ids(f)
  <2>1. CASE Appends(t) /\ disk' \in AppendLeaves(t)
    <3>1. /\ disk' \in Seq(Lines) /\ Lined(disk') /\ Earlier(disk')
          /\ Ids(disk) \subseteq Ids(disk')
          /\ Counts(t) /\ cursor # None /\ Size(disk') = cursor.size => Faithful(disk')
      BY <1>2, <2>1, LeavesSpeak
    <3>2. disk \in Seq(Lines)
      BY <1>2, <2>1, TailOriginal
    <3>3. disk # None /\ Content(disk) = disk /\ Content(disk') = disk'
      BY <3>1, <3>2, ContentIs
    <3>4. acked \subseteq Ids(disk)
      BY <1>2, <3>3 DEF Durable
    <3> QED
      BY <3>1, <3>3, <3>4
  <2>2. CASE Replaces(t) /\ disk' = Wanted(t)
    <3>1. Wanted(t) \in Seq(Lines) /\ Len(Wanted(t)) = Len(job[t].msgs)
      BY <1>2, WantedItems
    <3>2. /\ \A i \in 1..Len(Wanted(t)) : Wanted(t)[i].id = job[t].msgs[i].id
          /\ \A i \in 1..Len(Wanted(t)) : Speaks(Wanted(t)[i], job[t].msgs[i])
      BY <1>1, <1>2, <2>2, <3>1, ReplacesTrue, WantedSpeaks
    <3>3. /\ Lined(Wanted(t)) /\ Earlier(Wanted(t)) /\ Ids(Wanted(t)) = Ids(job[t].msgs)
      BY <3>1, <3>2, SpeaksLined
    <3>4. Counts(t) => Faithful(Wanted(t))
      BY <3>1, <3>2, SpeaksFaithful
    <3> QED
      BY <1>2, <2>2, <3>1, <3>3, <3>4
  <2>3. CASE disk' = disk
    BY <1>1, <1>2, <2>3 DEF Durable
  <2> QED
    BY <1>1, <2>1, <2>2, <2>3
<1>4. Faithful(disk') => Faithful(disk)'
  BY <1>1 DEF list, Faithful, Persists
<1> QED
  BY <1>1, <1>2, <1>3, <1>4, CopyWorks

-----------------------------------------------------------------------------
(* Jobs, and what the copies say *)

\* A task whose job says the same, or is done: no copy changes.
LEMMA JobCopies ==
    ASSUME LogInv, CopyInv, NEW t \in Tasks, NEW x \in Jobs, job' = [job EXCEPT ![t] = x],
           \/ x.op = "idle" /\ x.msgs = <<>> /\ x.orig = <<>>
           \/ /\ x.op = job[t].op /\ x.msgs = job[t].msgs /\ x.auth = job[t].auth
              /\ x.orig = job[t].orig,
           UNCHANGED <<list, disk>>
    PROVE  IdsTrue' /\ RecordsTrue'
<1> USE DEF LogInv, CopyInv
<1>1. /\ job'[t] = x /\ \A u \in Tasks : u # t => job'[u] = job[u]
      /\ UNCHANGED <<live, owned, stamped, fresh, disk>> /\ Main \in Tasks
  BY DEF Typed, list, Tasks
<1>2. DOMAIN <<>> = {}
  OBVIOUS
<1>3. Distinct(<<>>) /\ Earlier(<<>>)
  BY <1>2 DEF Distinct, Earlier
<1>4. \A u \in Tasks : \/ u # t /\ job'[u] = job[u]
                       \/ u = t /\ job'[u].msgs = <<>> /\ job'[u].orig = <<>>
                       \/ u = t /\ job'[u].msgs = job[u].msgs /\ job'[u].orig = job[u].orig
  BY <1>1
<1>5. IdsTrue'
  <2>1. \A s : (Distinct(s) => Distinct(s)') /\ (Earlier(s) => Earlier(s)')
    BY <1>1 DEF Distinct, Earlier
  <2>2. Lined(Content(disk))' /\ Earlier(Content(disk))'
    BY <1>1 DEF IdsTrue, Lined, Earlier
  <2>3. Distinct(live)' /\ Earlier(live)'
    BY <1>1 DEF IdsTrue, Distinct, Earlier
  <2>4. ASSUME NEW u \in Tasks
        PROVE  /\ Distinct(job[u].msgs)' /\ Earlier(job[u].msgs)'
               /\ Distinct(job[u].orig)' /\ Earlier(job[u].orig)'
    <3>1. CASE job'[u].msgs = <<>> /\ job'[u].orig = <<>>
      BY <1>1, <1>3, <3>1 DEF Distinct, Earlier
    <3>2. CASE job'[u].msgs = job[u].msgs /\ job'[u].orig = job[u].orig
      BY <1>1, <3>2 DEF IdsTrue, Distinct, Earlier
    <3> QED
      BY <1>4, <3>1, <3>2
  <2> QED
    BY <2>2, <2>3, <2>4 DEF IdsTrue
<1>6. RecordsTrue'
  BY <1>1 DEF RecordsTrue, Names, Saves
<1> QED
  BY <1>5, <1>6

\* A task is done with its job: the rest is as it was.
LEMMA CopyIdle ==
    ASSUME LogInv, CopyInv, NEW t \in Tasks, ~At(t, "down"),
           Leave(t) \/ (Holds(t) /\ queue' = Tail(queue)),
           job' = [job EXCEPT ![t] = Idle],
           UNCHANGED <<list, disk, kept, cursor, gen, acked, swapped>>
    PROVE  CopyInv'
<1> USE DEF LogInv, CopyInv
<1>1. /\ Idle \in Jobs /\ Idle.op = "idle" /\ Idle.pc = "idle" /\ Idle.msgs = <<>>
      /\ Idle.orig = <<>>
  BY EmptySeq DEF Idle, Jobs, Phases
<1>2. /\ job'[t] = Idle /\ \A u \in Tasks : u # t => job'[u] = job[u]
      /\ UNCHANGED <<live, epoch, owned, stamped, fresh, cursor, gen, acked, swapped,
                     disk, kept>>
      /\ Main \in Tasks
  BY DEF Typed, list, Tasks
<1>3. IdsTrue' /\ RecordsTrue'
  BY <1>1, JobCopies
<1>4. \A u \in Tasks : u # t => /\ Saves(u)' <=> Saves(u)
                                /\ Counts(u)' <=> Counts(u)
                                /\ Works(u)' <=> Works(u)
  BY <1>2 DEF Counts, Saves, Works
<1>5. ~Saves(t)' /\ ~Counts(t)' /\ ~Works(t)' /\ job'[t].pc = "idle"
  BY <1>1, <1>2 DEF Counts, Saves, Works
<1>6. OrderTrue'
  <2>1. \A u \in Tasks : Counts(u)' => Follows(job[u].msgs)'
    BY <1>2, <1>4, <1>5 DEF OrderTrue, Follows
  <2>2. ASSUME NEW m \in DOMAIN queue', NEW n \in DOMAIN queue', m < n
        PROVE  Ordered(queue[m], queue[n])'
    <3>1. PICK k, l \in DOMAIN queue : k < l /\ queue[k] = queue'[m] /\ queue[l] = queue'[n]
      BY <2>2, OrderLeft DEF Typed
    <3>2. queue[k] \in Tasks /\ queue[l] \in Tasks /\ Ordered(queue[k], queue[l])
      BY <3>1, LenProperties, ElementOfSeq DEF Typed, OrderTrue
    <3>3. ASSUME NEW u \in Tasks, NEW v \in Tasks, Ordered(u, v)
          PROVE  Ordered(u, v)'
      <4>1. CASE u = t \/ v = t
        BY <1>5, <4>1 DEF Ordered
      <4>2. CASE u # t /\ v # t
        BY <1>2, <1>4, <3>3, <4>2 DEF Ordered, Older
      <4> QED
        BY <4>1, <4>2
    <3>4. \A u, v \in Tasks : u = queue'[m] /\ v = queue'[n] => Ordered(u, v)'
      BY <3>1, <3>2, <3>3
    <3> QED
      BY <3>1, <3>2, <3>4 DEF Ordered, Saves, Counts
  <2> QED
    BY <2>1, <2>2 DEF OrderTrue
<1>7. CursorsTrue'
  <2>1. Down' => Down
    BY <1>1, <1>2 DEF Down, At
  <2>2. CursorTrue'
    BY <1>2 DEF CursorsTrue, CursorTrue, Persists
  <2>3. \A u \in Tasks : Works(u)' => u # t
    BY <1>5
  <2>4. \A u \in Tasks : job'[u].pc \in {"write", "rewrite"} => u # t
    BY <1>5
  <2> QED
    BY <1>2, <1>4, <2>1, <2>2, <2>3, <2>4 DEF CursorsTrue, Exact
<1>8. WrittenTrue'
  <2>1. \A u \in Tasks : job'[u].pc \in {"meta", "done"} => u # t
    BY <1>5
  <2> QED
    BY <1>2, <2>1 DEF WrittenTrue, Faithful, Persists
<1>9. AckedTrue'
  <2>1. Durable'
    BY <1>2 DEF AckedTrue, Durable
  <2>2. ~Down' => ~Down
    BY <1>2 DEF Down, At
  <2>3. job'[Main].op = "rewind" => Main # t
    BY <1>1, <1>2
  <2>4. \A u \in Tasks : Saves(u)' => u # t
    BY <1>5
  <2> QED
    BY <1>2, <1>4, <2>1, <2>2, <2>3, <2>4 DEF AckedTrue
<1> QED
  BY <1>3, <1>6, <1>7, <1>8, <1>9

\* Saves and seals that come to nothing.
LEMMA DropsCopies ==
    ASSUME LogInv, CopyInv, NEW t \in Tasks,
           \/ SaveDiscard(t) \/ SaveFailed(t) \/ SaveCancelled(t)
           \/ t = Main /\ (SealRefused \/ SealCancelled)
    PROVE  CopyInv'
<1>1. /\ ~At(t, "down") /\ (Leave(t) \/ (Holds(t) /\ queue' = Tail(queue)))
      /\ job' = [job EXCEPT ![t] = Idle]
      /\ UNCHANGED <<list, disk, kept, cursor, gen, acked, swapped>>
  <2>1. CASE SaveDiscard(t) \/ SaveFailed(t) \/ SaveCancelled(t)
    BY <2>1 DEF SaveDiscard, SaveFailed, SaveCancelled, Release, At, files, log
  <2>2. CASE t = Main /\ (SealRefused \/ SealCancelled)
    BY <2>2 DEF SealRefused, SealCancelled, At, files, log
  <2> QED
    BY <2>1, <2>2
<1> QED
  BY <1>1, CopyIdle

\* A snapshot that is granted the lock is given the cursor: the first messages of
\* the list, and so its own.
LEMMA LockCopies ==
    ASSUME LogInv, CopyInv, NEW t \in Tasks, LockGranted(t)
    PROVE  CopyInv'
<1> USE DEF LogInv, CopyInv
<1> DEFINE y == [job[t] EXCEPT !.pc = "write", !.cursor = cursor, !.since = since]
<1>1. /\ Holds(t) /\ At(t, "queued") /\ job[t].gen = gen /\ job[t].op # "drain"
      /\ job' = [job EXCEPT ![t] = y]
      /\ UNCHANGED <<list, disk, kept, cursor, gen, queue, acked, swapped>>
  BY DEF LockGranted, log, files
<1>2. /\ job[t] \in Jobs /\ Saves(t) /\ cursor \in Cursors \cup {None} /\ since \in Nat
  BY <1>1 DEF Typed, StepsTrue, At, Saves, LockGranted, Jobs
<1>3. /\ y \in Jobs /\ y.op = job[t].op /\ y.gen = job[t].gen /\ y.msgs = job[t].msgs
      /\ y.auth = job[t].auth /\ y.orig = job[t].orig
      /\ y.pc = "write" /\ y.cursor = cursor
  BY <1>2 DEF Jobs, Phases
<1> HIDE DEF y
<1>4. /\ job'[t] = y /\ \A u \in Tasks : u # t => job'[u] = job[u]
      /\ UNCHANGED <<live, epoch, owned, stamped, fresh, cursor, gen, acked, swapped,
                     disk, kept, queue>>
      /\ Main \in Tasks
  BY <1>1 DEF Typed, list, Tasks
<1>5. IdsTrue' /\ RecordsTrue'
  BY <1>1, <1>3, JobCopies
<1>6. \A u \in Tasks :
         /\ job'[u].op = job[u].op /\ job'[u].gen = job[u].gen
         /\ job'[u].msgs = job[u].msgs /\ job'[u].orig = job[u].orig
  BY <1>3, <1>4
<1>7. \A u \in Tasks : /\ Saves(u)' <=> Saves(u)
                       /\ Counts(u)' <=> Counts(u)
                       /\ ~Works(u)
                       /\ Works(u)' <=> u = t
  <2>1. \A u \in Tasks : ~Works(u)
    BY <1>1 DEF QueueTrue, Holds, Works, At
  <2> QED
    BY <1>3, <1>4, <1>6, <2>1 DEF Saves, Counts, Works
<1>8. Counts(t) /\ Follows(job[t].msgs)
  BY <1>1, <1>2 DEF Counts, OrderTrue
<1>9. OrderTrue'
  <2>1. \A u \in Tasks : Counts(u)' => Follows(job[u].msgs)'
    BY <1>4, <1>6, <1>7 DEF OrderTrue, Follows
  <2>2. ASSUME NEW u \in Tasks, NEW v \in Tasks, Ordered(u, v)
        PROVE  Ordered(u, v)'
    BY <1>4, <1>6, <1>7, <2>2 DEF Ordered, Older
  <2>3. \A m \in DOMAIN queue : queue[m] \in Tasks
    BY LenProperties, ElementOfSeq DEF Typed
  <2> QED
    BY <1>4, <2>1, <2>2, <2>3 DEF OrderTrue
<1>10. CursorsTrue'
  <2>1. Down' => Down
    BY <1>3, <1>4 DEF Down, At
  <2>2. CursorTrue'
    BY <1>4 DEF CursorsTrue, CursorTrue, Persists
  <2>3. ASSUME cursor # None, Size(disk) = cursor.size
        PROVE  \A i \in DOMAIN disk : i <= Len(job[t].msgs) => disk[i].id = job[t].msgs[i].id
    <3>1. Faithful(disk) /\ disk \in Seq(Lines)
      <4>1. disk \in Seq(Lines)
        BY <2>3, NoSize DEF CursorsTrue, Exact, Typed
      <4> QED
        BY <2>3, <4>1, CursorIs DEF CursorsTrue
    <3>2. DOMAIN disk = 1..Len(disk) /\ DOMAIN job[t].msgs = 1..Len(job[t].msgs)
      BY <3>1, LenProperties DEF Typed, Jobs
    <3>3. Len(disk) \in Nat /\ Len(job[t].msgs) \in Nat
      BY <3>1, LenProperties DEF Typed, Jobs
    <3>4. ASSUME NEW i \in 1..Len(disk), i <= Len(job[t].msgs)
          PROVE  disk[i].id = job[t].msgs[i].id
      <4>1. i \in 1..Len(job[t].msgs)
        BY <3>3, <3>4
      <4>2. disk[i].id = live[i].id
        BY <3>1, <3>2, <3>4 DEF Faithful, Persists
      <4> QED
        BY <1>8, <3>2, <4>1, <4>2 DEF Follows
    <3> QED
      BY <3>2, <3>4
  <2>4. Exact(cursor)'
    BY <1>4 DEF CursorsTrue, Exact
  <2>5. \A u \in Tasks : Works(u)' => job'[u].gen = gen' /\ job'[u].cursor = cursor'
    BY <1>1, <1>3, <1>4, <1>7
  <2>6. ASSUME NEW u \in Tasks, job'[u].pc \in {"write", "rewrite"}
        PROVE  u = t
    BY <1>4, <1>7, <2>6 DEF Works
  <2> QED
    BY <1>3, <1>4, <2>1, <2>2, <2>3, <2>4, <2>5, <2>6 DEF CursorsTrue
<1>11. WrittenTrue'
  <2>1. \A u \in Tasks : job'[u].pc \notin {"meta", "done"}
    BY <1>3, <1>4, <1>7 DEF Works
  <2> QED
    BY <2>1 DEF WrittenTrue
<1>12. AckedTrue'
  <2>1. Durable'
    BY <1>4 DEF AckedTrue, Durable
  <2>2. ~Down' => ~Down
    BY <1>1, <1>3, <1>4 DEF Down, At
  <2>3. ASSUME NEW u \in Tasks, Saves(u)', Works(u)' \/ job'[u].gen = gen'
        PROVE  acked \subseteq Ids(job[u].msgs)
    BY <1>1, <1>4, <1>6, <1>7, <2>3 DEF AckedTrue
  <2> QED
    BY <1>4, <1>6, <2>1, <2>2, <2>3 DEF AckedTrue
<1> QED
  BY <1>5, <1>9, <1>10, <1>11, <1>12

\* A task takes up a job, for the list as it is.
LEMMA CopyTakes ==
    ASSUME LogInv, CopyInv, NEW t \in Tasks, ~Down,
           NEW x \in Jobs, job' = [job EXCEPT ![t] = x],
           \/ queue' = Append(queue, t) /\ ~Among(t)
           \/ UNCHANGED queue /\ ~Among(t)
           \/ Holds(t) /\ queue' = Tail(queue),
           x.pc \in {"queued", "plan"}, x.op \in {"save", "seal", "drain"},
           x.op = "drain" => x.msgs = <<>>,
           x.op # "drain" => x.gen = gen /\ x.msgs = live /\ x.auth = owned,
           Distinct(x.orig), Earlier(x.orig),
           t = Main \/ x.op # "seal",
           UNCHANGED <<list, disk, kept, cursor, gen, acked, swapped>>
    PROVE  CopyInv'
<1> USE DEF LogInv, CopyInv
<1>1. /\ job'[t] = x /\ \A u \in Tasks : u # t => job'[u] = job[u]
      /\ UNCHANGED <<live, epoch, owned, stamped, fresh, cursor, gen, acked, swapped,
                     disk, kept>>
      /\ Main \in Tasks
  BY DEF Typed, list, Tasks
<1>2. DOMAIN <<>> = {} /\ live \in Seq(Messages) /\ gen \in Nat /\ x.pc \notin {"meta", "done"}
      /\ x.pc \notin {"write", "rewrite"}
  BY DEF Typed
<1>3. x.op = "drain" \/ (x.op # "drain" /\ x.gen = gen /\ x.msgs = live /\ x.auth = owned)
  OBVIOUS
<1>4. \A u \in Tasks : u # t => /\ Saves(u)' <=> Saves(u)
                                /\ Counts(u)' <=> Counts(u)
                                /\ Works(u)' <=> Works(u)
  BY <1>1 DEF Counts, Saves, Works
<1>5. ~Works(t)' /\ (Saves(t)' <=> x.op # "drain") /\ (Counts(t)' <=> x.op # "drain")
  BY <1>1, <1>3 DEF Counts, Saves, Works
<1>6. IdsTrue'
  <2>1. Distinct(<<>>) /\ Earlier(<<>>)
    BY <1>2 DEF Distinct, Earlier
  <2>2. Distinct(x.msgs) /\ Earlier(x.msgs)
    BY <1>3, <2>1 DEF IdsTrue
  <2>3. Lined(Content(disk))' /\ Earlier(Content(disk))'
    BY <1>1 DEF IdsTrue, Lined, Earlier
  <2>4. Distinct(live)' /\ Earlier(live)'
    BY <1>1 DEF IdsTrue, Distinct, Earlier
  <2>5. ASSUME NEW u \in Tasks
        PROVE  /\ Distinct(job[u].msgs)' /\ Earlier(job[u].msgs)'
               /\ Distinct(job[u].orig)' /\ Earlier(job[u].orig)'
    <3>1. CASE u = t
      BY <1>1, <2>2, <3>1 DEF Distinct, Earlier
    <3>2. CASE u # t
      BY <1>1, <3>2 DEF IdsTrue, Distinct, Earlier
    <3> QED
      BY <3>1, <3>2
  <2> QED
    BY <2>3, <2>4, <2>5 DEF IdsTrue
<1>7. RecordsTrue'
  <2>1. ASSUME NEW u \in Tasks, Saves(u)'
        PROVE  Names(job[u].auth, job[u].msgs)'
    <3>1. CASE u = t
      BY <1>1, <1>3, <1>5, <2>1, <3>1 DEF ListSealed, Names
    <3>2. CASE u # t
      BY <1>1, <1>4, <2>1, <3>2 DEF RecordsTrue, Names
    <3> QED
      BY <3>1, <3>2
  <2> QED
    BY <2>1 DEF RecordsTrue
<1>8. OrderTrue'
  <2>1. ASSUME NEW u \in Tasks, Counts(u)'
        PROVE  Follows(job[u].msgs)'
    <3>1. CASE u = t
      <4>1. job'[u].msgs = live' /\ Len(live) \in Nat
        BY <1>1, <1>2, <1>3, <1>5, <2>1, <3>1, LenProperties
      <4> QED
        BY <1>1, <4>1 DEF Follows
    <3>2. CASE u # t
      BY <1>1, <1>4, <2>1, <3>2 DEF OrderTrue, Follows
    <3> QED
      BY <3>1, <3>2
  <2>2. ASSUME NEW u \in Tasks, u # t
        PROVE  Ordered(u, t)'
    <3> SUFFICES ASSUME Saves(u)', Counts(t)'
                 PROVE  /\ Ids(job[u].msgs)' \cap Ids(live)' \subseteq Ids(job[t].msgs)'
                        /\ job'[u].gen = gen' => Older(job'[u].msgs, job'[t].msgs)
      BY DEF Ordered
    <3>1. job'[t].msgs = live /\ live' = live
      BY <1>1, <1>3, <1>5
    <3>2. ASSUME job'[u].gen = gen'
          PROVE  Older(job[u].msgs, live)
      <4>1. Follows(job[u].msgs)
        BY <1>1, <1>4, <2>2, <3>2 DEF Counts, OrderTrue
      <4> QED
        BY <4>1 DEF Follows, Older
    <3> QED
      BY <1>1, <2>2, <3>1, <3>2
  <2>3. ASSUME NEW u \in Tasks, NEW v \in Tasks, u # t, v # t, Ordered(u, v)
        PROVE  Ordered(u, v)'
    BY <1>1, <1>4, <2>3 DEF Ordered, Older
  <2>4. ASSUME NEW m \in DOMAIN queue', NEW n \in DOMAIN queue', m < n
        PROVE  Ordered(queue[m], queue[n])'
    <3>1. \/ /\ queue'[m] \in Tasks /\ queue'[n] \in Tasks /\ Ordered(queue'[m], queue'[n])
             /\ queue'[m] # t /\ queue'[n] # t
          \/ queue'[m] \in Tasks /\ queue'[m] # t /\ queue'[n] = t
      <4>1. CASE queue' = Append(queue, t) /\ ~Among(t)
        <5>1. /\ m \in DOMAIN queue /\ queue'[m] = queue[m]
              /\ \/ n \in DOMAIN queue /\ queue'[n] = queue[n]
                 \/ queue'[n] = t
          BY <2>4, <4>1, OrderJoined DEF Typed
        <5>2. queue[m] \in Tasks /\ queue[m] # t
          BY <4>1, <5>1, ElementOfSeq, LenProperties DEF Typed, Among
        <5>3. CASE n \in DOMAIN queue /\ queue'[n] = queue[n]
          <6>1. queue[n] \in Tasks /\ queue[n] # t /\ Ordered(queue[m], queue[n])
            BY <2>4, <4>1, <5>1, <5>3, ElementOfSeq, LenProperties DEF Typed, Among, OrderTrue
          <6> QED
            BY <5>1, <5>2, <5>3, <6>1
        <5> QED
          BY <5>1, <5>2, <5>3
      <4>2. CASE UNCHANGED queue /\ ~Among(t)
        <5>1. queue'[m] \in Tasks /\ queue'[n] \in Tasks /\ Ordered(queue[m], queue[n])
          BY <2>4, <4>2, ElementOfSeq, LenProperties DEF Typed, OrderTrue
        <5> QED
          BY <2>4, <4>2, <5>1 DEF Among
      <4>3. CASE Holds(t) /\ queue' = Tail(queue)
        <5>1. PICK k, l \in DOMAIN queue : k < l /\ queue[k] = queue'[m] /\ queue[l] = queue'[n]
          BY <2>4, <4>3, OrderLeft DEF Typed
        <5>2. queue[k] \in Tasks /\ queue[l] \in Tasks /\ Ordered(queue[k], queue[l])
          BY <5>1, ElementOfSeq, LenProperties DEF Typed, OrderTrue
        <5>3. \A u : Among(u)' => u # t
          BY <4>3, LeaveQueue DEF Typed, QueueTrue
        <5>4. queue'[m] # t /\ queue'[n] # t
          <6>1. ASSUME NEW i \in DOMAIN queue'
                PROVE  queue'[i] # t
            <7>1. \A u : u = queue'[i] => Among(u)'
              BY <6>1 DEF Among
            <7> QED
              BY <5>3, <7>1
          <6> QED
            BY <2>4, <6>1
        <5> QED
          BY <5>1, <5>2, <5>4
      <4> QED
        BY <4>1, <4>2, <4>3
    <3>2. \A u, v \in Tasks : u = queue'[m] /\ v = queue'[n] => Ordered(u, v)'
      BY <2>2, <2>3, <3>1
    <3> QED
      BY <3>1, <3>2 DEF Ordered, Saves, Counts
  <2> QED
    BY <2>1, <2>4 DEF OrderTrue
<1>9. CursorsTrue'
  <2>1. Exact(cursor)' /\ CursorTrue'
    BY <1>1 DEF CursorsTrue, Exact, CursorTrue, Persists
  <2>2. ~Down'
    <3>1. CASE t = Main
      BY <1>1, <3>1 DEF Down, At
    <3>2. CASE t # Main
      BY <1>1, <3>2 DEF Down, At
    <3> QED
      BY <3>1, <3>2
  <2>3. ASSUME NEW u \in Tasks
        PROVE  /\ Works(u)' => u # t
               /\ job'[u].pc \in {"write", "rewrite"} => u # t
    BY <1>1, <1>2, <1>5
  <2> QED
    BY <1>1, <1>4, <2>1, <2>2, <2>3 DEF CursorsTrue
<1>10. WrittenTrue'
  <2>1. \A u \in Tasks : job'[u].pc \in {"meta", "done"} => u # t
    BY <1>1, <1>2
  <2> QED
    BY <1>1, <2>1 DEF WrittenTrue, Faithful, Persists
<1>11. AckedTrue'
  <2>1. Durable' /\ acked' \subseteq Ids(live')
    BY <1>1 DEF AckedTrue, Durable
  <2>2. ASSUME NEW u \in Tasks, Saves(u)', Works(u)' \/ job'[u].gen = gen'
        PROVE  acked' \subseteq Ids(job'[u].msgs)
    <3>1. CASE u = t
      BY <1>1, <1>3, <1>5, <2>1, <2>2, <3>1
    <3>2. CASE u # t
      BY <1>1, <1>4, <2>2, <3>2 DEF AckedTrue
    <3> QED
      BY <3>1, <3>2
  <2>3. job'[Main].op = "rewind" => Ids(live') \subseteq Ids(job'[Main].orig)
    <3>1. CASE t = Main
      BY <1>1, <3>1
    <3>2. CASE t # Main
      BY <1>1, <3>2 DEF AckedTrue
    <3> QED
      BY <3>1, <3>2
  <2> QED
    BY <2>1, <2>2, <2>3 DEF AckedTrue
<1> QED
  BY <1>6, <1>7, <1>8, <1>9, <1>10, <1>11

\* A save that begins.
LEMMA BeginsCopies ==
    ASSUME LogInv, CopyInv, NEW t \in Savers, SaveBegin(t)
    PROVE  CopyInv'
<1> DEFINE x == Snapshot("save", "queued")
<1>1. /\ x \in Jobs /\ x.op = "save" /\ x.pc = "queued" /\ x.gen = gen /\ x.msgs = live
      /\ x.auth = owned /\ x.orig = <<>>
  BY SnapshotIs
<1>2. /\ t \in Tasks /\ At(t, "idle") /\ live # <<>>
      /\ job' = [job EXCEPT ![t] = x] /\ queue' = Append(queue, t)
      /\ UNCHANGED <<list, disk, kept, cursor, gen, acked, swapped>>
  BY DEF SaveBegin, Tasks, log, files
<1> HIDE DEF x
<1>3. ~Among(t) /\ ~Down
  BY <1>2 DEF LogInv, QueueTrue, StepsTrue, At
<1>4. Distinct(<<>>) /\ Earlier(<<>>)
  BY DEF Distinct, Earlier
<1> QED
  BY <1>1, <1>2, <1>3, <1>4, CopyTakes

\* A trim that begins, and one that waited for the saves before it.
LEMMA TrimCopies ==
    ASSUME LogInv, CopyInv, PostTurnTrim \/ CompactionTrim \/ Drained
    PROVE  CopyInv'
<1> DEFINE x == Snapshot("seal", "plan")
           d == [Idle EXCEPT !.op = "drain", !.pc = "queued"]
<1>1. /\ x \in Jobs /\ x.op = "seal" /\ x.pc = "plan" /\ x.gen = gen /\ x.msgs = live
      /\ x.auth = owned /\ x.orig = <<>>
  BY SnapshotIs
<1>2. d \in Jobs /\ d.op = "drain" /\ d.pc = "queued" /\ d.msgs = <<>> /\ d.orig = <<>>
  BY EmptySeq DEF Idle, Jobs, Phases
<1>3. /\ UNCHANGED <<list, disk, kept, cursor, gen, acked, swapped>> /\ Main \in Tasks
      /\ \/ Quiet /\ queue' = Append(queue, Main) /\ job' = [job EXCEPT ![Main] = d]
         \/ Quiet /\ UNCHANGED queue /\ job' = [job EXCEPT ![Main] = x]
         \/ /\ Holds(Main) /\ job[Main].op = "drain" /\ queue' = Tail(queue)
            /\ job' = [job EXCEPT ![Main] = Idle] \/ job' = [job EXCEPT ![Main] = x]
  BY DEF PostTurnTrim, CompactionTrim, Drained, Tasks, log, files
<1> HIDE DEF x, d
<1>4. /\ Quiet => ~Among(Main) /\ ~Down
      /\ job[Main].op = "drain" => ~Down /\ ~At(Main, "down")
  BY <1>3 DEF LogInv, QueueTrue, StepsTrue, At, Quiet, Down
<1>5. Distinct(<<>>) /\ Earlier(<<>>)
  BY DEF Distinct, Earlier
<1>6. CASE Quiet /\ queue' = Append(queue, Main) /\ job' = [job EXCEPT ![Main] = d]
  BY <1>2, <1>3, <1>4, <1>5, <1>6, CopyTakes
<1>7. CASE Quiet /\ UNCHANGED queue /\ job' = [job EXCEPT ![Main] = x]
  BY <1>1, <1>3, <1>4, <1>5, <1>7, CopyTakes
<1>8. CASE Holds(Main) /\ job[Main].op = "drain" /\ queue' = Tail(queue)
           /\ job' = [job EXCEPT ![Main] = Idle]
  BY <1>3, <1>4, <1>8, CopyIdle
<1>9. CASE Holds(Main) /\ job[Main].op = "drain" /\ queue' = Tail(queue)
           /\ job' = [job EXCEPT ![Main] = x]
  BY <1>1, <1>3, <1>4, <1>5, <1>9, CopyTakes
<1> QED
  BY <1>3, <1>6, <1>7, <1>8, <1>9

\* A seal that is planned.
LEMMA PlanCopies ==
    ASSUME LogInv, CopyInv, SealPlan
    PROVE  CopyInv'
<1> USE DEF LogInv
<1> DEFINE s == Sealed
           y == [job[Main] EXCEPT !.pc = "queued", !.plan = s]
<1>1. /\ job[Main].op = "seal" /\ At(Main, "plan") /\ Sealable
      /\ job' = [job EXCEPT ![Main] = y] /\ queue' = Append(queue, Main)
      /\ UNCHANGED <<list, disk, kept, cursor, gen, acked, swapped>> /\ Main \in Tasks
  BY DEF SealPlan, Tasks, log, files
<1>2. s \in Seals
  BY <1>1, SealedIs
<1> HIDE DEF s
<1>3. job[Main] \in Jobs /\ job[Main].gen = gen /\ job[Main].msgs = live
      /\ job[Main].auth = owned
  BY <1>1 DEF Typed, SealTrue, SnapshotsSealed, SnapshotSealed, Saves
<1>4. /\ y \in Jobs /\ y.op = "seal" /\ y.pc = "queued" /\ y.gen = gen /\ y.msgs = live
      /\ y.auth = owned /\ y.orig = job[Main].orig
  BY <1>1, <1>2, <1>3 DEF Jobs, Phases
<1> HIDE DEF y
<1>5. ~Among(Main) /\ ~Down /\ Distinct(y.orig) /\ Earlier(y.orig)
  BY <1>1, <1>4 DEF QueueTrue, At, Down, CopyInv, IdsTrue
<1> QED
  BY <1>1, <1>2, <1>4, <1>5, CopyTakes

-----------------------------------------------------------------------------
(* The list, and what the copies say *)

\* Where nothing is sealed and nothing rewound, no worker is the main flow's; and a
\* task with a worker has a snapshot that is not from the future.
LEMMA QuietIs ==
    ASSUME LogInv
    PROVE  /\ Quiet => job[Main].op = "idle" /\ ~Down
           /\ \A t \in Tasks : Works(t) => Saves(t) /\ ~At(t, "idle")
           /\ \A t \in Tasks : Saves(t) => job[t].gen \in Nat /\ job[t].gen <= gen
           /\ gen \in Nat /\ fresh \in Nat
<1> USE DEF LogInv
<1>1. Main \in Tasks /\ job \in [Tasks -> Jobs] /\ gen \in Nat /\ fresh \in Nat
  BY DEF Typed, Tasks
<1>2. Quiet => job[Main].op = "idle" /\ ~Down
  BY <1>1 DEF StepsTrue, Quiet, At, Down
<1>3. ASSUME NEW t \in Tasks
      PROVE  /\ Works(t) => Saves(t) /\ ~At(t, "idle")
             /\ Saves(t) => job[t].gen \in Nat /\ job[t].gen <= gen
  <2>1. job[t].op \in {"idle", "save", "rewind", "drain", "seal"} /\ job[t].gen \in Nat
    BY <1>1, <1>3 DEF Jobs
  <2> QED
    BY <1>3, <2>1 DEF StepsTrue, Works, Saves, At, SnapshotsSealed, SnapshotSealed
<1> QED
  BY <1>1, <1>2, <1>3

\* The identities in a list.
LEMMA MessageIds ==
    ASSUME NEW s \in Seq(Messages)
    PROVE  /\ Len(s) \in Nat /\ DOMAIN s = 1..Len(s)
           /\ \A i \in DOMAIN s : s[i] \in Messages /\ s[i].id \in Nat
<1>1. Len(s) \in Nat /\ DOMAIN s = 1..Len(s)
  BY LenProperties
<1>2. \A i \in DOMAIN s : s[i] \in Messages
  BY <1>1, ElementOfSeq
<1>3. \A e \in Messages : e.id \in Nat
  BY DEF Messages
<1> QED
  BY <1>1, <1>2, <1>3

\* The agent loop changes the list: the logger is told, or every message stays in
\* its place, and what is replaced or edited is remembered in swapped.
LEMMA ListCopies ==
    ASSUME LogInv, CopyInv, Quiet, live' \in Seq(Messages), fresh' \in Nat,
           fresh <= fresh',
           Distinct(live'), \A i \in DOMAIN live' : live'[i].id < fresh',
           Ids(live) \subseteq Ids(live'),
           \/ Invalidate
           \/ /\ UNCHANGED <<gen, cursor>> /\ swapped \subseteq swapped'
              /\ Len(live') \in Nat /\ Len(live) <= Len(live')
              /\ \A i \in 1..Len(live) :
                    /\ live'[i].id = live[i].id /\ live'[i].trim = live[i].trim
                    /\ \/ live'[i].kind = live[i].kind
                       \/ /\ live[i].kind = "placeholder" /\ live[i].id \in swapped'
                          /\ ~live[i].trim
                    /\ \/ (live[i].id \in stamped') = (live[i].id \in stamped)
                       \/ live[i].id \in swapped'
              /\ \A i \in DOMAIN live' : i > Len(live) => live'[i].id >= fresh,
           UNCHANGED <<epoch, owned, disk, kept, queue, job, acked>>
    PROVE  CopyInv'
<1> USE DEF CopyInv
<1>0. /\ Main \in Tasks /\ live \in Seq(Messages) /\ fresh \in Nat
      /\ job \in [Tasks -> Jobs] /\ disk \in Seq(Lines) \cup {None}
  BY DEF LogInv, Typed, Tasks
<1>1. /\ Main \in Tasks /\ live \in Seq(Messages) /\ Len(live) \in Nat
      /\ DOMAIN live = 1..Len(live) /\ fresh \in Nat /\ job \in [Tasks -> Jobs]
      /\ disk \in Seq(Lines) \cup {None} /\ \A i \in 1..Len(live) : live[i].id \in Nat
  BY <1>0, MessageIds
<1>2. /\ job[Main].op = "idle" /\ ~Down
      /\ \A t \in Tasks : Works(t) => Saves(t) /\ ~At(t, "idle")
      /\ \A t \in Tasks : Saves(t) => job[t].gen \in Nat /\ job[t].gen <= gen
      /\ gen \in Nat
  BY QuietIs
<1>3. /\ \A t \in Tasks : /\ Saves(t)' <=> Saves(t)
                          /\ Works(t)' <=> Works(t)
      /\ (Down' <=> Down)
  BY <1>2 DEF Saves, Works, Down, At
<1>4. IdsTrue'
  <2>1. \A x : x \in Nat /\ x < fresh => x < fresh'
    BY <1>1
  <2>2. ASSUME NEW s \in Seq(Messages), Earlier(s)
        PROVE  \A i \in DOMAIN s : s[i].id < fresh'
    BY <1>1, <2>1, <2>2, MessageIds DEF Earlier
  <2>3. \A t \in Tasks : job[t].msgs \in Seq(Messages) /\ job[t].orig \in Seq(Messages)
    BY <1>1 DEF Jobs
  <2>4. Content(disk) \in Seq(Lines)
    BY <1>1, EmptySeq, ContentIs DEF Content
  <2>5. \A i \in DOMAIN Content(disk) : Content(disk)[i].id < fresh'
    <3>1. \A i \in DOMAIN Content(disk) : Content(disk)[i].id \in Nat
      BY <2>4, LenProperties, ElementOfSeq DEF Lines, Torn
    <3> QED
      BY <2>1, <3>1 DEF IdsTrue, Earlier
  <2>6. Content(disk') = Content(disk)
    BY DEF Content
  <2>7. Lined(Content(disk))' /\ Earlier(Content(disk))'
    BY <2>5, <2>6 DEF IdsTrue, Lined, Earlier
  <2>8. Distinct(live)' /\ Earlier(live)'
    BY DEF Distinct, Earlier
  <2>9. ASSUME NEW t \in Tasks
        PROVE  /\ Distinct(job[t].msgs)' /\ Earlier(job[t].msgs)'
               /\ Distinct(job[t].orig)' /\ Earlier(job[t].orig)'
    BY SMTT(30), <2>2, <2>3 DEF IdsTrue, Distinct, Earlier
  <2> QED
    BY <2>7, <2>8, <2>9 DEF IdsTrue
<1>5. RecordsTrue'
  BY <1>3 DEF RecordsTrue, Names
<1>6. WrittenTrue' /\ OrderTrue' /\ CursorsTrue'
  <2>1. CASE Invalidate
    <3>1. gen' = gen + 1 /\ cursor' = None
      BY <2>1 DEF Invalidate
    <3>2. \A t \in Tasks : /\ Saves(t) => job[t].gen # gen'
                           /\ Works(t) => job[t].gen # gen'
                           /\ ~Counts(t)'
      BY <1>2, <1>3, <3>1 DEF Counts
    <3>3. WrittenTrue'
      BY <1>3, <3>2 DEF WrittenTrue, Works
    <3>4. OrderTrue'
      <4>1. \A m \in DOMAIN queue : queue[m] \in Tasks
        BY LenProperties, ElementOfSeq DEF LogInv, Typed
      <4>2. \A u, v \in Tasks : Ordered(u, v)'
        BY <3>2 DEF Ordered
      <4> QED
        BY <3>2, <4>1, <4>2 DEF OrderTrue, Ordered, Saves, Counts
    <3>5. CursorsTrue'
      <4>1. Exact(cursor)' /\ CursorTrue'
        BY <3>1 DEF Exact, CursorTrue
      <4> QED
        BY <1>3, <3>1, <3>2, <4>1 DEF CursorsTrue
    <3> QED
      BY <3>3, <3>4, <3>5
  <2>2. CASE ~Invalidate
    <3>1. /\ UNCHANGED <<gen, cursor>> /\ swapped \subseteq swapped'
          /\ Len(live') \in Nat /\ Len(live) <= Len(live')
          /\ \A i \in 1..Len(live) :
                /\ live'[i].id = live[i].id /\ live'[i].trim = live[i].trim
                /\ \/ live'[i].kind = live[i].kind
                   \/ /\ live[i].kind = "placeholder" /\ live[i].id \in swapped'
                      /\ ~live[i].trim
                /\ \/ (live[i].id \in stamped') = (live[i].id \in stamped)
                   \/ live[i].id \in swapped'
          /\ \A i \in DOMAIN live' : i > Len(live) => live'[i].id >= fresh
      BY <2>2
    <3>2. \A t \in Tasks : Counts(t)' <=> Counts(t)
      BY <1>3, <3>1 DEF Counts
    <3>3. ASSUME NEW s \in Seq(Messages), Follows(s)
          PROVE  /\ Len(s) <= Len(live')
                 /\ \A i \in DOMAIN s :
                      /\ s[i].id = live'[i].id /\ s[i].trim = live'[i].trim
                      /\ \/ s[i].kind = live'[i].kind
                         \/ s[i].kind = "placeholder" /\ s[i].id \in swapped' /\ ~s[i].trim
      <4>1. DOMAIN s = 1..Len(s) /\ Len(s) \in Nat /\ Len(s) <= Len(live)
        BY <3>3, LenProperties DEF Follows
      <4>2. Len(s) <= Len(live') /\ \A i \in DOMAIN s : i \in 1..Len(live)
        BY <1>1, <3>1, <4>1
      <4> QED
        BY <3>1, <3>3, <4>2 DEF Follows
    <3>4. ASSUME NEW f \in Seq(Lines), Faithful(f)
          PROVE  Len(f) <= Len(live') /\ \A i \in DOMAIN f : Persists(f[i], live[i])'
      <4>1. DOMAIN f = 1..Len(f) /\ Len(f) \in Nat /\ Len(f) <= Len(live)
        BY <3>4, LenProperties DEF Faithful
      <4>2. Len(f) <= Len(live') /\ \A i \in DOMAIN f : i \in 1..Len(live)
        BY <1>1, <3>1, <4>1
      <4>3. ASSUME NEW i \in DOMAIN f
            PROVE  /\ f[i].id = live'[i].id /\ ~f[i].trim
                   /\ f[i].stamp = (live'[i].id \in stamped') \/ live'[i].id \in swapped'
                   /\ \/ f[i].kind = live'[i].kind
                      \/ f[i].kind = "placeholder" /\ live'[i].id \in swapped'
        BY <3>1, <3>4, <4>2, <4>3 DEF Faithful, Persists
      <4> QED
        BY <4>2, <4>3 DEF Persists
    <3>5. WrittenTrue'
      <4>1. ASSUME NEW t \in Tasks, job[t].pc \in {"meta", "done"}, job[t].gen = gen
            PROVE  Faithful(Content(disk))'
        <5>1. Faithful(Content(disk)) /\ Content(disk) \in Seq(Lines)
          BY <1>1, <4>1, EmptySeq, ContentIs DEF WrittenTrue, Content
        <5>2. /\ Len(Content(disk)) <= Len(live')
              /\ \A i \in DOMAIN Content(disk) : Persists(Content(disk)[i], live[i])'
          BY <3>4, <5>1
        <5> QED
          BY <5>2 DEF Faithful, Persists, Content
      <4>2. Content(disk') = Content(disk)
        BY DEF Content
      <4> QED
        BY <3>1, <4>1, <4>2 DEF WrittenTrue
    <3>6. OrderTrue'
      <4>1. \A m \in DOMAIN queue : queue[m] \in Tasks
        BY LenProperties, ElementOfSeq DEF LogInv, Typed
      <4>2. \A t \in Tasks : job[t].msgs \in Seq(Messages)
        BY <1>1 DEF Jobs
      <4>3. ASSUME NEW t \in Tasks, Counts(t)'
            PROVE  Follows(job[t].msgs)'
        <5>1. Follows(job[t].msgs) /\ job[t].msgs \in Seq(Messages)
          BY <3>2, <4>2, <4>3 DEF OrderTrue
        <5>2. /\ Len(job[t].msgs) <= Len(live')
              /\ \A i \in DOMAIN job[t].msgs :
                    /\ job[t].msgs[i].id = live'[i].id /\ job[t].msgs[i].trim = live'[i].trim
                    /\ \/ job[t].msgs[i].kind = live'[i].kind
                       \/ /\ job[t].msgs[i].kind = "placeholder"
                          /\ job[t].msgs[i].id \in swapped' /\ ~job[t].msgs[i].trim
          BY <3>3, <5>1
        <5> QED
          BY <5>2 DEF Follows
      <4>4. ASSUME NEW u \in Tasks, NEW v \in Tasks, Ordered(u, v)
            PROVE  Ordered(u, v)'
        <5>1. ASSUME NEW i \in Ids(job[u].msgs) \cap Ids(live')
              PROVE  i \in Ids(live)
          <6>1. PICK k \in DOMAIN job[u].msgs : i = job[u].msgs[k].id
            BY <5>1 DEF Ids
          <6>2. i < fresh /\ i \in Nat
            BY <4>2, <6>1, MessageIds DEF IdsTrue, Earlier
          <6>3. PICK n \in DOMAIN live' : i = live'[n].id /\ i # 0
            BY <5>1 DEF Ids
          <6>4. ~(n > Len(live))
            BY <1>1, <3>1, <6>2, <6>3
          <6>5. DOMAIN live' = 1..Len(live')
            BY LenProperties
          <6>6. n \in 1..Len(live)
            BY <1>1, <3>1, <6>3, <6>4, <6>5
          <6>7. i = live[n].id
            BY <3>1, <6>3, <6>6
          <6> QED
            BY <1>1, <6>3, <6>6, <6>7 DEF Ids
        <5> QED
          BY <1>3, <3>1, <3>2, <4>4, <5>1 DEF Ordered, Older
      <4> QED
        BY <4>1, <4>3, <4>4 DEF OrderTrue, Ordered, Saves, Counts
    <3>7. CursorsTrue'
      <4>1. Exact(cursor)' /\ disk' \in Seq(Lines) \cup {None}
        BY <1>1, <3>1 DEF CursorsTrue, Exact
      <4>2. cursor' # None /\ Size(disk') = cursor'.size => Faithful(disk)'
        <5>1. SUFFICES ASSUME cursor # None, Size(disk) = cursor.size
                       PROVE  Faithful(disk)'
          BY <3>1
        <5>2. Faithful(disk)
          BY <1>1, <5>1, CursorIs DEF CursorsTrue
        <5>3. disk \in Seq(Lines)
          <6>1. Size(disk) = <<cursor.count, 0>>
            BY <5>1 DEF CursorsTrue, Exact
          <6>2. disk # None
            BY <6>1, NoSize
          <6> QED
            BY <1>1, <6>2
        <5> QED
          BY <3>4, <5>2, <5>3 DEF Faithful, Persists
      <4>3. CursorTrue'
        BY <4>1, <4>2, CursorWill
      <4> QED
        BY <1>3, <3>1, <4>1, <4>3 DEF CursorsTrue
    <3> QED
      BY <3>5, <3>6, <3>7
  <2> QED
    BY <2>1, <2>2
<1>7. AckedTrue'
  <2>1. Durable' /\ acked' \subseteq Ids(live')
    BY <1>2 DEF AckedTrue, Durable, Content
  <2>2. \A t \in Tasks : Saves(t) /\ ~(gen' = gen) => job[t].gen # gen'
    BY <1>2 DEF Invalidate
  <2> QED
    BY <1>2, <1>3, <2>1, <2>2 DEF AckedTrue
<1> QED
  BY <1>4, <1>5, <1>6, <1>7

\* The list as it is, and its identities.
LEMMA ListIs ==
    ASSUME LogInv, CopyInv
    PROVE  /\ live \in Seq(Messages) /\ Len(live) \in Nat /\ DOMAIN live = 1..Len(live)
           /\ fresh \in Nat /\ Distinct(live)
           /\ \A i \in 1..Len(live) : /\ live[i] \in Messages /\ live[i].id \in Nat
                                      /\ live[i].id < fresh
<1>1. live \in Seq(Messages) /\ fresh \in Nat
  BY DEF LogInv, Typed
<1>2. /\ Len(live) \in Nat /\ DOMAIN live = 1..Len(live)
      /\ \A i \in 1..Len(live) : live[i] \in Messages /\ live[i].id \in Nat
  BY <1>1, MessageIds
<1>3. Distinct(live) /\ \A i \in 1..Len(live) : live[i].id < fresh
  BY <1>2 DEF CopyInv, IdsTrue, Earlier
<1> QED
  BY <1>1, <1>2, <1>3

\* A message is appended.
LEMMA MessageCopies ==
    ASSUME LogInv, CopyInv, NEW k \in Shapes, AppendMessage(k)
    PROVE  CopyInv'
<1> DEFINE e == Entry(fresh, k)
           n == Len(live)
<1>1. /\ live \in Seq(Messages) /\ n \in Nat /\ DOMAIN live = 1..n
      /\ fresh \in Nat /\ Distinct(live)
      /\ \A i \in 1..n : live[i] \in Messages /\ live[i].id \in Nat /\ live[i].id < fresh
  BY ListIs
<1>2. e \in Messages /\ e.id = fresh
  BY <1>1 DEF Entry, Messages, Shapes
<1>3. /\ Quiet /\ live' = Append(live, e) /\ fresh' = fresh + 1
      /\ UNCHANGED <<gen, cursor, stamped, swapped, epoch, owned, disk, kept, queue, job,
                     acked>>
  BY DEF AppendMessage, files, log
<1> HIDE DEF e
<1>4. /\ live' \in Seq(Messages) /\ Len(live') = n + 1
      /\ \A i \in 1..n : live'[i] = live[i]
      /\ live'[n + 1] = e
  BY <1>1, <1>2, <1>3, AppendProperties
<1> HIDE DEF n
<1>5. DOMAIN live' = 1..(n + 1) /\ 1..(n + 1) = 1..n \cup {n + 1} /\ n + 1 \notin 1..n
  BY <1>1, <1>4, LenProperties
<1>6. fresh' \in Nat /\ fresh <= fresh' /\ \A i \in DOMAIN live' : live'[i].id < fresh'
  <2>1. \A x \in Nat : x < fresh => x < fresh'
    BY <1>1, <1>3
  <2>2. fresh < fresh' /\ fresh' \in Nat
    BY <1>1, <1>3
  <2> QED
    BY <1>1, <1>2, <1>4, <1>5, <2>1, <2>2
<1>7. \A i \in 1..n : live'[i].id # fresh
  <2>1. \A x \in Nat : x < fresh => x # fresh
    BY <1>1
  <2> QED
    BY <1>1, <1>4, <2>1
<1>8. Distinct(live')
  BY <1>1, <1>2, <1>4, <1>5, <1>7 DEF Distinct
<1>9. Ids(live) \subseteq Ids(live')
  BY <1>1, <1>4, <1>5 DEF Ids
<1>10. \A i \in DOMAIN live' : i > n => live'[i].id >= fresh
  BY <1>1, <1>2, <1>4, <1>5
<1>11. Len(live') \in Nat /\ n <= Len(live')
  BY <1>1, <1>4
<1> QED
  BY <1>3, <1>4, <1>6, <1>8, <1>9, <1>10, <1>11, ListCopies DEF n

\* A message is inserted.
LEMMA InsertCopies ==
    ASSUME LogInv, CopyInv, NEW n \in 1..Len(live), InsertMessage(n)
    PROVE  CopyInv'
<1> DEFINE e == Entry(fresh, "message")
           l == Len(live)
<1>1. /\ live \in Seq(Messages) /\ l \in Nat /\ DOMAIN live = 1..l
      /\ fresh \in Nat /\ Distinct(live)
      /\ \A i \in 1..l : live[i] \in Messages /\ live[i].id \in Nat /\ live[i].id < fresh
  BY ListIs
<1>2. e \in Messages /\ e.id = fresh
  BY <1>1 DEF Entry, Messages, Shapes
<1>3. /\ Quiet /\ live' = InsertAt(live, n, e) /\ fresh' = fresh + 1 /\ Invalidate
      /\ UNCHANGED <<stamped, swapped, epoch, owned, disk, kept, queue, job, acked>>
  BY DEF InsertMessage, files
<1> HIDE DEF e
<1>4. /\ live' \in Seq(Messages) /\ Len(live') = l + 1
      /\ \A i \in 1..(n - 1) : live'[i] = live[i]
      /\ live'[n] = e
      /\ \A i \in (n + 1)..(l + 1) : live'[i] = live[i - 1]
  <2>1. live \in Seq(Messages) /\ e \in Messages /\ live' = InsertAt(live, n, e)
    BY <1>1, <1>2, <1>3
  <2>2. /\ InsertAt(live, n, e) \in Seq(Messages)
        /\ Len(InsertAt(live, n, e)) = Len(live) + 1
        /\ \A i \in 1..(n - 1) : InsertAt(live, n, e)[i] = live[i]
        /\ InsertAt(live, n, e)[n] = e
        /\ \A i \in (n + 1)..(Len(live) + 1) : InsertAt(live, n, e)[i] = live[i - 1]
    BY SMTT(30), <2>1, InsertItems
  <2> QED
    BY <2>1, <2>2
<1> HIDE DEF l
<1>5. /\ DOMAIN live' = 1..(l + 1) /\ n \in 1..l
      /\ \A i \in 1..(l + 1) : \/ i \in 1..(n - 1) /\ i \in 1..l
                               \/ i = n
                               \/ i \in (n + 1)..(l + 1) /\ i - 1 \in 1..l /\ i - 1 >= n
  BY <1>1, <1>4, LenProperties DEF l
<1> DEFINE from(i) == IF i < n THEN i ELSE i - 1
<1>6. \A i \in 1..(l + 1) : \/ i = n
                            \/ from(i) \in 1..l /\ i # n /\ live'[i] = live[from(i)]
  BY <1>1, <1>4, <1>5
<1>7. \A i, k \in 1..(l + 1) : i # n /\ k # n /\ from(i) = from(k) => i = k
  BY <1>1, <1>5
<1>8. \A j \in 1..l : \E i \in 1..(l + 1) : i # n /\ from(i) = j
  <2>1. ASSUME NEW j \in 1..l
        PROVE  \E i \in 1..(l + 1) : i # n /\ from(i) = j
    <3>1. CASE j < n
      <4>1. j \in 1..(l + 1) /\ j # n /\ from(j) = j
        BY <1>1, <1>5, <3>1
      <4> QED
        BY <4>1
    <3>2. CASE ~(j < n)
      <4>1. j + 1 \in 1..(l + 1) /\ j + 1 # n /\ from(j + 1) = j
        BY <1>1, <1>5, <3>2
      <4> QED
        BY <4>1
    <3> QED
      BY <3>1, <3>2
  <2> QED
    BY <2>1
<1> HIDE DEF from
<1>9. \A x \in Nat : x < fresh => x < fresh' /\ x # fresh
  BY <1>1, <1>3
<1>10. /\ fresh' \in Nat /\ fresh <= fresh' /\ fresh < fresh'
  BY <1>1, <1>3
<1>11. \A i \in DOMAIN live' : live'[i].id < fresh'
  BY <1>1, <1>2, <1>4, <1>5, <1>6, <1>9, <1>10
<1>12. \A i \in 1..(l + 1) : i # n => live'[i].id # fresh
  BY <1>1, <1>6, <1>9
<1>13. Distinct(live')
  <2>1. ASSUME NEW i \in 1..(l + 1), NEW k \in 1..(l + 1), live'[i].id = live'[k].id
        PROVE  i = k
    <3>1. CASE i = n \/ k = n
      BY <1>2, <1>4, <1>12, <2>1, <3>1
    <3>2. CASE i # n /\ k # n
      BY <1>1, <1>6, <1>7, <2>1, <3>2 DEF Distinct
    <3> QED
      BY <3>1, <3>2
  <2> QED
    BY <1>5, <2>1 DEF Distinct
<1>14. Ids(live) \subseteq Ids(live')
  <2>1. ASSUME NEW j \in 1..l
        PROVE  \E i \in DOMAIN live' : live'[i].id = live[j].id
    BY <1>5, <1>6, <1>8, <2>1
  <2> QED
    BY <1>1, <2>1 DEF Ids
<1> QED
  BY <1>3, <1>4, <1>10, <1>11, <1>13, <1>14, ListCopies

\* A placeholder is replaced, under its identity.
LEMMA SwapCopies ==
    ASSUME LogInv, CopyInv, NEW n \in DOMAIN live, ReplacePlaceholder(n)
    PROVE  CopyInv'
<1> DEFINE l == Len(live)
<1>1. /\ live \in Seq(Messages) /\ l \in Nat /\ DOMAIN live = 1..l
      /\ fresh \in Nat /\ Distinct(live)
      /\ \A i \in 1..l : live[i] \in Messages /\ live[i].id \in Nat /\ live[i].id < fresh
  BY ListIs
<1>2. /\ Quiet /\ live[n].kind = "placeholder" /\ ~live[n].trim
      /\ live' = [live EXCEPT ![n].kind = "result"]
      /\ swapped' = swapped \cup {live[n].id}
      /\ UNCHANGED <<gen, cursor, stamped, epoch, owned, fresh, disk, kept, queue, job,
                     acked>>
  BY DEF ReplacePlaceholder, files, log
<1>3. /\ DOMAIN live' = 1..l
      /\ \A i \in 1..l : /\ live'[i].id = live[i].id /\ live'[i].trim = live[i].trim
                         /\ i # n => live'[i] = live[i]
                         /\ live'[i] \in Messages
  <2>1. \A e \in Messages : [e EXCEPT !.kind = "result"] \in Messages
    BY DEF Messages
  <2>2. ASSUME NEW i \in 1..l
        PROVE  /\ live'[i].id = live[i].id /\ live'[i].trim = live[i].trim
               /\ i # n => live'[i] = live[i]
               /\ live'[i] \in Messages
    <3>1. CASE i = n
      <4>1. live'[i] = [live[i] EXCEPT !.kind = "result"]
        BY <1>1, <1>2, <3>1
      <4>2. \A e \in Messages : /\ [e EXCEPT !.kind = "result"].id = e.id
                                /\ [e EXCEPT !.kind = "result"].trim = e.trim
        BY DEF Messages
      <4> QED
        BY <1>1, <2>1, <3>1, <4>1, <4>2
    <3>2. CASE i # n
      BY <1>1, <1>2, <3>2
    <3> QED
      BY <3>1, <3>2
  <2> QED
    BY <1>1, <1>2, <2>2
<1>4. live' \in Seq(Messages) /\ Len(live') = l
  <2> DEFINE e == [live[n] EXCEPT !.kind = "result"]
  <2>1. e \in Messages
    BY <1>1 DEF Messages
  <2>2. live' = [live EXCEPT ![n] = e]
    BY <1>2
  <2> QED
    BY <1>1, <2>1, <2>2, ExceptSeq
<1> HIDE DEF l
<1>5. Distinct(live') /\ Ids(live) \subseteq Ids(live')
  BY <1>1, <1>3 DEF Distinct, Ids
<1>6. /\ fresh' \in Nat /\ fresh <= fresh' /\ \A i \in DOMAIN live' : live'[i].id < fresh'
  BY <1>1, <1>2, <1>3
<1>7. Len(live') \in Nat /\ l <= Len(live') /\ \A i \in DOMAIN live' : ~(i > l)
  BY <1>1, <1>3, <1>4
<1>8. \A i \in 1..l :
         /\ live'[i].id = live[i].id /\ live'[i].trim = live[i].trim
         /\ \/ live'[i].kind = live[i].kind
            \/ /\ live[i].kind = "placeholder" /\ live[i].id \in swapped'
               /\ ~live[i].trim
         /\ (live[i].id \in stamped') = (live[i].id \in stamped)
  BY <1>2, <1>3
<1> QED
  BY <1>2, <1>4, <1>5, <1>6, <1>7, <1>8, ListCopies DEF l

\* A message is stamped, and the logger is told; or it is edited.
LEMMA StampCopies ==
    ASSUME LogInv, CopyInv, NEW n \in DOMAIN live, StampTiming(n) \/ EditCall(n)
    PROVE  CopyInv'
<1>1. /\ live \in Seq(Messages) /\ DOMAIN live = 1..Len(live) /\ Len(live) \in Nat
      /\ fresh \in Nat /\ Distinct(live)
      /\ \A i \in 1..Len(live) : live[i].id < fresh
  BY ListIs
<1>2. /\ Quiet /\ UNCHANGED <<live, epoch, owned, fresh, disk, kept, queue, job, acked>>
      /\ \/ Invalidate
         \/ /\ UNCHANGED <<gen, cursor>> /\ swapped' = swapped \cup {live[n].id}
            /\ stamped' = stamped \cup {live[n].id}
  BY DEF StampTiming, EditCall, files, log
<1>3. fresh <= fresh' /\ fresh' \in Nat
  BY <1>1, <1>2
<1>4. ASSUME ~Invalidate
      PROVE  \A i \in 1..Len(live) :
                \/ (live[i].id \in stamped') = (live[i].id \in stamped)
                \/ live[i].id \in swapped'
  BY <1>2, <1>4
<1>5. \A i \in DOMAIN live' : ~(i > Len(live))
  BY <1>1, <1>2
<1> QED
  BY <1>1, <1>2, <1>3, <1>4, <1>5, ListCopies

-----------------------------------------------------------------------------
(* Rewinds, and what the copies say *)

\* A rewind takes up the list that it wants, or the one there was.
LEMMA TakenCopies ==
    ASSUME LogInv, CopyInv, ~Down, NEW m \in Seq(Messages), Distinct(m), Earlier(m),
           ResetList(m), NEW x \in Jobs, job' = [job EXCEPT ![Main] = x],
           \/ /\ x.op = "idle" /\ x.pc = "idle" /\ x.msgs = <<>> /\ x.orig = <<>>
              /\ acked' = acked /\ acked \subseteq Ids(m)
           \/ /\ x.op = "rewind" /\ x.pc = "queued" /\ x.gen = gen' /\ x.msgs = m
              /\ x.auth = None /\ Distinct(x.orig) /\ Earlier(x.orig)
              /\ Ids(m) \subseteq Ids(x.orig) /\ acked' = acked \cap Ids(m),
           queue' \in Seq(Tasks), UNCHANGED <<files, swapped>>
    PROVE  CopyInv'
<1> USE DEF CopyInv
<1>1. /\ job'[Main] = x /\ \A u \in Tasks : u # Main => job'[u] = job[u]
      /\ Main \in Tasks /\ live' = m /\ owned' = None /\ cursor' = None
      /\ gen' = gen + 1 /\ gen \in Nat
      /\ UNCHANGED <<fresh, swapped, disk, kept>>
  BY DEF LogInv, Typed, Tasks, ResetList, Invalidate, files
<1>2. \A u \in Tasks : u # Main => /\ Saves(u)' <=> Saves(u)
                                   /\ Works(u)' <=> Works(u)
                                   /\ Saves(u)' => job'[u].gen # gen'
                                   /\ Works(u)' => Saves(u)'
                                   /\ ~Counts(u)'
  <2>1. ASSUME NEW u \in Tasks, u # Main
        PROVE  /\ Saves(u)' <=> Saves(u)
               /\ Works(u)' <=> Works(u)
    BY <1>1, <2>1 DEF Saves, Works
  <2>2. ASSUME NEW u \in Tasks, u # Main, Saves(u)'
        PROVE  job'[u].gen # gen'
    <3>1. job[u].gen \in Nat /\ job[u].gen <= gen
      BY <2>1, <2>2, QuietIs
    <3> QED
      BY <1>1, <2>2, <3>1
  <2> QED
    BY <2>1, <2>2, QuietIs DEF Counts
<1>3. ~Works(Main)' /\ x.pc \notin {"write", "rewrite", "meta", "done"}
  BY <1>1 DEF Works
<1>4. x.op = "idle" => ~Saves(Main)' /\ ~Counts(Main)'
  BY <1>1 DEF Saves, Counts
<1>5. IdsTrue'
  <2>1. Distinct(<<>>) /\ Earlier(<<>>)
    BY DEF Distinct, Earlier
  <2>2. Lined(Content(disk))' /\ Earlier(Content(disk))'
    BY <1>1 DEF IdsTrue, Lined, Earlier, Content
  <2>3. Distinct(live)' /\ Earlier(live)'
    BY <1>1 DEF Distinct, Earlier
  <2>4. ASSUME NEW u \in Tasks
        PROVE  /\ Distinct(job[u].msgs)' /\ Earlier(job[u].msgs)'
               /\ Distinct(job[u].orig)' /\ Earlier(job[u].orig)'
    <3>1. CASE u = Main
      BY <1>1, <2>1, <3>1 DEF Distinct, Earlier
    <3>2. CASE u # Main
      BY <1>1, <3>2 DEF IdsTrue, Distinct, Earlier
    <3> QED
      BY <3>1, <3>2
  <2> QED
    BY <2>2, <2>3, <2>4 DEF IdsTrue
<1>6. RecordsTrue'
  <2>1. ASSUME NEW u \in Tasks, Saves(u)'
        PROVE  Names(job[u].auth, job[u].msgs)'
    <3>1. CASE u = Main
      BY <1>1, <1>4, <2>1, <3>1 DEF Names
    <3>2. CASE u # Main
      BY <1>1, <1>2, <2>1, <3>2 DEF RecordsTrue, Names
    <3> QED
      BY <3>1, <3>2
  <2> QED
    BY <2>1 DEF RecordsTrue
<1>7. OrderTrue'
  <2>1. Len(m) \in Nat
    BY LenProperties
  <2>2. ASSUME NEW u \in Tasks, Counts(u)'
        PROVE  u = Main /\ job'[u].msgs = live' /\ Follows(job[u].msgs)'
    <3>1. u = Main /\ job'[u].msgs = live'
      BY <1>1, <1>2, <1>4, <2>2
    <3>2. Follows(live)'
      BY <1>1, <2>1 DEF Follows
    <3> QED
      BY <3>1, <3>2 DEF Follows
  <2>3. ASSUME NEW u \in Tasks, NEW v \in Tasks
        PROVE  Ordered(u, v)'
    <3> SUFFICES ASSUME Saves(u)', Counts(v)'
                 PROVE  /\ Ids(job[u].msgs)' \cap Ids(live)' \subseteq Ids(job[v].msgs)'
                        /\ job'[u].gen = gen' => Older(job[u].msgs, job[v].msgs)'
      BY DEF Ordered
    <3>1. v = Main /\ job'[v].msgs = live'
      BY <2>2
    <3>2. ASSUME job'[u].gen = gen'
          PROVE  Older(job[u].msgs, job[v].msgs)'
      <4>1. u = Main
        BY <1>2, <3>2
      <4>2. job'[u].msgs = m /\ job'[v].msgs = m
        BY <1>1, <3>1, <4>1
      <4> QED
        BY <2>1, <4>2 DEF Older
    <3> QED
      BY <3>1, <3>2
  <2>4. \A n \in DOMAIN queue' : queue'[n] \in Tasks
    BY LenProperties, ElementOfSeq
  <2> QED
    BY <2>2, <2>3, <2>4 DEF OrderTrue, Ordered, Saves, Counts
<1>8. CursorsTrue'
  <2>1. Exact(cursor)' /\ CursorTrue'
    BY <1>1 DEF Exact, CursorTrue
  <2>2. \A u \in Tasks : Works(u)' => u # Main /\ job'[u].gen # gen'
    BY <1>2, <1>3
  <2>3. \A u \in Tasks : job'[u].pc \in {"write", "rewrite"} => u # Main
    BY <1>1, <1>3
  <2> QED
    BY <1>1, <2>1, <2>2, <2>3 DEF CursorsTrue
<1>9. WrittenTrue'
  <2>1. \A u \in Tasks : job'[u].pc \in {"meta", "done"} =>
            u # Main /\ job'[u] = job[u] /\ job'[u].gen # gen'
    BY <1>1, <1>2, <1>3 DEF Works
  <2>2. Content(disk') = Content(disk)
    BY <1>1 DEF Content
  <2> QED
    BY <2>1, <2>2 DEF WrittenTrue
<1>10. AckedTrue'
  <2>1. acked' \subseteq acked /\ acked' \subseteq Ids(live')
    BY <1>1
  <2>2. Durable'
    BY <1>1, <2>1 DEF AckedTrue, Durable, Content
  <2>3. ASSUME NEW u \in Tasks, Saves(u)', Works(u)' \/ job'[u].gen = gen'
        PROVE  acked' \subseteq Ids(job'[u].msgs)
    <3>1. CASE u = Main
      BY <1>1, <1>4, <2>1, <2>3, <3>1
    <3>2. CASE u # Main
      BY <1>1, <1>2, <2>1, <2>3, <3>2 DEF AckedTrue
    <3> QED
      BY <3>1, <3>2
  <2>4. job'[Main].op = "rewind" => Ids(live') \subseteq Ids(job'[Main].orig)
    BY <1>1
  <2> QED
    BY <2>1, <2>2, <2>3, <2>4 DEF AckedTrue
<1> QED
  BY <1>5, <1>6, <1>7, <1>8, <1>9, <1>10

\* The hydrated list has the identities of the list.
LEMMA HydratedSpeaks ==
    ASSUME LogInv, CopyInv
    PROVE  /\ \A i \in 1..Len(live) : Hydrated[i].id = live[i].id
           /\ Distinct(Hydrated) /\ Earlier(Hydrated) /\ Ids(Hydrated) = Ids(live)
<1>1. /\ DOMAIN live = 1..Len(live) /\ Distinct(live)
      /\ \A i \in 1..Len(live) : live[i] \in Messages /\ live[i].id < fresh
  BY ListIs
<1>2. \A e \in Messages : [e EXCEPT !.trim = FALSE].id = e.id
  BY DEF Messages
<1>3. DOMAIN Hydrated = DOMAIN live /\ \A i \in 1..Len(live) : Hydrated[i].id = live[i].id
  BY <1>1, <1>2 DEF Hydrated
<1> QED
  BY <1>1, <1>3 DEF Distinct, Earlier, Ids

\* What was reported durable and is rewound is not promised any more.
LEMMA RewindCopies ==
    ASSUME LogInv, CopyInv, NEW n \in DOMAIN live, Rewind(n)
    PROVE  CopyInv'
<1> DEFINE m == Before(Hydrated, n - 1)
           x == [Idle EXCEPT !.op = "rewind", !.pc = "queued", !.gen = gen',
                             !.msgs = live', !.empty = TRUE, !.orig = Hydrated]
<1>1. /\ Hydrated \in Seq(Messages) /\ Len(Hydrated) = Len(live)
      /\ Distinct(Hydrated) /\ Earlier(Hydrated)
      /\ DOMAIN live = 1..Len(live) /\ Len(live) \in Nat
  BY HydratedIs, HydratedSpeaks, ListIs
<1>2. /\ n - 1 \in 0..Len(Hydrated)
  BY <1>1
<1>3. /\ m \in Seq(Messages) /\ Len(m) = n - 1 /\ \A i \in 1..(n - 1) : m[i] = Hydrated[i]
  BY <1>1, <1>2, BeforeItems
<1>4. /\ ResetList(m) /\ job' = [job EXCEPT ![Main] = x] /\ queue' = Append(queue, Main)
      /\ acked' = acked \cap Ids(live') /\ Quiet /\ UNCHANGED <<files, swapped>>
  BY DEF Rewind
<1> HIDE DEF m
<1>5. DOMAIN m = 1..(n - 1) /\ \A i \in 1..(n - 1) : i \in DOMAIN Hydrated
  BY <1>1, <1>2, <1>3, LenProperties
<1>6. Distinct(m) /\ Earlier(m) /\ Ids(m) \subseteq Ids(Hydrated)
  BY <1>1, <1>3, <1>5 DEF Distinct, Earlier, Ids
<1>7. live' = m /\ gen' \in Nat /\ ~Down /\ Main \in Tasks /\ queue \in Seq(Tasks)
  <2>1. gen \in Nat /\ Main \in Tasks /\ queue \in Seq(Tasks)
    BY DEF LogInv, Typed, Tasks
  <2> QED
    BY <1>4, <2>1 DEF ResetList, Invalidate, Quiet, Down, At
<1>8. /\ x \in Jobs /\ x.op = "rewind" /\ x.pc = "queued" /\ x.gen = gen' /\ x.msgs = m
      /\ x.auth = None /\ x.orig = Hydrated
  BY <1>1, <1>3, <1>7 DEF Jobs, Idle, Phases
<1> HIDE DEF x
<1>9. queue' \in Seq(Tasks)
  BY <1>4, <1>7, AppendProperties
<1> QED
  BY <1>1, <1>3, <1>4, <1>6, <1>7, <1>8, <1>9, TakenCopies

\* A rewind that failed or was cancelled takes back the list that was: what is
\* durable is in it.
LEMMA TakesBack ==
    ASSUME LogInv, CopyInv, RewindFailed \/ RewindCancelled
    PROVE  CopyInv'
<1> DEFINE m == job[Main].orig
<1>1. job[Main].op = "rewind" /\ Main \in Tasks
  BY DEF RewindFailed, RewindCancelled, Tasks
<1>2. m \in Seq(Messages) /\ ~Down /\ Idle \in Jobs
  BY <1>1, KeptAside
<1>3. /\ ResetList(m) /\ job' = [job EXCEPT ![Main] = Idle]
      /\ Leave(Main) \/ (Holds(Main) /\ queue' = Tail(queue))
      /\ acked' = acked /\ UNCHANGED <<files, swapped>>
  BY DEF RewindFailed, RewindCancelled, Release
<1>4. queue' \in Seq(Tasks)
  BY <1>3, LeaveQueue DEF LogInv, Typed, QueueTrue
<1>5. Distinct(m) /\ Earlier(m) /\ acked \subseteq Ids(m)
  BY <1>1, <1>2 DEF CopyInv, IdsTrue, AckedTrue
<1>6. Idle.op = "idle" /\ Idle.pc = "idle" /\ Idle.msgs = <<>> /\ Idle.orig = <<>>
  BY DEF Idle
<1> HIDE DEF m
<1> QED
  BY <1>2, <1>3, <1>4, <1>5, <1>6, TakenCopies

-----------------------------------------------------------------------------
(* Cursors, and what the copies say *)

\* What a worker has written that is done has the messages of its snapshot, and
\* the size of which the cursor will speak.
LEMMA DoneIs ==
    ASSUME LogInv, CopyInv, NEW t \in Tasks, At(t, "done"), Saves(t)
    PROVE  /\ Content(disk) \in Seq(Lines) /\ Len(Content(disk)) = Len(job[t].msgs)
           /\ DOMAIN Content(disk) = 1..Len(job[t].msgs)
           /\ \A i \in 1..Len(job[t].msgs) : Content(disk)[i].id = job[t].msgs[i].id
           /\ Ids(Content(disk)) = Ids(job[t].msgs)
           /\ acked \subseteq Ids(job[t].msgs)
           /\ job[t].gen = gen =>
                /\ Size(Content(disk)) = <<Len(job[t].msgs), 0>>
                /\ Faithful(Content(disk))
<1> DEFINE f == Content(disk)
           s == job[t].msgs
<1>1. disk \in Seq(Lines) \cup {None} /\ s \in Seq(Messages) /\ live \in Seq(Messages)
  BY DEF LogInv, Typed, Jobs
<1>2. f \in Seq(Lines)
  BY <1>1, ContentIs, EmptySeq DEF Content
<1>3. Len(f) = Len(s)
  BY DEF LogInv, Lengths, At
<1>4. /\ \A i \in DOMAIN f : f[i].id = s[i].id
      /\ job[t].gen = gen => Faithful(f)
  BY DEF CopyInv, WrittenTrue, At
<1>5. acked \subseteq Ids(s)
  BY DEF CopyInv, AckedTrue, Works, At
<1> HIDE DEF f, s
<1>6. DOMAIN f = 1..Len(f) /\ DOMAIN s = 1..Len(s) /\ Len(f) \in Nat
  BY <1>1, <1>2, MessageIds, LenProperties
<1>7. Ids(f) = Ids(s)
  BY <1>3, <1>4, <1>6 DEF Ids
<1>8. ASSUME job[t].gen = gen
      PROVE  Size(f) = <<Len(s), 0>>
  <2>1. ASSUME NEW i \in DOMAIN f
        PROVE  f[i] # Torn
    <3>1. Len(f) <= Len(live) /\ Persists(f[i], live[i])
      BY <1>4, <1>8, <2>1 DEF Faithful
    <3>2. i \in 1..Len(live) /\ Len(live) \in Nat
      BY <1>1, <1>6, <2>1, <3>1, LenProperties
    <3>3. live[i] \in Messages
      BY <1>1, <3>2, ElementOfSeq
    <3>4. f[i].kind # "torn"
      BY <3>1, <3>3 DEF Persists, Messages, Shapes
    <3> QED
      BY <3>4 DEF Torn
  <2> QED
    BY <1>2, <1>3, <2>1, SizeExact
<1> QED
  BY <1>2, <1>3, <1>4, <1>5, <1>6, <1>7, <1>8 DEF f, s

\* The worker's proof is installed, or came too late: the file is what the cursor
\* says, and what the snapshot had is durable.
LEMMA InstallCopies ==
    ASSUME LogInv, CopyInv, NEW t \in Tasks, Holds(t), At(t, "done"), Saves(t),
           InstallCursor(t), NEW x \in Jobs, job' = [job EXCEPT ![t] = x],
           \/ /\ x.op = "idle" /\ x.pc = "idle" /\ x.msgs = <<>> /\ x.orig = <<>>
              /\ queue' = Tail(queue)
           \/ /\ x.op = "seal" /\ job[t].op = "seal" /\ x.pc = "verify"
              /\ x.gen = job[t].gen /\ x.msgs = job[t].msgs /\ x.auth = job[t].auth
              /\ x.plan = job[t].plan /\ x.orig = job[t].orig /\ UNCHANGED queue,
           acked \subseteq acked',
           acked' \subseteq acked \cup (Ids(job[t].msgs) \cap Ids(live)),
           UNCHANGED <<list, disk, kept, gen, swapped>>
    PROVE  CopyInv'
<1> USE DEF CopyInv
<1> DEFINE s == job[t].msgs
<1>1. /\ job'[t] = x /\ \A u \in Tasks : u # t => job'[u] = job[u]
      /\ Main \in Tasks /\ UNCHANGED <<live, owned, stamped, fresh, gen, disk, kept, swapped>>
      /\ queue \in Seq(Tasks) /\ disk \in Seq(Lines) \cup {None}
  BY DEF LogInv, Typed, Tasks, list
<1>2. \A u \in Tasks : u # t =>
         /\ Saves(u)' <=> Saves(u)
         /\ Counts(u)' <=> Counts(u)
         /\ ~Works(u)' /\ job'[u].pc \notin {"write", "rewrite", "meta", "done"}
         /\ Saves(u) => Among(u) \/ job[u].msgs = live
  <2>1. ASSUME NEW u \in Tasks, u # t
        PROVE  /\ Saves(u)' <=> Saves(u)
               /\ Counts(u)' <=> Counts(u)
               /\ Works(u)' <=> Works(u)
    BY <1>1, <2>1 DEF Saves, Works, Counts
  <2> QED
    BY <1>1, <2>1, OthersWait DEF Works, At
<1>3. /\ Content(disk) \in Seq(Lines) /\ Len(Content(disk)) = Len(s)
      /\ DOMAIN Content(disk) = 1..Len(s)
      /\ \A i \in 1..Len(s) : Content(disk)[i].id = s[i].id
      /\ Ids(Content(disk)) = Ids(s) /\ acked \subseteq Ids(s)
      /\ job[t].gen = gen =>
           /\ Size(Content(disk)) = <<Len(s), 0>>
           /\ Faithful(Content(disk))
  BY DoneIs
<1>4. IdsTrue' /\ RecordsTrue'
  BY JobCopies DEF At
<1>5. /\ x.op = "idle" => ~Saves(t)' /\ ~Counts(t)' /\ ~Works(t)'
      /\ x.op = "seal" => /\ job[t].op = "seal" /\ t = Main /\ s = live
                          /\ job'[t].msgs = s /\ job'[t].gen = job[t].gen
      /\ x.op \in {"idle", "seal"} /\ x.pc \notin {"write", "rewrite", "meta", "done"}
  <2>1. x.op = "idle" => ~Saves(t)' /\ ~Counts(t)' /\ ~Works(t)'
    BY <1>1 DEF Saves, Counts, Works
  <2>2. x.op = "seal" => t = Main /\ s = live
    BY DEF LogInv, StepsTrue, SealTrue, Tasks
  <2> QED
    BY <1>1, <2>1, <2>2
<1>6. \/ job[t].gen # gen /\ cursor' = cursor
      \/ job[t].gen = gen /\ Counts(t) /\ cursor' = CursorFor(t)
  BY DEF InstallCursor, Counts
<1>7. ~Down'
  <2>1. ~Down
    <3>1. CASE t = Main
      BY <3>1 DEF Down, At
    <3>2. CASE t # Main
      BY <1>1, <3>2, OthersWait
    <3> QED
      BY <3>1, <3>2
  <2> QED
    BY <1>1, <2>1 DEF Down, At
<1>8. OrderTrue'
  <2>1. ASSUME NEW u \in Tasks, Counts(u)'
        PROVE  Follows(job[u].msgs)'
    <3>1. Counts(u) /\ job'[u].msgs = job[u].msgs
      BY <1>1, <1>2, <1>5, <2>1 DEF Counts
    <3> QED
      BY <1>1, <3>1 DEF OrderTrue, Follows
  <2>2. ASSUME NEW u \in Tasks, NEW v \in Tasks, Ordered(u, v)
        PROVE  Ordered(u, v)'
    <3>1. \A w \in Tasks : /\ Saves(w)' => Saves(w) /\ job'[w].msgs = job[w].msgs
                                           /\ job'[w].gen = job[w].gen
                           /\ Counts(w)' => Counts(w)
      BY <1>1, <1>2, <1>5 DEF Counts
    <3>2. Saves(u)' /\ Counts(v)' => Saves(v)'
      BY DEF Counts
    <3> QED
      BY SMTT(30), <1>1, <2>2, <3>1, <3>2 DEF Ordered, Older
  <2>3. ASSUME NEW m \in DOMAIN queue', NEW n \in DOMAIN queue', m < n
        PROVE  Ordered(queue[m], queue[n])'
    <3>1. PICK k, l \in DOMAIN queue : k < l /\ queue[k] = queue'[m] /\ queue[l] = queue'[n]
      <4>1. CASE queue' = Tail(queue)
        BY <1>1, <2>3, <4>1, OrderLeft
      <4>2. CASE queue' = queue
        BY <2>3, <4>2
      <4> QED
        BY <4>1, <4>2
    <3>2. queue[k] \in Tasks /\ queue[l] \in Tasks /\ Ordered(queue[k], queue[l])
      BY <1>1, <3>1, ElementOfSeq, LenProperties DEF OrderTrue
    <3>3. \A u, v \in Tasks : u = queue'[m] /\ v = queue'[n] => Ordered(u, v)'
      BY <2>2, <3>1, <3>2
    <3> QED
      BY <3>1, <3>2, <3>3 DEF Ordered, Saves, Counts
  <2> QED
    BY <2>1, <2>3 DEF OrderTrue
<1>9. CursorsTrue'
  <2>1. CASE job[t].gen # gen
    <3>1. cursor' = cursor
      BY <1>6, <2>1
    <3>2. Exact(cursor)' /\ CursorTrue'
      BY <1>1, <3>1 DEF CursorsTrue, Exact, CursorTrue, Persists
    <3>3. cursor = None
      BY <2>1 DEF CursorsTrue, Works, At
    <3>4. \A u \in Tasks : /\ Works(u)' => u = t
                           /\ job'[u].pc \notin {"write", "rewrite"}
      BY <1>1, <1>2, <1>5
    <3>5. job'[t].gen = gen' => ~Works(t)'
      BY <1>1, <1>5, <2>1
    <3> QED
      BY <1>7, <3>1, <3>2, <3>3, <3>4, <3>5 DEF CursorsTrue
  <2>2. CASE job[t].gen = gen
    <3>1. cursor' = CursorFor(t) /\ Counts(t)
      BY <1>6, <2>2
    <3>2. cursor'.count = Len(s) /\ cursor'.size = <<Len(s), 0>>
      BY <1>3, <2>2, <3>1 DEF CursorFor
    <3>3. Exact(cursor')
      BY <3>2 DEF Exact
    <3>4. cursor' # None /\ Size(disk') = cursor'.size => Faithful(disk)'
      <4> SUFFICES ASSUME Size(disk) = <<Len(s), 0>>
                   PROVE  Faithful(disk)'
        BY <1>1, <3>2
      <4>1. disk # None
        BY NoSize
      <4>2. Content(disk) = disk
        BY <1>1, <4>1, ContentIs
      <4>3. Faithful(disk)
        BY <1>3, <2>2, <4>2
      <4> QED
        BY <1>1, <4>3 DEF Faithful, Persists
    <3>5. CursorTrue'
      BY <1>1, <3>3, <3>4, CursorWill
    <3>6. Exact(cursor)'
      BY <3>3 DEF Exact
    <3>7. \A u \in Tasks : /\ Works(u)' => u = t
                           /\ job'[u].pc \notin {"write", "rewrite"}
      BY <1>1, <1>2, <1>5
    <3>8. Works(t)' => job'[t].gen = gen' /\ job'[t].pc = "verify"
      BY <1>1, <1>5, <2>2
    <3> QED
      BY <1>7, <3>5, <3>6, <3>7, <3>8 DEF CursorsTrue
  <2> QED
    BY <2>1, <2>2
<1>10. WrittenTrue'
  <2>1. \A u \in Tasks : job'[u].pc \notin {"meta", "done"}
    BY <1>1, <1>2, <1>5
  <2> QED
    BY <2>1 DEF WrittenTrue
<1>11. AckedTrue'
  <2>1. acked' \subseteq Ids(s) /\ acked' \subseteq Ids(live')
    BY <1>1, <1>3, <1>7 DEF AckedTrue, Down, At
  <2>2. Durable'
    BY <1>1, <1>3, <2>1 DEF Durable, Content
  <2>3. ASSUME NEW u \in Tasks, Saves(u)', Works(u)' \/ job'[u].gen = gen'
        PROVE  acked' \subseteq Ids(job'[u].msgs)
    <3>1. CASE u = t
      BY <1>1, <1>5, <2>1, <2>3, <3>1
    <3>2. CASE u # t
      <4>1. Counts(u) /\ Saves(u) /\ job'[u].msgs = job[u].msgs /\ job[u].gen = gen
        BY <1>1, <1>2, <2>3, <3>2 DEF Counts
      <4>2. CASE job[u].msgs = live
        BY <1>1, <2>1, <4>1, <4>2
      <4>3. CASE Among(u)
        <5>1. Ids(s) \cap Ids(live) \subseteq Ids(job[u].msgs)
          BY <3>2, <4>1, <4>3, HeadOrdered DEF Ordered
        <5> QED
          BY <1>1, <2>1, <4>1, <5>1
      <4> QED
        BY <1>2, <3>2, <4>1, <4>2, <4>3
    <3> QED
      BY <3>1, <3>2
  <2>4. job'[Main].op = "rewind" => Ids(live') \subseteq Ids(job'[Main].orig)
    BY <1>1, <1>5 DEF AckedTrue
  <2> QED
    BY <2>1, <2>2, <2>3, <2>4 DEF AckedTrue
<1> QED
  BY <1>4, <1>8, <1>9, <1>10, <1>11

\* A save is done.
LEMMA DoneCopies ==
    ASSUME LogInv, CopyInv, NEW t \in Tasks, SaveDone(t)
    PROVE  CopyInv'
<1>1. /\ Holds(t) /\ At(t, "done") /\ Saves(t) /\ InstallCursor(t)
      /\ acked' = acked \cup (Ids(job[t].msgs) \cap Ids(live))
      /\ queue' = Tail(queue) /\ job' = [job EXCEPT ![t] = Idle]
      /\ UNCHANGED <<list, disk, kept, gen, swapped>>
  BY DEF SaveDone, Saves, Release, files
<1>2. /\ Idle \in Jobs /\ Idle.op = "idle" /\ Idle.pc = "idle" /\ Idle.msgs = <<>>
      /\ Idle.orig = <<>>
  BY EmptySeq DEF Idle, Jobs, Phases
<1> QED
  BY <1>1, <1>2, InstallCopies

\* So is the one that seals.
LEMMA PersistCopies ==
    ASSUME LogInv, CopyInv, SealPersisted
    PROVE  CopyInv'
<1>1. /\ Holds(Main) /\ At(Main, "done") /\ Saves(Main) /\ InstallCursor(Main)
      /\ job[Main].op = "seal" /\ Goto(Main, "verify") /\ Main \in Tasks
      /\ UNCHANGED <<list, disk, kept, gen, queue, acked, swapped>>
  BY DEF SealPersisted, Saves, files, Tasks
<1> DEFINE x == [job[Main] EXCEPT !.pc = "verify"]
<1>2. job[Main] \in Jobs /\ job' = [job EXCEPT ![Main] = x]
  BY <1>1 DEF LogInv, Typed, Goto
<1>3. /\ x \in Jobs
      /\ x.op = job[Main].op /\ x.gen = job[Main].gen /\ x.msgs = job[Main].msgs
      /\ x.auth = job[Main].auth /\ x.plan = job[Main].plan /\ x.orig = job[Main].orig
      /\ x.pc = "verify"
  BY <1>2 DEF Jobs, Phases
<1> HIDE DEF x
<1> QED
  BY <1>1, <1>2, <1>3, InstallCopies

-----------------------------------------------------------------------------
(* Trims, deaths and restarts, and what the copies say *)

\* The list is trimmed: every message is where it was, and its original is what the
\* descriptor has.
LEMMA PublishCopies ==
    ASSUME LogInv, CopyInv, Publish
    PROVE  CopyInv'
<1> USE DEF CopyInv
<1> DEFINE p == job[Main].plan
<1>1. /\ Holds(Main) /\ job[Main].op = "seal" /\ job[Main].pc = "verify"
      /\ gen' = gen + 1 /\ cursor' = None
      /\ live' = [i \in DOMAIN live |->
                    IF i <= p.count THEN [live[i] EXCEPT !.trim = TRUE] ELSE live[i]]
      /\ owned' = p /\ job' = [job EXCEPT ![Main] = Idle] /\ queue' = Tail(queue)
      /\ UNCHANGED <<stamped, fresh, disk, kept, acked, swapped>>
  BY DEF Publish, At, Invalidate, Release, files
<1>2. p \in Seals /\ Covers(p, live) /\ p # None
  BY <1>1, LogAssumption DEF LogInv, SealTrue
<1> HIDE DEF p
<1>3. /\ live \in Seq(Messages) /\ DOMAIN live = 1..Len(live) /\ Len(live) \in Nat
      /\ Distinct(live)
      /\ \A i \in 1..Len(live) : live[i] \in Messages /\ live[i].id < fresh
  BY ListIs
<1>4. p.count \in Nat /\ \A i \in 1..p.count : i \in 1..Len(live)
  BY <1>2, <1>3 DEF Covers, Seals
<1>5. \A e \in Messages : /\ [e EXCEPT !.trim = TRUE] \in Messages
                          /\ [e EXCEPT !.trim = TRUE].trim
                          /\ [e EXCEPT !.trim = TRUE].id = e.id
                          /\ [e EXCEPT !.trim = TRUE].kind = e.kind
  BY DEF Messages
<1>6. /\ DOMAIN live' = 1..Len(live)
      /\ \A i \in 1..Len(live) : /\ live'[i].id = live[i].id
                                 /\ live'[i].kind = live[i].kind
                                 /\ live'[i] \in Messages
      /\ \A i \in 1..p.count : live'[i].trim
  BY <1>1, <1>3, <1>4, <1>5
<1>7. /\ Main \in Tasks /\ Idle.op = "idle" /\ Idle.pc = "idle" /\ Idle.msgs = <<>>
      /\ Idle.orig = <<>> /\ job'[Main] = Idle
      /\ \A u \in Tasks : u # Main => job'[u] = job[u]
  BY <1>1 DEF LogInv, Typed, Tasks, Idle
<1>8. \A u \in Tasks : /\ Saves(u)' => u # Main /\ Saves(u) /\ job'[u].gen # gen'
                       /\ ~Works(u)' /\ ~Counts(u)'
                       /\ job'[u].pc \notin {"write", "rewrite", "meta", "done"}
  <2>1. ASSUME NEW u \in Tasks, u # Main
        PROVE  ~Works(u)' /\ (Saves(u)' => Saves(u) /\ job'[u].gen # gen')
    <3>1. ~Works(u)
      BY <1>1, <2>1 DEF LogInv, QueueTrue, Holds
    <3>2. Saves(u) => job[u].gen \in Nat /\ job[u].gen <= gen /\ gen \in Nat
      BY QuietIs
    <3>3. (Saves(u)' <=> Saves(u)) /\ (Works(u)' <=> Works(u))
      BY <1>7, <2>1 DEF Saves, Works
    <3> QED
      BY <1>1, <1>7, <2>1, <3>1, <3>2, <3>3
  <2>2. ~Saves(Main)' /\ ~Works(Main)'
    BY <1>7 DEF Saves, Works
  <2>3. \A u \in Tasks : ~Works(u)' => job'[u].pc \notin {"write", "rewrite", "meta", "done"}
    BY DEF Works
  <2> QED
    BY <2>1, <2>2, <2>3 DEF Counts
<1>9. IdsTrue'
  <2>1. Distinct(<<>>) /\ Earlier(<<>>)
    BY DEF Distinct, Earlier
  <2>2. Lined(Content(disk))' /\ Earlier(Content(disk))'
    BY <1>1 DEF IdsTrue, Lined, Earlier, Content
  <2>3. Distinct(live)' /\ Earlier(live)'
    BY <1>1, <1>3, <1>6 DEF Distinct, Earlier
  <2>4. ASSUME NEW u \in Tasks
        PROVE  /\ Distinct(job[u].msgs)' /\ Earlier(job[u].msgs)'
               /\ Distinct(job[u].orig)' /\ Earlier(job[u].orig)'
    <3>1. CASE u = Main
      BY <1>1, <1>7, <2>1, <3>1 DEF Distinct, Earlier
    <3>2. CASE u # Main
      BY <1>1, <1>7, <3>2 DEF IdsTrue, Distinct, Earlier
    <3> QED
      BY <3>1, <3>2
  <2> QED
    BY <2>2, <2>3, <2>4 DEF IdsTrue
<1>10. RecordsTrue'
  BY <1>7, <1>8 DEF RecordsTrue, Names
<1>11. OrderTrue'
  <2>1. queue' \in Seq(Tasks)
    BY <1>1, LeaveQueue DEF LogInv, Typed, QueueTrue
  <2>2. \A n \in DOMAIN queue' : queue'[n] \in Tasks
    BY <2>1, LenProperties, ElementOfSeq
  <2>3. \A u, v \in Tasks : Ordered(u, v)'
    BY <1>8 DEF Ordered
  <2> QED
    BY <1>8, <2>2, <2>3 DEF OrderTrue, Ordered, Saves, Counts
<1>12. CursorsTrue'
  BY <1>1, <1>8 DEF CursorsTrue, Exact, CursorTrue
<1>13. WrittenTrue'
  BY <1>8 DEF WrittenTrue
<1>14. AckedTrue'
  <2>1. Ids(live') = Ids(live)
    BY <1>3, <1>6 DEF Ids
  <2>2. ~Down
    BY <1>1 DEF Down, At
  <2>3. Durable' /\ acked' \subseteq Ids(live')
    BY <1>1, <2>1, <2>2 DEF AckedTrue, Durable, Content
  <2> QED
    BY <1>7, <1>8, <2>3 DEF AckedTrue
<1> QED
  BY <1>9, <1>10, <1>11, <1>12, <1>13, <1>14

\* The process dies: what is durable is in the files, whatever was being appended.
LEMMA CrashCopies ==
    ASSUME LogInv, CopyInv, Crash
    PROVE  CopyInv'
<1> USE DEF CopyInv
<1>1. /\ live' = <<>> /\ owned' = None /\ cursor' = None /\ queue' = <<>>
      /\ UNCHANGED <<fresh, kept, acked>> /\ ~Down
      /\ job' = [t \in Tasks |-> IF t = Main THEN [Idle EXCEPT !.pc = "down"] ELSE Idle]
  BY DEF Crash
<1>2. DOMAIN <<>> = {} /\ Distinct(<<>>) /\ Earlier(<<>>)
  BY DEF Distinct, Earlier
<1>3. /\ Main \in Tasks /\ job'[Main].pc = "down"
      /\ \A t \in Tasks : /\ job'[t].op = "idle" /\ job'[t].pc \in {"down", "idle"}
                          /\ job'[t].msgs = <<>> /\ job'[t].orig = <<>>
  BY <1>1 DEF Tasks, Idle
<1>4. \A t \in Tasks : ~Saves(t)' /\ ~Works(t)' /\ ~Counts(t)'
  BY <1>3 DEF Saves, Works, Counts
<1>5. /\ Lined(Content(disk')) /\ Earlier(Content(disk'))
      /\ \/ acked \subseteq Ids(Content(disk'))
         \/ disk' = None /\ \E f \in kept' : acked \subseteq Ids(f)
  <2>1. CASE UNCHANGED disk
    BY <1>1, <2>1 DEF IdsTrue, AckedTrue, Durable
  <2>2. CASE \E t \in Tasks : Writing(t) /\ Appends(t) /\ disk' \in AppendLeaves(t)
    <3>1. PICK t \in Tasks : Writing(t) /\ Appends(t) /\ disk' \in AppendLeaves(t)
      BY <2>2
    <3>2. Works(t) /\ Saves(t) /\ job[t].pc \in {"write", "rewrite"}
      BY <3>1, WriterIs DEF Writing
    <3> DEFINE w == disk \o Tail_(t)
               f == disk'
    <3>3. w = disk \o Tail_(t) /\ f \in AppendLeaves(t) /\ f = disk'
      BY <3>1
    <3> HIDE DEF w, f
    <3>4. /\ f \in Seq(Lines) /\ Lined(f) /\ Earlier(f) /\ Ids(disk) \subseteq Ids(f)
      BY <3>1, <3>2, <3>3, LeavesSpeak
    <3>5. disk \in Seq(Lines)
      BY <3>1, <3>2, <3>3, AppendSpeaks
    <3>6. Content(f) = f /\ Content(disk) = disk /\ disk # None
      BY <3>4, <3>5, ContentIs
    <3>7. acked \subseteq Ids(disk)
      BY <3>6 DEF AckedTrue, Durable
    <3> QED
      BY <3>3, <3>4, <3>6, <3>7
  <2> QED
    BY <2>1, <2>2 DEF Crash
<1>6. IdsTrue'
  <2>1. Lined(Content(disk))' /\ Earlier(Content(disk))'
    BY <1>1, <1>5 DEF Lined, Earlier, Content
  <2> QED
    BY <1>1, <1>2, <1>3, <2>1 DEF IdsTrue, Distinct, Earlier
<1>7. RecordsTrue' /\ OrderTrue'
  BY <1>1, <1>2, <1>4 DEF RecordsTrue, OrderTrue
<1>8. CursorsTrue'
  BY <1>1, <1>3, <1>4 DEF CursorsTrue, Exact, CursorTrue
<1>9. WrittenTrue'
  BY <1>3 DEF WrittenTrue
<1>10. AckedTrue'
  <2>1. Durable' /\ Down'
    BY <1>1, <1>3, <1>5 DEF Durable, Down, At, Content
  <2> QED
    BY <1>3, <1>4, <2>1 DEF AckedTrue
<1> QED
  BY <1>6, <1>7, <1>8, <1>9, <1>10

\* The list that is loaded has all that the transcript has.
LEMMA RestartCopies ==
    ASSUME LogInv, CopyInv, Restart
    PROVE  CopyInv'
<1> USE DEF CopyInv
<1> DEFINE r == Recovered(disk)
<1>1. /\ Down /\ Goto(Main, "idle") /\ disk # None /\ Torn \notin ToSet(r)
      /\ live' = [i \in DOMAIN r |-> Entry(disk[i].id, disk[i].kind)]
      /\ UNCHANGED <<owned, fresh, disk, kept, cursor, gen, queue, acked, swapped>>
  BY DEF Restart, Loadable, files, log
<1>2. disk \in Seq(Lines) /\ Content(disk) = disk
  BY <1>1, ContentIs DEF LogInv, Typed
<1>3. /\ Len(disk) \in Nat /\ DOMAIN disk = 1..Len(disk)
      /\ Len(r) \in Nat /\ Len(r) <= Len(disk) /\ DOMAIN r = 1..Len(r)
      /\ \A i \in 1..Len(r) : r[i] = disk[i]
      /\ \A i \in 1..Len(disk) : i > Len(r) => disk[i] = Torn
  BY <1>2, RecoveredIs
<1> HIDE DEF r
<1>4. ASSUME NEW i \in 1..Len(r)
      PROVE  i \in DOMAIN disk /\ disk[i].kind # "torn" /\ disk[i].id < fresh
  <2>1. i \in 1..Len(disk) /\ disk[i] = r[i]
    BY <1>3
  <2>2. r[i] \in ToSet(r)
    BY <1>3 DEF ToSet
  <2>3. disk[i] \in Lines /\ disk[i] # Torn
    BY <1>1, <1>2, <2>1, <2>2, ElementOfSeq
  <2>4. disk[i].kind # "torn"
    BY <2>3 DEF Lines, Shapes
  <2>5. Earlier(disk)
    BY <1>2 DEF IdsTrue
  <2> QED
    BY <1>3, <2>1, <2>4, <2>5 DEF Earlier
<1>5. DOMAIN live' = 1..Len(r) /\ \A i \in 1..Len(r) : live'[i].id = disk[i].id
  BY <1>1, <1>3 DEF Entry
<1>6. /\ Main \in Tasks /\ owned = None /\ cursor = None
      /\ \A t \in Tasks : job[t].op = "idle" /\ job[t].pc \in {"down", "idle"}
  <2>1. owned = None /\ \A t \in Tasks : job[t].pc \in {"down", "idle"}
    BY <1>1 DEF LogInv, StepsTrue, Tasks, At, Down
  <2> QED
    BY <1>1, <2>1 DEF CursorsTrue, LogInv, StepsTrue, Tasks
<1>7. \A t \in Tasks : /\ job'[t].op = "idle" /\ job'[t].pc \in {"down", "idle"}
                       /\ job'[t].msgs = job[t].msgs /\ job'[t].orig = job[t].orig
  <2>1. job' = [job EXCEPT ![Main] = [job[Main] EXCEPT !.pc = "idle"]]
        /\ job \in [Tasks -> Jobs] /\ job[Main] \in Jobs
    BY <1>1, <1>6 DEF Goto, LogInv, Typed
  <2> DEFINE d == [job[Main] EXCEPT !.pc = "idle"]
             j == job[Main]
  <2>2. d.pc = "idle" /\ d.op = j.op /\ d.msgs = j.msgs /\ d.orig = j.orig
    BY <2>1 DEF Jobs
  <2>3. job'[Main] = d /\ \A t \in Tasks : t # Main => job'[t] = job[t]
    BY <1>6, <2>1
  <2> HIDE DEF d
  <2> QED
    BY <1>6, <2>2, <2>3
<1>8. \A t \in Tasks : ~Saves(t)' /\ ~Works(t)' /\ ~Counts(t)'
  BY <1>7 DEF Saves, Works, Counts
<1>9. IdsTrue'
  <2>1. Distinct(live)' /\ Earlier(live)'
    <3>1. Lined(disk)
      BY <1>2 DEF IdsTrue
    <3>2. Distinct(live')
      BY <1>4, <1>5, <3>1 DEF Distinct, Lined
    <3>3. \A i \in DOMAIN live' : live'[i].id < fresh'
      BY <1>1, <1>4, <1>5
    <3> QED
      BY <3>2, <3>3 DEF Distinct, Earlier
  <2>2. Lined(Content(disk))' /\ Earlier(Content(disk))'
    BY <1>1 DEF IdsTrue, Lined, Earlier, Content
  <2>3. ASSUME NEW u \in Tasks
        PROVE  /\ Distinct(job[u].msgs)' /\ Earlier(job[u].msgs)'
               /\ Distinct(job[u].orig)' /\ Earlier(job[u].orig)'
    BY <1>1, <1>7 DEF IdsTrue, Distinct, Earlier
  <2> QED
    BY <2>1, <2>2, <2>3 DEF IdsTrue
<1>10. RecordsTrue'
  BY <1>8 DEF RecordsTrue
<1>11. OrderTrue'
  <2>1. \A n \in DOMAIN queue : queue[n] \in Tasks
    BY LenProperties, ElementOfSeq DEF LogInv, Typed
  <2>2. \A u, v \in Tasks : Ordered(u, v)'
    BY <1>8 DEF Ordered
  <2> QED
    BY <1>1, <1>8, <2>1, <2>2 DEF OrderTrue, Ordered, Saves, Counts
<1>12. CursorsTrue'
  BY <1>1, <1>6, <1>7, <1>8 DEF CursorsTrue, Exact, CursorTrue
<1>13. WrittenTrue'
  BY <1>7 DEF WrittenTrue
<1>14. AckedTrue'
  <2>1. acked \subseteq Ids(disk)
    BY <1>1, <1>2 DEF AckedTrue, Durable
  <2>2. Ids(disk) \subseteq Ids(live')
    <3>1. ASSUME NEW i \in 1..Len(disk), disk[i].id # 0
          PROVE  i \in 1..Len(r)
      <4>1. disk[i] # Torn
        BY <3>1 DEF Torn
      <4> QED
        BY <1>3, <3>1, <4>1
    <3> QED
      BY <1>3, <1>5, <3>1 DEF Ids
  <2>3. Durable'
    BY <1>1 DEF AckedTrue, Durable, Content
  <2> QED
    BY <1>1, <1>6, <1>7, <1>8, <2>1, <2>2, <2>3 DEF AckedTrue
<1> QED
  BY <1>9, <1>10, <1>11, <1>12, <1>13, <1>14

-----------------------------------------------------------------------------
(* The copies, at every step *)

\* It holds in a new session.
LEMMA CopyInit ==
    ASSUME Init
    PROVE  CopyInv
<1>1. /\ live = <<>> /\ owned = None /\ disk = None /\ cursor = None /\ queue = <<>>
      /\ job = [t \in Tasks |-> Idle] /\ acked = {} /\ Content(disk) = <<>>
      /\ DOMAIN <<>> = {} /\ Main \in Tasks
  BY DEF Init, Content, Tasks
<1>2. \A t \in Tasks : /\ job[t].op = "idle" /\ job[t].pc = "idle" /\ job[t].msgs = <<>>
                       /\ job[t].orig = <<>>
  BY <1>1 DEF Idle
<1>3. \A t \in Tasks : ~Saves(t) /\ ~Works(t) /\ ~Counts(t)
  BY <1>2 DEF Saves, Works, Counts
<1>4. IdsTrue
  BY <1>1, <1>2 DEF IdsTrue, Distinct, Lined, Earlier
<1>5. RecordsTrue /\ OrderTrue /\ WrittenTrue
  BY <1>1, <1>2, <1>3 DEF RecordsTrue, OrderTrue, WrittenTrue
<1>6. CursorsTrue /\ AckedTrue
  BY <1>1, <1>2, <1>3 DEF CursorsTrue, Exact, CursorTrue, AckedTrue, Durable, Down, At
<1> QED
  BY <1>4, <1>5, <1>6 DEF CopyInv

\* It holds when nothing happens.
LEMMA CopyStutter ==
    ASSUME LogInv, CopyInv, UNCHANGED vars
    PROVE  CopyInv'
<1> USE DEF CopyInv, vars, list, files, log
<1>1. \A t \in Tasks : /\ Saves(t)' <=> Saves(t)
                       /\ Works(t)' <=> Works(t)
                       /\ Counts(t)' <=> Counts(t)
  BY DEF Saves, Works, Counts
<1>2. IdsTrue'
  BY DEF IdsTrue, Distinct, Lined, Earlier, Content
<1>3. RecordsTrue'
  BY <1>1 DEF RecordsTrue, Names
<1>4. OrderTrue'
  <2>1. \A t \in Tasks : Counts(t)' => Follows(job[t].msgs)'
    BY <1>1 DEF OrderTrue, Follows
  <2>2. \A n \in DOMAIN queue : queue[n] \in Tasks
    BY LenProperties, ElementOfSeq DEF LogInv, Typed
  <2>3. \A u, v \in Tasks : Ordered(u, v) => Ordered(u, v)'
    BY <1>1 DEF Ordered, Older
  <2> QED
    BY <2>1, <2>2, <2>3 DEF OrderTrue, Ordered, Saves, Counts
<1>5. CursorsTrue'
  BY <1>1 DEF CursorsTrue, Exact, CursorTrue, Persists, Down, At
<1>6. WrittenTrue'
  BY DEF WrittenTrue, Faithful, Persists, Content
<1>7. AckedTrue'
  BY <1>1 DEF AckedTrue, Durable, Content, Ids, Down, At
<1> QED
  BY <1>2, <1>3, <1>4, <1>5, <1>6, <1>7

\* Every step keeps it.
LEMMA CopyNext ==
    ASSUME LogInv, CopyInv, [Next]_vars
    PROVE  CopyInv'
<1>1. CASE \E k \in Shapes : AppendMessage(k)
  BY <1>1, MessageCopies
<1>2. CASE \E i \in DOMAIN live : \/ InsertMessage(i) \/ ReplacePlaceholder(i)
                                  \/ StampTiming(i) \/ EditCall(i) \/ Rewind(i)
  <2>1. PICK i \in DOMAIN live : \/ InsertMessage(i) \/ ReplacePlaceholder(i)
                                 \/ StampTiming(i) \/ EditCall(i) \/ Rewind(i)
    BY <1>2
  <2>2. i \in 1..Len(live)
    BY LenProperties DEF LogInv, Typed
  <2> QED
    BY <2>1, <2>2, InsertCopies, SwapCopies, StampCopies, RewindCopies
<1>3. CASE \E t \in Savers : SaveBegin(t) \/ SaveCancelled(t)
  <2>1. \A t \in Savers : t \in Tasks
    BY DEF Tasks
  <2> QED
    BY <1>3, <2>1, BeginsCopies, DropsCopies
<1>4. CASE \E t \in Tasks : LockStep(t)
  BY <1>4, DropsCopies, LockCopies DEF LockStep
<1>5. CASE \E t \in Tasks : WorkerStep(t)
  BY <1>5, AppendCopies, ReplaceCopies, NothingCopies, QuarantineCopies, WorkCopies
     DEF WorkerStep
<1>6. CASE \E t \in Tasks : LoopStep(t)
  BY <1>6, DoneCopies, DropsCopies DEF LoopStep
<1>7. CASE \E t \in Tasks : WriteFails(t) \/ MetadataFails(t)
  BY <1>7, FailsCopies, WorkCopies
<1>8. CASE MainStep
  <2>1. Main \in Tasks
    BY DEF Tasks
  <2> QED
    BY <1>8, <2>1, TakesBack, TrimCopies, PlanCopies, PersistCopies, PublishCopies,
       DropsCopies DEF MainStep
<1>9. CASE RewindCancelled \/ SealCancelled
  <2>1. Main \in Tasks
    BY DEF Tasks
  <2> QED
    BY <1>9, <2>1, TakesBack, DropsCopies
<1>10. CASE PostTurnTrim \/ CompactionTrim
  BY <1>10, TrimCopies
<1>11. CASE Crash \/ Restart
  BY <1>11, CrashCopies, RestartCopies
<1>12. CASE UNCHANGED vars
  BY <1>12, CopyStutter
<1> QED
  BY <1>1, <1>2, <1>3, <1>4, <1>5, <1>6, <1>7, <1>8, <1>9, <1>10, <1>11, <1>12 DEF Next

\* The list, the snapshots that wait, the worker, the cursor and the transcript say
\* the same, as far as each is relied on, at every moment and whatever failed or
\* died before (_save_interaction_sync, invalidate_transcript_cursor).
THEOREM Copies == Spec => []CopyInv
<1>1. Init => LogInv /\ CopyInv
  BY LogInit, CopyInit
<1>2. (LogInv /\ CopyInv) /\ [Next]_vars => (LogInv /\ CopyInv)'
  BY LogNext, CopyNext
<1> QED
  BY <1>1, <1>2, PTL DEF Spec

\* While the cursor stands and the transcript has the size it names, the
\* transcript is the first messages of the list, as they are or, for one edited
\* without a word to the logger since the last verify, as it was before
\* (_save_interaction_sync): so an append that reads nothing adds the messages
\* that are missing, and no others, although messages are inserted, replaced,
\* stamped and edited while a save waits or writes, and writes fail half way.
THEOREM CursorHolds == Spec => []CursorTrue
<1>1. CopyInv => CursorTrue
  BY DEF CopyInv, CursorsTrue
<1> QED
  BY <1>1, Copies, PTL

\* What a completed save reported durable stays in the transcript, or in the one
\* set aside until the next one is written (save_interaction): no older snapshot
\* that is written late, failed write, quarantine, trim, crash or restart takes it
\* away, and a rewind takes away only what is rewound.
THEOREM Lasting == Spec => []Durable
<1>1. CopyInv => Durable
  BY DEF CopyInv, AckedTrue
<1> QED
  BY <1>1, Copies, PTL
=============================================================================
