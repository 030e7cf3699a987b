---------------------------- MODULE SessionLease ----------------------------
(***************************************************************************)
(* The lease on one session (chartreux/core/session/session_lease.py),     *)
(* contended for by several processes.  A lease is an advisory lock (flock)*)
(* on the file <session>.lock, which is created on demand and unlinked on  *)
(* release, so a process may hold an open descriptor of a file that is no  *)
(* longer the one at that path.  A second lock, on the file .registry of   *)
(* the same directory that is never unlinked, guards both operations.      *)
(*                                                                         *)
(* Every system call is a step of its own, and a process may die between   *)
(* any two of them.                                                        *)
(***************************************************************************)
EXTENDS Naturals, FiniteSets

CONSTANTS
    Contenders, \* SessionLease objects for the session, one per process
    Inodes,     \* files that can be at the lock path
    None

ASSUME LeaseAssumption == None \notin Contenders \cup Inodes

VARIABLES
    pc,         \* where each contender is
    fd,         \* the lock file it has open
    locked,     \* inode -> the contender whose descriptor has the flock
    path,       \* the inode at the lock path
    registry    \* the contender that has the lock on .registry

vars == <<pc, fd, locked, path, registry>>

\* A lease is "held" between acquire and release.  The phases within the
\* registry lock are those of acquire, of its rollback and of release.
Guarded == {"opening", "locking", "refused", "writing", "granted", "unlocking",
            "closing", "unlinking", "leaving"}
Phases == {"out", "acquiring", "held", "releasing"} \cup Guarded

Init ==
    /\ pc = [c \in Contenders |-> "out"]
    /\ fd = [c \in Contenders |-> None]
    /\ locked = [i \in Inodes |-> None]
    /\ path = None
    /\ registry = None

Goto(c, from, to) == pc[c] = from /\ pc' = [pc EXCEPT ![c] = to]

-----------------------------------------------------------------------------
(* acquire *)

\* acquire, on a lease that has no file
Acquire(c) ==
    /\ Goto(c, "out", "acquiring")
    /\ UNCHANGED <<fd, locked, path, registry>>

\* _lease_directory_lock: the blocking flock on .registry
EnterRegistry(c) ==
    /\ \/ Goto(c, "acquiring", "opening")
       \/ Goto(c, "releasing", "unlocking")
    /\ registry = None
    /\ registry' = c
    /\ UNCHANGED <<fd, locked, path>>

\* open("a+b"): the file at the path, or a new one
Open(c, i) ==
    /\ Goto(c, "opening", "locking")
    /\ IF path = None THEN \A d \in Contenders : fd[d] # i ELSE i = path
    /\ path' = i
    /\ fd' = [fd EXCEPT ![c] = i]
    /\ UNCHANGED <<locked, registry>>

\* Defect: the lock on the lease file is awaited, with the registry locked.
TryLockBlocking(c) ==
    /\ Goto(c, "locking", "writing")
    /\ locked[fd[c]] = None
    /\ locked' = [locked EXCEPT ![fd[c]] = c]
    /\ UNCHANGED <<fd, path, registry>>

\* flock(LOCK_EX | LOCK_NB)
TryLock(c) ==
    /\ \/ /\ Goto(c, "locking", "writing")
          /\ locked[fd[c]] = None
          /\ locked' = [locked EXCEPT ![fd[c]] = c]
       \/ /\ Goto(c, "locking", "refused")
          /\ locked[fd[c]] # None
          /\ UNCHANGED locked
    /\ UNCHANGED <<fd, path, registry>>

\* Defect: a refused acquire cleans up the lock file too.
RefuseUnlinks(c) ==
    /\ Goto(c, "refused", "unlinking")
    /\ fd' = [fd EXCEPT ![c] = None]
    /\ UNCHANGED <<locked, path, registry>>

\* the descriptor is closed and SessionBusyError raised
Refuse(c) ==
    /\ Goto(c, "refused", "leaving")
    /\ fd' = [fd EXCEPT ![c] = None]
    /\ UNCHANGED <<locked, path, registry>>

\* the diagnostic is written; a failure undoes the lock like a release
Publish(c) ==
    /\ Goto(c, "writing", "granted") \/ Goto(c, "writing", "unlocking")
    /\ UNCHANGED <<fd, locked, path, registry>>

-----------------------------------------------------------------------------
(* release *)

\* Defect: the release does not take the registry lock.
ReleaseUnguarded(c) ==
    /\ Goto(c, "held", "unlocking")
    /\ UNCHANGED <<fd, locked, path, registry>>

\* release
Release(c) ==
    /\ Goto(c, "held", "releasing")
    /\ UNCHANGED <<fd, locked, path, registry>>

\* flock(LOCK_UN)
Unlock(c) ==
    /\ Goto(c, "unlocking", "closing")
    /\ locked' = [locked EXCEPT ![fd[c]] = None]
    /\ UNCHANGED <<fd, path, registry>>

CloseFile(c) ==
    /\ Goto(c, "closing", "unlinking")
    /\ fd' = [fd EXCEPT ![c] = None]
    /\ UNCHANGED <<locked, path, registry>>

\* an unlink that fails leaves the file for the next acquire
Unlink(c) ==
    /\ Goto(c, "unlinking", "leaving")
    /\ path' \in {path, None}
    /\ UNCHANGED <<fd, locked, registry>>

\* the registry lock is given up, with the lease held or not
LeaveRegistry(c) ==
    /\ Goto(c, "leaving", "out") \/ Goto(c, "granted", "held")
    /\ registry' = None
    /\ UNCHANGED <<fd, locked, path>>

\* The process dies, or the lease object is dropped by an interrupted caller:
\* its descriptors are closed, which releases its locks.
Abandon(c) ==
    /\ pc[c] # "out"
    /\ pc' = [pc EXCEPT ![c] = "out"]
    /\ fd' = [fd EXCEPT ![c] = None]
    /\ locked' = [i \in Inodes |-> IF locked[i] = c THEN None ELSE locked[i]]
    /\ registry' = IF registry = c THEN None ELSE registry
    /\ UNCHANGED path

-----------------------------------------------------------------------------

\* the steps that need nobody else
Proceed(c) ==
    \/ \E i \in Inodes : Open(c, i)
    \/ TryLock(c) \/ Refuse(c) \/ Publish(c)
    \/ Unlock(c) \/ CloseFile(c) \/ Unlink(c) \/ LeaveRegistry(c)

Next == \E c \in Contenders :
    \/ Acquire(c) \/ Release(c) \/ EnterRegistry(c) \/ Proceed(c) \/ Abandon(c)

Spec == Init /\ [][Next]_vars

\* A process that has the registry lock runs on, or dies.
FairSpec == Spec /\ \A c \in Contenders : WF_vars(Proceed(c))

-----------------------------------------------------------------------------
(* Properties. *)

TypeOK ==
    /\ pc \in [Contenders -> Phases]
    /\ fd \in [Contenders -> Inodes \cup {None}]
    /\ locked \in [Inodes -> Contenders \cup {None}]
    /\ path \in Inodes \cup {None}
    /\ registry \in Contenders \cup {None}

\* the phases without an open lock file, and those with the flock on it
Closed == {"out", "acquiring", "opening", "unlinking", "leaving"}
Locked == {"writing", "granted", "held", "releasing", "unlocking"}

\* acquire has returned and the lock has not been given up.
Holds(c) == pc[c] \in {"granted", "held", "releasing"}

\* At most one process has the session open, however releases that unlink the
\* lock file, failed acquires and crashes interleave.
MutualExclusion == \A c, d \in Contenders : Holds(c) /\ Holds(d) => c = d

\* The lock of a holder is on the file that others will find: nobody unlinks
\* or replaces the lock file of a live lease.
HolderVisible ==
    \A c \in Contenders : Holds(c) => path = fd[c] /\ locked[path] = c

\* SessionBusyError tells the truth: acquire is refused only while another
\* process has the lease, and not by a competing acquire or by leftovers of a
\* dead process.  (The only failure of flock in this model is that the lock is
\* taken; the code reports any other failure of it as busy, too.)
RefusedOnlyIfHeld ==
    [][\A c \in Contenders : pc[c] = "locking" /\ pc'[c] = "refused" =>
          \E d \in Contenders : Holds(d)]_vars

\* The registry lock is always given back: nothing that is done under it waits
\* for another process.
RegistryReturns == registry # None ~> registry = None

Owner == IF \E c \in Contenders : Holds(c)
         THEN CHOOSE c \in Contenders : Holds(c) ELSE None

Lease == INSTANCE SessionOwner WITH owner <- Owner

\* The lease provides exclusive ownership: it passes from one process to the
\* next only through being free (SessionOwner).
ProvidesOwnership == Lease!Spec

\* The registry lock is with the one contender that is in a guarded phase.
RegistryHeld == \A c \in Contenders : pc[c] \in Guarded <=> registry = c

\* An open descriptor is of the file at the path.
Descriptors ==
    \A c \in Contenders :
        \/ pc[c] \in Closed /\ fd[c] = None
        \/ pc[c] \in Phases \ Closed /\ fd[c] \in Inodes /\ path = fd[c]

\* The flocks are those of the contenders in a locked phase.
LocksOwned ==
    /\ \A c \in Contenders : pc[c] \in Locked => locked[fd[c]] = c
    /\ \A i \in Inodes : locked[i] # None =>
          fd[locked[i]] = i /\ pc[locked[i]] \in Locked

\* Nobody has the flock when a lock file is about to be unlinked.
UnlinkedFree ==
    \A c \in Contenders : pc[c] \in {"closing", "unlinking"} =>
        \A i \in Inodes : locked[i] = None

\* The inductive invariant behind mutual exclusion.
LeaseInv == /\ TypeOK /\ RegistryHeld /\ Descriptors /\ LocksOwned
            /\ UnlinkedFree
=============================================================================
