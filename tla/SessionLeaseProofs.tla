------------------------- MODULE SessionLeaseProofs -------------------------
(***************************************************************************)
(* Mutual exclusion of session leases, for any set of processes and files, *)
(* and that the lease implements SessionOwner.                             *)
(***************************************************************************)
EXTENDS SessionLease, TLAPS

\* The empty lease directory satisfies the invariant.
LEMMA InitInv == Init => LeaseInv
  BY LeaseAssumption DEF Init, LeaseInv, TypeOK, RegistryHeld, Descriptors,
     LocksOwned, UnlinkedFree, Phases, Guarded, Closed, Locked

\* Starting an acquire touches no file.
LEMMA AcquireInv ==
  ASSUME LeaseInv, NEW c \in Contenders, Acquire(c)
  PROVE  LeaseInv'
  BY LeaseAssumption
     DEF Acquire, Goto, LeaseInv, TypeOK, RegistryHeld, Descriptors,
     LocksOwned, UnlinkedFree, Phases, Guarded, Closed, Locked

\* Starting a release touches no file.
LEMMA ReleaseInv ==
  ASSUME LeaseInv, NEW c \in Contenders, Release(c)
  PROVE  LeaseInv'
  BY LeaseAssumption
     DEF Release, Goto, LeaseInv, TypeOK, RegistryHeld, Descriptors,
     LocksOwned, UnlinkedFree, Phases, Guarded, Closed, Locked

\* The registry lock is taken when nobody has it, so nobody else is in a guarded
\* phase.
LEMMA EnterRegistryInv ==
  ASSUME LeaseInv, NEW c \in Contenders, EnterRegistry(c)
  PROVE  LeaseInv'
  BY LeaseAssumption
     DEF EnterRegistry, Goto, LeaseInv, TypeOK, RegistryHeld, Descriptors,
     LocksOwned, UnlinkedFree, Phases, Guarded, Closed, Locked

\* The file at the path is opened, or a file that nobody has open becomes it.
LEMMA OpenInv ==
  ASSUME LeaseInv, NEW c \in Contenders, NEW i \in Inodes, Open(c, i)
  PROVE  LeaseInv'
  BY LeaseAssumption
     DEF Open, Goto, LeaseInv, TypeOK, RegistryHeld, Descriptors,
     LocksOwned, UnlinkedFree, Phases, Guarded, Closed, Locked

\* The flock is taken when nobody has it.
LEMMA TryLockInv ==
  ASSUME LeaseInv, NEW c \in Contenders, TryLock(c)
  PROVE  LeaseInv'
  BY LeaseAssumption
     DEF TryLock, Goto, LeaseInv, TypeOK, RegistryHeld, Descriptors,
     LocksOwned, UnlinkedFree, Phases, Guarded, Closed, Locked

\* A refused acquire has no flock to give up.
LEMMA RefuseInv ==
  ASSUME LeaseInv, NEW c \in Contenders, Refuse(c)
  PROVE  LeaseInv'
  BY LeaseAssumption
     DEF Refuse, Goto, LeaseInv, TypeOK, RegistryHeld, Descriptors,
     LocksOwned, UnlinkedFree, Phases, Guarded, Closed, Locked

\* The rollback of a failed publication goes on like a release.
LEMMA PublishInv ==
  ASSUME LeaseInv, NEW c \in Contenders, Publish(c)
  PROVE  LeaseInv'
  BY LeaseAssumption
     DEF Publish, Goto, LeaseInv, TypeOK, RegistryHeld, Descriptors,
     LocksOwned, UnlinkedFree, Phases, Guarded, Closed, Locked

\* After the unlock no file has a flock: the descriptors are all of one file.
LEMMA UnlockInv ==
  ASSUME LeaseInv, NEW c \in Contenders, Unlock(c)
  PROVE  LeaseInv'
  BY LeaseAssumption
     DEF Unlock, Goto, LeaseInv, TypeOK, RegistryHeld, Descriptors,
     LocksOwned, UnlinkedFree, Phases, Guarded, Closed, Locked

\* Closing does not change what is at the path.
LEMMA CloseFileInv ==
  ASSUME LeaseInv, NEW c \in Contenders, CloseFile(c)
  PROVE  LeaseInv'
  BY LeaseAssumption
     DEF CloseFile, Goto, LeaseInv, TypeOK, RegistryHeld, Descriptors,
     LocksOwned, UnlinkedFree, Phases, Guarded, Closed, Locked

\* Nobody has the file open that is unlinked: it would be a holder or a guarded
\* contender, and the registry is with the one that unlinks.
LEMMA UnlinkInv ==
  ASSUME LeaseInv, NEW c \in Contenders, Unlink(c)
  PROVE  LeaseInv'
  BY LeaseAssumption
     DEF Unlink, Goto, LeaseInv, TypeOK, RegistryHeld, Descriptors,
     LocksOwned, UnlinkedFree, Phases, Guarded, Closed, Locked

\* The registry is given up in the phases that are not guarded.
LEMMA LeaveRegistryInv ==
  ASSUME LeaseInv, NEW c \in Contenders, LeaveRegistry(c)
  PROVE  LeaseInv'
  BY LeaseAssumption
     DEF LeaveRegistry, Goto, LeaseInv, TypeOK, RegistryHeld, Descriptors,
     LocksOwned, UnlinkedFree, Phases, Guarded, Closed, Locked

\* The death of a process takes its locks with it.
LEMMA AbandonInv ==
  ASSUME LeaseInv, NEW c \in Contenders, Abandon(c)
  PROVE  LeaseInv'
  BY LeaseAssumption
     DEF Abandon, LeaseInv, TypeOK, RegistryHeld, Descriptors,
     LocksOwned, UnlinkedFree, Phases, Guarded, Closed, Locked

-----------------------------------------------------------------------------

\* Every step of every process keeps the invariant.
LEMMA NextInv == LeaseInv /\ [Next]_vars => LeaseInv'
<1> SUFFICES ASSUME LeaseInv, [Next]_vars PROVE LeaseInv'
  OBVIOUS
<1>1. CASE Next
  <2>1. PICK c \in Contenders :
          \/ Acquire(c) \/ Release(c) \/ EnterRegistry(c)
          \/ Proceed(c) \/ Abandon(c)
    BY <1>1 DEF Next
  <2>2. CASE Proceed(c)
    BY <2>2, OpenInv, TryLockInv, RefuseInv, PublishInv, UnlockInv,
       CloseFileInv, UnlinkInv, LeaveRegistryInv DEF Proceed
  <2> QED
    BY <2>1, <2>2, AcquireInv, ReleaseInv, EnterRegistryInv, AbandonInv
<1>2. CASE UNCHANGED vars
  BY <1>2 DEF vars, LeaseInv, TypeOK, RegistryHeld, Descriptors, LocksOwned,
     UnlinkedFree
<1> QED
  BY <1>1, <1>2

\* The lock file protocol of acquire, release and their rollbacks keeps the
\* invariant.
THEOREM LeaseInvariance == Spec => []LeaseInv
  BY InitInv, NextInv, PTL DEF Spec

\* A holder has the flock on the file at the path.
LEMMA HolderHasPath ==
  ASSUME LeaseInv, NEW c \in Contenders, Holds(c)
  PROVE  fd[c] \in Inodes /\ path = fd[c] /\ locked[path] = c
  BY DEF LeaseInv, Descriptors, LocksOwned, Holds, Closed, Locked

\* Two holders would have the flock on the same file.
LEMMA OneHolder ==
  ASSUME LeaseInv, NEW c \in Contenders, NEW d \in Contenders,
         Holds(c), Holds(d)
  PROVE  c = d
  BY HolderHasPath

\* At most one process has the session open (SessionLease.acquire, release).
THEOREM Exclusion == Spec => []MutualExclusion
<1>1. LeaseInv => MutualExclusion
  BY OneHolder DEF MutualExclusion
<1> QED
  BY <1>1, LeaseInvariance, PTL

\* Nobody unlinks or replaces the lock file of a live lease (release unlinks the
\* path, whatever file is there).
THEOREM Visibility == Spec => []HolderVisible
<1>1. LeaseInv => HolderVisible
  BY HolderHasPath DEF HolderVisible
<1> QED
  BY <1>1, LeaseInvariance, PTL

\* acquire raises SessionBusyError only while another process has the lease.
THEOREM HonestRefusal == Spec => RefusedOnlyIfHeld
<1> DEFINE A == \A c \in Contenders :
                  pc[c] = "locking" /\ pc'[c] = "refused" =>
                    \E d \in Contenders : Holds(d)
<1>1. LeaseInv /\ [Next]_vars => [A]_vars
  <2> SUFFICES ASSUME LeaseInv, Next,
                      NEW c \in Contenders,
                      pc[c] = "locking", pc'[c] = "refused"
               PROVE  \E d \in Contenders : Holds(d)
    BY DEF vars
  <2>1. TryLock(c)
    <3>1. PICK e \in Contenders :
            \/ Acquire(e) \/ Release(e) \/ EnterRegistry(e)
            \/ Proceed(e) \/ Abandon(e)
      BY DEF Next
    <3> QED
      BY <3>1 DEF LeaseInv, TypeOK, Acquire, Release, EnterRegistry, Abandon,
         Proceed, Goto, Open, TryLock, Refuse, Publish, Unlock, CloseFile,
         Unlink, LeaveRegistry
  <2>2. fd[c] \in Inodes /\ locked[fd[c]] \in Contenders
    BY <2>1 DEF TryLock, Goto, LeaseInv, TypeOK, Descriptors, Closed
  <2> DEFINE d == locked[fd[c]]
  <2>3. pc[d] \in Locked
    BY <2>2, LeaseAssumption DEF LeaseInv, LocksOwned
  <2>4. registry = c /\ d # c
    BY <2>3 DEF LeaseInv, RegistryHeld, Guarded, Locked
  <2>5. pc[d] \notin Guarded
    BY <2>2, <2>4 DEF LeaseInv, RegistryHeld
  <2>6. Holds(d)
    BY <2>3, <2>5 DEF Holds, Locked, Guarded
  <2> QED
    BY <2>2, <2>6
<1> QED
  BY <1>1, LeaseInvariance, PTL DEF Spec, RefusedOnlyIfHeld

-----------------------------------------------------------------------------

\* The owner of the refinement is the holder, if there is one.
OwnerCorrect ==
  /\ \A c \in Contenders : Holds(c) => Owner = c
  /\ (\A c \in Contenders : ~ Holds(c)) => Owner = None

\* It is so because there is at most one holder.
LEMMA OwnerIsHolder == LeaseInv => OwnerCorrect
  BY OneHolder DEF Owner, OwnerCorrect

\* A contender that becomes a holder has the registry lock and the flock, so
\* nobody was a holder.
LEMMA GrantStep ==
  ASSUME LeaseInv, NEW c \in Contenders, Publish(c)
  PROVE  \A d \in Contenders : ~ Holds(d)
<1>1. locked[fd[c]] = c /\ path = fd[c] /\ ~ Holds(c)
  BY DEF Publish, Goto, LeaseInv, LocksOwned, Locked, Descriptors, Closed, Holds
<1> QED
  BY <1>1, HolderHasPath

\* SessionLease implements SessionOwner: exclusive ownership, passed on only
\* through being free.
THEOREM Ownership == Spec => ProvidesOwnership
<1>1. Init => Lease!Init
  BY DEF Init, Lease!Init, Owner, Holds
<1>2. LeaseInv /\ LeaseInv' /\ [Next]_vars => [Lease!Next]_Owner
  <2> SUFFICES ASSUME LeaseInv, LeaseInv', [Next]_vars
               PROVE  Lease!Next \/ Owner' = Owner
    OBVIOUS
  <2>1. OwnerCorrect /\ OwnerCorrect'
    BY OwnerIsHolder, PTL
  <2>2. CASE UNCHANGED pc
    BY <2>2 DEF Owner, Holds
  <2>3. ASSUME NEW c \in Contenders, Publish(c)
        PROVE  Lease!Next \/ Owner' = Owner
    <3>1. Owner = None
      BY <2>1, <2>3, GrantStep DEF OwnerCorrect
    <3>2. \A d \in Contenders \ {c} : ~ Holds(d)'
      BY <2>3, GrantStep DEF Publish, Goto, Holds, LeaseInv, TypeOK
    <3>3. Owner' \in {c, None}
      BY <2>1, <3>2 DEF OwnerCorrect
    <3> QED
      BY <3>1, <3>3 DEF Lease!Next, Lease!Grant
  <2>4. ASSUME \A d \in Contenders : Holds(d)' => Holds(d)
        PROVE  Lease!Next \/ Owner' = Owner
    <3>1. CASE \E d \in Contenders : Holds(d)'
      BY <2>1, <2>4, <3>1 DEF OwnerCorrect
    <3>2. CASE \A d \in Contenders : ~ Holds(d)'
      BY <2>1, <3>2 DEF OwnerCorrect, Lease!Next, Lease!Return
    <3> QED
      BY <3>1, <3>2
  <2>5. CASE Next
    <3>1. PICK c \in Contenders :
            \/ Acquire(c) \/ Release(c) \/ EnterRegistry(c)
            \/ Proceed(c) \/ Abandon(c)
      BY <2>5 DEF Next
    <3>2. Publish(c) \/ \A d \in Contenders : Holds(d)' => Holds(d)
      BY <3>1 DEF LeaseInv, TypeOK, Holds, Acquire, Release, EnterRegistry,
         Abandon, Proceed, Goto, Open, TryLock, Refuse, Unlock, CloseFile,
         Unlink, LeaveRegistry
    <3> QED
      BY <2>3, <2>4, <3>2
  <2> QED
    BY <2>2, <2>5 DEF vars
<1> QED
  BY <1>1, <1>2, LeaseInvariance, PTL DEF Spec, ProvidesOwnership, Lease!Spec
=============================================================================
