---------------------- MODULE SubagentLifecycleProofs ----------------------
(***************************************************************************)
(* Proofs about SubagentLifecycle, for every number of agents, launches    *)
(* and packages and all capacities.                                        *)
(*                                                                         *)
(* A launch leaves the registry lock at each of its awaits and relies on   *)
(* what it finds when it comes back.  RegistryInv says on what: released   *)
(* is a state nothing leaves, so that whoever comes back to a released     *)
(* agent gives up; a launch that restores, joins or prepares an agent that *)
(* was not released is the only one that does; a write token is that of a  *)
(* current run; and the latest run of an agent moves only to runs that     *)
(* were newly accepted.  Each action has a lemma with a step per conjunct. *)
(***************************************************************************)
EXTENDS SubagentLifecycle, TLAPS

\* What the place of a launch says of it.
Launched ==
    \A l \in Launches :
        /\ pc[l] = "new" <=> job[l] = NoJob
        /\ mon[l] # "none" => pc[l] \in {"ack", "done"}
        /\ pc[l] = "creating" => Created(l)
        /\ pc[l] = "joining" => Replaces(l)
        /\ pc[l] = "restoring" => job[l].kind = "resume"
        /\ pc[l] = "preparing" => ~ Created(l)

\* The current run of a resident agent works for it, and shows.
CurrentWorks ==
    \A a \in Agents : Resident(a) /\ current[a] # None =>
        /\ Working(current[a]) /\ job[current[a]].agent = a
        /\ state[a] = "running"

\* A reservation is held by a launch that joins the agent's last run.
ReservedJoins ==
    \A a \in Agents : reserved[a] =>
        /\ state[a] \notin {"absent", "restoring"}
        /\ owner[a] \in Launches
        /\ pc[owner[a]] = "joining" /\ job[owner[a]].agent = a
        /\ current[a] \in {None, job[owner[a]].prior}

\* A launch that restores an agent is alone with it ...
RestoringAlone ==
    \A l \in Launches : pc[l] = "restoring" =>
        LET a == job[l].agent
        IN /\ state[a] \in {"restoring", "released"}
           /\ \A m \in Launches : pc[m] = "restoring" /\ job[m].agent = a =>
                 m = l \/ state[a] = "released"

\* ... and so is one that prepares it for the next run.
PreparingAlone ==
    \A l \in Launches : pc[l] = "preparing" =>
        LET a == job[l].agent
        IN state[a] # "released" =>
              /\ state[a] = "running" /\ current[a] = None /\ ~ reserved[a]
              /\ \A m \in Launches : pc[m] = "preparing" /\ job[m].agent = a => m = l

\* A pending resume is on its way, and has spent an attempt.
PendingOnWay ==
    \A a \in Agents : pending[a] # None =>
        /\ resumes[a] > 0
        /\ state[a] # "absent"
        /\ Resident(a) =>
             /\ job[pending[a]].kind = "resume" /\ job[pending[a]].agent = a
             /\ pc[pending[a]] \in {"restoring", "preparing"}

\* The latest run of an agent was accepted, and no accepted resume continues it.
LatestAccepted ==
    /\ \A a \in Agents :
         /\ Resident(a) => latest[a] # None
         /\ latest[a] # None => mon[latest[a]] # "none" /\ job[latest[a]].agent = a
    /\ \A l \in Launches : job[l].kind = "resume" =>
         /\ job[l].prior \in Launches /\ mon[job[l].prior] # "none"
         /\ job[job[l].prior].agent = job[l].agent
         /\ mon[l] # "none" => latest[job[l].agent] # job[l].prior

\* A write token is that of the current run of a running agent, and of its package.
TokensCurrent ==
    \A l \in tokens :
        LET a == job[l].agent
        IN /\ Working(l) /\ state[a] = "running" /\ current[a] = l
           /\ package[a] = job[l].package

\* What every operation relies on when it takes the registry lock again: whose the
\* agent is, which launches may go on, and which runs may publish.
RegistryInv ==
    /\ TypeOK /\ Launched /\ WorkInv /\ CurrentWorks /\ ReservedJoins
    /\ RestoringAlone /\ PreparingAlone /\ PendingOnWay /\ LatestAccepted
    /\ SingleSuccessor /\ TokensCurrent /\ ReleasedSilent /\ PackageExclusive
    /\ RestoringBacked

-----------------------------------------------------------------------------

\* A launch that has begun is about an agent and a slot.
LEMMA JobFacts ==
    ASSUME TypeOK, Launched
    PROVE  /\ \A l \in Launches : pc[l] # "new" =>
                /\ job[l].agent \in Agents /\ job[l].slot \in Launches
                /\ job[l].prior \in Launches \cup {None} /\ job[l].kind \in Kinds
                /\ job[l].package \in Packages \cup {None}
           /\ \A l \in Launches : mon[l] # "none" => pc[l] # "new"
           /\ None \notin Agents \cup Launches \cup Packages
  BY LifecycleAssumption DEF TypeOK, Launched, Jobs, NoJob

\* A new launch changes no record.
LEMMA LaunchFreshInv ==
    ASSUME RegistryInv, NEW l \in Launches, NEW a \in Agents,
           NEW p \in Packages \cup {None}, LaunchFresh(l, a, p)
    PROVE  RegistryInv'
<1>0. TypeOK /\ Launched
  BY DEF RegistryInv
<1>1. TypeOK'
  BY <1>0, JobFacts
     DEF LaunchFresh, records, TypeOK, Begin, Unused, RunsOf, runVars, RegistryInv,
         Phases, Jobs, Kinds
<1>2. Launched'
  BY <1>0
     DEF LaunchFresh, Begin, Unused, RunsOf, runVars, TypeOK, Launched, Created,
         Replaces
<1>3. WorkInv'
  BY <1>0, JobFacts
     DEF LaunchFresh, Begin, records, runVars, RegistryInv, WorkInv, WorkIsCurrent,
         OneRunPerAgent, Working
<1>4. CurrentWorks'
  BY <1>0, JobFacts
     DEF LaunchFresh, Begin, records, runVars, RegistryInv, CurrentWorks, Resident,
         Working
<1>5. ReservedJoins'
  BY DEF LaunchFresh, Begin, Unused, RunsOf, records, runVars, RegistryInv,
         ReservedJoins
<1>6. RestoringAlone'
  BY DEF LaunchFresh, Begin, Unused, RunsOf, records, runVars, RegistryInv,
         RestoringAlone
<1>7. PreparingAlone'
  BY DEF LaunchFresh, Begin, Unused, RunsOf, records, runVars, RegistryInv,
         PreparingAlone
<1>8. PendingOnWay'
  BY DEF LaunchFresh, Begin, records, RegistryInv, PendingOnWay, Resident
<1>9. LatestAccepted'
  BY <1>0, JobFacts
     DEF LaunchFresh, Begin, records, runVars, RegistryInv, LatestAccepted, Resident
<1>10. SingleSuccessor'
  BY DEF LaunchFresh, Begin, Unused, RunsOf, records, runVars, RegistryInv,
         SingleSuccessor
<1>11. TokensCurrent'
  BY <1>0, JobFacts
     DEF LaunchFresh, Begin, records, runVars, RegistryInv, TokensCurrent, Working
<1>12. ReleasedSilent'
  BY DEF LaunchFresh, Begin, Unused, RunsOf, records, runVars, RegistryInv,
         ReleasedSilent
<1>13. PackageExclusive'
  BY <1>0, JobFacts
     DEF LaunchFresh, Begin, RegistryInv, PackageExclusive, TokensCurrent, Working
<1>14. RestoringBacked'
  BY DEF LaunchFresh, Begin, Unused, RunsOf, records, runVars, RegistryInv,
         RestoringBacked
<1> QED
  BY <1>1, <1>2, <1>3, <1>4, <1>5, <1>6, <1>7, <1>8, <1>9, <1>10, <1>11, <1>12,
     <1>13, <1>14
     DEF RegistryInv

\* A claim disables the recovery of the failed agent.
LEMMA LaunchClaimInv ==
    ASSUME RegistryInv, NEW l \in Launches, NEW a \in Agents, NEW q \in Agents,
           NEW p \in Packages, LaunchClaim(l, a, q, p)
    PROVE  RegistryInv'
<1>0. TypeOK /\ Launched
  BY DEF RegistryInv
<1>1. TypeOK'
  BY <1>0, JobFacts
     DEF LaunchClaim, TypeOK, Begin, Unused, ClaimableRun, RunsOf, runVars,
         RegistryInv, Phases, Jobs, Kinds
<1>2. Launched'
  BY <1>0
     DEF LaunchClaim, Begin, Unused, RunsOf, runVars, TypeOK, Launched, Created,
         Replaces
<1>3. WorkInv'
  BY <1>0, JobFacts
     DEF LaunchClaim, Begin, runVars, RegistryInv, WorkInv, WorkIsCurrent,
         OneRunPerAgent, Working
<1>4. CurrentWorks'
  BY <1>0, JobFacts
     DEF LaunchClaim, Begin, runVars, RegistryInv, CurrentWorks, Resident, Working
<1>5. ReservedJoins'
  BY DEF LaunchClaim, Begin, Unused, ClaimableRun, RunsOf, runVars, RegistryInv,
         ReservedJoins
<1>6. RestoringAlone'
  BY DEF LaunchClaim, Begin, Unused, ClaimableRun, RunsOf, runVars, RegistryInv,
         RestoringAlone
<1>7. PreparingAlone'
  BY DEF LaunchClaim, Begin, Unused, ClaimableRun, RunsOf, runVars, RegistryInv,
         PreparingAlone
<1>8. PendingOnWay'
  BY DEF LaunchClaim, Begin, RegistryInv, PendingOnWay, Resident
<1>9. LatestAccepted'
  BY <1>0, JobFacts
     DEF LaunchClaim, Begin, runVars, RegistryInv, LatestAccepted, Resident
<1>10. SingleSuccessor'
  BY DEF LaunchClaim, Begin, Unused, ClaimableRun, RunsOf, runVars, RegistryInv,
         SingleSuccessor
<1>11. TokensCurrent'
  BY <1>0, JobFacts
     DEF LaunchClaim, Begin, runVars, RegistryInv, TokensCurrent, Working
<1>12. ReleasedSilent'
  BY DEF LaunchClaim, Begin, Unused, ClaimableRun, RunsOf, runVars, RegistryInv,
         ReleasedSilent
<1>13. PackageExclusive'
  BY <1>0, JobFacts
     DEF LaunchClaim, Begin, RegistryInv, PackageExclusive, TokensCurrent, Working
<1>14. RestoringBacked'
  BY <1>0, JobFacts
     DEF LaunchClaim, Begin, Unused, ClaimableRun, RunsOf, runVars, RegistryInv,
         TypeOK, RestoringBacked
<1> QED
  BY <1>1, <1>2, <1>3, <1>4, <1>5, <1>6, <1>7, <1>8, <1>9, <1>10, <1>11, <1>12,
     <1>13, <1>14
     DEF RegistryInv

\* An idle agent prepares its next run alone.
LEMMA LaunchReuseInv ==
    ASSUME RegistryInv, NEW l \in Launches, NEW a \in Agents, LaunchReuse(l, a)
    PROVE  RegistryInv'
<1>0. TypeOK /\ Launched
  BY DEF RegistryInv
<1>1. TypeOK'
  BY <1>0, JobFacts
     DEF LaunchReuse, Begin, runVars, RegistryInv, TypeOK, States, LiveStates,
         Resident, Phases, MonitorPhases, Outcomes, Jobs, Kinds
<1>2. Launched'
  BY <1>0, JobFacts
     DEF LaunchReuse, Begin, runVars, RegistryInv, TypeOK, Launched, Created,
         Replaces, NoJob
<1>3. WorkInv'
  BY <1>0, JobFacts
     DEF LaunchReuse, Begin, runVars, RegistryInv, TypeOK, WorkInv, WorkIsCurrent,
         OneRunPerAgent, Working
<1>4. CurrentWorks'
  BY <1>0, JobFacts
     DEF LaunchReuse, Begin, runVars, RegistryInv, TypeOK, CurrentWorks, Resident,
         LiveStates, Working
<1>5. ReservedJoins'
  BY DEF LaunchReuse, Begin, runVars, RegistryInv, ReservedJoins
<1>6. RestoringAlone'
  BY DEF LaunchReuse, Begin, runVars, RegistryInv, RestoringAlone
<1>7. PreparingAlone'
  BY <1>0
     DEF LaunchReuse, Begin, RegistryInv, TypeOK, CurrentWorks, PreparingAlone,
         Resident, LiveStates
<1>8. PendingOnWay'
  BY DEF LaunchReuse, Begin, runVars, RegistryInv, PendingOnWay, Resident, LiveStates
<1>9. LatestAccepted'
  BY <1>0, JobFacts
     DEF LaunchReuse, Begin, runVars, RegistryInv, TypeOK, LatestAccepted, Resident,
         LiveStates
<1>10. SingleSuccessor'
  BY <1>0, JobFacts
     DEF LaunchReuse, Begin, runVars, RegistryInv, TypeOK, SingleSuccessor
<1>11. TokensCurrent'
  BY <1>0, JobFacts
     DEF LaunchReuse, Begin, runVars, RegistryInv, TypeOK, TokensCurrent, Working
<1>12. ReleasedSilent'
  BY DEF LaunchReuse, Begin, runVars, RegistryInv, ReleasedSilent, RunsOf
<1>13. PackageExclusive'
  <2>1. \A m \in tokens : m # l /\ m \in Launches
    BY DEF LaunchReuse, Begin, RegistryInv, TypeOK, Launched, TokensCurrent, Working
  <2>2. tokens' = tokens /\ \A m \in tokens : job'[m] = job[m]
    BY <2>1 DEF LaunchReuse, Begin, RegistryInv, TypeOK
  <2> QED
    BY <2>2 DEF RegistryInv, PackageExclusive
<1>14. RestoringBacked'
  BY DEF LaunchReuse, Begin, runVars, RegistryInv, RestoringBacked
<1> QED
  BY <1>1, <1>2, <1>3, <1>4, <1>5, <1>6, <1>7, <1>8, <1>9, <1>10, <1>11, <1>12,
     <1>13, <1>14
     DEF RegistryInv

\* A working agent is reserved by one replacement.
LEMMA ReserveBusyInv ==
    ASSUME RegistryInv, NEW l \in Launches, NEW a \in Agents, ReserveBusy(l, a)
    PROVE  RegistryInv'
<1>0. TypeOK /\ Launched
  BY DEF RegistryInv
<1>1. TypeOK'
  BY <1>0, JobFacts
     DEF ReserveBusy, Begin, RegistryInv, TypeOK, States, LiveStates, Resident,
         Phases, MonitorPhases, Outcomes, Jobs, Kinds
<1>2. Launched'
  BY <1>0, JobFacts
     DEF ReserveBusy, Begin, RegistryInv, TypeOK, Launched, Created, Replaces, NoJob
<1>3. WorkInv'
  BY <1>0, JobFacts
     DEF ReserveBusy, Begin, RegistryInv, TypeOK, WorkInv, WorkIsCurrent,
         OneRunPerAgent, Working
<1>4. CurrentWorks'
  BY <1>0, JobFacts
     DEF ReserveBusy, Begin, RegistryInv, TypeOK, CurrentWorks, Resident,
         LiveStates, Working
<1>5. ReservedJoins'
  BY <1>0, JobFacts DEF ReserveBusy, Begin, RegistryInv, TypeOK, ReservedJoins
<1>6. RestoringAlone'
  BY DEF ReserveBusy, Begin, RegistryInv, RestoringAlone
<1>7. PreparingAlone'
  BY DEF ReserveBusy, Begin, RegistryInv, PreparingAlone
<1>8. PendingOnWay'
  BY DEF ReserveBusy, Begin, RegistryInv, PendingOnWay, Resident, LiveStates
<1>9. LatestAccepted'
  BY <1>0, JobFacts
     DEF ReserveBusy, Begin, RegistryInv, TypeOK, LatestAccepted, Resident,
         LiveStates
<1>10. SingleSuccessor'
  BY DEF ReserveBusy, Begin, RegistryInv, SingleSuccessor
<1>11. TokensCurrent'
  BY <1>0, JobFacts
     DEF ReserveBusy, Begin, RegistryInv, TypeOK, TokensCurrent, Working
<1>12. ReleasedSilent'
  BY DEF ReserveBusy, Begin, RegistryInv, ReleasedSilent, RunsOf
<1>13. PackageExclusive'
  BY <1>0, JobFacts
     DEF ReserveBusy, Begin, RegistryInv, PackageExclusive, TokensCurrent, Working
<1>14. RestoringBacked'
  BY DEF ReserveBusy, Begin, RegistryInv, RestoringBacked
<1> QED
  BY <1>1, <1>2, <1>3, <1>4, <1>5, <1>6, <1>7, <1>8, <1>9, <1>10, <1>11, <1>12,
     <1>13, <1>14
     DEF RegistryInv

\* So is a suspended one, whose recovery ends.
LEMMA ReserveSuspendedInv ==
    ASSUME RegistryInv, NEW l \in Launches, NEW a \in Agents, ReserveSuspended(l, a)
    PROVE  RegistryInv'
<1>0. TypeOK /\ Launched
  BY DEF RegistryInv
<1>1. TypeOK'
  BY <1>0, JobFacts
     DEF ReserveSuspended, Begin, runVars, RegistryInv, TypeOK, States, LiveStates,
         Resident, Phases, MonitorPhases, Outcomes, Jobs, Kinds
<1>2. Launched'
  BY <1>0, JobFacts
     DEF ReserveSuspended, Begin, runVars, RegistryInv, TypeOK, Launched, Created,
         Replaces, NoJob
<1>3. WorkInv'
  BY <1>0, JobFacts
     DEF ReserveSuspended, Begin, runVars, RegistryInv, TypeOK, WorkInv,
         WorkIsCurrent, OneRunPerAgent, Working
<1>4. CurrentWorks'
  BY <1>0, JobFacts
     DEF ReserveSuspended, Begin, runVars, RegistryInv, TypeOK, CurrentWorks,
         Resident, LiveStates, Working
<1>5. ReservedJoins'
  BY <1>0
     DEF ReserveSuspended, Begin, RegistryInv, TypeOK, ReservedJoins, CurrentWorks,
         Resident, LiveStates
<1>6. RestoringAlone'
  BY DEF ReserveSuspended, Begin, runVars, RegistryInv, RestoringAlone
<1>7. PreparingAlone'
  BY DEF ReserveSuspended, Begin, runVars, RegistryInv, PreparingAlone
<1>8. PendingOnWay'
  BY DEF ReserveSuspended, Begin, runVars, RegistryInv, PendingOnWay, Resident,
         LiveStates
<1>9. LatestAccepted'
  BY <1>0, JobFacts
     DEF ReserveSuspended, Begin, runVars, RegistryInv, TypeOK, LatestAccepted,
         Resident, LiveStates
<1>10. SingleSuccessor'
  BY DEF ReserveSuspended, Begin, runVars, RegistryInv, SingleSuccessor
<1>11. TokensCurrent'
  BY <1>0, JobFacts
     DEF ReserveSuspended, Begin, runVars, RegistryInv, TypeOK, TokensCurrent,
         Working
<1>12. ReleasedSilent'
  BY DEF ReserveSuspended, Begin, runVars, RegistryInv, ReleasedSilent, RunsOf
<1>13. PackageExclusive'
  BY <1>0, JobFacts
     DEF ReserveSuspended, Begin, RegistryInv, PackageExclusive, TokensCurrent,
         Working
<1>14. RestoringBacked'
  BY DEF ReserveSuspended, Begin, runVars, RegistryInv, RestoringBacked
<1> QED
  BY <1>1, <1>2, <1>3, <1>4, <1>5, <1>6, <1>7, <1>8, <1>9, <1>10, <1>11, <1>12,
     <1>13, <1>14
     DEF RegistryInv

\* A resume is alone with the suspended agent.
LEMMA ResumeInv ==
    ASSUME RegistryInv, NEW l \in Launches, NEW a \in Agents, Resume(l, a)
    PROVE  RegistryInv'
<1>0. TypeOK /\ Launched
  BY DEF RegistryInv
<1>1. TypeOK'
  BY <1>0, JobFacts
     DEF Resume, Resumable, Begin, runVars, RegistryInv, TypeOK, States, LiveStates,
         Resident, Phases, MonitorPhases, Outcomes, Jobs, Kinds
<1>2. Launched'
  BY <1>0 DEF Resume, Begin, runVars, TypeOK, Launched, Created, Replaces, NoJob
<1>3. WorkInv'
  BY <1>0, JobFacts
     DEF Resume, Resumable, Begin, runVars, RegistryInv, WorkInv, WorkIsCurrent,
         OneRunPerAgent, Working
<1>4. CurrentWorks'
  BY <1>0, JobFacts
     DEF Resume, Resumable, Begin, runVars, RegistryInv, CurrentWorks, Resident,
         LiveStates, Working
<1>5. ReservedJoins'
  BY DEF Resume, Resumable, Begin, runVars, RegistryInv, ReservedJoins
<1>6. RestoringAlone'
  BY <1>0, JobFacts
     DEF Resume, Resumable, Begin, runVars, RegistryInv, TypeOK, RestoringAlone
<1>7. PreparingAlone'
  BY DEF Resume, Resumable, Begin, runVars, RegistryInv, PreparingAlone
<1>8. PendingOnWay'
  BY <1>0, JobFacts
     DEF Resume, Resumable, Begin, runVars, RegistryInv, TypeOK, PendingOnWay,
         Resident, LiveStates
<1>9. LatestAccepted'
  BY <1>0, JobFacts
     DEF Resume, Resumable, Begin, runVars, RegistryInv, TypeOK, LatestAccepted,
         Resident, LiveStates
<1>10. SingleSuccessor'
  BY <1>0, JobFacts
     DEF Resume, Resumable, Begin, runVars, RegistryInv, TypeOK, SingleSuccessor,
         LatestAccepted, RestoringAlone, PreparingAlone
<1>11. TokensCurrent'
  BY <1>0, JobFacts
     DEF Resume, Resumable, Begin, runVars, RegistryInv, TypeOK, TokensCurrent,
         Working
<1>12. ReleasedSilent'
  BY DEF Resume, Resumable, Begin, runVars, RegistryInv, ReleasedSilent, RunsOf
<1>13. PackageExclusive'
  BY <1>0, JobFacts
     DEF Resume, Begin, RegistryInv, PackageExclusive, TokensCurrent, Working
<1>14. RestoringBacked'
  BY <1>0, JobFacts
     DEF Resume, Resumable, Begin, runVars, RegistryInv, TypeOK, RestoringBacked
<1> QED
  BY <1>1, <1>2, <1>3, <1>4, <1>5, <1>6, <1>7, <1>8, <1>9, <1>10, <1>11, <1>12,
     <1>13, <1>14
     DEF RegistryInv

\* A replacement that has joined prepares alone.
LEMMA JoinInv ==
    ASSUME RegistryInv, NEW l \in Launches, Join(l)
    PROVE  RegistryInv'
<1>0. TypeOK /\ Launched
  BY DEF RegistryInv
<1>1. TypeOK'
  BY <1>0, JobFacts
     DEF Join, runVars, RegistryInv, TypeOK, States, LiveStates, Resident, Phases,
         MonitorPhases, Outcomes, Jobs, Kinds
<1>2. Launched'
  BY DEF Join, runVars, RegistryInv, Launched, Created, Replaces, NoJob
<1>3. WorkInv'
  BY <1>0
     DEF Join, runVars, RegistryInv, WorkInv, Working, Resident, LiveStates,
         WorkIsCurrent, OneRunPerAgent
<1>4. CurrentWorks'
  BY DEF Join, runVars, RegistryInv, CurrentWorks, Resident, LiveStates, Working
<1>5. ReservedJoins'
  BY <1>0, JobFacts DEF Join, runVars, RegistryInv, TypeOK, ReservedJoins
<1>6. RestoringAlone'
  BY <1>0, JobFacts
     DEF Join, RegistryInv, RestoringAlone, ReservedJoins, Resident, LiveStates
<1>7. PreparingAlone'
  <2> DEFINE a == job[l].agent
  <2>1. a \in Agents /\ l \in Launches /\ owner[a] = l /\ reserved[a] /\ Resident(a)
    BY <1>0, JobFacts DEF Join
  <2>2. current[a] = None
    BY <2>1 DEF Join, RegistryInv, ReservedJoins, CurrentWorks, Working
  <2>3. \A m \in Launches : pc[m] = "preparing" => job[m].agent # a
    BY <2>1 DEF RegistryInv, PreparingAlone, Resident, LiveStates
  <2>4. /\ state' = [state EXCEPT ![a] = "running"]
        /\ reserved' = [reserved EXCEPT ![a] = FALSE]
        /\ pc' = [pc EXCEPT ![l] = "preparing"]
        /\ UNCHANGED <<current, job>>
    BY DEF Join
  <2> HIDE DEF a
  <2>5. ASSUME NEW m \in Launches, pc'[m] = "preparing", state'[job[m].agent] # "released",
               m # l
        PROVE  /\ pc[m] = "preparing" /\ job[m].agent # a
               /\ state'[job[m].agent] = "running" /\ current[job[m].agent] = None
               /\ ~ reserved'[job[m].agent]
               /\ \A n \in Launches : pc[n] = "preparing" /\ job[n].agent = job[m].agent
                    => n = m
    <3>1. pc[m] = "preparing" /\ job[m].agent # a /\ job[m].agent \in Agents
      BY <1>0, <2>3, <2>4, <2>5, JobFacts DEF TypeOK
    <3>2. /\ state'[job[m].agent] = state[job[m].agent]
          /\ reserved'[job[m].agent] = reserved[job[m].agent]
      BY <2>4, <3>1 DEF RegistryInv, TypeOK
    <3> QED
      BY <2>5, <3>1, <3>2 DEF RegistryInv, PreparingAlone
  <2>6. state'[a] = "running" /\ ~ reserved'[a] /\ a = job[l].agent
    BY <2>1, <2>4 DEF RegistryInv, TypeOK, a
  <2>7. \A m \in Launches : pc'[m] = "preparing" => m = l \/ pc[m] = "preparing"
    BY <2>4 DEF RegistryInv, TypeOK
  <2> QED
    BY <2>2, <2>3, <2>4, <2>5, <2>6, <2>7 DEF PreparingAlone
<1>8. PendingOnWay'
  BY DEF Join, runVars, RegistryInv, PendingOnWay, Resident, LiveStates
<1>9. LatestAccepted'
  BY DEF Join, runVars, RegistryInv, LatestAccepted, Resident, LiveStates
<1>10. SingleSuccessor'
  <2>1. job[l].kind # "resume"
    BY DEF Join, RegistryInv, Launched, Replaces
  <2>2. \A m \in Launches \ {l} : pc'[m] = pc[m]
    BY DEF Join, RegistryInv, TypeOK
  <2>3. UNCHANGED <<job, mon>>
    BY DEF Join, runVars
  <2> QED
    BY <2>1, <2>2, <2>3 DEF RegistryInv, SingleSuccessor
<1>11. TokensCurrent'
  BY DEF Join, runVars, RegistryInv, TokensCurrent, Working
<1>12. ReleasedSilent'
  BY DEF Join, runVars, RegistryInv, ReleasedSilent, RunsOf
<1>13. PackageExclusive'
  BY DEF Join, runVars, RegistryInv, PackageExclusive
<1>14. RestoringBacked'
  BY DEF Join, runVars, RegistryInv, RestoringBacked
<1> QED
  BY <1>1, <1>2, <1>3, <1>4, <1>5, <1>6, <1>7, <1>8, <1>9, <1>10, <1>11, <1>12,
     <1>13, <1>14
     DEF RegistryInv

\* An abandoned replacement leaves the record to its run.
LEMMA LeaveJoinInv ==
    ASSUME RegistryInv, NEW l \in Launches, LeaveJoin(l)
    PROVE  RegistryInv'
<1>0. TypeOK /\ Launched
  BY DEF RegistryInv
<1>1. TypeOK'
  BY <1>0, JobFacts
     DEF LeaveJoin, EndHandoff, Rest, runVars, RegistryInv, TypeOK, States,
         LiveStates, Resident, Phases, MonitorPhases, Outcomes, Jobs, Kinds,
         LatestAccepted
<1>2. Launched'
  BY DEF LeaveJoin, EndHandoff, Rest, runVars, RegistryInv, Launched, Created,
         Replaces, NoJob
<1>3. WorkInv'
  BY <1>0, JobFacts
     DEF LeaveJoin, EndHandoff, runVars, RegistryInv, WorkInv, Working, Resident,
         LiveStates, WorkIsCurrent, OneRunPerAgent
<1>4. CurrentWorks'
  BY DEF LeaveJoin, EndHandoff, Rest, runVars, RegistryInv, CurrentWorks, Resident,
         LiveStates, Working
<1>5. ReservedJoins'
  <2>1. ASSUME NEW b \in Agents, reserved'[b]
        PROVE  /\ reserved[b] /\ owner[b] # l /\ owner'[b] = owner[b] /\ state'[b] = state[b]
    <3>1. reserved[b]
      BY <1>0, <2>1, JobFacts DEF LeaveJoin, EndHandoff, RegistryInv, TypeOK
    <3>2. owner[b] # l
      <4>1. SUFFICES ASSUME owner[b] = l PROVE FALSE
        OBVIOUS
      <4>2. job[l].agent = b
        BY <3>1, <4>1 DEF RegistryInv, ReservedJoins
      <4> QED
        BY <2>1, <4>1, <4>2 DEF LeaveJoin, EndHandoff, RegistryInv, TypeOK
    <3>3. owner'[b] = owner[b] /\ state'[b] = state[b]
      BY <1>0, <2>1, <3>1, <3>2, JobFacts
         DEF LeaveJoin, EndHandoff, RegistryInv, TypeOK
    <3> QED
      BY <3>1, <3>2, <3>3
  <2>2. \A m \in Launches \ {l} : pc'[m] = pc[m]
    BY DEF LeaveJoin, RegistryInv, TypeOK
  <2>3. UNCHANGED <<current, job>>
    BY DEF LeaveJoin
  <2> QED
    BY <2>1, <2>2, <2>3 DEF RegistryInv, ReservedJoins
<1>6. RestoringAlone'
  BY <1>0, JobFacts
     DEF LeaveJoin, EndHandoff, RegistryInv, RestoringAlone, ReservedJoins,
         Resident, LiveStates
<1>7. PreparingAlone'
  BY <1>0
     DEF LeaveJoin, EndHandoff, RegistryInv, TypeOK, PreparingAlone, Resident,
         LiveStates
<1>8. PendingOnWay'
  BY DEF LeaveJoin, EndHandoff, Rest, runVars, RegistryInv, PendingOnWay, Resident,
         LiveStates
<1>9. LatestAccepted'
  BY DEF LeaveJoin, EndHandoff, Rest, runVars, RegistryInv, LatestAccepted,
         Resident, LiveStates
<1>10. SingleSuccessor'
  BY DEF LeaveJoin, EndHandoff, Rest, runVars, RegistryInv, SingleSuccessor
<1>11. TokensCurrent'
  BY <1>0, JobFacts
     DEF LeaveJoin, EndHandoff, Rest, runVars, RegistryInv, TypeOK, TokensCurrent,
         Working
<1>12. ReleasedSilent'
  BY DEF LeaveJoin, EndHandoff, Rest, runVars, RegistryInv, ReleasedSilent, RunsOf
<1>13. PackageExclusive'
  BY DEF LeaveJoin, EndHandoff, Rest, runVars, RegistryInv, PackageExclusive
<1>14. RestoringBacked'
  BY DEF LeaveJoin, EndHandoff, Rest, runVars, RegistryInv, RestoringBacked
<1> QED
  BY <1>1, <1>2, <1>3, <1>4, <1>5, <1>6, <1>7, <1>8, <1>9, <1>10, <1>11, <1>12,
     <1>13, <1>14
     DEF RegistryInv

\* A restored agent prepares for the one resume.
LEMMA RestoreInv ==
    ASSUME RegistryInv, NEW l \in Launches, Restore(l)
    PROVE  RegistryInv'
<1>0. TypeOK /\ Launched
  BY DEF RegistryInv
<1>1. TypeOK'
  BY <1>0, JobFacts
     DEF Restore, runVars, RegistryInv, TypeOK, States, LiveStates, Resident,
         Phases, MonitorPhases, Outcomes, Jobs, Kinds
<1>2. Launched'
  BY DEF Restore, runVars, RegistryInv, Launched, Created, Replaces, NoJob
<1>3. WorkInv'
  BY DEF Restore, runVars, RegistryInv, WorkInv, WorkIsCurrent, OneRunPerAgent,
         Working
<1>4. CurrentWorks'
  BY DEF Restore, runVars, RegistryInv, CurrentWorks, Resident, LiveStates, Working
<1>5. ReservedJoins'
  BY DEF Restore, runVars, RegistryInv, ReservedJoins
<1>6. RestoringAlone'
  BY <1>0, JobFacts DEF Restore, runVars, RegistryInv, TypeOK, RestoringAlone
<1>7. PreparingAlone'
  BY <1>0, JobFacts
     DEF Restore, RegistryInv, TypeOK, CurrentWorks, PreparingAlone, Resident,
         LiveStates
<1>8. PendingOnWay'
  BY DEF Restore, runVars, RegistryInv, PendingOnWay, Resident, LiveStates
<1>9. LatestAccepted'
  BY DEF Restore, runVars, RegistryInv, LatestAccepted, Resident, LiveStates
<1>10. SingleSuccessor'
  BY DEF Restore, runVars, RegistryInv, SingleSuccessor
<1>11. TokensCurrent'
  BY DEF Restore, runVars, RegistryInv, TokensCurrent, Working
<1>12. ReleasedSilent'
  BY DEF Restore, runVars, RegistryInv, ReleasedSilent, RunsOf
<1>13. PackageExclusive'
  BY DEF Restore, runVars, RegistryInv, PackageExclusive
<1>14. RestoringBacked'
  BY <1>0, JobFacts DEF Restore, runVars, RegistryInv, TypeOK, RestoringBacked
<1> QED
  BY <1>1, <1>2, <1>3, <1>4, <1>5, <1>6, <1>7, <1>8, <1>9, <1>10, <1>11, <1>12,
     <1>13, <1>14
     DEF RegistryInv

\* A failed restore gives its attempt back.
LEMMA RestoreFailsInv ==
    ASSUME RegistryInv, NEW l \in Launches, RestoreFails(l)
    PROVE  RegistryInv'
<1>0. TypeOK /\ Launched
  BY DEF RegistryInv
<1>1. TypeOK'
  BY <1>0, JobFacts
     DEF RestoreFails, UndoResume, runVars, RegistryInv, TypeOK, States, LiveStates,
         Resident, PendingOnWay, Phases, MonitorPhases, Outcomes, Jobs, Kinds
<1>2. Launched'
  BY DEF RestoreFails, UndoResume, runVars, RegistryInv, Launched, Created,
         Replaces, NoJob
<1>3. WorkInv'
  BY <1>0
     DEF RestoreFails, UndoResume, runVars, RegistryInv, WorkInv, RestoringAlone,
         Working, Resident, LiveStates, WorkIsCurrent, OneRunPerAgent
<1>4. CurrentWorks'
  BY <1>0
     DEF RestoreFails, UndoResume, runVars, RegistryInv, CurrentWorks,
         RestoringAlone, Working, Resident
<1>5. ReservedJoins'
  BY DEF RestoreFails, UndoResume, runVars, RegistryInv, ReservedJoins
<1>6. RestoringAlone'
  BY <1>0
     DEF RestoreFails, UndoResume, RegistryInv, TypeOK, RestoringAlone, Resident,
         LiveStates
<1>7. PreparingAlone'
  BY <1>0
     DEF RestoreFails, UndoResume, RegistryInv, PreparingAlone, RestoringAlone,
         Resident, LiveStates
<1>8. PendingOnWay'
  BY <1>0, JobFacts
     DEF RestoreFails, UndoResume, runVars, RegistryInv, TypeOK, PendingOnWay,
         Resident, LiveStates
<1>9. LatestAccepted'
  BY DEF RestoreFails, UndoResume, runVars, RegistryInv, LatestAccepted, Resident,
         LiveStates
<1>10. SingleSuccessor'
  BY DEF RestoreFails, UndoResume, runVars, RegistryInv, SingleSuccessor
<1>11. TokensCurrent'
  BY <1>0
     DEF RestoreFails, UndoResume, runVars, RegistryInv, RestoringAlone,
         TokensCurrent, Working, Resident
<1>12. ReleasedSilent'
  BY DEF RestoreFails, UndoResume, runVars, RegistryInv, ReleasedSilent, RunsOf
<1>13. PackageExclusive'
  BY DEF RestoreFails, UndoResume, runVars, RegistryInv, PackageExclusive
<1>14. RestoringBacked'
  BY <1>0
     DEF RestoreFails, UndoResume, RegistryInv, TypeOK, RestoringBacked, Resident,
         LiveStates
<1> QED
  BY <1>1, <1>2, <1>3, <1>4, <1>5, <1>6, <1>7, <1>8, <1>9, <1>10, <1>11, <1>12,
     <1>13, <1>14
     DEF RegistryInv

\* An accepted run is the agent's only one and has its package alone.
LEMMA AcceptInv ==
    ASSUME RegistryInv, NEW l \in Launches, NEW keep \in BOOLEAN, Accept(l, keep)
    PROVE  RegistryInv'
<1>0. TypeOK /\ Launched
  BY DEF RegistryInv
<1>1. TypeOK'
  BY <1>0, JobFacts
     DEF Accept, Prepared, InstallRun, Rivals, RegistryInv, TypeOK, States,
         LiveStates, Resident, Phases, MonitorPhases, Outcomes, Jobs, Kinds
<1>2. Launched'
  BY <1>0 DEF Accept, Prepared, TypeOK, Launched, Created, Replaces
<1>3. WorkInv'
  BY <1>0, JobFacts
     DEF Accept, Prepared, InstallRun, RegistryInv, TypeOK, WorkInv, PreparingAlone,
         Working, Resident, LiveStates, WorkIsCurrent, OneRunPerAgent
<1>4. CurrentWorks'
  BY <1>0 DEF Accept, InstallRun, RegistryInv, TypeOK, CurrentWorks, Resident, Working
<1>5. ReservedJoins'
  BY <1>0
     DEF Accept, Prepared, InstallRun, RegistryInv, ReservedJoins, PreparingAlone,
         Resident, LiveStates
<1>6. RestoringAlone'
  BY <1>0
     DEF Accept, Prepared, InstallRun, RegistryInv, RestoringAlone, PreparingAlone,
         Resident, LiveStates
<1>7. PreparingAlone'
  BY <1>0
     DEF Accept, Prepared, InstallRun, RegistryInv, TypeOK, PreparingAlone,
         Resident, LiveStates
<1>8. PendingOnWay'
  BY <1>0, JobFacts
     DEF Accept, Prepared, InstallRun, Rivals, RegistryInv, TypeOK, PendingOnWay,
         Resident, LiveStates
<1>9. LatestAccepted'
  BY <1>0, JobFacts
     DEF Accept, Prepared, InstallRun, RegistryInv, TypeOK, LatestAccepted,
         Launched, Resident
<1>10. SingleSuccessor'
  <2>1. job[l].kind = "resume" => pc[l] = "preparing"
    BY DEF Accept, Prepared, RegistryInv, Launched, Created
  <2>2. \A m \in Launches \ {l} : pc'[m] = pc[m] /\ mon'[m] = mon[m]
    BY DEF Accept, RegistryInv, TypeOK
  <2>3. UNCHANGED job
    BY DEF Accept
  <2> QED
    BY <2>1, <2>2, <2>3 DEF RegistryInv, SingleSuccessor
<1>11. TokensCurrent'
  BY <1>0, JobFacts
     DEF Accept, Prepared, InstallRun, RegistryInv, TypeOK, TokensCurrent,
         PreparingAlone, Working
<1>12. ReleasedSilent'
  BY DEF Accept, Prepared, InstallRun, Rivals, RegistryInv, ReleasedSilent, RunsOf
<1>13. PackageExclusive'
  BY <1>0
     DEF Accept, Rivals, RegistryInv, PackageExclusive, TokensCurrent, Resident,
         LiveStates
<1>14. RestoringBacked'
  BY <1>0, JobFacts
     DEF Accept, Prepared, InstallRun, Rivals, RegistryInv, TypeOK, RestoringBacked
<1> QED
  BY <1>1, <1>2, <1>3, <1>4, <1>5, <1>6, <1>7, <1>8, <1>9, <1>10, <1>11, <1>12,
     <1>13, <1>14
     DEF RegistryInv

\* A failed admission changes the state only of an agent that it prepared, and that
\* has no run.
LEMMA AdmissionRest ==
    ASSUME RegistryInv, NEW l \in Launches, NEW registered \in BOOLEAN,
           AdmissionFails(l, registered)
    PROVE  \/ UNCHANGED state
           \/ \E x \in {"idle", "closed", "suspended"} :
                 LET a == job[l].agent
                 IN /\ pc[l] = "preparing" /\ a \in Agents
                    /\ state[a] = "running" /\ current[a] = None /\ ~ reserved[a]
                    /\ state' = [state EXCEPT ![a] = x]
<1> DEFINE a == job[l].agent
<1>0. TypeOK /\ Launched
  BY DEF RegistryInv
<1>1. a \in Agents /\ pc[l] \in {"creating", "preparing"}
  BY <1>0, JobFacts DEF AdmissionFails
<1>2. CASE pc[l] = "creating"
  <2>1. Created(l) /\ job[l].kind # "resume"
    BY <1>2 DEF RegistryInv, Launched, Created
  <2> QED
    BY <2>1, <1>1 DEF AdmissionFails, RegistryInv, TypeOK
<1>3. CASE pc[l] = "preparing"
  <2>1. \/ state[a] = "released"
        \/ state[a] = "running" /\ current[a] = None /\ ~ reserved[a]
    BY <1>3 DEF RegistryInv, PreparingAlone
  <2>2. ~ Created(l)
    BY <1>3 DEF RegistryInv, Launched
  <2>3. CASE state[a] = "released"
    BY <1>1, <2>2, <2>3
       DEF AdmissionFails, UndoResume, RolledBack, Resident, LiveStates,
           RegistryInv, TypeOK
  <2>4. CASE state[a] = "running" /\ current[a] = None /\ ~ reserved[a]
    <3>1. RolledBack(l) \in {"idle", "closed"}
      BY <2>4 DEF RolledBack, Rest
    <3>2. \E x \in {"idle", "closed", "suspended"} : state' = [state EXCEPT ![a] = x]
      BY <2>2, <3>1 DEF AdmissionFails, UndoResume
    <3> QED
      BY <1>1, <1>3, <2>4, <3>2
  <2> QED
    BY <2>1, <2>3, <2>4
<1> QED
  BY <1>1, <1>2, <1>3

\* A failed admission brings the record to rest again.
LEMMA AdmissionFailsInv ==
    ASSUME RegistryInv, NEW l \in Launches, NEW registered \in BOOLEAN,
           AdmissionFails(l, registered)
    PROVE  RegistryInv'
<1>0. TypeOK /\ Launched
  BY DEF RegistryInv
<1>1. TypeOK'
  BY <1>0, JobFacts
     DEF AdmissionFails, UndoResume, RolledBack, Rest, TypeOK, States, LiveStates,
         Prepared, Rivals, runVars, RegistryInv, PendingOnWay, Phases
<1>2. Launched'
  BY DEF AdmissionFails, runVars, RegistryInv, Launched, Created, Replaces
<1>3. WorkInv'
  <2>1. UNCHANGED <<mon, job, current>>
    BY DEF AdmissionFails, runVars
  <2>2. \A m \in Launches : Working(m)' <=> Working(m)
    BY <2>1 DEF Working
  <2>3. ASSUME NEW m \in Launches, Working(m)
        PROVE  state'[job[m].agent] = state[job[m].agent]
    <3>1. job[m].agent \in Agents
      BY <1>0, <2>3, JobFacts DEF Working
    <3>2. state[job[m].agent] = "released" \/ current[job[m].agent] = m
      BY <2>3 DEF RegistryInv, WorkInv, WorkIsCurrent
    <3>3. m # None
      BY JobFacts, <1>0
    <3> QED
      BY SMTT(30), AdmissionRest, <3>1, <3>2, <3>3 DEF RegistryInv, TypeOK
  <2> QED
    BY <2>1, <2>2, <2>3 DEF RegistryInv, WorkInv, WorkIsCurrent, OneRunPerAgent
<1>4. CurrentWorks'
  <2>1. UNCHANGED <<mon, job, current>>
    BY DEF AdmissionFails, runVars
  <2>2. \A m : Working(m)' <=> Working(m)
    BY <2>1 DEF Working
  <2>3. \A b \in Agents : current[b] # None => state'[b] = state[b]
    BY SMTT(30), AdmissionRest DEF RegistryInv, TypeOK
  <2> QED
    BY <2>1, <2>2, <2>3 DEF RegistryInv, CurrentWorks, Resident
<1>5. ReservedJoins'
  BY <1>0
     DEF AdmissionFails, UndoResume, RolledBack, RegistryInv, TypeOK, ReservedJoins
<1>6. RestoringAlone'
  BY <1>0, JobFacts
     DEF AdmissionFails, UndoResume, RolledBack, RegistryInv, TypeOK,
         RestoringAlone, PreparingAlone, PendingOnWay, Resident, LiveStates
<1>7. PreparingAlone'
  <2>1. \A m \in Launches : pc'[m] = "preparing" => pc[m] = "preparing" /\ m # l
    BY DEF AdmissionFails, RegistryInv, TypeOK
  <2>2. UNCHANGED <<job, current, reserved>>
    BY DEF AdmissionFails
  <2>3. ASSUME NEW m \in Launches, pc'[m] = "preparing"
        PROVE  state'[job[m].agent] = state[job[m].agent]
    <3>1. job[m].agent \in Agents /\ pc[m] = "preparing" /\ m # l
      BY <1>0, <2>1, <2>3, JobFacts
    <3>2. CASE job[m].agent = job[l].agent
      BY AdmissionRest, <3>1, <3>2 DEF RegistryInv, PreparingAlone
    <3>3. CASE job[m].agent # job[l].agent
      BY SMTT(30), AdmissionRest, <3>1, <3>3 DEF RegistryInv, TypeOK
    <3> QED
      BY <3>2, <3>3
  <2> QED
    BY <2>1, <2>2, <2>3 DEF RegistryInv, PreparingAlone
<1>8. PendingOnWay'
  BY <1>0
     DEF AdmissionFails, UndoResume, RolledBack, Rest, RegistryInv, TypeOK,
         PendingOnWay, Resident, LiveStates
<1>9. LatestAccepted'
  BY <1>0
     DEF AdmissionFails, UndoResume, RolledBack, runVars, RegistryInv, TypeOK,
         LatestAccepted, Resident, LiveStates
<1>10. SingleSuccessor'
  BY DEF AdmissionFails, Prepared, UndoResume, RolledBack, Rest, Rivals, runVars,
         RegistryInv, SingleSuccessor
<1>11. TokensCurrent'
  <2>1. tokens' \subseteq tokens
    BY DEF AdmissionFails
  <2>2. UNCHANGED <<job, current, mon, package>>
    BY DEF AdmissionFails, runVars
  <2>3. ASSUME NEW m \in tokens PROVE state'[job[m].agent] = state[job[m].agent]
    <3>1. m \in Launches /\ job[m].agent \in Agents /\ current[job[m].agent] = m
      BY <1>0, JobFacts DEF RegistryInv, TypeOK, TokensCurrent, Working
    <3>2. m # None
      BY <1>0, <3>1, JobFacts
    <3> QED
      BY AdmissionRest, <3>1, <3>2 DEF RegistryInv, TypeOK
  <2> QED
    BY <2>1, <2>2, <2>3 DEF RegistryInv, TokensCurrent, Working
<1>12. ReleasedSilent'
  BY <1>0
     DEF AdmissionFails, UndoResume, RolledBack, Rest, RegistryInv, TypeOK,
         ReleasedSilent, RunsOf
<1>13. PackageExclusive'
  BY DEF AdmissionFails, Prepared, UndoResume, RolledBack, Rest, Rivals, runVars,
         RegistryInv, PackageExclusive
<1>14. RestoringBacked'
  BY <1>0
     DEF AdmissionFails, UndoResume, RolledBack, Rest, RegistryInv, TypeOK,
         RestoringBacked
<1> QED
  BY <1>1, <1>2, <1>3, <1>4, <1>5, <1>6, <1>7, <1>8, <1>9, <1>10, <1>11, <1>12,
     <1>13, <1>14
     DEF RegistryInv

\* The end of an acknowledged launch clears no reservation: it holds none.
LEMMA AckRest ==
    ASSUME RegistryInv, NEW l \in Launches, AckEnds(l)
    PROVE  /\ pc[l] = "ack" /\ UNCHANGED <<state, reserved>>
           /\ \A b \in Agents : reserved[b] => owner'[b] = owner[b]
           /\ owner' \in [Agents -> Launches \cup {None}]
           /\ \A m \in Launches : pc'[m] = IF m = l THEN "done" ELSE pc[m]
           /\ UNCHANGED <<current, latest, pending, superseded, resumes, package, job, mon,
                          tokens, results>>
<1>0. TypeOK /\ Launched
  BY DEF RegistryInv
<1>1. job[l].agent \in Agents /\ pc[l] = "ack"
  BY <1>0, JobFacts DEF AckEnds
<1>2. \A b \in Agents : reserved[b] => owner[b] # l
  BY <1>1 DEF RegistryInv, ReservedJoins
<1>3. CASE EndHandoff(l, transferred)
  <2>1. ~ (owner[job[l].agent] = l /\ reserved[job[l].agent])
    BY <1>1, <1>2
  <2>2. state' = state /\ reserved' = reserved
    BY <1>1, <1>3, <2>1 DEF EndHandoff, RegistryInv, TypeOK
  <2>3. owner' = [owner EXCEPT ![job[l].agent] = IF owner[job[l].agent] = l THEN None
                                                 ELSE owner[job[l].agent]]
    BY <1>3 DEF EndHandoff
  <2> QED
    BY <1>1, <1>2, <2>2, <2>3 DEF AckEnds, runVars, RegistryInv, TypeOK
<1>4. CASE UNCHANGED <<state, reserved, owner>>
  BY <1>1, <1>4 DEF AckEnds, runVars, RegistryInv, TypeOK
<1> QED
  BY <1>3, <1>4 DEF AckEnds, DropSlot

\* The end of an acknowledged launch clears no other reservation.
LEMMA AckEndsInv ==
    ASSUME RegistryInv, NEW l \in Launches, AckEnds(l)
    PROVE  RegistryInv'
<1>0. TypeOK /\ Launched
  BY DEF RegistryInv
<1>1. TypeOK'
  <2>1. state' \in [Agents -> States]
    BY <1>0 DEF AckEnds, EndHandoff, DropSlot, Rest, TypeOK, States, LiveStates
  <2>2. /\ current' \in [Agents -> Launches \cup {None}]
        /\ latest' \in [Agents -> Launches \cup {None}]
        /\ workSlot' \in [Agents -> Launches \cup {None}]
    BY <1>0, JobFacts
       DEF AckEnds, EndHandoff, DropSlot, Rest, runVars, RegistryInv, TypeOK
  <2>3. retained' \in [Agents -> BOOLEAN] /\ reserved' \in [Agents -> BOOLEAN]
        /\ superseded' \in [Agents -> BOOLEAN]
    BY ZenonT(60), <1>0, JobFacts
       DEF AckEnds, EndHandoff, DropSlot, Rest, runVars, RegistryInv, TypeOK
  <2>4. /\ owner' \in [Agents -> Launches \cup {None}]
        /\ pending' \in [Agents -> Launches \cup {None}]
        /\ resumes' \in [Agents -> Nat]
        /\ package' \in [Agents -> Packages \cup {None}]
    BY <1>0, JobFacts
       DEF AckEnds, EndHandoff, DropSlot, Rest, runVars, RegistryInv, TypeOK
  <2>5. pc' \in [Launches -> Phases] /\ mon' \in [Launches -> MonitorPhases]
        /\ outcome' \in [Launches -> Outcomes]
    BY <1>0 DEF AckEnds, runVars, TypeOK, Phases
  <2>6. job' \in [Launches -> Jobs]
    BY <1>0, JobFacts
       DEF AckEnds, EndHandoff, DropSlot, Rest, runVars, RegistryInv, TypeOK, Jobs,
           Kinds
  <2>7. /\ slots' \subseteq Launches
        /\ transferred' \subseteq Launches
        /\ lingering' \subseteq Launches
        /\ tokens' \subseteq Launches
        /\ results' \subseteq Launches
        /\ unwinds' \subseteq Agents \X Launches
    BY <1>0, JobFacts
       DEF AckEnds, EndHandoff, DropSlot, Rest, runVars, RegistryInv, TypeOK,
           LatestAccepted
  <2> QED
    BY <2>1, <2>2, <2>3, <2>4, <2>5, <2>6, <2>7 DEF TypeOK
<1>2. Launched'
  BY AckRest DEF RegistryInv, Launched, Created, Replaces, TypeOK
<1>3. WorkInv'
  BY AckRest DEF RegistryInv, WorkInv, WorkIsCurrent, OneRunPerAgent, Working, TypeOK
<1>4. CurrentWorks'
  BY AckRest DEF RegistryInv, CurrentWorks, Resident, Working, TypeOK
<1>5. ReservedJoins'
  BY AckRest DEF RegistryInv, ReservedJoins, TypeOK
<1>6. RestoringAlone'
  BY AckRest DEF RegistryInv, RestoringAlone, TypeOK
<1>7. PreparingAlone'
  BY AckRest DEF RegistryInv, PreparingAlone, TypeOK
<1>8. PendingOnWay'
  BY AckRest DEF RegistryInv, TypeOK, PendingOnWay, Resident
<1>9. LatestAccepted'
  BY AckRest DEF RegistryInv, LatestAccepted, Resident, TypeOK
<1>10. SingleSuccessor'
  BY AckRest DEF RegistryInv, SingleSuccessor, TypeOK
<1>11. TokensCurrent'
  BY AckRest DEF RegistryInv, TokensCurrent, Working, TypeOK
<1>12. ReleasedSilent'
  BY AckRest DEF RegistryInv, ReleasedSilent, RunsOf, TypeOK
<1>13. PackageExclusive'
  BY AckRest DEF RegistryInv, PackageExclusive, TypeOK
<1>14. RestoringBacked'
  BY AckRest DEF RegistryInv, TypeOK, RestoringBacked
<1> QED
  BY <1>1, <1>2, <1>3, <1>4, <1>5, <1>6, <1>7, <1>8, <1>9, <1>10, <1>11, <1>12,
     <1>13, <1>14
     DEF RegistryInv

\* A run whose turn ended still works.
LEMMA TurnEndsInv ==
    ASSUME RegistryInv, NEW l \in Launches, TurnEnds(l)
    PROVE  RegistryInv'
<1>0. TypeOK /\ Launched
  BY DEF RegistryInv
<1>1. TypeOK'
  BY <1>0, JobFacts
     DEF TurnEnds, records, launchVars, RegistryInv, TypeOK, States, LiveStates,
         Resident, Phases, MonitorPhases, Outcomes, Jobs, Kinds
<1>2. Launched'
  BY DEF TurnEnds, records, launchVars, RegistryInv, Launched, Created, Replaces,
         NoJob
<1>3. WorkInv'
  BY DEF TurnEnds, records, launchVars, RegistryInv, WorkInv, WorkIsCurrent,
         OneRunPerAgent, Working
<1>4. CurrentWorks'
  BY DEF TurnEnds, records, launchVars, RegistryInv, CurrentWorks, Resident,
         LiveStates, Working
<1>5. ReservedJoins'
  BY DEF TurnEnds, records, launchVars, RegistryInv, ReservedJoins
<1>6. RestoringAlone'
  BY DEF TurnEnds, records, launchVars, RegistryInv, RestoringAlone
<1>7. PreparingAlone'
  BY DEF TurnEnds, records, launchVars, RegistryInv, PreparingAlone
<1>8. PendingOnWay'
  BY DEF TurnEnds, records, launchVars, RegistryInv, PendingOnWay, Resident,
         LiveStates
<1>9. LatestAccepted'
  BY DEF TurnEnds, records, launchVars, RegistryInv, LatestAccepted, Resident,
         LiveStates
<1>10. SingleSuccessor'
  BY DEF TurnEnds, records, launchVars, RegistryInv, SingleSuccessor
<1>11. TokensCurrent'
  BY DEF TurnEnds, records, launchVars, RegistryInv, TokensCurrent, Working
<1>12. ReleasedSilent'
  BY DEF TurnEnds, records, launchVars, RegistryInv, ReleasedSilent, RunsOf
<1>13. PackageExclusive'
  BY DEF TurnEnds, records, launchVars, RegistryInv, PackageExclusive
<1>14. RestoringBacked'
  BY DEF TurnEnds, records, launchVars, RegistryInv, RestoringBacked
<1> QED
  BY <1>1, <1>2, <1>3, <1>4, <1>5, <1>6, <1>7, <1>8, <1>9, <1>10, <1>11, <1>12,
     <1>13, <1>14
     DEF RegistryInv

\* So does one that is audited.
LEMMA ObserveInv ==
    ASSUME RegistryInv, NEW l \in Launches, NEW how \in {"final", "recoverable"},
           Observe(l, how)
    PROVE  RegistryInv'
<1>0. TypeOK /\ Launched
  BY DEF RegistryInv
<1>1. TypeOK'
  BY <1>0, JobFacts
     DEF Observe, records, launchVars, RegistryInv, TypeOK, States, LiveStates,
         Resident, Phases, MonitorPhases, Outcomes, Jobs, Kinds
<1>2. Launched'
  BY DEF Observe, records, launchVars, RegistryInv, Launched, Created, Replaces, NoJob
<1>3. WorkInv'
  BY DEF Observe, records, launchVars, RegistryInv, WorkInv, WorkIsCurrent,
         OneRunPerAgent, Working
<1>4. CurrentWorks'
  BY DEF Observe, records, launchVars, RegistryInv, CurrentWorks, Resident,
         LiveStates, Working
<1>5. ReservedJoins'
  BY DEF Observe, records, launchVars, RegistryInv, ReservedJoins
<1>6. RestoringAlone'
  BY DEF Observe, records, launchVars, RegistryInv, RestoringAlone
<1>7. PreparingAlone'
  BY DEF Observe, records, launchVars, RegistryInv, PreparingAlone
<1>8. PendingOnWay'
  BY DEF Observe, records, launchVars, RegistryInv, PendingOnWay, Resident, LiveStates
<1>9. LatestAccepted'
  BY DEF Observe, records, launchVars, RegistryInv, LatestAccepted, Resident,
         LiveStates
<1>10. SingleSuccessor'
  BY DEF Observe, records, launchVars, RegistryInv, SingleSuccessor
<1>11. TokensCurrent'
  BY DEF Observe, records, launchVars, RegistryInv, TokensCurrent, Working
<1>12. ReleasedSilent'
  BY DEF Observe, records, launchVars, RegistryInv, ReleasedSilent, RunsOf
<1>13. PackageExclusive'
  BY DEF Observe, records, launchVars, RegistryInv, PackageExclusive
<1>14. RestoringBacked'
  BY DEF Observe, records, launchVars, RegistryInv, RestoringBacked
<1> QED
  BY <1>1, <1>2, <1>3, <1>4, <1>5, <1>6, <1>7, <1>8, <1>9, <1>10, <1>11, <1>12,
     <1>13, <1>14
     DEF RegistryInv

\* A run that is published is its agent's current run no more.
LEMMA PublishInv ==
    ASSUME RegistryInv, NEW l \in Launches, NEW rejected \in BOOLEAN,
           NEW lingers \in BOOLEAN, Publish(l, rejected, lingers)
    PROVE  RegistryInv'
<1>0. TypeOK /\ Launched
  BY DEF RegistryInv
<1>1. TypeOK'
  BY <1>0, JobFacts
     DEF Publish, FreesSlot, launchVars, RegistryInv, TypeOK, States, LiveStates,
         Resident, Phases, MonitorPhases, Outcomes, Jobs, Kinds
<1>2. Launched'
  BY DEF Publish, FreesSlot, launchVars, RegistryInv, Launched, Created, Replaces,
         NoJob
<1>3. WorkInv'
  BY <1>0, JobFacts
     DEF Publish, FreesSlot, launchVars, RegistryInv, TypeOK, WorkInv,
         WorkIsCurrent, OneRunPerAgent, Working
<1>4. CurrentWorks'
  BY <1>0, JobFacts
     DEF Publish, FreesSlot, launchVars, RegistryInv, TypeOK, CurrentWorks,
         Resident, LiveStates, Working
<1>5. ReservedJoins'
  BY DEF Publish, FreesSlot, launchVars, RegistryInv, ReservedJoins
<1>6. RestoringAlone'
  BY <1>0, JobFacts DEF Publish, launchVars, RegistryInv, CurrentWorks, RestoringAlone
<1>7. PreparingAlone'
  BY <1>0, JobFacts
     DEF Publish, launchVars, RegistryInv, PreparingAlone, Resident, LiveStates
<1>8. PendingOnWay'
  BY DEF Publish, FreesSlot, launchVars, RegistryInv, PendingOnWay, Resident,
         LiveStates
<1>9. LatestAccepted'
  BY DEF Publish, FreesSlot, launchVars, RegistryInv, LatestAccepted, Resident,
         LiveStates
<1>10. SingleSuccessor'
  BY DEF Publish, FreesSlot, launchVars, RegistryInv, SingleSuccessor
<1>11. TokensCurrent'
  BY DEF Publish, FreesSlot, launchVars, RegistryInv, TokensCurrent, Working
<1>12. ReleasedSilent'
  BY <1>0, JobFacts
     DEF Publish, FreesSlot, launchVars, RegistryInv, TypeOK, ReleasedSilent,
         TokensCurrent, Launched, RunsOf
<1>13. PackageExclusive'
  BY DEF Publish, FreesSlot, launchVars, RegistryInv, PackageExclusive
<1>14. RestoringBacked'
  BY DEF Publish, FreesSlot, launchVars, RegistryInv, RestoringBacked
<1> QED
  BY <1>1, <1>2, <1>3, <1>4, <1>5, <1>6, <1>7, <1>8, <1>9, <1>10, <1>11, <1>12,
     <1>13, <1>14
     DEF RegistryInv

\* A settled record has no run.
LEMMA SettleInv ==
    ASSUME RegistryInv, NEW l \in Launches, NEW victims \in SUBSET Agents,
           NEW suspends \in BOOLEAN, Settle(l, victims, suspends)
    PROVE  RegistryInv'
<1>0. TypeOK /\ Launched
  BY DEF RegistryInv
<1>1. TypeOK'
  BY <1>0
     DEF Settle, Expired, Rest, TypeOK, States, LiveStates, launchVars,
         MonitorPhases
<1>2. Launched'
  BY DEF Settle, launchVars, RegistryInv, Launched, Created, Replaces
<1>3. WorkInv'
  BY <1>0, JobFacts
     DEF Settle, RoomMade, Expired, InTransition, Suspended, launchVars,
         RegistryInv, WorkInv, WorkIsCurrent, OneRunPerAgent, Working
<1>4. CurrentWorks'
  BY DEF Settle, Expired, InTransition, launchVars, RegistryInv, CurrentWorks,
         Resident, LiveStates, Working
<1>5. ReservedJoins'
  BY DEF Settle, Expired, InTransition, launchVars, RegistryInv, ReservedJoins
<1>6. RestoringAlone'
  BY <1>0, JobFacts
     DEF Settle, RoomMade, Expired, InTransition, Suspended, launchVars,
         RegistryInv, RestoringAlone
<1>7. PreparingAlone'
  BY <1>0, JobFacts
     DEF Settle, RoomMade, Expired, InTransition, Suspended, launchVars,
         RegistryInv, PreparingAlone
<1>8. PendingOnWay'
  BY DEF Settle, Expired, InTransition, Rest, launchVars, RegistryInv, PendingOnWay,
         Resident, LiveStates
<1>9. LatestAccepted'
  BY DEF Settle, Expired, InTransition, launchVars, RegistryInv, LatestAccepted,
         Resident, LiveStates
<1>10. SingleSuccessor'
  BY DEF Settle, launchVars, RegistryInv, SingleSuccessor
<1>11. TokensCurrent'
  BY <1>0, JobFacts
     DEF Settle, RoomMade, Expired, InTransition, Suspended, launchVars,
         RegistryInv, TypeOK, TokensCurrent, Working
<1>12. ReleasedSilent'
  BY DEF Settle, Expired, Rest, launchVars, RegistryInv, ReleasedSilent, RunsOf
<1>13. PackageExclusive'
  BY DEF Settle, launchVars, RegistryInv, PackageExclusive
<1>14. RestoringBacked'
  BY <1>0 DEF Settle, Expired, Rest, launchVars, RegistryInv, TypeOK, RestoringBacked
<1> QED
  BY <1>1, <1>2, <1>3, <1>4, <1>5, <1>6, <1>7, <1>8, <1>9, <1>10, <1>11, <1>12,
     <1>13, <1>14
     DEF RegistryInv

\* The last update changes no record.
LEMMA MonitorDoneInv ==
    ASSUME RegistryInv, NEW l \in Launches, MonitorDone(l)
    PROVE  RegistryInv'
<1>0. TypeOK /\ Launched
  BY DEF RegistryInv
<1>1. TypeOK'
  BY <1>0, JobFacts
     DEF MonitorDone, records, launchVars, RegistryInv, TypeOK, States, LiveStates,
         Resident, Phases, MonitorPhases, Outcomes, Jobs, Kinds
<1>2. Launched'
  BY DEF MonitorDone, records, launchVars, RegistryInv, Launched, Created, Replaces,
         NoJob
<1>3. WorkInv'
  BY DEF MonitorDone, records, launchVars, RegistryInv, WorkInv, WorkIsCurrent,
         OneRunPerAgent, Working
<1>4. CurrentWorks'
  BY DEF MonitorDone, records, launchVars, RegistryInv, CurrentWorks, Resident,
         LiveStates, Working
<1>5. ReservedJoins'
  BY DEF MonitorDone, records, launchVars, RegistryInv, ReservedJoins
<1>6. RestoringAlone'
  BY DEF MonitorDone, records, launchVars, RegistryInv, RestoringAlone
<1>7. PreparingAlone'
  BY DEF MonitorDone, records, launchVars, RegistryInv, PreparingAlone
<1>8. PendingOnWay'
  BY DEF MonitorDone, records, launchVars, RegistryInv, PendingOnWay, Resident,
         LiveStates
<1>9. LatestAccepted'
  BY DEF MonitorDone, records, launchVars, RegistryInv, LatestAccepted, Resident,
         LiveStates
<1>10. SingleSuccessor'
  BY DEF MonitorDone, records, launchVars, RegistryInv, SingleSuccessor
<1>11. TokensCurrent'
  BY DEF MonitorDone, records, launchVars, RegistryInv, TokensCurrent, Working
<1>12. ReleasedSilent'
  BY DEF MonitorDone, records, launchVars, RegistryInv, ReleasedSilent, RunsOf
<1>13. PackageExclusive'
  BY DEF MonitorDone, records, launchVars, RegistryInv, PackageExclusive
<1>14. RestoringBacked'
  BY DEF MonitorDone, records, launchVars, RegistryInv, RestoringBacked
<1> QED
  BY <1>1, <1>2, <1>3, <1>4, <1>5, <1>6, <1>7, <1>8, <1>9, <1>10, <1>11, <1>12,
     <1>13, <1>14
     DEF RegistryInv

\* The teardown ends only runs of released agents.
LEMMA MonitorCancelledInv ==
    ASSUME RegistryInv, NEW l \in Launches, NEW lingers \in BOOLEAN,
           MonitorCancelled(l, lingers)
    PROVE  RegistryInv'
<1>0. TypeOK /\ Launched
  BY DEF RegistryInv
<1>1. TypeOK'
  BY <1>0, JobFacts
     DEF MonitorCancelled, FreesSlot, records, launchVars, RegistryInv, TypeOK,
         States, LiveStates, Resident, Phases, MonitorPhases, Outcomes, Jobs, Kinds
<1>2. Launched'
  BY DEF MonitorCancelled, FreesSlot, records, launchVars, RegistryInv, Launched,
         Created, Replaces, NoJob
<1>3. WorkInv'
  BY DEF MonitorCancelled, FreesSlot, records, launchVars, RegistryInv, WorkInv,
         WorkIsCurrent, OneRunPerAgent, Working
<1>4. CurrentWorks'
  BY DEF MonitorCancelled, FreesSlot, records, launchVars, RegistryInv,
         CurrentWorks, Resident, LiveStates, Working
<1>5. ReservedJoins'
  BY DEF MonitorCancelled, FreesSlot, records, launchVars, RegistryInv, ReservedJoins
<1>6. RestoringAlone'
  BY DEF MonitorCancelled, FreesSlot, records, launchVars, RegistryInv, RestoringAlone
<1>7. PreparingAlone'
  BY DEF MonitorCancelled, FreesSlot, records, launchVars, RegistryInv, PreparingAlone
<1>8. PendingOnWay'
  BY DEF MonitorCancelled, FreesSlot, records, launchVars, RegistryInv,
         PendingOnWay, Resident, LiveStates
<1>9. LatestAccepted'
  BY DEF MonitorCancelled, FreesSlot, records, launchVars, RegistryInv,
         LatestAccepted, Resident, LiveStates
<1>10. SingleSuccessor'
  BY DEF MonitorCancelled, FreesSlot, records, launchVars, RegistryInv,
         SingleSuccessor
<1>11. TokensCurrent'
  BY DEF MonitorCancelled, FreesSlot, records, launchVars, RegistryInv,
         TokensCurrent, Working
<1>12. ReleasedSilent'
  BY DEF MonitorCancelled, FreesSlot, records, launchVars, RegistryInv,
         ReleasedSilent, RunsOf
<1>13. PackageExclusive'
  BY DEF MonitorCancelled, FreesSlot, records, launchVars, RegistryInv,
         PackageExclusive
<1>14. RestoringBacked'
  BY DEF MonitorCancelled, FreesSlot, records, launchVars, RegistryInv,
         RestoringBacked
<1> QED
  BY <1>1, <1>2, <1>3, <1>4, <1>5, <1>6, <1>7, <1>8, <1>9, <1>10, <1>11, <1>12,
     <1>13, <1>14
     DEF RegistryInv

\* A done callback changes no record.
LEMMA LingerEndsInv ==
    ASSUME RegistryInv, NEW s \in Launches, LingerEnds(s)
    PROVE  RegistryInv'
<1>0. TypeOK /\ Launched
  BY DEF RegistryInv
<1>1. TypeOK'
  BY <1>0, JobFacts
     DEF LingerEnds, records, launchVars, runVars, RegistryInv, TypeOK, States,
         LiveStates, Resident, Phases, MonitorPhases, Outcomes, Jobs, Kinds
<1>2. Launched'
  BY DEF LingerEnds, records, launchVars, runVars, RegistryInv, Launched, Created,
         Replaces, NoJob
<1>3. WorkInv'
  BY DEF LingerEnds, records, launchVars, runVars, RegistryInv, WorkInv,
         WorkIsCurrent, OneRunPerAgent, Working
<1>4. CurrentWorks'
  BY DEF LingerEnds, records, launchVars, runVars, RegistryInv, CurrentWorks,
         Resident, LiveStates, Working
<1>5. ReservedJoins'
  BY DEF LingerEnds, records, launchVars, runVars, RegistryInv, ReservedJoins
<1>6. RestoringAlone'
  BY DEF LingerEnds, records, launchVars, runVars, RegistryInv, RestoringAlone
<1>7. PreparingAlone'
  BY DEF LingerEnds, records, launchVars, runVars, RegistryInv, PreparingAlone
<1>8. PendingOnWay'
  BY DEF LingerEnds, records, launchVars, runVars, RegistryInv, PendingOnWay,
         Resident, LiveStates
<1>9. LatestAccepted'
  BY DEF LingerEnds, records, launchVars, runVars, RegistryInv, LatestAccepted,
         Resident, LiveStates
<1>10. SingleSuccessor'
  BY DEF LingerEnds, records, launchVars, runVars, RegistryInv, SingleSuccessor
<1>11. TokensCurrent'
  BY DEF LingerEnds, records, launchVars, runVars, RegistryInv, TokensCurrent, Working
<1>12. ReleasedSilent'
  BY DEF LingerEnds, records, launchVars, runVars, RegistryInv, ReleasedSilent, RunsOf
<1>13. PackageExclusive'
  BY DEF LingerEnds, records, launchVars, runVars, RegistryInv, PackageExclusive
<1>14. RestoringBacked'
  BY DEF LingerEnds, records, launchVars, runVars, RegistryInv, RestoringBacked
<1> QED
  BY <1>1, <1>2, <1>3, <1>4, <1>5, <1>6, <1>7, <1>8, <1>9, <1>10, <1>11, <1>12,
     <1>13, <1>14
     DEF RegistryInv

\* An unwind closes only a record that waits for it.
LEMMA UnwindInv ==
    ASSUME RegistryInv, NEW a \in Agents, NEW r \in Launches, Unwind(a, r)
    PROVE  RegistryInv'
<1>0. TypeOK /\ Launched
  BY DEF RegistryInv
<1>1. TypeOK'
  BY <1>0, JobFacts
     DEF Unwind, Rest, TypeOK, States, LiveStates, InTransition, launchVars,
         runVars, RegistryInv, Jobs, Kinds
<1>2. Launched'
  BY DEF Unwind, launchVars, runVars, RegistryInv, Launched, Created, Replaces
<1>3. WorkInv'
  BY DEF Unwind, InTransition, launchVars, runVars, RegistryInv, WorkInv,
         WorkIsCurrent, OneRunPerAgent, Working
<1>4. CurrentWorks'
  BY DEF Unwind, launchVars, runVars, RegistryInv, CurrentWorks, Resident, Working
<1>5. ReservedJoins'
  BY DEF Unwind, InTransition, Rest, launchVars, runVars, RegistryInv, ReservedJoins
<1>6. RestoringAlone'
  BY DEF Unwind, InTransition, Rest, launchVars, runVars, RegistryInv, RestoringAlone
<1>7. PreparingAlone'
  BY DEF Unwind, InTransition, Rest, launchVars, runVars, RegistryInv, PreparingAlone
<1>8. PendingOnWay'
  BY DEF Unwind, InTransition, Rest, launchVars, runVars, RegistryInv, PendingOnWay,
         Resident, LiveStates
<1>9. LatestAccepted'
  BY DEF Unwind, InTransition, Rest, launchVars, runVars, RegistryInv,
         LatestAccepted, Resident, LiveStates
<1>10. SingleSuccessor'
  BY DEF Unwind, InTransition, Rest, launchVars, runVars, RegistryInv, SingleSuccessor
<1>11. TokensCurrent'
  BY DEF Unwind, InTransition, Rest, launchVars, runVars, RegistryInv,
         TokensCurrent, Working
<1>12. ReleasedSilent'
  BY DEF Unwind, InTransition, Rest, launchVars, runVars, RegistryInv,
         ReleasedSilent, RunsOf
<1>13. PackageExclusive'
  BY DEF Unwind, InTransition, Rest, launchVars, runVars, RegistryInv,
         PackageExclusive
<1>14. RestoringBacked'
  BY DEF Unwind, InTransition, Rest, launchVars, runVars, RegistryInv, RestoringBacked
<1> QED
  BY <1>1, <1>2, <1>3, <1>4, <1>5, <1>6, <1>7, <1>8, <1>9, <1>10, <1>11, <1>12,
     <1>13, <1>14
     DEF RegistryInv

\* A run that is cancelled works until it ends.
LEMMA CancelInv ==
    ASSUME RegistryInv, NEW a \in Agents, Cancel(a)
    PROVE  RegistryInv'
<1>0. TypeOK /\ Launched
  BY DEF RegistryInv
<1>1. TypeOK'
  BY <1>0, JobFacts
     DEF Cancel, records, launchVars, RegistryInv, TypeOK, States, LiveStates,
         Resident, Phases, MonitorPhases, Outcomes, Jobs, Kinds
<1>2. Launched'
  BY DEF Cancel, records, launchVars, RegistryInv, Launched, Created, Replaces, NoJob
<1>3. WorkInv'
  BY DEF Cancel, records, launchVars, RegistryInv, WorkInv, WorkIsCurrent,
         OneRunPerAgent, Working
<1>4. CurrentWorks'
  BY DEF Cancel, records, launchVars, RegistryInv, CurrentWorks, Resident,
         LiveStates, Working
<1>5. ReservedJoins'
  BY DEF Cancel, records, launchVars, RegistryInv, ReservedJoins
<1>6. RestoringAlone'
  BY DEF Cancel, records, launchVars, RegistryInv, RestoringAlone
<1>7. PreparingAlone'
  BY DEF Cancel, records, launchVars, RegistryInv, PreparingAlone
<1>8. PendingOnWay'
  BY DEF Cancel, records, launchVars, RegistryInv, PendingOnWay, Resident, LiveStates
<1>9. LatestAccepted'
  BY DEF Cancel, records, launchVars, RegistryInv, LatestAccepted, Resident,
         LiveStates
<1>10. SingleSuccessor'
  BY DEF Cancel, records, launchVars, RegistryInv, SingleSuccessor
<1>11. TokensCurrent'
  BY DEF Cancel, records, launchVars, RegistryInv, TokensCurrent, Working
<1>12. ReleasedSilent'
  BY DEF Cancel, records, launchVars, RegistryInv, ReleasedSilent, RunsOf
<1>13. PackageExclusive'
  BY DEF Cancel, records, launchVars, RegistryInv, PackageExclusive
<1>14. RestoringBacked'
  BY DEF Cancel, records, launchVars, RegistryInv, RestoringBacked
<1> QED
  BY <1>1, <1>2, <1>3, <1>4, <1>5, <1>6, <1>7, <1>8, <1>9, <1>10, <1>11, <1>12,
     <1>13, <1>14
     DEF RegistryInv

\* An idle record is evicted.
LEMMA EvictInv ==
    ASSUME RegistryInv, NEW a \in Agents, Evict(a)
    PROVE  RegistryInv'
<1>0. TypeOK /\ Launched
  BY DEF RegistryInv
<1>1. TypeOK'
  BY <1>0, JobFacts
     DEF Evict, launchVars, runVars, RegistryInv, TypeOK, States, LiveStates,
         Resident, Phases, MonitorPhases, Outcomes, Jobs, Kinds
<1>2. Launched'
  BY DEF Evict, launchVars, runVars, RegistryInv, Launched, Created, Replaces, NoJob
<1>3. WorkInv'
  BY DEF Evict, launchVars, runVars, RegistryInv, WorkInv, WorkIsCurrent,
         OneRunPerAgent, Working
<1>4. CurrentWorks'
  BY DEF Evict, launchVars, runVars, RegistryInv, CurrentWorks, Resident,
         LiveStates, Working
<1>5. ReservedJoins'
  BY DEF Evict, launchVars, runVars, RegistryInv, ReservedJoins
<1>6. RestoringAlone'
  BY DEF Evict, launchVars, runVars, RegistryInv, RestoringAlone
<1>7. PreparingAlone'
  BY DEF Evict, launchVars, runVars, RegistryInv, PreparingAlone
<1>8. PendingOnWay'
  BY DEF Evict, launchVars, runVars, RegistryInv, PendingOnWay, Resident, LiveStates
<1>9. LatestAccepted'
  BY DEF Evict, launchVars, runVars, RegistryInv, LatestAccepted, Resident, LiveStates
<1>10. SingleSuccessor'
  BY DEF Evict, launchVars, runVars, RegistryInv, SingleSuccessor
<1>11. TokensCurrent'
  BY DEF Evict, launchVars, runVars, RegistryInv, TokensCurrent, Working
<1>12. ReleasedSilent'
  BY DEF Evict, launchVars, runVars, RegistryInv, ReleasedSilent, RunsOf
<1>13. PackageExclusive'
  BY DEF Evict, launchVars, runVars, RegistryInv, PackageExclusive
<1>14. RestoringBacked'
  BY DEF Evict, launchVars, runVars, RegistryInv, RestoringBacked
<1> QED
  BY <1>1, <1>2, <1>3, <1>4, <1>5, <1>6, <1>7, <1>8, <1>9, <1>10, <1>11, <1>12,
     <1>13, <1>14
     DEF RegistryInv

\* A suspended record expires.
LEMMA ExpireInv ==
    ASSUME RegistryInv, NEW a \in Agents, Expire(a)
    PROVE  RegistryInv'
<1>0. TypeOK /\ Launched
  BY DEF RegistryInv
<1>1. TypeOK'
  BY <1>0, JobFacts
     DEF Expire, Expired, launchVars, runVars, RegistryInv, TypeOK, States,
         LiveStates, Resident, Phases, MonitorPhases, Outcomes, Jobs, Kinds
<1>2. Launched'
  BY DEF Expire, Expired, launchVars, runVars, RegistryInv, Launched, Created,
         Replaces, NoJob
<1>3. WorkInv'
  BY <1>0, JobFacts
     DEF Expire, Expired, launchVars, runVars, RegistryInv, WorkInv, WorkIsCurrent,
         OneRunPerAgent, Working
<1>4. CurrentWorks'
  BY DEF Expire, Expired, launchVars, runVars, RegistryInv, CurrentWorks, Resident,
         LiveStates, Working
<1>5. ReservedJoins'
  BY DEF Expire, Expired, launchVars, runVars, RegistryInv, ReservedJoins
<1>6. RestoringAlone'
  BY <1>0, JobFacts
     DEF Expire, Expired, launchVars, runVars, RegistryInv, TypeOK, RestoringAlone
<1>7. PreparingAlone'
  BY <1>0, JobFacts
     DEF Expire, Expired, launchVars, runVars, RegistryInv, TypeOK, PreparingAlone
<1>8. PendingOnWay'
  BY DEF Expire, Expired, launchVars, runVars, RegistryInv, PendingOnWay, Resident,
         LiveStates
<1>9. LatestAccepted'
  BY DEF Expire, Expired, launchVars, runVars, RegistryInv, LatestAccepted,
         Resident, LiveStates
<1>10. SingleSuccessor'
  BY DEF Expire, Expired, launchVars, runVars, RegistryInv, SingleSuccessor
<1>11. TokensCurrent'
  BY <1>0, JobFacts
     DEF Expire, Expired, launchVars, runVars, RegistryInv, TypeOK, TokensCurrent,
         Working
<1>12. ReleasedSilent'
  BY DEF Expire, Expired, launchVars, runVars, RegistryInv, ReleasedSilent, RunsOf
<1>13. PackageExclusive'
  BY DEF Expire, Expired, launchVars, runVars, RegistryInv, PackageExclusive
<1>14. RestoringBacked'
  BY DEF Expire, Expired, launchVars, runVars, RegistryInv, RestoringBacked
<1> QED
  BY <1>1, <1>2, <1>3, <1>4, <1>5, <1>6, <1>7, <1>8, <1>9, <1>10, <1>11, <1>12,
     <1>13, <1>14
     DEF RegistryInv

\* A release leaves neither result nor token.
LEMMA ReleaseInv ==
    ASSUME RegistryInv, NEW a \in Agents, Release(a)
    PROVE  RegistryInv'
<1>0. TypeOK /\ Launched
  BY DEF RegistryInv
<1>1. TypeOK'
  BY <1>0, JobFacts
     DEF Release, TypeOK, States, PurgedTokens, RunsOf, launchVars, runVars,
         RegistryInv, Jobs, Kinds
<1>2. Launched'
  BY DEF Release, launchVars, runVars, RegistryInv, Launched, Created, Replaces
<1>3. WorkInv'
  BY DEF Release, launchVars, runVars, RegistryInv, WorkInv, WorkIsCurrent,
         OneRunPerAgent, Working
<1>4. CurrentWorks'
  BY DEF Release, launchVars, runVars, RegistryInv, CurrentWorks, Resident,
         LiveStates, Working
<1>5. ReservedJoins'
  <2>1. ASSUME NEW b \in Agents, reserved'[b]
        PROVE  reserved[b] /\ owner'[b] = owner[b] /\ state'[b] \in {"released", state[b]}
    BY <2>1 DEF Release, RegistryInv, TypeOK
  <2>2. UNCHANGED <<pc, job, current>>
    BY DEF Release, launchVars
  <2> QED
    BY <2>1, <2>2 DEF RegistryInv, ReservedJoins
<1>6. RestoringAlone'
  BY DEF Release, PurgedTokens, RunsOf, launchVars, runVars, RegistryInv,
         RestoringAlone
<1>7. PreparingAlone'
  BY <1>0, JobFacts
     DEF Release, PurgedTokens, RunsOf, launchVars, runVars, RegistryInv, TypeOK,
         PreparingAlone
<1>8. PendingOnWay'
  BY DEF Release, PurgedTokens, RunsOf, launchVars, runVars, RegistryInv,
         PendingOnWay, Resident, LiveStates
<1>9. LatestAccepted'
  BY DEF Release, PurgedTokens, RunsOf, launchVars, runVars, RegistryInv,
         LatestAccepted, Resident, LiveStates
<1>10. SingleSuccessor'
  BY DEF Release, PurgedTokens, RunsOf, launchVars, runVars, RegistryInv,
         SingleSuccessor
<1>11. TokensCurrent'
  BY <1>0, JobFacts
     DEF Release, PurgedTokens, RunsOf, launchVars, runVars, RegistryInv, TypeOK,
         TokensCurrent, Working
<1>12. ReleasedSilent'
  BY DEF Release, PurgedTokens, RunsOf, launchVars, runVars, RegistryInv,
         ReleasedSilent
<1>13. PackageExclusive'
  BY DEF Release, PurgedTokens, RunsOf, launchVars, runVars, RegistryInv,
         PackageExclusive
<1>14. RestoringBacked'
  BY DEF Release, PurgedTokens, RunsOf, launchVars, runVars, RegistryInv,
         RestoringBacked
<1> QED
  BY <1>1, <1>2, <1>3, <1>4, <1>5, <1>6, <1>7, <1>8, <1>9, <1>10, <1>11, <1>12,
     <1>13, <1>14
     DEF RegistryInv

-----------------------------------------------------------------------------

\* At first there is neither an agent nor a launch.
LEMMA InitInv == Init => RegistryInv
<1> SUFFICES ASSUME Init PROVE RegistryInv
  OBVIOUS
<1>1. TypeOK
  BY LifecycleAssumption
     DEF Init, TypeOK, States, Phases, Jobs, MonitorPhases, Outcomes
<1> QED
  BY <1>1
     DEF Init, RegistryInv, Launched, WorkInv, WorkIsCurrent, OneRunPerAgent,
         Working, CurrentWorks, Resident, LiveStates, ReservedJoins, RestoringAlone,
         PreparingAlone, PendingOnWay, LatestAccepted, SingleSuccessor,
         TokensCurrent, ReleasedSilent, PackageExclusive, RestoringBacked, NoJob

\* Every step keeps the invariant.
LEMMA NextInv == RegistryInv /\ [Next]_vars => RegistryInv'
<1> SUFFICES ASSUME RegistryInv, [Next]_vars PROVE RegistryInv'
  OBVIOUS
<1>1. CASE Requests
  <2>1. ASSUME NEW l \in Launches, NEW a \in Agents, NEW p \in Packages \cup {None},
               LaunchFresh(l, a, p)
        PROVE  RegistryInv'
    BY <2>1, LaunchFreshInv
  <2>2. ASSUME NEW l \in Launches, NEW a \in Agents, NEW q \in Agents, NEW p \in Packages,
               LaunchClaim(l, a, q, p)
        PROVE  RegistryInv'
    BY <2>2, LaunchClaimInv
  <2>3. ASSUME NEW l \in Launches, NEW a \in Agents,
               \/ LaunchReuse(l, a) \/ ReserveBusy(l, a) \/ ReserveSuspended(l, a)
               \/ Resume(l, a)
        PROVE  RegistryInv'
    BY <2>3, LaunchReuseInv, ReserveBusyInv, ReserveSuspendedInv, ResumeInv
  <2>4. ASSUME NEW a \in Agents,
               Cancel(a) \/ Evict(a) \/ Expire(a) \/ Release(a) \/ ReleaseGuarded(a)
        PROVE  RegistryInv'
    BY <2>4, CancelInv, EvictInv, ExpireInv, ReleaseInv DEF ReleaseGuarded
  <2> QED
    BY <1>1, <2>1, <2>2, <2>3, <2>4 DEF Requests
<1>2. ASSUME NEW l \in Launches, LaunchSteps(l) PROVE RegistryInv'
  BY <1>2, JoinInv, LeaveJoinInv, RestoreInv, RestoreFailsInv, AcceptInv,
     AdmissionFailsInv, AckEndsInv
     DEF LaunchSteps
<1>3. ASSUME NEW l \in Launches, MonitorSteps(l) PROVE RegistryInv'
  BY <1>3, TurnEndsInv, MonitorDoneInv, ObserveInv, PublishInv, SettleInv,
     MonitorCancelledInv
     DEF MonitorSteps
<1>4. ASSUME NEW s \in Launches, LingerEnds(s) PROVE RegistryInv'
  BY <1>4, LingerEndsInv
<1>5. ASSUME NEW a \in Agents, NEW r \in Launches, Unwind(a, r) PROVE RegistryInv'
  BY <1>5, UnwindInv
<1>6. CASE UNCHANGED vars
  <2>0. UNCHANGED vars
    BY <1>6
  <2>1. TypeOK'
    BY <2>0 DEF vars, records, launchVars, runVars, RegistryInv, TypeOK
  <2>2. Launched'
    BY <2>0
       DEF vars, records, launchVars, runVars, RegistryInv, Launched, Created,
           Replaces
  <2>3. WorkInv'
    BY <2>0
       DEF vars, records, launchVars, runVars, RegistryInv, WorkInv, WorkIsCurrent,
           OneRunPerAgent, Working
  <2>4. CurrentWorks'
    BY <2>0
       DEF vars, records, launchVars, runVars, RegistryInv, CurrentWorks, Resident,
           Working
  <2>5. ReservedJoins'
    BY <2>0 DEF vars, records, launchVars, runVars, RegistryInv, ReservedJoins
  <2>6. RestoringAlone'
    BY <2>0 DEF vars, records, launchVars, runVars, RegistryInv, RestoringAlone
  <2>7. PreparingAlone'
    BY <2>0 DEF vars, records, launchVars, runVars, RegistryInv, PreparingAlone
  <2>8. PendingOnWay'
    BY <2>0
       DEF vars, records, launchVars, runVars, RegistryInv, PendingOnWay, Resident
  <2>9. LatestAccepted'
    BY <2>0
       DEF vars, records, launchVars, runVars, RegistryInv, LatestAccepted, Resident
  <2>10. SingleSuccessor'
    BY <2>0 DEF vars, records, launchVars, runVars, RegistryInv, SingleSuccessor
  <2>11. TokensCurrent'
    BY <2>0
       DEF vars, records, launchVars, runVars, RegistryInv, TokensCurrent, Working
  <2>12. ReleasedSilent'
    BY <2>0
       DEF vars, records, launchVars, runVars, RegistryInv, ReleasedSilent, RunsOf
  <2>13. PackageExclusive'
    BY <2>0 DEF vars, records, launchVars, runVars, RegistryInv, PackageExclusive
  <2>14. RestoringBacked'
    BY <2>0 DEF vars, records, launchVars, runVars, RegistryInv, RestoringBacked
  <2> QED
    BY <2>1, <2>2, <2>3, <2>4, <2>5, <2>6, <2>7, <2>8, <2>9, <2>10, <2>11, <2>12,
       <2>13, <2>14
       DEF RegistryInv
<1> QED
  BY <1>1, <1>2, <1>3, <1>4, <1>5, <1>6 DEF Next, Quiescent

\* The invariant holds in every reachable state.
THEOREM Registry == Spec => []RegistryInv
  BY InitInv, NextInv, PTL DEF Spec

\* The variables keep their types: no attempt is refunded below zero, among others
\* (resume_agent).
THEOREM Types == Spec => []TypeOK
<1>1. RegistryInv => TypeOK
  BY DEF RegistryInv
<1> QED
  BY <1>1, Registry, PTL

\* The work of an agent is its current run, and only one (prepare_background,
\* publish_locked, the handoffs and the resumes).
THEOREM Work == Spec => []WorkInv
<1>1. RegistryInv => WorkInv
  BY DEF RegistryInv
<1> QED
  BY <1>1, Registry, PTL

\* A failed run has at most one resume on its way or accepted (resume_agent).
THEOREM SingleFlight == Spec => []SingleSuccessor
<1>1. RegistryInv => SingleSuccessor
  BY DEF RegistryInv
<1> QED
  BY <1>1, Registry, PTL

\* No run of a released handle stores a result (prepare_locked, publish_locked).
THEOREM Silence == Spec => []ReleasedSilent
<1>1. RegistryInv => ReleasedSilent
  BY DEF RegistryInv
<1> QED
  BY <1>1, Registry, PTL

\* Agents of one work package never hold publication authority together
\* (register_writer_locked).
THEOREM Exclusive == Spec => []PackageExclusive
<1>1. RegistryInv => PackageExclusive
  BY DEF RegistryInv
<1> QED
  BY <1>1, Registry, PTL

\* A restoring record that no claim has superseded has its resume on the way, which
\* can be undone (resume_agent, UndoResume).
THEOREM Backed == Spec => []RestoringBacked
<1>1. RegistryInv => RestoringBacked
  BY DEF RegistryInv
<1> QED
  BY <1>1, Registry, PTL
=============================================================================
