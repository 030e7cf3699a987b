------------------------ MODULE SubagentSlotProofs ------------------------
(***************************************************************************)
(* Proofs about the slots of SubagentLifecycle, for every number of        *)
(* agents, launches and packages and all capacities: _active_work_slots    *)
(* counts the work there is, and a reservation keeps its slot.             *)
(*                                                                         *)
(* A slot outlives the launch that allocated it, since replacements pass   *)
(* it on, and four parties may give it up: the launching call, the         *)
(* handoff, the monitor and the done callback of the child's task.         *)
(* SlotOwnership says whose it is at any time, so that none of them gives  *)
(* up what another one counts on.  It relies on RegistryInv, which says    *)
(* the same of the agents.                                                 *)
(***************************************************************************)
EXTENDS SubagentLifecycleProofs, FiniteSetTheorems

\* A slot is that of the launch that allocated it, and a replacement of a busy run
\* takes over the slot of the run it joins.
SlotChain ==
    \A l \in Launches : pc[l] # "new" =>
        LET s == job[l].slot
            p == job[l].prior
        IN /\ job[s].slot = s /\ job[s].agent = job[l].agent
           /\ job[l].kind # "replace" => s = l
           /\ job[l].kind = "replace" =>
                /\ s # l /\ mon[s] # "none"
                /\ p \in Launches /\ mon[p] # "none" /\ job[p].slot = s
                /\ pc[l] \in {"preparing", "ack"} \/ mon[l] # "none" => mon[s] = "done"

\* Who joins an agent's run waits for the only work there is ...
JoinsWork ==
    \A l, m \in Launches :
        pc[l] = "joining" /\ Working(m) /\ job[m].agent = job[l].agent =>
            m = job[l].prior /\ job[l].kind = "replace"

\* ... and who prepares the next run finds none.
PreparingQuiet ==
    \A l, m \in Launches :
        pc[l] = "preparing" /\ Working(m) => job[m].agent # job[l].agent

\* A joining launch owns its agent's reservation until the agent is released.
JoiningOwned ==
    \A l \in Launches : pc[l] = "joining" =>
        LET a == job[l].agent
        IN \/ owner[a] = l /\ reserved[a]
           \/ owner[a] = None /\ state[a] = "released"

\* What a reservation keeps as it is, beside ReservationHeld.
ReservedStands ==
    \A a \in Agents : reserved[a] =>
        /\ job[owner[a]].kind = "replace" =>
              state[a] = "running" /\ workSlot[a] \in transferred
        /\ job[owner[a]].kind # "replace" => current[a] = None

\* The flag of a slot is set while its run works, and clear while a replacement
\* prepares to use the slot.
FlagsTrue ==
    /\ \A l \in Launches : Working(l) => job[l].slot \in transferred
    /\ \A l \in Launches : pc[l] = "preparing" /\ Replaces(l) =>
          /\ job[l].slot \notin transferred
          /\ owner[job[l].agent] \in {None, l}

\* The slot of an agent at work is that of its run.
CurrentSlot ==
    \A a \in Agents : Resident(a) /\ current[a] # None =>
        workSlot[a] = job[current[a]].slot

\* Nobody uses, or will use, a slot that waits for the end of a child's task.
LingeringSpent ==
    \A s \in lingering :
        /\ mon[s] # "none"
        /\ \A l \in Launches : job[l].slot = s =>
              /\ ~Working(l) /\ pc[l] # "preparing"
              /\ pc[l] = "joining" => ~reserved[job[l].agent]

\* A counted slot was allocated; a launch that has yet to start its run counts.
SlotsCounted ==
    /\ \A s \in slots : job[s].slot = s
    /\ \A l \in Launches : pc[l] \in {"creating", "restoring", "preparing"}
                           /\ job[l].slot = l => l \in slots

\* SlotBacked, where a launch that joins backs its slot by its reservation only.
SlotUsed ==
    \A s \in slots :
        \/ s \in lingering
        \/ \E l \in Launches :
              /\ job[l].slot = s
              /\ \/ pc[l] \in {"creating", "restoring", "preparing"}
                 \/ pc[l] = "joining" /\ reserved[job[l].agent]
                 \/ Working(l)

\* Whose every slot is, from its allocation to its end.
SlotOwnership ==
    /\ SlotChain /\ JoinsWork /\ PreparingQuiet /\ JoiningOwned
    /\ ReservationHeld /\ ReservedStands /\ FlagsTrue /\ CurrentSlot
    /\ LingeringSpent /\ SlotsCounted /\ SlotUsed /\ SlotAccounted

-----------------------------------------------------------------------------

\* What RegistryInv and SlotChain say of a launch and of who else has its slot.
LEMMA SlotFacts ==
    ASSUME RegistryInv, SlotOwnership
    PROVE  /\ \A l \in Launches : pc[l] # "new" =>
                /\ job[l].agent \in Agents /\ job[l].slot \in Launches
                /\ job[l].kind \in Kinds
                /\ pc[job[l].slot] # "new"
           /\ \A l \in Launches : pc[l] = "new" =>
                mon[l] = "none" /\ job[l].slot = None /\ job[l].agent = None
           /\ \A l \in Launches : mon[l] # "none" => pc[l] # "new"
           /\ \A l \in Launches :
                pc[l] \in {"creating", "joining", "restoring", "preparing"} =>
                    /\ mon[l] = "none"
                    /\ \A m \in Launches : job[m].slot = l => m = l
           /\ \A l, m \in Launches :
                job[l].slot = job[m].slot => job[l].agent = job[m].agent
           /\ None \notin Agents \cup Launches \cup Packages
<1>1. TypeOK /\ Launched
  BY DEF RegistryInv
<1>2. /\ \A l \in Launches : pc[l] # "new" =>
                /\ job[l].agent \in Agents /\ job[l].slot \in Launches
                /\ job[l].kind \in Kinds
      /\ \A l \in Launches : mon[l] # "none" => pc[l] # "new"
      /\ None \notin Agents \cup Launches \cup Packages
  BY <1>1, JobFacts
<1>3. \A l \in Launches : pc[l] = "new" =>
          mon[l] = "none" /\ job[l].slot = None /\ job[l].agent = None
  BY <1>1, <1>2 DEF Launched, NoJob
<1>4. \A l \in Launches : pc[l] # "new" =>
          /\ job[job[l].slot].slot = job[l].slot
          /\ job[job[l].slot].agent = job[l].agent
          /\ job[l].slot # l => mon[job[l].slot] # "none"
  BY DEF SlotOwnership, SlotChain
<1>5. \A l \in Launches : pc[l] # "new" => pc[job[l].slot] # "new"
  BY <1>2, <1>3, <1>4
<1>6. \A l \in Launches :
          pc[l] \in {"creating", "joining", "restoring", "preparing"} =>
              mon[l] = "none"
  BY <1>1 DEF Launched, TypeOK
<1>7. ASSUME NEW l \in Launches, NEW m \in Launches, job[m].slot = l,
             pc[l] \in {"creating", "joining", "restoring", "preparing"}
      PROVE  m = l
  BY <1>2, <1>3, <1>4, <1>6, <1>7
<1>8. ASSUME NEW l \in Launches, NEW m \in Launches, job[l].slot = job[m].slot
      PROVE  job[l].agent = job[m].agent
  BY <1>2, <1>3, <1>4, <1>8
<1> QED
  BY <1>2, <1>3, <1>5, <1>6, <1>7, <1>8

\* A step that starts and ends no work, moves no launch and touches no slot.
Still ==
    /\ UNCHANGED <<pc, job, slots, transferred, lingering, reserved, owner,
                   workSlot, current>>
    /\ \A l \in Launches : /\ Working(l)' <=> Working(l)
                           /\ mon'[l] = "none" <=> mon[l] = "none"
                           /\ mon[l] = "done" => mon'[l] = "done"
    /\ \A a \in Agents : /\ state[a] = "released" => state'[a] = "released"
                         /\ Resident(a)' => Resident(a)
                         /\ reserved[a] /\ state[a] = "running" =>
                               state'[a] = "running"

LEMMA StillKeeps ==
    ASSUME RegistryInv, SlotOwnership, Still
    PROVE  SlotOwnership'
<1>0. TypeOK /\ Launched
  BY DEF RegistryInv
<1>1. SlotChain'
  BY <1>0, SlotFacts DEF Still, TypeOK, SlotOwnership, SlotChain
<1>2. JoinsWork'
  BY <1>0, SlotFacts DEF Still, TypeOK, SlotOwnership, JoinsWork
<1>3. PreparingQuiet'
  BY <1>0, SlotFacts DEF Still, TypeOK, SlotOwnership, PreparingQuiet
<1>4. JoiningOwned'
  BY <1>0, SlotFacts DEF Still, TypeOK, SlotOwnership, JoiningOwned
<1>5. ReservationHeld'
  BY <1>0, SlotFacts DEF Still, TypeOK, SlotOwnership, ReservationHeld
<1>6. ReservedStands'
  BY <1>0, SlotFacts DEF Still, TypeOK, SlotOwnership, ReservedStands
<1>7. FlagsTrue'
  BY <1>0, SlotFacts DEF Still, TypeOK, SlotOwnership, FlagsTrue, Replaces
<1>8. CurrentSlot'
  BY <1>0, SlotFacts DEF Still, TypeOK, SlotOwnership, CurrentSlot
<1>9. LingeringSpent'
  BY <1>0, SlotFacts DEF Still, TypeOK, SlotOwnership, LingeringSpent
<1>10. SlotsCounted'
  BY <1>0, SlotFacts DEF Still, TypeOK, SlotOwnership, SlotsCounted
<1>11. SlotUsed'
  BY <1>0, SlotFacts DEF Still, TypeOK, SlotOwnership, SlotUsed
<1>12. SlotAccounted'
  BY <1>0, SlotFacts DEF Still, TypeOK, SlotOwnership, SlotAccounted
<1> QED
  BY <1>1, <1>2, <1>3, <1>4, <1>5, <1>6, <1>7, <1>8, <1>9, <1>10, <1>11, <1>12
     DEF SlotOwnership

\* A launch that allocates a slot and needs no reservation.
Allocates(l) ==
    /\ pc[l] = "new" /\ slots' = slots \cup {l}
    /\ pc'[l] \in {"creating", "preparing", "restoring"}
    /\ job'[l].agent \in Agents /\ job'[l].slot = l
    /\ job'[l].kind \notin {"replace", "replaceSuspended"}
    /\ pc'[l] = "preparing" => state[job'[l].agent] = "idle"
    /\ \A m \in Launches \ {l} : pc'[m] = pc[m] /\ job'[m] = job[m]
    /\ \A a \in Agents : /\ state[a] = "released" => state'[a] = "released"
                         /\ Resident(a)' => Resident(a)
                         /\ reserved[a] /\ state[a] = "running" =>
                               state'[a] = "running"
    /\ UNCHANGED <<mon, transferred, lingering, reserved, owner, workSlot,
                   current>>

LEMMA AllocatesKeeps ==
    ASSUME RegistryInv, SlotOwnership, NEW l \in Launches, Allocates(l)
    PROVE  SlotOwnership'
<1>0. TypeOK /\ Launched
  BY DEF RegistryInv
<1>n. \A m \in Launches \ {l} : pc'[m] = pc[m] /\ job'[m] = job[m]
  BY DEF Allocates
<1>a. /\ pc[l] = "new" /\ mon[l] = "none" /\ slots' = slots \cup {l}
      /\ pc'[l] \in {"creating", "preparing", "restoring"}
      /\ job'[l].agent \in Agents /\ job'[l].slot = l
      /\ job'[l].kind \notin {"replace", "replaceSuspended"}
      /\ pc'[l] = "preparing" => state[job'[l].agent] = "idle"
  BY SlotFacts DEF Allocates
<1>b. /\ UNCHANGED <<mon, transferred, lingering, reserved, owner, workSlot,
                     current>>
      /\ \A a \in Agents : /\ state[a] = "released" => state'[a] = "released"
                           /\ Resident(a)' => Resident(a)
                           /\ reserved[a] /\ state[a] = "running" =>
                                 state'[a] = "running"
  BY DEF Allocates
<1>c. \A m \in Launches : Working(m)' <=> Working(m)
  BY <1>b DEF Working
<1>d. \A m \in Launches : job[m].slot # l /\ (Working(m) => m # l)
  BY <1>a, SlotFacts DEF Working
<1>e. \A a \in Agents : /\ reserved[a] => owner[a] \in Launches /\ owner[a] # l
                        /\ Resident(a) /\ current[a] # None =>
                              current[a] \in Launches /\ current[a] # l
  BY <1>a, <1>d DEF RegistryInv, ReservedJoins, CurrentWorks, TypeOK
<1>1. SlotChain'
  BY SMTT(30), <1>0, <1>n, <1>a, <1>b, <1>c, <1>d, SlotFacts
     DEF TypeOK, RegistryInv, WorkInv, WorkIsCurrent, SlotOwnership, SlotChain
<1>2. JoinsWork'
  BY <1>0, <1>n, <1>a, <1>b, <1>c, <1>d, SlotFacts
     DEF TypeOK, RegistryInv, WorkInv, WorkIsCurrent, SlotOwnership, JoinsWork
<1>3. PreparingQuiet'
  BY <1>0, <1>n, <1>a, <1>b, <1>c, <1>d, SlotFacts
     DEF TypeOK, RegistryInv, WorkInv, WorkIsCurrent, SlotOwnership, PreparingQuiet
<1>4. JoiningOwned'
  BY <1>0, <1>n, <1>a, <1>b, <1>c, <1>d, SlotFacts
     DEF TypeOK, RegistryInv, WorkInv, WorkIsCurrent, SlotOwnership, JoiningOwned
<1>5. ReservationHeld'
  BY <1>0, <1>n, <1>a, <1>b, <1>c, <1>d, SlotFacts
     DEF TypeOK, RegistryInv, WorkInv, WorkIsCurrent, SlotOwnership, ReservationHeld
<1>6. ReservedStands'
  BY <1>n, <1>b, <1>e DEF SlotOwnership, ReservedStands
<1>7. FlagsTrue'
  BY <1>0, <1>n, <1>a, <1>b, <1>c, <1>d, SlotFacts
     DEF TypeOK, RegistryInv, WorkInv, WorkIsCurrent, SlotOwnership, FlagsTrue,
         Replaces
<1>8. CurrentSlot'
  BY <1>n, <1>b, <1>e DEF SlotOwnership, CurrentSlot
<1>9. LingeringSpent'
  BY <1>0, <1>n, <1>a, <1>b, <1>c, <1>d, SlotFacts
     DEF TypeOK, RegistryInv, WorkInv, WorkIsCurrent, SlotOwnership, LingeringSpent
<1>10. SlotsCounted'
  BY <1>0, <1>n, <1>a, <1>b, <1>c, <1>d, SlotFacts
     DEF TypeOK, RegistryInv, WorkInv, WorkIsCurrent, SlotOwnership, SlotsCounted
<1>11. SlotUsed'
  BY <1>0, <1>n, <1>a, <1>b, <1>c, <1>d, SlotFacts
     DEF TypeOK, RegistryInv, WorkInv, WorkIsCurrent, SlotOwnership, SlotUsed
<1>12. SlotAccounted'
  BY <1>0, <1>n, <1>a, <1>b, <1>c, <1>d, SlotFacts
     DEF TypeOK, RegistryInv, WorkInv, WorkIsCurrent, SlotOwnership, SlotAccounted
<1> QED
  BY <1>1, <1>2, <1>3, <1>4, <1>5, <1>6, <1>7, <1>8, <1>9, <1>10, <1>11, <1>12
     DEF SlotOwnership

\* A launch that has yet to start a run ends, and its slot with it.
GivesUp(l) ==
    /\ pc[l] \in {"creating", "restoring", "preparing"}
    /\ pc' = [pc EXCEPT ![l] = "done"]
    /\ slots' = slots \ {job[l].slot}
    /\ \A a \in Agents : /\ owner'[a] = owner[a] \/ (owner[a] = l /\ owner'[a] = None)
                         /\ state[a] = "released" => state'[a] = "released"
                         /\ Resident(a)' => Resident(a)
                         /\ reserved[a] /\ state[a] = "running" =>
                               state'[a] = "running"
    /\ UNCHANGED <<job, mon, transferred, lingering, reserved, workSlot, current>>

LEMMA GivesUpKeeps ==
    ASSUME RegistryInv, SlotOwnership, NEW l \in Launches, GivesUp(l)
    PROVE  SlotOwnership'
<1>0. TypeOK /\ Launched
  BY DEF RegistryInv
<1>n. /\ \A m \in Launches \ {l} : pc'[m] = pc[m]
      /\ pc[l] \in {"creating", "restoring", "preparing"} /\ pc'[l] = "done"
      /\ slots' = slots \ {job[l].slot}
      /\ UNCHANGED <<job, mon, transferred, lingering, reserved, workSlot, current>>
      /\ \A m \in Launches : Working(m)' <=> Working(m)
  BY <1>0 DEF GivesUp, TypeOK, Working
<1>a. \A a \in Agents : /\ owner'[a] = owner[a] \/ (owner[a] = l /\ owner'[a] = None)
                        /\ state[a] = "released" => state'[a] = "released"
                        /\ Resident(a)' => Resident(a)
                        /\ reserved[a] /\ state[a] = "running" =>
                              state'[a] = "running"
                        /\ reserved[a] => owner'[a] = owner[a] /\ owner[a] # l
                                          /\ owner[a] \in Launches
  BY <1>n DEF GivesUp, RegistryInv, ReservedJoins
<1>b. ASSUME NEW m \in Launches, job[m].slot = job[l].slot, m # l
      PROVE  /\ pc[l] = "preparing" /\ job[l].kind = "replace"
             /\ mon[job[l].slot] = "done" /\ job[l].slot # l
             /\ job[m].agent = job[l].agent /\ pc[m] # "new"
  <2>1. job[l].slot # l /\ job[l].slot \in Launches /\ pc[m] # "new"
    BY <1>0, <1>b, <1>n, SlotFacts
  <2> QED
    BY <2>1, <1>0, <1>b, <1>n, SlotFacts
       DEF Launched, Created, SlotOwnership, SlotChain
<1>c. ASSUME NEW m \in Launches, pc[m] = "joining", reserved[job[m].agent]
      PROVE  job[m].slot # job[l].slot
  <2>1. SUFFICES ASSUME job[m].slot = job[l].slot PROVE FALSE
    OBVIOUS
  <2>2. /\ pc[l] = "preparing" /\ job[l].kind = "replace" /\ job[l].agent \in Agents
        /\ mon[job[l].slot] = "done" /\ job[m].agent = job[l].agent
    BY <1>b, <1>n, <1>c, <2>1, SlotFacts
  <2>3. state[job[l].agent] = "released" /\ owner[job[l].agent] = m
    BY <1>c, <2>2, SlotFacts
       DEF RegistryInv, PreparingAlone, ReservedJoins, SlotOwnership, JoiningOwned
  <2>4. job[m].kind # "replace"
    BY <1>c, <2>2, <2>3 DEF SlotOwnership, ReservedStands
  <2> QED
    BY <1>c, <2>1, <2>2, <2>4, SlotFacts DEF SlotOwnership, SlotChain
<1>1. SlotChain'
  BY <1>0, <1>n, <1>a DEF TypeOK, SlotOwnership, SlotChain
<1>2. JoinsWork'
  BY <1>0, <1>n DEF TypeOK, SlotOwnership, JoinsWork
<1>3. PreparingQuiet'
  BY <1>0, <1>n DEF TypeOK, SlotOwnership, PreparingQuiet
<1>4. JoiningOwned'
  BY <1>0, <1>n, <1>a, SlotFacts DEF TypeOK, SlotOwnership, JoiningOwned
<1>5. ReservationHeld'
  BY <1>0, <1>n, <1>a, <1>c
     DEF TypeOK, RegistryInv, ReservedJoins, SlotOwnership, ReservationHeld
<1>6. ReservedStands'
  BY <1>0, <1>n, <1>a DEF TypeOK, SlotOwnership, ReservedStands
<1>7. FlagsTrue'
  BY <1>0, <1>n, <1>a, SlotFacts DEF TypeOK, SlotOwnership, FlagsTrue, Replaces
<1>8. CurrentSlot'
  BY <1>0, <1>n, <1>a DEF TypeOK, SlotOwnership, CurrentSlot
<1>9. LingeringSpent'
  BY <1>0, <1>n, <1>a DEF TypeOK, SlotOwnership, LingeringSpent
<1>10. SlotsCounted'
  BY <1>0, <1>n, SlotFacts DEF TypeOK, SlotOwnership, SlotsCounted
<1>11. SlotUsed'
  BY <1>0, <1>n, SlotFacts DEF TypeOK, SlotOwnership, SlotUsed
<1>12. SlotAccounted'
  BY <1>0, <1>n, <1>b, SlotFacts DEF TypeOK, SlotOwnership, SlotAccounted, Working
<1> QED
  BY <1>1, <1>2, <1>3, <1>4, <1>5, <1>6, <1>7, <1>8, <1>9, <1>10, <1>11, <1>12
     DEF SlotOwnership

\* The run of l ends: its slot goes, waits for the child's task, or is left to the
\* launch that reserved it.
RunEnds(l) ==
    LET a == job[l].agent
    IN /\ Working(l)
       /\ \E phase \in {"published", "done"} : mon' = [mon EXCEPT ![l] = phase]
       /\ \E lingers \in BOOLEAN : FreesSlot(l, lingers)
       /\ \/ UNCHANGED <<state, current>>
          \/ /\ Resident(a)
             /\ state' = [state EXCEPT ![a] = IF reserved[a] THEN "running"
                                                             ELSE "finalizing"]
             /\ current' = [current EXCEPT ![a] = None]
       /\ UNCHANGED <<pc, job, transferred, reserved, owner, workSlot>>

LEMMA RunEndsKeeps ==
    ASSUME RegistryInv, SlotOwnership, NEW l \in Launches, RunEnds(l)
    PROVE  SlotOwnership'
<1> DEFINE a == job[l].agent
           s == job[l].slot
<1>0. TypeOK /\ Launched
  BY DEF RegistryInv
<1>1. /\ Working(l) /\ ~Working(l)' /\ mon[l] \notin {"none", "done"}
      /\ mon'[l] # "none" /\ pc[l] \in {"ack", "done"}
      /\ \A m \in Launches \ {l} : mon'[m] = mon[m]
      /\ \A m \in Launches : Working(m)' <=> Working(m) /\ m # l
      /\ UNCHANGED <<pc, job, transferred, reserved, owner, workSlot>>
  BY <1>0 DEF RunEnds, TypeOK, Working, Launched
<1>2. /\ a \in Agents /\ s \in Launches /\ job[s].slot = s /\ job[s].agent = a
      /\ mon[s] # "none"
  BY <1>0, <1>1, SlotFacts DEF SlotOwnership, SlotChain
<1>3. /\ reserved[a] => slots' = slots /\ lingering' = lingering
      /\ ~reserved[a] => \/ slots' = slots \ {s} /\ lingering' = lingering
                         \/ slots' = slots /\ lingering' = lingering \cup {s}
  BY DEF RunEnds, FreesSlot
<1>4. \A b \in Agents : /\ current'[b] \in {current[b], None}
                        /\ state[b] = "released" => state'[b] = "released"
                        /\ Resident(b)' => Resident(b)
                        /\ reserved[b] /\ state[b] = "running" =>
                              state'[b] = "running"
  BY <1>0, <1>2 DEF RunEnds, TypeOK, Resident, LiveStates
<1>5. ASSUME NEW m \in Launches, m # l, job[m].slot = s
      PROVE  /\ job[m].agent = a /\ ~Working(m)
             /\ pc[m] \notin {"creating", "restoring", "preparing"}
  <2>1. job[m].agent = a /\ pc[m] # "new"
    BY <1>2, <1>5, SlotFacts
  <2>2. ~Working(m)
    BY <1>1, <1>5, <2>1 DEF RegistryInv, WorkInv, OneRunPerAgent
  <2>3. pc[m] # "preparing"
    BY <1>1, <2>1 DEF SlotOwnership, PreparingQuiet
  <2>4. pc[m] \notin {"creating", "restoring"}
    BY <1>0, <1>1, <1>2, <1>5, SlotFacts
       DEF Launched, Created, SlotOwnership, SlotChain
  <2> QED
    BY <2>1, <2>2, <2>3, <2>4
<1>6. ASSUME NEW b \in Agents, reserved[b], b # a
      PROVE  workSlot[b] # s
  BY <1>2, <1>6, SlotFacts
     DEF RegistryInv, ReservedJoins, SlotOwnership, ReservationHeld
<1>7. ASSUME reserved[a]
      PROVE  /\ owner[a] \in Launches /\ pc[owner[a]] = "joining"
             /\ job[owner[a]].slot = s /\ job[owner[a]].agent = a
  BY <1>1, <1>2, <1>7
     DEF RegistryInv, ReservedJoins, SlotOwnership, JoinsWork, SlotChain
<1> HIDE DEF a, s
<1>11. SlotChain'
  BY <1>0, <1>1, SlotFacts DEF SlotOwnership, SlotChain
<1>12. JoinsWork'
  BY <1>1 DEF SlotOwnership, JoinsWork
<1>13. PreparingQuiet'
  BY <1>1 DEF SlotOwnership, PreparingQuiet
<1>14. JoiningOwned'
  BY <1>1, <1>4, SlotFacts DEF SlotOwnership, JoiningOwned
<1>15. ReservationHeld'
  BY <1>0, <1>1, <1>3, <1>6 DEF SlotOwnership, ReservationHeld
<1>16. ReservedStands'
  BY <1>0, <1>1, <1>4 DEF TypeOK, SlotOwnership, ReservedStands
<1>17. FlagsTrue'
  BY <1>1 DEF SlotOwnership, FlagsTrue, Replaces
<1>18. CurrentSlot'
  BY <1>0, <1>1, <1>4 DEF TypeOK, SlotOwnership, CurrentSlot
<1>19. LingeringSpent'
  BY <1>0, <1>1, <1>2, <1>3, <1>5 DEF TypeOK, SlotOwnership, LingeringSpent
<1>20. SlotsCounted'
  BY <1>0, <1>1, <1>2, <1>3, <1>5 DEF SlotOwnership, SlotsCounted
<1>21. SlotUsed'
  BY <1>0, <1>1, <1>2, <1>3, <1>7 DEF s, SlotOwnership, SlotUsed
<1>22. SlotAccounted'
  BY <1>0, <1>1, <1>2, <1>3, <1>5 DEF SlotOwnership, SlotAccounted
<1> QED
  BY <1>11, <1>12, <1>13, <1>14, <1>15, <1>16, <1>17, <1>18, <1>19, <1>20, <1>21,
     <1>22
     DEF SlotOwnership

\* A working run is asked to stop, and its slot is promised to the launch that
\* joins it.
LEMMA ReserveBusySlots ==
    ASSUME RegistryInv, SlotOwnership, NEW l \in Launches, NEW a \in Agents,
           ReserveBusy(l, a)
    PROVE  SlotOwnership'
<1> DEFINE r == current[a]
           s == workSlot[a]
<1>0. TypeOK /\ Launched
  BY DEF RegistryInv
<1>1. /\ pc[l] = "new" /\ pc'[l] = "joining" /\ mon[l] = "none"
      /\ job'[l].kind = "replace" /\ job'[l].agent = a /\ job'[l].slot = s
      /\ job'[l].prior = r
      /\ \A m \in Launches \ {l} : pc'[m] = pc[m] /\ job'[m] = job[m]
      /\ UNCHANGED <<state, current, workSlot, slots, transferred, lingering>>
      /\ state[a] = "running" /\ ~reserved[a] /\ s \in slots
      /\ reserved'[a] /\ owner'[a] = l
      /\ \A b \in Agents \ {a} : reserved'[b] = reserved[b] /\ owner'[b] = owner[b]
      /\ \A b \in Agents : Resident(b)' <=> Resident(b)
  BY <1>0, SlotFacts DEF ReserveBusy, Begin, TypeOK, Resident
<1>2. /\ r \in Launches /\ Working(r) /\ mon[r] = "turn" /\ r # l
      /\ job[r].agent = a /\ job[r].slot = s
      /\ s \in Launches /\ s # l /\ job[s].slot = s /\ job[s].agent = a
      /\ mon[s] # "none"
  <2>1. r \in Launches /\ mon[r] = "turn" /\ Working(r)
    BY <1>0 DEF ReserveBusy, TypeOK, Working
  <2>2. job[r].agent = a /\ job[r].slot = s
    BY <1>1, <2>1, SlotFacts
       DEF ReserveBusy, RegistryInv, CurrentWorks, SlotOwnership, CurrentSlot,
           Resident, LiveStates
  <2> QED
    BY <1>0, <1>1, <2>1, <2>2, SlotFacts DEF SlotOwnership, SlotChain
<1>3. \A m \in Launches : /\ Working(m)' <=> Working(m)
                          /\ mon'[m] = "none" <=> mon[m] = "none"
                          /\ mon[m] = "done" => mon'[m] = "done"
  BY <1>0, <1>2 DEF ReserveBusy, TypeOK, Working
<1>4. \A m \in Launches : /\ Working(m) /\ job[m].agent = a => m = r
                          /\ pc[m] = "preparing" => job[m].agent # a
                          /\ pc[m] = "joining" => job[m].agent # a
                          /\ Working(m) => m # l
                          /\ job[m].slot # l
  BY <1>1, <1>2, SlotFacts
     DEF RegistryInv, WorkInv, OneRunPerAgent, SlotOwnership, PreparingQuiet,
         JoiningOwned, Working
<1>5. \A b \in Agents : /\ reserved[b] => owner[b] \in Launches /\ owner[b] # l
                        /\ Resident(b) /\ current[b] # None =>
                              current[b] \in Launches /\ current[b] # l
  BY <1>0, <1>1, <1>4 DEF RegistryInv, ReservedJoins, CurrentWorks, TypeOK
<1> HIDE DEF r, s
<1>11. SlotChain'
  BY <1>0, <1>1, <1>2, <1>3, <1>4, SlotFacts DEF SlotOwnership, SlotChain
<1>12. JoinsWork'
  BY <1>1, <1>3, <1>4 DEF SlotOwnership, JoinsWork
<1>13. PreparingQuiet'
  BY <1>1, <1>3, <1>4 DEF SlotOwnership, PreparingQuiet
<1>14. JoiningOwned'
  BY <1>1, <1>4, SlotFacts DEF SlotOwnership, JoiningOwned
<1>15. ReservationHeld'
  BY <1>0, <1>1, <1>5, SlotFacts DEF s, SlotOwnership, ReservationHeld
<1>16. ReservedStands'
  BY <1>1, <1>2, <1>5 DEF s, SlotOwnership, ReservedStands, FlagsTrue
<1>17. FlagsTrue'
  BY <1>0, <1>1, <1>3, <1>4, SlotFacts DEF SlotOwnership, FlagsTrue, Replaces
<1>18. CurrentSlot'
  BY <1>1, <1>5 DEF SlotOwnership, CurrentSlot
<1>19. LingeringSpent'
  BY <1>0, <1>1, <1>2, <1>3, <1>4, SlotFacts DEF TypeOK, SlotOwnership, LingeringSpent
<1>20. SlotsCounted'
  BY SMTT(30), <1>0, <1>1, <1>2, <1>4 DEF TypeOK, SlotOwnership, SlotsCounted
<1>21. SlotUsed'
  BY <1>0, <1>1, <1>3, <1>4, SlotFacts DEF TypeOK, SlotOwnership, SlotUsed, Working
<1>22. SlotAccounted'
  BY <1>1, <1>3, <1>4 DEF SlotOwnership, SlotAccounted
<1> QED
  BY <1>11, <1>12, <1>13, <1>14, <1>15, <1>16, <1>17, <1>18, <1>19, <1>20, <1>21,
     <1>22
     DEF SlotOwnership

\* The launch that replaces a suspended agent brings its own slot.
LEMMA ReserveSuspendedSlots ==
    ASSUME RegistryInv, SlotOwnership, NEW l \in Launches, NEW a \in Agents,
           ReserveSuspended(l, a)
    PROVE  SlotOwnership'
<1>0. TypeOK /\ Launched
  BY DEF RegistryInv
<1>1. /\ pc[l] = "new" /\ pc'[l] = "joining" /\ mon[l] = "none"
      /\ job'[l].kind = "replaceSuspended" /\ job'[l].agent = a /\ job'[l].slot = l
      /\ \A m \in Launches \ {l} : pc'[m] = pc[m] /\ job'[m] = job[m]
      /\ UNCHANGED <<state, current, mon, transferred, lingering>>
      /\ slots' = slots \cup {l}
      /\ state[a] = "suspended" /\ ~reserved[a]
      /\ reserved'[a] /\ owner'[a] = l /\ workSlot'[a] = l
      /\ \A b \in Agents \ {a} : /\ reserved'[b] = reserved[b] /\ owner'[b] = owner[b]
                                 /\ workSlot'[b] = workSlot[b]
      /\ \A b \in Agents : Resident(b)' <=> Resident(b)
      /\ \A m \in Launches : Working(m)' <=> Working(m)
  BY <1>0, SlotFacts DEF ReserveSuspended, Begin, runVars, TypeOK, Resident, Working
<1>2. current[a] = None
  BY <1>1 DEF RegistryInv, CurrentWorks, Resident, LiveStates
<1>3. \A m \in Launches : /\ Working(m) => job[m].agent # a
                          /\ pc[m] = "preparing" => job[m].agent # a
                          /\ pc[m] = "joining" => job[m].agent # a
                          /\ Working(m) => m # l
                          /\ job[m].slot # l
  BY <1>1, SlotFacts
     DEF RegistryInv, WorkInv, WorkIsCurrent, PreparingAlone, SlotOwnership,
         JoiningOwned, Working
<1>4. \A b \in Agents : /\ reserved[b] => owner[b] \in Launches /\ owner[b] # l
                        /\ Resident(b) /\ current[b] # None =>
                              current[b] \in Launches /\ current[b] # l
  BY <1>0, <1>1, <1>3 DEF RegistryInv, ReservedJoins, CurrentWorks, TypeOK
<1>11. SlotChain'
  BY <1>0, <1>1, <1>3, SlotFacts DEF SlotOwnership, SlotChain
<1>12. JoinsWork'
  BY <1>1, <1>3 DEF SlotOwnership, JoinsWork
<1>13. PreparingQuiet'
  BY <1>1, <1>3 DEF SlotOwnership, PreparingQuiet
<1>14. JoiningOwned'
  BY <1>1, <1>3, SlotFacts DEF SlotOwnership, JoiningOwned
<1>15. ReservationHeld'
  BY <1>0, <1>1, <1>4, SlotFacts DEF SlotOwnership, ReservationHeld
<1>16. ReservedStands'
  BY <1>1, <1>2, <1>4 DEF SlotOwnership, ReservedStands
<1>17. FlagsTrue'
  BY <1>0, <1>1, <1>3, SlotFacts DEF SlotOwnership, FlagsTrue, Replaces
<1>18. CurrentSlot'
  BY <1>1, <1>2, <1>4 DEF SlotOwnership, CurrentSlot
<1>19. LingeringSpent'
  BY <1>0, <1>1, <1>3, SlotFacts DEF TypeOK, SlotOwnership, LingeringSpent
<1>20. SlotsCounted'
  BY <1>0, <1>1, <1>3 DEF TypeOK, SlotOwnership, SlotsCounted
<1>21. SlotUsed'
  BY <1>0, <1>1, <1>3, SlotFacts DEF TypeOK, SlotOwnership, SlotUsed, Working
<1>22. SlotAccounted'
  BY <1>1, <1>3 DEF SlotOwnership, SlotAccounted
<1> QED
  BY <1>11, <1>12, <1>13, <1>14, <1>15, <1>16, <1>17, <1>18, <1>19, <1>20, <1>21,
     <1>22
     DEF SlotOwnership

\* The replaced run is over: its slot is the replacement's, without the flag.
LEMMA JoinSlots ==
    ASSUME RegistryInv, SlotOwnership, NEW l \in Launches, Join(l)
    PROVE  SlotOwnership'
<1> DEFINE a == job[l].agent
           s == job[l].slot
<1>0. TypeOK /\ Launched
  BY DEF RegistryInv
<1>1. /\ pc[l] = "joining" /\ pc'[l] = "preparing" /\ mon[l] = "none"
      /\ mon[job[l].prior] = "done" /\ a \in Agents /\ s \in slots
      /\ Resident(a) /\ reserved[a] /\ owner[a] = l
      /\ transferred' = transferred \ {s}
      /\ ~reserved'[a] /\ state'[a] = "running"
      /\ \A b \in Agents \ {a} : reserved'[b] = reserved[b] /\ state'[b] = state[b]
      /\ \A m \in Launches \ {l} : pc'[m] = pc[m]
      /\ UNCHANGED <<job, mon, current, workSlot, owner, slots, lingering>>
      /\ \A m \in Launches : Working(m)' <=> Working(m)
  BY ZenonT(60), <1>0, SlotFacts DEF Join, runVars, TypeOK, Working
<1>2. \A b \in Agents : /\ Resident(b)' => Resident(b)
                        /\ state[b] = "released" => state'[b] = "released"
                        /\ reserved'[b] => reserved[b] /\ b # a
  BY <1>1 DEF Resident, LiveStates
<1>3. \A m \in Launches : /\ Working(m) => job[m].agent # a
                          /\ pc[m] = "joining" /\ job[m].agent = a => m = l
                          /\ job[m].slot = s => job[m].agent = a
  BY <1>1, SlotFacts
     DEF SlotOwnership, JoinsWork, JoiningOwned, Working, Resident, LiveStates
<1>4. job[l].kind = "replace" => mon[s] = "done"
  BY <1>1, SlotFacts DEF SlotOwnership, SlotChain
<1>5. \A b \in Agents : reserved[b] /\ b # a =>
          /\ owner[b] \in Launches /\ owner[b] # l /\ job[owner[b]].agent = b
          /\ workSlot[b] # s
  BY <1>1, <1>3 DEF RegistryInv, ReservedJoins, SlotOwnership, ReservationHeld
<1>6. Replaces(l)
  BY <1>0, <1>1 DEF Launched
<1> HIDE DEF a, s
<1>11. SlotChain'
  BY <1>0, <1>1, <1>4, SlotFacts DEF s, SlotOwnership, SlotChain
<1>12. JoinsWork'
  BY <1>1 DEF SlotOwnership, JoinsWork
<1>13. PreparingQuiet'
  BY <1>1, <1>3 DEF a, SlotOwnership, PreparingQuiet
<1>14. JoiningOwned'
  BY <1>1, <1>2, <1>3, SlotFacts DEF SlotOwnership, JoiningOwned
<1>15. ReservationHeld'
  BY <1>1, <1>2, <1>5 DEF SlotOwnership, ReservationHeld
<1>16. ReservedStands'
  BY <1>1, <1>2, <1>5 DEF SlotOwnership, ReservedStands
<1>17. FlagsTrue'
  BY <1>0, <1>1, <1>3, SlotFacts DEF a, s, TypeOK, SlotOwnership, FlagsTrue, Replaces
<1>18. CurrentSlot'
  BY <1>1, <1>2 DEF SlotOwnership, CurrentSlot
<1>19. LingeringSpent'
  BY <1>0, <1>1, <1>2, <1>3, SlotFacts DEF a, s, TypeOK, SlotOwnership, LingeringSpent
<1>20. SlotsCounted'
  BY <1>0, <1>1 DEF s, TypeOK, SlotOwnership, SlotsCounted
<1>21. SlotUsed'
  BY <1>0, <1>1, <1>2, <1>3, SlotFacts DEF s, TypeOK, SlotOwnership, SlotUsed
<1>22. SlotAccounted'
  BY <1>1 DEF SlotOwnership, SlotAccounted
<1> QED
  BY <1>11, <1>12, <1>13, <1>14, <1>15, <1>16, <1>17, <1>18, <1>19, <1>20, <1>21,
     <1>22
     DEF SlotOwnership

\* A launch leaves the join: a reservation that it still holds is cleared, and the
\* slot stays only with the run it was reserved from.
LEMMA LeaveJoinSlots ==
    ASSUME RegistryInv, SlotOwnership, NEW l \in Launches, LeaveJoin(l)
    PROVE  SlotOwnership'
<1> DEFINE a == job[l].agent
           s == job[l].slot
           clears == owner[a] = l /\ reserved[a]
<1>0. TypeOK /\ Launched
  BY DEF RegistryInv
<1>1. /\ pc[l] = "joining" /\ pc'[l] = "done" /\ mon[l] = "none"
      /\ a \in Agents /\ s \in Launches
      /\ \A m \in Launches \ {l} : pc'[m] = pc[m]
      /\ \A b \in Agents \ {a} : /\ reserved'[b] = reserved[b] /\ owner'[b] = owner[b]
                                 /\ state'[b] = state[b]
      /\ UNCHANGED <<job, mon, current, workSlot, lingering>>
      /\ \A m \in Launches : Working(m)' <=> Working(m)
  BY <1>0, SlotFacts DEF LeaveJoin, EndHandoff, runVars, TypeOK, Working
<1>2. /\ clears => workSlot[a] = s /\ state[a] # "absent"
      /\ ~clears => owner[a] = None /\ state[a] = "released" /\ ~reserved[a]
  BY <1>1, SlotFacts
     DEF SlotOwnership, JoiningOwned, ReservationHeld, RegistryInv, ReservedJoins
<1>3. /\ ~reserved'[a] /\ owner'[a] \in {owner[a], None}
      /\ state[a] = "released" => state'[a] = "released"
      /\ Resident(a)' => Resident(a)
  BY <1>0, <1>1, <1>2 DEF LeaveJoin, EndHandoff, TypeOK, Resident, LiveStates
<1>4. /\ \/ transferred' = transferred
         \/ transferred' = transferred \ {s} /\ mon[job[l].prior] = "done"
      /\ slots' = slots \ {t \in Launches : \/ clears /\ current[a] = None /\ t = s
                                            \/ t = s /\ s \notin transferred'}
  <2>1. \/ transferred' = transferred
        \/ transferred' = transferred \ {s} /\ mon[job[l].prior] = "done"
    BY DEF LeaveJoin
  <2>2. slots' = slots \ {t \in Launches :
                            \/ clears /\ current[a] = None /\ t = workSlot[a]
                            \/ /\ owner[a] \in {None, l}
                               /\ t = s /\ t \notin transferred'}
    BY DEF LeaveJoin, EndHandoff
  <2> QED
    BY <2>1, <2>2, <1>2
<1> HIDE DEF clears
<1>5. \A b \in Agents : /\ Resident(b)' => Resident(b)
                        /\ state[b] = "released" => state'[b] = "released"
                        /\ reserved'[b] => reserved[b] /\ b # a
                        /\ owner'[b] \in {owner[b], None}
  BY <1>1, <1>3 DEF Resident
<1>6. \A m \in Launches : pc[m] = "joining" /\ job[m].agent = a =>
          m = l \/ ~reserved[a]
  BY <1>1, SlotFacts DEF SlotOwnership, JoiningOwned, RegistryInv, ReservedJoins
<1>7. \A m \in Launches : job[m].slot = s =>
          /\ job[m].agent = a
          /\ m = s => pc[m] \notin {"creating", "restoring", "preparing"}
  BY <1>1, SlotFacts
<1>8. ASSUME NEW m \in Launches, Working(m), job[m].slot = s
      PROVE  /\ s \in transferred' /\ transferred' = transferred
             /\ clears => current[a] # None
  <2>1. m = job[l].prior /\ job[l].kind = "replace" /\ job[m].agent = a
    BY <1>1, <1>7, <1>8 DEF SlotOwnership, JoinsWork
  <2>2. transferred' = transferred /\ s \in transferred'
    BY <1>4, <1>8, <2>1 DEF SlotOwnership, FlagsTrue, Working
  <2>3. clears => state[a] = "running"
    BY <1>1, <2>1 DEF clears, SlotOwnership, ReservedStands
  <2>4. clears => current[a] = m
    BY <1>8, <2>1, <2>3 DEF RegistryInv, WorkInv, WorkIsCurrent
  <2> QED
    BY <2>2, <2>4, SlotFacts
<1>9. ASSUME s \in slots', reserved[a]
      PROVE  \E m \in Launches : Working(m) /\ job[m].slot = s
  <2>1. clears /\ current[a] # None
    BY <1>1, <1>2, <1>4, <1>9 DEF clears
  <2>2. job[l].kind = "replace" /\ state[a] = "running"
    BY <1>1, <2>1 DEF clears, SlotOwnership, ReservedStands
  <2>3. /\ current[a] \in Launches /\ Working(current[a])
        /\ job[current[a]].slot = workSlot[a]
    BY <1>0, <1>1, <2>1, <2>2
       DEF TypeOK, RegistryInv, CurrentWorks, SlotOwnership, CurrentSlot, Resident,
           LiveStates
  <2> QED
    BY <1>2, <2>1, <2>3
<1>10. \A b \in Agents : reserved[b] /\ b # a =>
           /\ owner[b] \in Launches /\ owner[b] # l /\ job[owner[b]].agent = b
           /\ workSlot[b] # s
  BY <1>1, <1>7 DEF RegistryInv, ReservedJoins, SlotOwnership, ReservationHeld
<1> HIDE DEF a, s
<1>11. SlotChain'
  BY <1>0, <1>1, SlotFacts DEF SlotOwnership, SlotChain
<1>12. JoinsWork'
  BY <1>1 DEF SlotOwnership, JoinsWork
<1>13. PreparingQuiet'
  BY <1>1 DEF SlotOwnership, PreparingQuiet
<1>14. JoiningOwned'
  <2>1. ASSUME NEW m \in Launches, pc'[m] = "joining"
        PROVE  /\ m # l /\ pc[m] = "joining" /\ job[m].agent \in Agents
               /\ job[m].agent = a => owner[a] = None /\ state[a] = "released"
    BY <1>1, <1>2, <1>6, <2>1, SlotFacts DEF a, clears, SlotOwnership, JoiningOwned
  <2> QED
    BY <1>1, <1>5, <2>1 DEF a, SlotOwnership, JoiningOwned
<1>15. ReservationHeld'
  BY <1>1, <1>4, <1>5, <1>10 DEF SlotOwnership, ReservationHeld
<1>16. ReservedStands'
  BY <1>1, <1>4, <1>5, <1>10 DEF SlotOwnership, ReservedStands
<1>17. FlagsTrue'
  BY <1>0, <1>1, <1>4, <1>5, <1>8, SlotFacts
     DEF TypeOK, SlotOwnership, FlagsTrue, Replaces
<1>18. CurrentSlot'
  BY <1>1, <1>5 DEF SlotOwnership, CurrentSlot
<1>19. LingeringSpent'
  BY <1>0, <1>1, <1>5, SlotFacts DEF TypeOK, SlotOwnership, LingeringSpent
<1>20. SlotsCounted'
  BY <1>0, <1>1, <1>4, <1>7 DEF TypeOK, SlotOwnership, SlotsCounted
<1>21. SlotUsed'
  <2>1. ASSUME NEW t \in slots', t \notin lingering
        PROVE  \E m \in Launches :
                  /\ job[m].slot = t
                  /\ \/ pc'[m] \in {"creating", "restoring", "preparing"}
                     \/ pc'[m] = "joining" /\ reserved'[job[m].agent]
                     \/ Working(m)
    <3>1. PICK m \in Launches :
              /\ job[m].slot = t
              /\ \/ pc[m] \in {"creating", "restoring", "preparing"}
                 \/ pc[m] = "joining" /\ reserved[job[m].agent]
                 \/ Working(m)
      BY <1>4, <2>1 DEF SlotOwnership, SlotUsed
    <3>2. CASE pc[m] = "joining" /\ reserved[a] /\ job[m].agent = a
      BY <1>1, <1>6, <1>9, <2>1, <3>1, <3>2 DEF a, s
    <3>3. CASE pc[m] = "joining" /\ job[m].agent # a
      BY <1>1, <3>1, <3>3, SlotFacts DEF a
    <3>4. CASE pc[m] # "joining"
      BY <1>1, <3>1, <3>4
    <3> QED
      BY <3>1, <3>2, <3>3, <3>4, <1>1 DEF Working
  <2> QED
    BY <1>1, <2>1 DEF SlotUsed
<1>22. SlotAccounted'
  BY <1>1, <1>4, <1>8 DEF SlotOwnership, SlotAccounted
<1> QED
  BY <1>11, <1>12, <1>13, <1>14, <1>15, <1>16, <1>17, <1>18, <1>19, <1>20, <1>21,
     <1>22
     DEF SlotOwnership

\* A restored agent prepares with the slot of the resume.
LEMMA RestoreSlots ==
    ASSUME RegistryInv, SlotOwnership, NEW l \in Launches, Restore(l)
    PROVE  SlotOwnership'
<1> DEFINE a == job[l].agent
<1>0. TypeOK /\ Launched
  BY DEF RegistryInv
<1>1. /\ pc[l] = "restoring" /\ pc'[l] = "preparing" /\ mon[l] = "none"
      /\ a \in Agents /\ job[l].kind = "resume" /\ ~Replaces(l) /\ job[l].slot = l
      /\ state[a] = "restoring" /\ state'[a] = "running" /\ ~reserved[a]
      /\ \A b \in Agents \ {a} : state'[b] = state[b]
      /\ \A m \in Launches \ {l} : pc'[m] = pc[m]
      /\ UNCHANGED <<job, mon, current, workSlot, owner, reserved, slots,
                     lingering, transferred>>
      /\ \A m \in Launches : Working(m)' <=> Working(m)
  BY <1>0, SlotFacts
     DEF Restore, runVars, TypeOK, Working, Launched, Replaces, SlotOwnership,
         SlotChain
<1>2. \A b \in Agents : /\ Resident(b)' => Resident(b)
                        /\ state[b] = "released" => state'[b] = "released"
                        /\ reserved[b] /\ state[b] = "running" => state'[b] = "running"
  BY <1>1 DEF Resident, LiveStates
<1>3. \A m \in Launches : Working(m) => job[m].agent # a
  BY <1>1 DEF RegistryInv, WorkInv, WorkIsCurrent
<1> HIDE DEF a
<1>11. SlotChain'
  BY <1>0, <1>1, SlotFacts DEF SlotOwnership, SlotChain
<1>12. JoinsWork'
  BY <1>1 DEF SlotOwnership, JoinsWork
<1>13. PreparingQuiet'
  BY <1>1, <1>3 DEF a, SlotOwnership, PreparingQuiet
<1>14. JoiningOwned'
  BY <1>1, <1>2, SlotFacts DEF SlotOwnership, JoiningOwned
<1>15. ReservationHeld'
  BY <1>0, <1>1 DEF RegistryInv, ReservedJoins, SlotOwnership, ReservationHeld
<1>16. ReservedStands'
  BY <1>1, <1>2 DEF SlotOwnership, ReservedStands
<1>17. FlagsTrue'
  BY <1>1 DEF SlotOwnership, FlagsTrue, Replaces
<1>18. CurrentSlot'
  BY <1>1, <1>2 DEF SlotOwnership, CurrentSlot
<1>19. LingeringSpent'
  BY <1>0, <1>1, SlotFacts DEF TypeOK, SlotOwnership, LingeringSpent
<1>20. SlotsCounted'
  BY <1>0, <1>1 DEF TypeOK, SlotOwnership, SlotsCounted
<1>21. SlotUsed'
  BY <1>0, <1>1, SlotFacts DEF TypeOK, SlotOwnership, SlotUsed
<1>22. SlotAccounted'
  BY <1>1 DEF SlotOwnership, SlotAccounted
<1> QED
  BY <1>11, <1>12, <1>13, <1>14, <1>15, <1>16, <1>17, <1>18, <1>19, <1>20, <1>21,
     <1>22
     DEF SlotOwnership

\* A run starts, and its slot is flagged.
LEMMA AcceptSlots ==
    ASSUME RegistryInv, SlotOwnership, NEW l \in Launches, NEW keep \in BOOLEAN,
           Accept(l, keep)
    PROVE  SlotOwnership'
<1> DEFINE a == job[l].agent
           s == job[l].slot
<1>0. TypeOK /\ Launched
  BY DEF RegistryInv
<1>1. /\ pc[l] \in {"creating", "preparing"} /\ pc'[l] = "ack" /\ mon[l] = "none"
      /\ pc[l] = "creating" => state[a] = "absent" /\ Created(l)
      /\ pc[l] = "preparing" => Resident(a)
      /\ a \in Agents /\ s \in Launches
      /\ mon'[l] = "turn" /\ state'[a] = "running" /\ current'[a] = l
      /\ workSlot'[a] = s /\ transferred' = transferred \cup {s}
      /\ \A b \in Agents \ {a} : /\ state'[b] = state[b] /\ current'[b] = current[b]
                                 /\ workSlot'[b] = workSlot[b]
      /\ \A m \in Launches \ {l} : pc'[m] = pc[m] /\ mon'[m] = mon[m]
      /\ UNCHANGED <<job, owner, reserved, slots, lingering>>
      /\ \A m \in Launches : Working(m)' <=> Working(m) \/ m = l
  BY <1>0, SlotFacts DEF Accept, InstallRun, Prepared, TypeOK, Working, Launched
<1>2. ~reserved[a] /\ state[a] # "released"
  BY <1>1 DEF RegistryInv, ReservedJoins, PreparingAlone, Resident, LiveStates
<1>3. \A m \in Launches : /\ pc[m] = "joining" => job[m].agent # a
                          /\ pc[m] = "preparing" /\ job[m].agent = a => m = l
  BY <1>1, <1>2
     DEF RegistryInv, PreparingAlone, SlotOwnership, JoiningOwned, Resident,
         LiveStates
<1>4. /\ job[l].kind = "replace" => s # l /\ mon[s] = "done"
      /\ job[l].kind # "replace" => s = l
      /\ pc[l] = "creating" => job[l].kind # "replace"
  BY <1>1 DEF SlotOwnership, SlotChain, Created
<1>5. \A b \in Agents : reserved[b] => b # a /\ owner[b] \in Launches /\ owner[b] # l
  BY <1>1, <1>2 DEF RegistryInv, ReservedJoins
<1>6. \A m \in Launches : job[m].slot = s => job[m].agent = a
  BY SlotFacts
<1> HIDE DEF a, s
<1>11. SlotChain'
  BY <1>0, <1>1, <1>4, SlotFacts DEF s, SlotOwnership, SlotChain
<1>12. JoinsWork'
  BY <1>1, <1>3 DEF a, SlotOwnership, JoinsWork
<1>13. PreparingQuiet'
  BY <1>1, <1>3 DEF a, SlotOwnership, PreparingQuiet
<1>14. JoiningOwned'
  BY <1>1, <1>3, SlotFacts DEF SlotOwnership, JoiningOwned
<1>15. ReservationHeld'
  BY <1>0, <1>1, <1>5 DEF TypeOK, SlotOwnership, ReservationHeld
<1>16. ReservedStands'
  BY <1>1, <1>5 DEF SlotOwnership, ReservedStands
<1>17. FlagsTrue'
  BY <1>1, <1>3, <1>6 DEF s, SlotOwnership, FlagsTrue, Replaces
<1>18. CurrentSlot'
  BY <1>1, <1>6 DEF s, Resident, SlotOwnership, CurrentSlot
<1>19. LingeringSpent'
  BY <1>0, <1>1, <1>4, SlotFacts DEF s, TypeOK, SlotOwnership, LingeringSpent
<1>20. SlotsCounted'
  BY <1>0, <1>1 DEF TypeOK, SlotOwnership, SlotsCounted
<1>21. SlotUsed'
  BY <1>0, <1>1, SlotFacts DEF TypeOK, SlotOwnership, SlotUsed
<1>22. SlotAccounted'
  BY <1>0, <1>1, <1>4 DEF s, TypeOK, SlotOwnership, SlotAccounted, SlotsCounted
<1> QED
  BY <1>11, <1>12, <1>13, <1>14, <1>15, <1>16, <1>17, <1>18, <1>19, <1>20, <1>21,
     <1>22
     DEF SlotOwnership

\* The launching call ends: it drops a slot that is not flagged, and no run has one.
LEMMA AckEndsSlots ==
    ASSUME RegistryInv, SlotOwnership, NEW l \in Launches, AckEnds(l)
    PROVE  SlotOwnership'
<1> DEFINE s == job[l].slot
<1>0. TypeOK /\ Launched
  BY DEF RegistryInv
<1>1. /\ pc[l] = "ack" /\ pc'[l] = "done"
      /\ job[l].agent \in Agents /\ s \in Launches
      /\ \A m \in Launches \ {l} : pc'[m] = pc[m]
      /\ UNCHANGED <<job, mon, current, workSlot, lingering, transferred>>
      /\ \A m \in Launches : Working(m)' <=> Working(m)
  BY <1>0, SlotFacts DEF AckEnds, runVars, TypeOK, Working
<1>2. ~(owner[job[l].agent] = l /\ reserved[job[l].agent])
  BY <1>1 DEF RegistryInv, ReservedJoins
<1>3. /\ UNCHANGED <<state, reserved>>
      /\ \A b \in Agents : \/ owner'[b] = owner[b]
                           \/ owner[b] = l /\ owner'[b] = None
      /\ \/ slots' = slots
         \/ /\ slots' = slots \ {s} /\ s \notin transferred
            /\ job[l].kind = "replace" => owner[job[l].agent] \in {None, l}
  <2>1. CASE Replaces(l) /\ EndHandoff(l, transferred)
    BY <1>0, <1>1, <1>2, <2>1 DEF EndHandoff, TypeOK
  <2>2. CASE ~Replaces(l) /\ DropSlot(l)
    BY <1>1, <2>2 DEF DropSlot, Replaces, SlotOwnership, SlotChain
  <2> QED
    BY <2>1, <2>2 DEF AckEnds
<1>4. \A b \in Agents : reserved[b] => /\ owner[b] \in Launches /\ owner[b] # l
                                       /\ owner'[b] = owner[b]
  BY <1>1, <1>3 DEF RegistryInv, ReservedJoins
<1>5. ASSUME NEW b \in Agents, reserved[b], workSlot[b] = s
      PROVE  s \in slots'
  <2>1. /\ job[owner[b]].slot = s /\ pc[owner[b]] = "joining"
        /\ job[owner[b]].agent = b /\ b = job[l].agent
        /\ s \in slots
    BY <1>1, <1>4, <1>5, SlotFacts DEF SlotOwnership, ReservationHeld
  <2>2. job[l].kind = "replace" => s \in slots'
    BY <1>3, <1>4, <1>5, <2>1, SlotFacts
  <2>3. job[l].kind # "replace" => s = l /\ job[owner[b]].kind = "replace"
    BY <1>1, <1>4, <1>5, <2>1 DEF SlotOwnership, SlotChain
  <2>4. job[l].kind # "replace" => s \in transferred
    BY <1>5, <2>3 DEF SlotOwnership, ReservedStands
  <2> QED
    BY <1>3, <2>1, <2>2, <2>4
<1>6. \A m \in Launches : Working(m) /\ job[m].slot = s => s \in transferred
  BY DEF SlotOwnership, FlagsTrue
<1> HIDE DEF s
<1>11. SlotChain'
  BY <1>0, <1>1, SlotFacts DEF SlotOwnership, SlotChain
<1>12. JoinsWork'
  BY <1>1 DEF SlotOwnership, JoinsWork
<1>13. PreparingQuiet'
  BY <1>1 DEF SlotOwnership, PreparingQuiet
<1>14. JoiningOwned'
  BY <1>1, <1>3, SlotFacts DEF SlotOwnership, JoiningOwned
<1>15. ReservationHeld'
  BY <1>1, <1>3, <1>4, <1>5 DEF SlotOwnership, ReservationHeld
<1>16. ReservedStands'
  BY <1>1, <1>3, <1>4 DEF SlotOwnership, ReservedStands
<1>17. FlagsTrue'
  BY <1>1, <1>3, SlotFacts DEF SlotOwnership, FlagsTrue, Replaces
<1>18. CurrentSlot'
  BY <1>1, <1>3 DEF Resident, SlotOwnership, CurrentSlot
<1>19. LingeringSpent'
  BY <1>0, <1>1, <1>3 DEF TypeOK, SlotOwnership, LingeringSpent
<1>20. SlotsCounted'
  BY <1>0, <1>1, <1>3, SlotFacts DEF s, TypeOK, SlotOwnership, SlotsCounted
<1>21. SlotUsed'
  BY <1>0, <1>1, <1>3 DEF TypeOK, SlotOwnership, SlotUsed
<1>22. SlotAccounted'
  BY <1>0, <1>1, <1>3, <1>6 DEF TypeOK, SlotOwnership, SlotAccounted
<1> QED
  BY <1>11, <1>12, <1>13, <1>14, <1>15, <1>16, <1>17, <1>18, <1>19, <1>20, <1>21,
     <1>22
     DEF SlotOwnership

\* The child's task is done, and nobody counts on the slot that waited for it.
LEMMA LingerEndsSlots ==
    ASSUME RegistryInv, SlotOwnership, NEW s \in Launches, LingerEnds(s)
    PROVE  SlotOwnership'
<1>0. TypeOK /\ Launched
  BY DEF RegistryInv
<1>1. /\ s \in lingering /\ lingering' = lingering \ {s} /\ slots' = slots \ {s}
      /\ UNCHANGED <<records, launchVars, runVars, transferred>>
      /\ \A m \in Launches : Working(m)' <=> Working(m)
      /\ \A a \in Agents : Resident(a)' <=> Resident(a)
  BY DEF LingerEnds, runVars, records, Working, Resident
<1>2. /\ mon[s] # "none"
      /\ \A l \in Launches : job[l].slot = s =>
            /\ ~Working(l) /\ pc[l] # "preparing"
            /\ pc[l] = "joining" => ~reserved[job[l].agent]
  BY <1>1 DEF SlotOwnership, LingeringSpent
<1>3. \A l \in Launches : pc[l] \in {"creating", "restoring", "preparing"} => l # s
  BY <1>2, SlotFacts
<1>4. \A a \in Agents : reserved[a] => workSlot[a] # s
  BY <1>2 DEF RegistryInv, ReservedJoins, SlotOwnership, ReservationHeld
<1>11. SlotChain'
  BY <1>0, <1>1, SlotFacts DEF launchVars, records, runVars, SlotOwnership, SlotChain
<1>12. JoinsWork'
  BY <1>0, <1>1, SlotFacts DEF launchVars, records, runVars, SlotOwnership, JoinsWork
<1>13. PreparingQuiet'
  BY <1>0, <1>1, SlotFacts
     DEF launchVars, records, runVars, SlotOwnership, PreparingQuiet
<1>14. JoiningOwned'
  BY <1>0, <1>1, SlotFacts
     DEF launchVars, records, runVars, SlotOwnership, JoiningOwned
<1>15. ReservationHeld'
  BY <1>1, <1>4 DEF launchVars, records, SlotOwnership, ReservationHeld
<1>16. ReservedStands'
  BY <1>0, <1>1, SlotFacts
     DEF launchVars, records, runVars, SlotOwnership, ReservedStands
<1>17. FlagsTrue'
  BY <1>0, <1>1, SlotFacts
     DEF launchVars, records, runVars, SlotOwnership, FlagsTrue, Replaces
<1>18. CurrentSlot'
  BY <1>0, <1>1, SlotFacts
     DEF launchVars, records, runVars, SlotOwnership, CurrentSlot
<1>19. LingeringSpent'
  BY <1>0, <1>1, SlotFacts
     DEF launchVars, records, runVars, SlotOwnership, LingeringSpent
<1>20. SlotsCounted'
  BY <1>1, <1>3 DEF launchVars, records, SlotOwnership, SlotsCounted
<1>21. SlotUsed'
  BY <1>0, <1>1, SlotFacts DEF launchVars, records, runVars, SlotOwnership, SlotUsed
<1>22. SlotAccounted'
  BY <1>1, <1>2 DEF launchVars, records, SlotOwnership, SlotAccounted
<1> QED
  BY <1>11, <1>12, <1>13, <1>14, <1>15, <1>16, <1>17, <1>18, <1>19, <1>20, <1>21,
     <1>22
     DEF SlotOwnership

\* A release clears a reservation, and its slot unless its run still works.
LEMMA ReleaseSlots ==
    ASSUME RegistryInv, SlotOwnership, NEW a \in Agents, Release(a)
    PROVE  SlotOwnership'
<1> DEFINE clears == Resident(a) /\ reserved[a]
           s == workSlot[a]
<1>0. TypeOK /\ Launched
  BY DEF RegistryInv
<1>1. /\ state'[a] = "released" /\ ~Resident(a)'
      /\ clears => ~reserved'[a] /\ owner'[a] = None
      /\ ~clears => reserved' = reserved /\ owner' = owner
      /\ \A b \in Agents \ {a} : /\ reserved'[b] = reserved[b] /\ owner'[b] = owner[b]
                                 /\ state'[b] = state[b]
                                 /\ Resident(b)' <=> Resident(b)
      /\ slots' = IF clears /\ current[a] = None THEN slots \ {s} ELSE slots
      /\ UNCHANGED <<pc, job, mon, current, workSlot, lingering, transferred>>
      /\ \A m \in Launches : Working(m)' <=> Working(m)
  BY <1>0 DEF Release, launchVars, runVars, TypeOK, Working, Resident, LiveStates
<1>2. clears => /\ owner[a] \in Launches /\ pc[owner[a]] = "joining"
                /\ job[owner[a]].agent = a /\ job[owner[a]].slot = s
                /\ s \in Launches
  BY <1>0, SlotFacts DEF RegistryInv, ReservedJoins, SlotOwnership, ReservationHeld
<1>3. \A m \in Launches :
          /\ pc[m] = "joining" /\ job[m].agent = a /\ clears => m = owner[a]
          /\ clears /\ job[m].slot = s =>
                /\ job[m].agent = a
                /\ Working(m) => current[a] # None
                /\ m = s => pc[m] \notin {"creating", "restoring", "preparing"}
  BY <1>2, SlotFacts
     DEF SlotOwnership, JoiningOwned, RegistryInv, WorkInv, WorkIsCurrent, Resident,
         LiveStates
<1>4. ASSUME clears, current[a] # None
      PROVE  current[a] \in Launches /\ Working(current[a]) /\ job[current[a]].slot = s
  BY <1>0, <1>4 DEF TypeOK, RegistryInv, CurrentWorks, SlotOwnership, CurrentSlot
<1>5. \A b \in Agents : reserved[b] /\ b # a /\ clears => workSlot[b] # s
  BY <1>2, SlotFacts DEF RegistryInv, ReservedJoins, SlotOwnership, ReservationHeld
<1>6. \A b \in Agents : reserved'[b] => reserved[b] /\ owner'[b] = owner[b]
  BY <1>1
<1>7. reserved'[a] => state[a] # "running"
  BY <1>1 DEF Resident, LiveStates
<1> HIDE DEF clears, s
<1>11. SlotChain'
  BY <1>0, <1>1, SlotFacts DEF TypeOK, SlotOwnership, SlotChain
<1>12. JoinsWork'
  BY <1>0, <1>1, SlotFacts DEF TypeOK, SlotOwnership, JoinsWork
<1>13. PreparingQuiet'
  BY <1>0, <1>1, SlotFacts DEF TypeOK, SlotOwnership, PreparingQuiet
<1>14. JoiningOwned'
  BY <1>1, <1>2, <1>3, SlotFacts DEF SlotOwnership, JoiningOwned
<1>15. ReservationHeld'
  BY <1>1, <1>5, <1>6 DEF SlotOwnership, ReservationHeld
<1>16. ReservedStands'
  BY <1>1, <1>6, <1>7 DEF SlotOwnership, ReservedStands
<1>17. FlagsTrue'
  BY <1>0, <1>1, SlotFacts DEF TypeOK, SlotOwnership, FlagsTrue, Replaces
<1>18. CurrentSlot'
  BY <1>1 DEF SlotOwnership, CurrentSlot
<1>19. LingeringSpent'
  BY <1>0, <1>1, <1>6, SlotFacts DEF TypeOK, SlotOwnership, LingeringSpent
<1>20. SlotsCounted'
  BY <1>0, <1>1, <1>3 DEF TypeOK, SlotOwnership, SlotsCounted
<1>21. SlotUsed'
  <2>1. ASSUME NEW t \in slots', t \notin lingering
        PROVE  \E m \in Launches :
                  /\ job[m].slot = t
                  /\ \/ pc[m] \in {"creating", "restoring", "preparing"}
                     \/ pc[m] = "joining" /\ reserved'[job[m].agent]
                     \/ Working(m)
    <3>1. PICK m \in Launches :
              /\ job[m].slot = t
              /\ \/ pc[m] \in {"creating", "restoring", "preparing"}
                 \/ pc[m] = "joining" /\ reserved[job[m].agent]
                 \/ Working(m)
      BY <1>1, <2>1 DEF SlotOwnership, SlotUsed
    <3>2. CASE pc[m] = "joining" /\ job[m].agent = a /\ clears
      BY <1>1, <1>2, <1>3, <1>4, <2>1, <3>1, <3>2
    <3>3. CASE pc[m] = "joining" /\ ~(job[m].agent = a /\ clears)
      BY <1>1, <3>1, <3>3, SlotFacts
    <3>4. CASE pc[m] # "joining"
      BY <3>1, <3>4
    <3> QED
      BY <3>2, <3>3, <3>4
  <2> QED
    BY <1>1, <2>1 DEF SlotUsed
<1>22. SlotAccounted'
  BY <1>1, <1>3 DEF SlotOwnership, SlotAccounted
<1> QED
  BY <1>11, <1>12, <1>13, <1>14, <1>15, <1>16, <1>17, <1>18, <1>19, <1>20, <1>21,
     <1>22
     DEF SlotOwnership

-----------------------------------------------------------------------------

\* The steps that leave every slot where it is.
LEMMA StillSteps ==
    ASSUME RegistryInv,
           \/ \E a \in Agents : Cancel(a) \/ Evict(a) \/ Expire(a)
           \/ \E l \in Launches :
                 \/ TurnEnds(l) \/ MonitorDone(l)
                 \/ \E how \in {"final", "recoverable"} : Observe(l, how)
                 \/ \E victims \in SUBSET Agents, suspends \in BOOLEAN :
                       Settle(l, victims, suspends)
                 \/ ~Working(l) /\ \E lingers \in BOOLEAN : MonitorCancelled(l, lingers)
           \/ \E a \in Agents, r \in Launches : Unwind(a, r)
           \/ UNCHANGED vars
    PROVE  Still
<1>0. TypeOK /\ Launched
  BY DEF RegistryInv
<1>1. ASSUME NEW a \in Agents, Cancel(a) PROVE Still
  BY <1>0, <1>1 DEF Cancel, Still, records, launchVars, TypeOK, Working, Resident
<1>2. ASSUME NEW a \in Agents, Evict(a) PROVE Still
  BY <1>0, <1>2
     DEF Evict, Still, launchVars, runVars, TypeOK, Working, Resident, LiveStates
<1>3. ASSUME NEW a \in Agents, Expire(a) PROVE Still
  BY <1>0, <1>3
     DEF Expire, Expired, Still, launchVars, runVars, TypeOK, Working, Resident,
         LiveStates
<1>4. ASSUME NEW l \in Launches, TurnEnds(l) \/ MonitorDone(l) PROVE Still
  BY <1>0, <1>4
     DEF TurnEnds, MonitorDone, Still, records, launchVars, TypeOK, Working,
         Resident
<1>5. ASSUME NEW l \in Launches, NEW how \in {"final", "recoverable"}, Observe(l, how)
      PROVE  Still
  BY <1>0, <1>5 DEF Observe, Still, records, launchVars, TypeOK, Working, Resident
<1>6. ASSUME NEW l \in Launches, NEW victims \in SUBSET Agents, NEW suspends \in BOOLEAN,
             Settle(l, victims, suspends)
      PROVE  Still
  <2>1. /\ UNCHANGED <<pc, job, slots, transferred, lingering, reserved, owner,
                       workSlot, current>>
        /\ \A m \in Launches : /\ Working(m)' <=> Working(m)
                               /\ mon'[m] = "none" <=> mon[m] = "none"
                               /\ mon[m] = "done" => mon'[m] = "done"
    BY <1>0, <1>6 DEF Settle, launchVars, TypeOK, Working
  <2>2. ASSUME NEW a \in Agents
        PROVE  \/ state'[a] = state[a]
               \/ /\ state[a] \in {"finalizing", "suspended"}
                  /\ state'[a] \in {"suspended", "idle", "closed"}
    BY <1>0, <1>6 DEF Settle, RoomMade, Suspended, Expired, InTransition, Rest, TypeOK
  <2> QED
    BY <2>1, <2>2 DEF Still, Resident, LiveStates
<1>7. ASSUME NEW l \in Launches, ~Working(l), NEW lingers \in BOOLEAN,
             MonitorCancelled(l, lingers)
      PROVE  Still
  BY <1>0, <1>7
     DEF MonitorCancelled, Still, records, launchVars, TypeOK, Working, Resident
<1>8. ASSUME NEW a \in Agents, NEW r \in Launches, Unwind(a, r) PROVE Still
  BY <1>0, <1>8
     DEF Unwind, InTransition, Rest, Still, launchVars, runVars, TypeOK, Working,
         Resident, LiveStates
<1>9. CASE UNCHANGED vars
  BY <1>9 DEF vars, records, launchVars, runVars, Still, Working, Resident
<1> QED
  BY <1>1, <1>2, <1>3, <1>4, <1>5, <1>6, <1>7, <1>8, <1>9

\* The admissions that need no reservation.
LEMMA AllocatesSteps ==
    ASSUME RegistryInv, NEW l \in Launches, NEW a \in Agents,
           \/ \E p \in Packages \cup {None} : LaunchFresh(l, a, p)
           \/ \E q \in Agents, p \in Packages : LaunchClaim(l, a, q, p)
           \/ LaunchReuse(l, a) \/ Resume(l, a)
    PROVE  Allocates(l) /\ Capacity
<1>0. TypeOK /\ None \notin Agents \cup Launches \cup Packages
  BY LifecycleAssumption DEF RegistryInv
<1>1. ASSUME NEW p \in Packages \cup {None}, LaunchFresh(l, a, p)
      PROVE  Allocates(l) /\ Capacity
  BY <1>0, <1>1
     DEF LaunchFresh, Begin, Allocates, records, runVars, TypeOK, Resident, Jobs,
         Kinds
<1>2. ASSUME NEW q \in Agents, NEW p \in Packages, LaunchClaim(l, a, q, p)
      PROVE  Allocates(l) /\ Capacity
  BY <1>0, <1>2
     DEF LaunchClaim, ClaimableRun, Begin, Allocates, runVars, TypeOK, Resident,
         Jobs, Kinds
<1>3. ASSUME LaunchReuse(l, a) PROVE Allocates(l) /\ Capacity
  BY <1>0, <1>3
     DEF LaunchReuse, Begin, Allocates, runVars, TypeOK, Resident, LiveStates, Jobs,
         Kinds
<1>4. ASSUME Resume(l, a) PROVE Allocates(l) /\ Capacity
  BY <1>0, <1>4
     DEF Resume, Resumable, Begin, Allocates, runVars, TypeOK, Resident, LiveStates,
         Jobs, Kinds
<1> QED
  BY <1>1, <1>2, <1>3, <1>4

\* The failures before a run starts: the flag of a slot never keeps it from them.
LEMMA GivesUpSteps ==
    ASSUME RegistryInv, SlotOwnership, NEW l \in Launches,
           \/ RestoreFails(l)
           \/ \E registered \in BOOLEAN : AdmissionFails(l, registered)
    PROVE  GivesUp(l)
<1> DEFINE a == job[l].agent
<1>0. TypeOK /\ Launched
  BY DEF RegistryInv
<1>1. CASE RestoreFails(l)
  <2>1. /\ pc[l] = "restoring" /\ a \in Agents /\ job[l].slot = l
        /\ state[a] \in {"restoring", "released"}
    BY <1>0, <1>1, SlotFacts
       DEF RestoreFails, Launched, SlotOwnership, SlotChain, RegistryInv,
           RestoringAlone
  <2>2. \A b \in Agents : \/ state'[b] = state[b]
                          \/ state[b] = "restoring" /\ state'[b] = "suspended"
    BY <1>0, <1>1, <2>1 DEF RestoreFails, UndoResume, TypeOK, Resident, LiveStates
  <2>3. /\ pc' = [pc EXCEPT ![l] = "done"] /\ slots' = slots \ {job[l].slot}
        /\ UNCHANGED <<job, mon, transferred, lingering, reserved, workSlot, current,
                       owner>>
    BY <1>1, <2>1 DEF RestoreFails, runVars
  <2> QED
    BY <2>1, <2>2, <2>3 DEF GivesUp, Resident, LiveStates
<1>2. ASSUME NEW registered \in BOOLEAN, AdmissionFails(l, registered)
      PROVE  GivesUp(l)
  <2>1. /\ pc[l] \in {"creating", "preparing"} /\ a \in Agents
        /\ Replaces(l) => pc[l] = "preparing"
        /\ job[l].kind = "resume" => pc[l] = "preparing"
    BY <1>0, <1>2, SlotFacts DEF AdmissionFails, Launched, Created, Replaces
  <2>2. slots' = slots \ {job[l].slot}
    BY <1>2, <2>1 DEF AdmissionFails, SlotOwnership, FlagsTrue
  <2>3. /\ RolledBack(l) = state[a]
           \/ /\ state[a] = "running" /\ ~reserved[a]
              /\ RolledBack(l) \in {"idle", "closed"}
        /\ pc[l] = "preparing" /\ Resident(a) => ~reserved[a]
    BY <2>1 DEF RolledBack, Rest, RegistryInv, PreparingAlone, Resident, LiveStates
  <2>4. \A b \in Agents : \/ state'[b] = state[b]
                          \/ /\ Resident(b) /\ ~reserved[b]
                             /\ state'[b] \in {"suspended", "idle", "closed"}
    <3>1. CASE job[l].kind = "resume"
      BY <1>0, <1>2, <2>1, <2>3, <3>1
         DEF AdmissionFails, UndoResume, TypeOK, Resident, LiveStates
    <3>2. CASE job[l].kind # "resume"
      BY <1>0, <1>2, <2>1, <2>3, <3>2 DEF AdmissionFails, TypeOK, Resident, LiveStates
    <3> QED
      BY <3>1, <3>2
  <2>5. /\ pc' = [pc EXCEPT ![l] = "done"]
        /\ UNCHANGED <<job, mon, transferred, lingering, reserved, workSlot, current>>
        /\ \A b \in Agents : \/ owner'[b] = owner[b]
                             \/ owner[b] = l /\ owner'[b] = None
    BY <1>0, <1>2, <2>1 DEF AdmissionFails, runVars, TypeOK
  <2> QED
    BY <2>1, <2>2, <2>4, <2>5 DEF GivesUp, Resident, LiveStates
<1> QED
  BY <1>1, <1>2

\* The ends of a run: its publication, or its cancellation by a release.
LEMMA RunEndsSteps ==
    ASSUME RegistryInv, NEW l \in Launches,
           \/ \E rejected, lingers \in BOOLEAN : Publish(l, rejected, lingers)
           \/ Working(l) /\ \E lingers \in BOOLEAN : MonitorCancelled(l, lingers)
    PROVE  RunEnds(l)
<1>1. ASSUME NEW rejected \in BOOLEAN, NEW lingers \in BOOLEAN,
             Publish(l, rejected, lingers)
      PROVE  RunEnds(l)
  BY <1>1 DEF Publish, RunEnds, launchVars, Working
<1>2. ASSUME NEW lingers \in BOOLEAN, Working(l), MonitorCancelled(l, lingers)
      PROVE  RunEnds(l)
  BY <1>2 DEF MonitorCancelled, RunEnds, launchVars, records
<1> QED
  BY <1>1, <1>2

\* Every step keeps each slot with its owner.
LEMMA SlotOwnershipNext ==
    ASSUME RegistryInv, SlotOwnership, [Next]_vars
    PROVE  SlotOwnership'
<1>1. CASE Requests
  <2>1. ASSUME NEW l \in Launches, NEW a \in Agents,
               ReserveBusy(l, a) \/ ReserveSuspended(l, a)
        PROVE  SlotOwnership'
    BY <2>1, ReserveBusySlots, ReserveSuspendedSlots
  <2>2. ASSUME NEW l \in Launches, NEW a \in Agents,
               \/ \E p \in Packages \cup {None} : LaunchFresh(l, a, p)
               \/ \E q \in Agents, p \in Packages : LaunchClaim(l, a, q, p)
               \/ LaunchReuse(l, a) \/ Resume(l, a)
        PROVE  SlotOwnership'
    BY <2>2, AllocatesSteps, AllocatesKeeps
  <2>3. ASSUME NEW a \in Agents, Release(a) \/ ReleaseGuarded(a)
        PROVE  SlotOwnership'
    BY <2>3, ReleaseSlots DEF ReleaseGuarded
  <2>4. ASSUME NEW a \in Agents, Cancel(a) \/ Evict(a) \/ Expire(a)
        PROVE  SlotOwnership'
    BY <2>4, StillSteps, StillKeeps
  <2> QED
    BY <1>1, <2>1, <2>2, <2>3, <2>4 DEF Requests
<1>2. ASSUME NEW l \in Launches, LaunchSteps(l) PROVE SlotOwnership'
  BY <1>2, JoinSlots, LeaveJoinSlots, RestoreSlots, AcceptSlots, AckEndsSlots,
     GivesUpSteps, GivesUpKeeps
     DEF LaunchSteps
<1>3. ASSUME NEW l \in Launches, MonitorSteps(l) PROVE SlotOwnership'
  <2>1. CASE \/ \E rejected, lingers \in BOOLEAN : Publish(l, rejected, lingers)
             \/ Working(l) /\ \E lingers \in BOOLEAN : MonitorCancelled(l, lingers)
    BY <2>1, RunEndsSteps, RunEndsKeeps
  <2>2. CASE \/ TurnEnds(l) \/ MonitorDone(l)
             \/ \E how \in {"final", "recoverable"} : Observe(l, how)
             \/ \E victims \in SUBSET Agents, suspends \in BOOLEAN :
                   Settle(l, victims, suspends)
             \/ ~Working(l) /\ \E lingers \in BOOLEAN : MonitorCancelled(l, lingers)
    BY <2>2, StillSteps, StillKeeps
  <2> QED
    BY <1>3, <2>1, <2>2 DEF MonitorSteps
<1>4. ASSUME NEW s \in Launches, LingerEnds(s) PROVE SlotOwnership'
  BY <1>4, LingerEndsSlots
<1>5. ASSUME NEW a \in Agents, NEW r \in Launches, Unwind(a, r) PROVE SlotOwnership'
  BY <1>5, StillSteps, StillKeeps
<1>6. CASE UNCHANGED vars
  BY <1>6, StillSteps, StillKeeps
<1> QED
  BY <1>1, <1>2, <1>3, <1>4, <1>5, <1>6 DEF Next, Quiescent

-----------------------------------------------------------------------------

\* A slot that the cap counts was counted before.
NoneAdmitted ==
    \A s \in slots' : job'[s].kind # "replaceSuspended" =>
        s \in slots /\ job[s].kind # "replaceSuspended"

LEMMA CapKept ==
    ASSUME TypeOK, AdmittedWithinCap, NoneAdmitted
    PROVE  AdmittedWithinCap'
<1> DEFINE old == {s \in slots : job[s].kind # "replaceSuspended"}
           new == {s \in slots' : job'[s].kind # "replaceSuspended"}
<1>1. IsFiniteSet(old)
  BY LifecycleAssumption, FS_Subset, old \in SUBSET Launches DEF TypeOK
<1>2. new \in SUBSET old
  BY DEF NoneAdmitted
<1>3. Cardinality(new) <= Cardinality(old)
  BY <1>1, <1>2, FS_Subset
<1>4. Cardinality(old) \in Nat /\ Cardinality(new) \in Nat
  BY <1>1, <1>2, FS_Subset, FS_CardinalityType
<1>5. Cardinality(old) <= Cap
  BY DEF AdmittedWithinCap
<1>6. Cardinality(new) <= Cap
  BY <1>3, <1>4, <1>5, LifecycleAssumption
<1> QED
  BY <1>6 DEF AdmittedWithinCap

LEMMA CapAdmits ==
    ASSUME TypeOK, Capacity, NEW l \in Launches, Allocates(l)
    PROVE  AdmittedWithinCap'
<1> DEFINE new == {s \in slots' : job'[s].kind # "replaceSuspended"}
<1>1. IsFiniteSet(slots)
  BY LifecycleAssumption, FS_Subset DEF TypeOK
<1>2. new \in SUBSET (slots \cup {l})
  BY DEF Allocates
<1>3. /\ IsFiniteSet(slots \cup {l})
      /\ Cardinality(slots \cup {l}) <= Cardinality(slots) + 1
      /\ Cardinality(slots) \in Nat /\ Cardinality(slots \cup {l}) \in Nat
  BY <1>1, FS_AddElement, FS_CardinalityType
<1>4. Cardinality(new) <= Cardinality(slots \cup {l}) /\ Cardinality(new) \in Nat
  BY <1>2, <1>3, FS_Subset, FS_CardinalityType
<1>5. Cardinality(new) <= Cap
  BY <1>3, <1>4, LifecycleAssumption DEF Capacity
<1> QED
  BY <1>5 DEF AdmittedWithinCap

\* No step but an admission below the cap counts another slot: a replacement takes
\* over the slot of the run it joins, or brings one that the cap does not count.
LEMMA CapNext ==
    ASSUME RegistryInv, SlotOwnership, AdmittedWithinCap, [Next]_vars
    PROVE  AdmittedWithinCap'
<1>0. TypeOK /\ Launched
  BY DEF RegistryInv
<1>1. \A l \in Launches : pc[l] = "new" => l \notin slots
  BY SlotFacts DEF SlotOwnership, SlotsCounted
<1>2. ASSUME slots' \subseteq slots, job' = job PROVE AdmittedWithinCap'
  BY <1>0, <1>2, CapKept DEF NoneAdmitted
<1>3. ASSUME Still PROVE AdmittedWithinCap'
  BY <1>2, <1>3 DEF Still
<1>4. CASE Requests
  <2>1. ASSUME NEW l \in Launches, NEW a \in Agents,
               \/ \E p \in Packages \cup {None} : LaunchFresh(l, a, p)
               \/ \E q \in Agents, p \in Packages : LaunchClaim(l, a, q, p)
               \/ LaunchReuse(l, a) \/ Resume(l, a)
        PROVE  AdmittedWithinCap'
    BY <1>0, <2>1, AllocatesSteps, CapAdmits
  <2>2. ASSUME NEW l \in Launches, NEW a \in Agents, ReserveBusy(l, a)
        PROVE  AdmittedWithinCap'
    <3>1. NoneAdmitted
      BY <1>0, <1>1, <2>2 DEF ReserveBusy, Begin, TypeOK, NoneAdmitted
    <3> QED
      BY <1>0, <3>1, CapKept
  <2>3. ASSUME NEW l \in Launches, NEW a \in Agents, ReserveSuspended(l, a)
        PROVE  AdmittedWithinCap'
    <3>1. NoneAdmitted
      BY <1>0, <1>1, <2>3 DEF ReserveSuspended, Begin, TypeOK, NoneAdmitted
    <3> QED
      BY <1>0, <3>1, CapKept
  <2>4. ASSUME NEW a \in Agents, Release(a) \/ ReleaseGuarded(a)
        PROVE  AdmittedWithinCap'
    BY <1>2, <2>4 DEF ReleaseGuarded, Release, launchVars
  <2>5. ASSUME NEW a \in Agents, Cancel(a) \/ Evict(a) \/ Expire(a)
        PROVE  AdmittedWithinCap'
    BY <1>3, <2>5, StillSteps
  <2> QED
    BY <1>4, <2>1, <2>2, <2>3, <2>4, <2>5 DEF Requests
<1>5. ASSUME NEW l \in Launches, LaunchSteps(l) PROVE AdmittedWithinCap'
  <2>1. CASE \/ RestoreFails(l)
             \/ \E registered \in BOOLEAN : AdmissionFails(l, registered)
    BY SMTT(30), <1>2, <2>1, GivesUpSteps DEF GivesUp
  <2>2. CASE Join(l) \/ LeaveJoin(l) \/ Restore(l) \/ AckEnds(l)
    BY <1>2, <2>2 DEF Join, LeaveJoin, Restore, AckEnds, EndHandoff, DropSlot
  <2>3. CASE \E keep \in BOOLEAN : Accept(l, keep)
    BY <1>2, <2>3 DEF Accept
  <2> QED
    BY <1>5, <2>1, <2>2, <2>3 DEF LaunchSteps
<1>6. ASSUME NEW l \in Launches, MonitorSteps(l) PROVE AdmittedWithinCap'
  <2>1. CASE \/ \E rejected, lingers \in BOOLEAN : Publish(l, rejected, lingers)
             \/ Working(l) /\ \E lingers \in BOOLEAN : MonitorCancelled(l, lingers)
    BY <1>2, <2>1, RunEndsSteps DEF RunEnds, FreesSlot
  <2>2. CASE \/ TurnEnds(l) \/ MonitorDone(l)
             \/ \E how \in {"final", "recoverable"} : Observe(l, how)
             \/ \E victims \in SUBSET Agents, suspends \in BOOLEAN :
                   Settle(l, victims, suspends)
             \/ ~Working(l) /\ \E lingers \in BOOLEAN : MonitorCancelled(l, lingers)
    BY <1>3, <2>2, StillSteps
  <2> QED
    BY <1>6, <2>1, <2>2 DEF MonitorSteps
<1>7. ASSUME NEW s \in Launches, LingerEnds(s) PROVE AdmittedWithinCap'
  BY <1>2, <1>7 DEF LingerEnds, launchVars
<1>8. ASSUME NEW a \in Agents, NEW r \in Launches, Unwind(a, r)
      PROVE  AdmittedWithinCap'
  BY <1>3, <1>8, StillSteps
<1>9. CASE UNCHANGED vars
  BY <1>3, <1>9, StillSteps
<1> QED
  BY <1>4, <1>5, <1>6, <1>7, <1>8, <1>9 DEF Next, Quiescent

-----------------------------------------------------------------------------

\* At first there is no slot.
LEMMA SlotsInit == Init => SlotOwnership /\ AdmittedWithinCap
<1> SUFFICES ASSUME Init PROVE SlotOwnership /\ AdmittedWithinCap
  OBVIOUS
<1>1. SlotOwnership
  BY DEF Init, SlotOwnership, SlotChain, JoinsWork, PreparingQuiet, JoiningOwned,
         ReservationHeld, ReservedStands, FlagsTrue, CurrentSlot, LingeringSpent,
         SlotsCounted, SlotUsed, SlotAccounted, Working, Resident, LiveStates
<1>2. {s \in slots : job[s].kind # "replaceSuspended"} = {} /\ Cap \in Nat
  BY LifecycleAssumption DEF Init
<1> QED
  BY <1>1, <1>2, FS_EmptySet DEF AdmittedWithinCap

\* Whose every slot is, in every reachable state, and how many the cap counts.
THEOREM Slots == Spec => [](SlotOwnership /\ AdmittedWithinCap)
<1>1. /\ RegistryInv /\ SlotOwnership /\ AdmittedWithinCap /\ [Next]_vars
      => (SlotOwnership /\ AdmittedWithinCap)'
  BY SlotOwnershipNext, CapNext
<1> QED
  BY <1>1, SlotsInit, Registry, PTL DEF Spec

\* A reservation has an owner that is joining the run, and the slot it holds is
\* still counted: neither the monitor, nor an earlier launch, nor a release gives
\* that slot up (replace_busy, publish_locked, Handoff.finally, prepare_locked).
THEOREM Reservation == Spec => []ReservationHeld
<1>1. SlotOwnership => ReservationHeld
  BY DEF SlotOwnership
<1> QED
  BY <1>1, Slots, PTL

\* _active_work_slots counts the work there is: no run is left out, no slot is left
\* over, and admissions respect the cap.
THEOREM SlotCount == Spec => []SlotInv
<1>1. SlotOwnership /\ AdmittedWithinCap => SlotInv
  BY DEF SlotOwnership, SlotUsed, SlotInv, SlotBacked
<1> QED
  BY <1>1, Slots, PTL
=============================================================================
