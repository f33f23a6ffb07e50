--------------------- MODULE DeploymentStateLockProofs ----------------------
(***************************************************************************)
(* Proofs about DeploymentStateLock, for every set of processes, every     *)
(* placement on hosts and every bound on crashes and I/O errors.           *)
(***************************************************************************)
EXTENDS DeploymentStateLock, FiniteSetTheorems, TLAPS

\* While nobody was robbed, who works under the lock made the directory that
\* is at the path; so at most one process does.
HolderMadeLock ==
  robbed = {} => \A p \in Procs : pc[p] \in Holding => Locked /\ lock.by = p

\* While nobody was robbed, the state a process is about to publish succeeds
\* the state that is in the file.
LoadedIsCurrent ==
  robbed = {} => \A p \in Procs : pc[p] = "write" => L!IsSuccessor(file, next[p])

\* A judgement that still describes the directory found it unprotected.
JudgementSound ==
  \A p \in Procs :
    p \in judged =>
      /\ Locked
      /\ pc[p] = "rename" =>
           ~(/\ lock.owner \in Procs
             /\ Local(p, lock.owner)
             /\ pc[lock.owner] # "dead")

\* What is about to be published, or has been, has a replaying history.
PendingReplays ==
  \A p \in Procs : pc[p] \in {"write", "audit"} =>
    /\ L!HistoryReplays(next[p])
    /\ next[p].stage \in L!DEPLOYMENT_STAGES

IInv == /\ TypeOK
        /\ HolderMadeLock
        /\ LoadedIsCurrent
        /\ JudgementSound
-----------------------------------------------------------------------------
\* The state create_deployment_state signs is a rollout with a replaying
\* history.
LEMMA ApprovedReplays ==
  /\ L!ApprovedState \in L!RolloutState
  /\ L!HistoryReplays(L!ApprovedState)
  /\ L!Absent \in L!RolloutState
BY DEF L!ApprovedState, L!RolloutState, L!HistoryEntry, L!DEPLOYMENT_STAGES,
       L!HistoryReplays, L!Absent

\* transition_deployment_state keeps the type of a rollout.
LEMMA AdvanceType ==
  ASSUME NEW s \in L!RolloutState, NEW target \in L!DEPLOYMENT_STAGES,
         s # L!Absent, L!HistoryReplays(s)
  PROVE  L!Advance(s, target) \in L!RolloutState
BY DEF L!RolloutState, L!Advance, L!HistoryEntry, L!HistoryReplays

\* An allowed transition extends a replaying history to a replaying history.
LEMMA AdvanceReplays ==
  ASSUME NEW s \in L!RolloutState, NEW target \in L!DEPLOYMENT_STAGES,
         s # L!Absent, L!HistoryReplays(s), L!MayFollow(s.stage, target)
  PROVE  L!HistoryReplays(L!Advance(s, target))
<1> DEFINE t == L!Advance(s, target)
           e == [generation |-> s.generation + 1, from |-> s.stage, to |-> target]
<1>1. /\ s.generation \in Nat /\ s.generation >= 1
      /\ s.history \in Seq(L!HistoryEntry)
      /\ Len(s.history) = s.generation
      /\ s.history[s.generation].to = s.stage
  BY DEF L!RolloutState, L!HistoryReplays
<1>2. e \in L!HistoryEntry
  BY <1>1 DEF L!RolloutState, L!HistoryEntry, L!HistoryReplays
<1>3. /\ t.stage = target /\ t.generation = s.generation + 1
      /\ t.history = Append(s.history, e)
  BY DEF L!Advance
<1>4. /\ Len(t.history) = s.generation + 1
      /\ t.history[s.generation + 1] = e
      /\ \A i \in 1..s.generation : t.history[i] = s.history[i]
  BY <1>1, <1>2, <1>3
<1>5. \A i \in 1..t.generation : t.history[i].generation = i
  BY <1>1, <1>3, <1>4 DEF L!HistoryReplays
<1>6. \A i \in 2..t.generation :
        /\ t.history[i].from = t.history[i - 1].to
        /\ L!MayFollow(t.history[i].from, t.history[i].to)
  <2> SUFFICES ASSUME NEW i \in 2..t.generation
               PROVE  /\ t.history[i].from = t.history[i - 1].to
                      /\ L!MayFollow(t.history[i].from, t.history[i].to)
    OBVIOUS
  <2>1. CASE i = s.generation + 1
    <3>1. t.history[i] = e
      BY <2>1, <1>4
    <3>2. i - 1 = s.generation /\ s.generation \in 1..s.generation
      BY <2>1, <1>1
    <3>3. t.history[i - 1] = s.history[s.generation]
      BY <3>2, <1>4
    <3> HIDE DEF t
    <3> QED BY <3>1, <3>3, <1>1
  <2>2. CASE i # s.generation + 1
    <3>1. i \in 2..s.generation /\ i \in 1..s.generation /\ i - 1 \in 1..s.generation
      BY <2>2, <1>1, <1>3
    <3>2. t.history[i] = s.history[i] /\ t.history[i - 1] = s.history[i - 1]
      BY <3>1, <1>4
    <3>3. /\ s.history[i].from = s.history[i - 1].to
          /\ L!MayFollow(s.history[i].from, s.history[i].to)
      BY <3>1 DEF L!HistoryReplays
    <3> QED BY <3>2, <3>3
  <2> QED BY <2>1, <2>2
<1>7. t.history[1] = L!ApprovedState.history[1]
  BY <1>1, <1>4 DEF L!HistoryReplays
<1> QED
  BY <1>1, <1>3, <1>4, <1>5, <1>6, <1>7 DEF L!HistoryReplays

\* The initial states satisfy the inductive invariant.
LEMMA InitIInv == Init => IInv /\ HistoryIntact /\ PendingReplays
<1> SUFFICES ASSUME Init PROVE IInv /\ HistoryIntact /\ PendingReplays
  OBVIOUS
<1>1. file \in L!RolloutState /\ L!HistoryReplays(file)
  BY InitialStatesAssumption DEF Init
<1>2. audits \subseteq [generation : Nat, stage : L!DEPLOYMENT_STAGES]
  <2>1. audits = EventsOf(file) /\ file.history \in Seq(L!HistoryEntry)
    BY <1>1 DEF Init, L!RolloutState
  <2>2. ASSUME NEW i \in DOMAIN file.history
        PROVE  file.history[i] \in L!HistoryEntry
    BY <2>1
  <2> QED BY <2>1, <2>2 DEF EventsOf, L!HistoryEntry
<1>3. TypeOK
  BY <1>1, <1>2, ApprovedReplays, ProcsAssumption DEF Init, TypeOK, NoLock, PC, Holding
<1>4. HolderMadeLock /\ LoadedIsCurrent /\ JudgementSound /\ PendingReplays
  BY DEF Init, HolderMadeLock, LoadedIsCurrent, JudgementSound, PendingReplays,
         Holding
<1> QED BY <1>1, <1>3, <1>4 DEF IInv, HistoryIntact

\* Every step preserves the well-formed histories: of the file, and of what a
\* process is about to publish.
LEMMA NextReplays ==
  TypeOK /\ HistoryIntact /\ PendingReplays /\ [Next]_vars
    => HistoryIntact' /\ PendingReplays'
<1> SUFFICES ASSUME TypeOK, HistoryIntact, PendingReplays, [Next]_vars
             PROVE  HistoryIntact' /\ PendingReplays'
  OBVIOUS
<1> USE DEF HistoryIntact, PendingReplays, Goto, LeaveBody
<1>1. ASSUME NEW p \in Procs, LoadForUpdate(p)
      PROVE  HistoryIntact' /\ PendingReplays'
  <2>1. PICK target \in L!DEPLOYMENT_STAGES, r \in Reports \cup {None} :
          \/ /\ file # L!Absent
             /\ L!MayFollow(file.stage, target)
             /\ next' = [next EXCEPT ![p] = L!Advance(file, target)]
             /\ pc' = [pc EXCEPT ![p] = "write"]
          \/ next' = next /\ pc' = [pc EXCEPT ![p] = "check"]
    BY <1>1 DEF LoadForUpdate, Accepts
  <2>2. file' = file
    BY <1>1 DEF LoadForUpdate
  <2>3. file # L!Absent /\ L!MayFollow(file.stage, target)
          => /\ L!HistoryReplays(L!Advance(file, target))
             /\ L!Advance(file, target).stage \in L!DEPLOYMENT_STAGES
    BY AdvanceReplays DEF TypeOK, L!Advance
  <2> QED BY <2>1, <2>2, <2>3 DEF TypeOK
<1>2. ASSUME NEW p \in Procs, LoadForCreate(p)
      PROVE  HistoryIntact' /\ PendingReplays'
  <2>1. L!ApprovedState.stage \in L!DEPLOYMENT_STAGES
    BY DEF L!ApprovedState, L!DEPLOYMENT_STAGES
  <2> QED BY <1>2, <2>1, ApprovedReplays DEF LoadForCreate, TypeOK
<1>3. ASSUME NEW p \in Procs, WriteState(p) \/ WriteStateFails(p)
      PROVE  HistoryIntact' /\ PendingReplays'
  BY <1>3 DEF WriteState, WriteStateFails, TypeOK
<1>4. ASSUME NEW p \in Procs,
             \/ Start(p) \/ Mkdir(p) \/ StatLock(p) \/ ProbeOwner(p)
             \/ RenameLock(p) \/ WriteOwner(p) \/ WriteAuditEvent(p)
             \/ CheckToken(p) \/ UnlinkOwner(p) \/ RemoveLock(p) \/ WriteOwnerFails(p)
             \/ WriteAuditEventFails(p) \/ RemoveLockFails(p) \/ Crash(p)
      PROVE  HistoryIntact' /\ PendingReplays'
  BY <1>4 DEF Start, Mkdir, StatLock, ProbeOwner, RenameLock, WriteOwner,
     WriteAuditEvent, CheckToken, UnlinkOwner, RemoveLock, WriteOwnerFails,
     WriteAuditEventFails, RemoveLockFails, Crash, TypeOK
<1>5. CASE LeaseExpires \/ UNCHANGED vars
  BY <1>5 DEF LeaseExpires, vars
<1> QED
  BY <1>1, <1>2, <1>3, <1>4, <1>5 DEF Next, Step, Failure

\* Every step preserves the types.
LEMMA NextTypeOK ==
  TypeOK /\ HistoryIntact /\ PendingReplays /\ [Next]_vars => TypeOK'
<1> SUFFICES ASSUME TypeOK, HistoryIntact, PendingReplays, [Next]_vars
             PROVE  TypeOK'
  OBVIOUS
<1> USE DEF TypeOK, PC, Holding
<1>1. ASSUME NEW p \in Procs, LoadForUpdate(p)
      PROVE  TypeOK'
  <2>1. PICK target \in L!DEPLOYMENT_STAGES, r \in Reports \cup {None} :
          \/ /\ file # L!Absent
             /\ next' = [next EXCEPT ![p] = L!Advance(file, target)]
             /\ pc' = [pc EXCEPT ![p] = "write"]
          \/ next' = next /\ pc' = [pc EXCEPT ![p] = "check"]
    BY <1>1 DEF LoadForUpdate, Goto
  <2>2. UNCHANGED <<lock, file, audits, faults, judged, robbed>>
    BY <1>1 DEF LoadForUpdate
  <2>3. file # L!Absent => L!Advance(file, target) \in L!RolloutState
    BY AdvanceType DEF HistoryIntact
  <2> QED BY <2>1, <2>2, <2>3
<1>2. ASSUME NEW p \in Procs, LoadForCreate(p)
      PROVE  TypeOK'
  BY <1>2, ApprovedReplays DEF LoadForCreate, Goto
<1>3. ASSUME NEW p \in Procs, WriteState(p) \/ WriteStateFails(p)
      PROVE  TypeOK'
  BY <1>3, ApprovedReplays DEF WriteState, WriteStateFails, Fault, Goto, LeaveBody
<1>4. ASSUME NEW p \in Procs, WriteAuditEvent(p)
      PROVE  TypeOK'
  <2>1. Event(next[p]) \in [generation : Nat, stage : L!DEPLOYMENT_STAGES]
    BY <1>4 DEF WriteAuditEvent, PendingReplays, Event, L!RolloutState
  <2> QED BY <1>4, <2>1, ApprovedReplays DEF WriteAuditEvent, LeaveBody, Goto
<1>5. ASSUME NEW p \in Procs, RenameLock(p) \/ UnlinkOwner(p) \/ RemoveLock(p)
      PROVE  TypeOK'
  BY <1>5 DEF RenameLock, UnlinkOwner, RemoveLock, TakeAway, NoLock, Goto
<1>6. ASSUME NEW p \in Procs,
             \/ Start(p) \/ Mkdir(p) \/ StatLock(p) \/ ProbeOwner(p)
             \/ WriteOwner(p) \/ CheckToken(p)
      PROVE  TypeOK'
  BY <1>6 DEF Start, Mkdir, StatLock, ProbeOwner, WriteOwner, CheckToken, Goto, Locked
<1>7. ASSUME NEW p \in Procs,
             \/ WriteOwnerFails(p) \/ WriteAuditEventFails(p)
             \/ RemoveLockFails(p) \/ Crash(p)
      PROVE  TypeOK'
  BY <1>7, ApprovedReplays
     DEF WriteOwnerFails, WriteAuditEventFails, RemoveLockFails, Crash, Fault,
         LeaveBody, Goto
<1>8. CASE LeaseExpires
  BY <1>8 DEF LeaseExpires
<1>9. CASE UNCHANGED vars
  BY <1>9 DEF vars
<1> QED
  BY <1>1, <1>2, <1>3, <1>4, <1>5, <1>6, <1>7, <1>8, <1>9 DEF Next, Step, Failure

\* Every step keeps the one holder the maker of the lock.
LEMMA NextHolder ==
  IInv /\ [Next]_vars => HolderMadeLock'
<1> SUFFICES ASSUME IInv, [Next]_vars, robbed' = {}, NEW q \in Procs, pc'[q] \in Holding
             PROVE  Locked' /\ lock'.by = q
  BY DEF HolderMadeLock
<1> USE DEF IInv, TypeOK, HolderMadeLock, Holding, Locked, Goto, LeaveBody
<1>1. ASSUME NEW p \in Procs,
             \/ LoadForUpdate(p) \/ LoadForCreate(p) \/ WriteState(p)
             \/ WriteStateFails(p) \/ WriteAuditEvent(p)
             \/ WriteAuditEventFails(p) \/ CheckToken(p)
      PROVE  Locked' /\ lock'.by = q
  <2>1. pc[p] \in Holding
    BY <1>1 DEF LoadForUpdate, LoadForCreate, WriteState, WriteStateFails,
       WriteAuditEvent, WriteAuditEventFails, CheckToken
  <2>2. UNCHANGED <<lock, robbed>>
    BY <1>1 DEF LoadForUpdate, LoadForCreate, WriteState, WriteStateFails,
       WriteAuditEvent, WriteAuditEventFails, CheckToken
  <2>3. \A x \in Procs \ {p} : pc'[x] = pc[x]
    BY <1>1 DEF LoadForUpdate, LoadForCreate, WriteState, WriteStateFails,
       WriteAuditEvent, WriteAuditEventFails, CheckToken
  <2> QED BY <2>1, <2>2, <2>3
<1>2. ASSUME NEW p \in Procs, Mkdir(p)
      PROVE  Locked' /\ lock'.by = q
  BY <1>2, ProcsAssumption DEF Mkdir
<1>3. ASSUME NEW p \in Procs, RenameLock(p) \/ RemoveLock(p)
      PROVE  Locked' /\ lock'.by = q
  BY <1>3 DEF RenameLock, RemoveLock, TakeAway
<1>4. ASSUME NEW p \in Procs, WriteOwner(p) \/ UnlinkOwner(p)
      PROVE  Locked' /\ lock'.by = q
  BY <1>4, ProcsAssumption DEF WriteOwner, UnlinkOwner
<1>5. ASSUME NEW p \in Procs,
             \/ Start(p) \/ StatLock(p) \/ ProbeOwner(p) \/ WriteOwnerFails(p)
             \/ RemoveLockFails(p) \/ Crash(p)
      PROVE  Locked' /\ lock'.by = q
  BY <1>5 DEF Start, StatLock, ProbeOwner, WriteOwnerFails, RemoveLockFails, Crash
<1>6. CASE LeaseExpires
  BY <1>6 DEF LeaseExpires
<1>7. CASE UNCHANGED vars
  BY <1>7 DEF vars
<1> QED
  BY <1>1, <1>2, <1>3, <1>4, <1>5, <1>6, <1>7 DEF Next, Step, Failure

\* Every step keeps what the holder is about to publish the successor of what
\* is in the file: nobody else can write in between.
LEMMA NextCurrent ==
  IInv /\ [Next]_vars => LoadedIsCurrent'
<1> SUFFICES ASSUME IInv, [Next]_vars, robbed' = {}, NEW q \in Procs, pc'[q] = "write"
             PROVE  L!IsSuccessor(file', next'[q])
  BY DEF LoadedIsCurrent
<1> USE DEF IInv, TypeOK, LoadedIsCurrent, Goto, LeaveBody
<1>1. ASSUME NEW p \in Procs, LoadForUpdate(p)
      PROVE  L!IsSuccessor(file', next'[q])
  <2>1. PICK target \in L!DEPLOYMENT_STAGES, r \in Reports \cup {None} :
          \/ /\ file # L!Absent
             /\ L!MayFollow(file.stage, target)
             /\ next' = [next EXCEPT ![p] = L!Advance(file, target)]
             /\ pc' = [pc EXCEPT ![p] = "write"]
          \/ next' = next /\ pc' = [pc EXCEPT ![p] = "check"]
    BY <1>1 DEF LoadForUpdate, Accepts
  <2>2. file' = file /\ robbed' = robbed
    BY <1>1 DEF LoadForUpdate
  <2>3. CASE q = p
    BY <2>1, <2>2, <2>3 DEF L!IsSuccessor
  <2>4. CASE q # p
    <3>1. pc[q] = "write" /\ next'[q] = next[q]
      BY <2>1, <2>4
    <3> QED BY <3>1, <2>2
  <2> QED BY <2>3, <2>4
<1>2. ASSUME NEW p \in Procs, LoadForCreate(p)
      PROVE  L!IsSuccessor(file', next'[q])
  BY <1>2 DEF LoadForCreate, L!IsSuccessor
<1>3. ASSUME NEW p \in Procs, WriteState(p) \/ WriteStateFails(p)
      PROVE  L!IsSuccessor(file', next'[q])
  <2>1. pc[p] = "write" /\ robbed' = robbed /\ q # p
    BY <1>3 DEF WriteState, WriteStateFails
  <2>2. pc[q] = "write"
    BY <1>3, <2>1 DEF WriteState, WriteStateFails
  <2>3. lock.by = p /\ lock.by = q
    BY <2>1, <2>2 DEF HolderMadeLock, Holding
  <2> QED BY <2>1, <2>3
<1>4. ASSUME NEW p \in Procs, RenameLock(p) \/ RemoveLock(p)
      PROVE  L!IsSuccessor(file', next'[q])
  BY <1>4 DEF RenameLock, RemoveLock, TakeAway
<1>5. ASSUME NEW p \in Procs,
             \/ Start(p) \/ Mkdir(p) \/ StatLock(p) \/ ProbeOwner(p)
             \/ WriteOwner(p) \/ WriteAuditEvent(p) \/ CheckToken(p)
             \/ UnlinkOwner(p) \/ WriteOwnerFails(p) \/ WriteAuditEventFails(p)
             \/ RemoveLockFails(p) \/ Crash(p)
      PROVE  L!IsSuccessor(file', next'[q])
  <2>1. file' = file /\ robbed' = robbed
    BY <1>5 DEF Start, Mkdir, StatLock, ProbeOwner, WriteOwner, WriteAuditEvent,
       CheckToken, UnlinkOwner, WriteOwnerFails, WriteAuditEventFails,
       RemoveLockFails, Crash
  <2>2. pc[q] = "write" /\ next'[q] = next[q]
    BY <1>5 DEF Start, Mkdir, StatLock, ProbeOwner, WriteOwner, WriteAuditEvent,
       CheckToken, UnlinkOwner, WriteOwnerFails, WriteAuditEventFails,
       RemoveLockFails, Crash
  <2> QED BY <2>1, <2>2
<1>6. CASE LeaseExpires \/ UNCHANGED vars
  BY <1>6 DEF LeaseExpires, vars
<1> QED
  BY <1>1, <1>2, <1>3, <1>4, <1>5, <1>6 DEF Next, Step, Failure

\* Every step keeps the judgements that still describe the lock sound: any
\* change of the directory withdraws them, and the dead stay dead.
LEMMA NextJudgement ==
  IInv /\ [Next]_vars => JudgementSound'
<1> SUFFICES ASSUME IInv, [Next]_vars, NEW q \in Procs, q \in judged'
             PROVE  /\ Locked'
                    /\ pc'[q] = "rename" =>
                         ~(/\ lock'.owner \in Procs
                           /\ Local(q, lock'.owner)
                           /\ pc'[lock'.owner] # "dead")
  BY DEF JudgementSound, Local
<1> USE DEF IInv, TypeOK, JudgementSound, Locked, Goto, LeaveBody
<1> DEFINE Sound == /\ Locked'
                    /\ pc'[q] = "rename" =>
                         ~(/\ lock'.owner \in Procs
                           /\ Local(q, lock'.owner)
                           /\ pc'[lock'.owner] # "dead")
<1>0. ASSUME lock' = lock, q \in judged, pc'[q] = "rename" => pc[q] = "rename",
             \A x \in Procs : pc[x] = "dead" => pc'[x] = "dead"
      PROVE  Sound
  BY <1>0
<1>1. ASSUME NEW p \in Procs, RenameLock(p) \/ WriteOwner(p) \/ UnlinkOwner(p)
      PROVE  Sound
  <2>1. judged' = {} \/ (~Locked /\ judged' = judged)
    BY <1>1 DEF RenameLock, UnlinkOwner, WriteOwner, TakeAway
  <2> QED BY <2>1
<1>8. ASSUME NEW p \in Procs, RemoveLock(p)
      PROVE  Sound
  <2>1. CASE Locked /\ lock.owner = None
    BY <1>8, <2>1 DEF RemoveLock, TakeAway
  <2>2. CASE ~(Locked /\ lock.owner = None)
    <3>1. q \in judged /\ lock' = lock
      BY <1>8, <2>2 DEF RemoveLock
    <3>2. /\ pc'[q] = "rename" => pc[q] = "rename"
          /\ \A x \in Procs : pc[x] = "dead" => pc'[x] = "dead"
      BY <1>8 DEF RemoveLock
    <3> QED BY <3>1, <3>2, <1>0
  <2> QED BY <2>1, <2>2
<1>2. ASSUME NEW p \in Procs, StatLock(p)
      PROVE  Sound
  <2>1. CASE q = p
    BY <1>2, <2>1 DEF StatLock
  <2>2. CASE q # p
    <3>1. q \in judged /\ lock' = lock /\ pc'[q] = pc[q]
      BY <1>2, <2>2 DEF StatLock
    <3>2. \A x \in Procs : pc[x] = "dead" => pc'[x] = "dead"
      BY <1>2 DEF StatLock
    <3> QED BY <3>1, <3>2, <1>0
  <2> QED BY <2>1, <2>2
<1>3. ASSUME NEW p \in Procs, ProbeOwner(p)
      PROVE  Sound
  <2>1. q \in judged /\ lock' = lock
    BY <1>3 DEF ProbeOwner
  <2>2. \A x \in Procs : pc'[x] = "dead" <=> pc[x] = "dead"
    BY <1>3 DEF ProbeOwner
  <2>3. CASE q = p
    BY <1>3, <2>1, <2>2, <2>3 DEF ProbeOwner
  <2>4. CASE q # p
    <3>1. pc'[q] = pc[q]
      BY <1>3, <2>4 DEF ProbeOwner
    <3> QED BY <3>1, <2>1, <2>2, <1>0
  <2> QED BY <2>3, <2>4
<1>4. ASSUME NEW p \in Procs, Mkdir(p)
      PROVE  Sound
  <2>1. q \in judged /\ lock' = lock
    BY <1>4 DEF Mkdir
  <2>2. pc'[q] = "rename" => pc[q] = "rename"
    BY <1>4 DEF Mkdir
  <2>3. \A x \in Procs : pc[x] = "dead" => pc'[x] = "dead"
    BY <1>4 DEF Mkdir
  <2> QED BY <2>1, <2>2, <2>3, <1>0
<1>5. ASSUME NEW p \in Procs,
             \/ Start(p) \/ LoadForUpdate(p) \/ LoadForCreate(p)
             \/ WriteState(p) \/ WriteAuditEvent(p) \/ CheckToken(p)
             \/ WriteOwnerFails(p) \/ WriteStateFails(p)
             \/ WriteAuditEventFails(p) \/ RemoveLockFails(p) \/ Crash(p)
      PROVE  Sound
  <2> USE DEF Start, LoadForUpdate, LoadForCreate, WriteState, WriteAuditEvent,
          CheckToken, WriteOwnerFails, WriteStateFails, WriteAuditEventFails,
          RemoveLockFails, Crash
  <2>1. q \in judged /\ lock' = lock
    BY <1>5
  <2>2. pc'[q] = "rename" => pc[q] = "rename"
    BY <1>5
  <2>3. \A x \in Procs : pc[x] = "dead" => pc'[x] = "dead"
    BY <1>5
  <2> QED BY <2>1, <2>2, <2>3, <1>0
<1>6. CASE LeaseExpires
  BY <1>6 DEF LeaseExpires
<1>7. CASE UNCHANGED vars
  BY <1>7 DEF vars
<1> QED
  BY <1>1, <1>2, <1>3, <1>4, <1>5, <1>6, <1>7, <1>8 DEF Next, Step, Failure
-----------------------------------------------------------------------------
\* The inductive invariant holds in every reachable state.
LEMMA Invariance == Spec => [](IInv /\ HistoryIntact /\ PendingReplays)
<1>1. IInv /\ HistoryIntact /\ PendingReplays /\ [Next]_vars
        => (IInv /\ HistoryIntact /\ PendingReplays)'
  BY NextReplays, NextTypeOK, NextHolder, NextCurrent, NextJudgement DEF IInv
<1> QED BY <1>1, InitIInv, PTL DEF Spec

\* Every reachable state of the lock, the state file and its callers is of the
\* declared type.
THEOREM TypeCorrect == Spec => []TypeOK
<1>1. IInv => TypeOK
  BY DEF IInv
<1> QED BY <1>1, Invariance, PTL

\* The history in the state file replays the canary ladder in every reachable
\* state, however the calls of update_deployment_state_file and
\* write_new_deployment_state interleave, fail or rob each other of the lock.
THEOREM HistoryAlwaysReplays == Spec => []HistoryIntact
BY Invariance, PTL

\* While no process has been robbed of its lock, the state file is the ledger:
\* each write is one transition from what the file held, so no update and no
\* rollback is lost, for any number of processes, crashes and I/O errors.
THEOREM ImplementsLedgerUnlessRobbed == Spec => LedgerUnlessRobbed
<1>1. IInv /\ [Next]_vars => [robbed = {} => L!Next]_file
  <2> SUFFICES ASSUME IInv, [Next]_vars, robbed = {}, file' # file
               PROVE  L!Next
    OBVIOUS
  <2>1. PICK p \in Procs : pc[p] = "write" /\ file' = next[p]
    BY DEF Next, Step, Failure, Start, Mkdir, StatLock, ProbeOwner, RenameLock,
       WriteOwner, LoadForUpdate, LoadForCreate, WriteState, WriteAuditEvent,
       CheckToken, UnlinkOwner, RemoveLock, WriteOwnerFails, WriteStateFails,
       WriteAuditEventFails, RemoveLockFails, Crash, LeaseExpires, vars
  <2> QED BY <2>1 DEF IInv, LoadedIsCurrent, L!Next
<1> QED BY <1>1, Invariance, PTL DEF Spec, LedgerUnlessRobbed

\* The first lock is only ever lost to a rename by _recover_stale_lock whose
\* judgement is out of date, or whose victim has not written owner.json or
\* cannot be probed: a fresh judgement never robs a live local owner.
THEOREM FirstRobberyNeedsStaleJudgement == Spec => FirstRobbery
<1> DEFINE Excused ==
      (robbed = {} /\ robbed' # {}) =>
         \E p \in Procs :
           /\ pc[p] = "rename" /\ pc'[p] = "remkdir"
           /\ \/ p \notin judged
              \/ lock.owner # lock.by
              \/ ~Local(p, lock.by)
<1>1. IInv /\ [Next]_vars => [Excused]_vars
  <2> SUFFICES ASSUME IInv, [Next]_vars, robbed = {}, robbed' # {}
               PROVE  Excused
    OBVIOUS
  <2>1. PICK p \in Procs : RenameLock(p) \/ RemoveLock(p)
    BY DEF Next, Step, Failure, Start, Mkdir, StatLock, ProbeOwner,
       WriteOwner, LoadForUpdate, LoadForCreate, WriteState, WriteAuditEvent,
       CheckToken, UnlinkOwner, WriteOwnerFails, WriteStateFails,
       WriteAuditEventFails, RemoveLockFails, Crash, LeaseExpires, vars
  <2>2. ASSUME RemoveLock(p)
        PROVE  FALSE
    <3>1. lock.by = p
      BY <2>2 DEF RemoveLock, IInv, HolderMadeLock, Holding
    <3> QED BY <2>2, <3>1 DEF RemoveLock, TakeAway
  <2>3. /\ RenameLock(p)
        /\ lock.by \in Procs /\ pc[lock.by] \in Holding
    BY <2>1, <2>2 DEF RenameLock, TakeAway
  <2>4. pc[p] = "rename" /\ pc'[p] = "remkdir"
    BY <2>3 DEF RenameLock, Goto, IInv, TypeOK
  <2>5. p \in judged /\ lock.owner = lock.by => ~Local(p, lock.by)
    BY <2>3, <2>4 DEF IInv, JudgementSound, Holding
  <2> QED BY <2>4, <2>5
<1> QED BY <1>1, Invariance, PTL DEF Spec, FirstRobbery
-----------------------------------------------------------------------------
\* Transitions of the rollout that have no audit event, and the processes that
\* may owe one.
Missing == EventsOf(file) \ audits
Owing == {p \in Procs : pc[p] \in {"audit", "dead"}}

\* While nobody was robbed: the events are the rollout's, all but those an
\* error or a process accounts for, and the event a process is about to publish
\* is of the state in the file and is missing.
AuditInv ==
  robbed = {} =>
    /\ audits \subseteq EventsOf(file)
    /\ IsFiniteSet(Missing) /\ IsFiniteSet(Owing)
    /\ Cardinality(Missing) <= faults + Cardinality(Owing)
    /\ \A p \in Procs : pc[p] = "audit" => file = next[p] /\ Event(file) \in Missing

\* A successor has one event more, of a later generation than all before.
LEMMA SuccessorEvents ==
  ASSUME NEW s \in L!RolloutState, L!HistoryReplays(s), NEW t, L!IsSuccessor(s, t)
  PROVE  EventsOf(t) = EventsOf(s) \cup {Event(t)} /\ Event(t) \notin EventsOf(s)
<1>1. CASE s = L!Absent /\ t = L!ApprovedState
  <2> DEFINE e == [generation |-> 1, from |-> "shadow", to |-> "approved"]
  <2>1. s.history = <<>> /\ t.history = <<e>> /\ t.generation = 1 /\ t.stage = "approved"
    BY <1>1 DEF L!Absent, L!ApprovedState
  <2>2. DOMAIN s.history = {} /\ DOMAIN t.history = {1} /\ t.history[1] = e
    BY <2>1
  <2>3. EventsOf(s) = {}
    BY <2>2 DEF EventsOf
  <2>4. EventsOf(t) = {[generation |-> e.generation, stage |-> e.to]}
    BY <2>2 DEF EventsOf
  <2> QED BY <2>1, <2>3, <2>4 DEF Event
<1>2. CASE s # L!Absent /\ \E target \in L!DEPLOYMENT_STAGES : t = L!Advance(s, target)
  <2>1. PICK target \in L!DEPLOYMENT_STAGES : t = L!Advance(s, target)
    BY <1>2
  <2> DEFINE n == s.generation
             e == [generation |-> n + 1, from |-> s.stage, to |-> target]
  <2>2. /\ n \in Nat /\ s.history \in Seq(L!HistoryEntry) /\ Len(s.history) = n
        /\ \A i \in 1..n : s.history[i].generation = i
    BY <1>2 DEF L!RolloutState, L!HistoryReplays
  <2>3. t.stage = target /\ t.generation = n + 1 /\ t.history = Append(s.history, e)
    BY <2>1 DEF L!Advance
  <2>4. e \in L!HistoryEntry
    BY <1>2, <2>2 DEF L!HistoryReplays, L!HistoryEntry
  <2> HIDE DEF e
  <2>5. /\ DOMAIN t.history = 1..(n + 1) /\ DOMAIN s.history = 1..n
        /\ t.history[n + 1] = e /\ \A i \in 1..n : t.history[i] = s.history[i]
    BY <2>2, <2>3, <2>4
  <2> HIDE DEF n
  <2>6. Event(t) = [generation |-> e.generation, stage |-> e.to] /\ e.generation = n + 1
    BY <2>3 DEF Event, e
  <2>7. EventsOf(t) = EventsOf(s) \cup {Event(t)}
    <3>1. \A i \in 1..(n + 1) : i \in 1..n \/ i = n + 1
      BY <2>2 DEF n
    <3>2. \A i \in 1..n : i \in 1..(n + 1)
      BY <2>2 DEF n
    <3>3. n + 1 \in 1..(n + 1)
      BY <2>2 DEF n
    <3>4. EventsOf(t) = {[generation |-> t.history[i].generation, stage |-> t.history[i].to] : i \in 1..(n + 1)}
      BY <2>5 DEF EventsOf
    <3>5. EventsOf(s) = {[generation |-> s.history[i].generation, stage |-> s.history[i].to] : i \in 1..n}
      BY <2>5 DEF EventsOf
    <3> QED BY <3>1, <3>2, <3>3, <3>4, <3>5, <2>5, <2>6
  <2>8. Event(t) \notin EventsOf(s)
    <3>1. \A i \in DOMAIN s.history : s.history[i].generation # n + 1
      BY <2>2, <2>5 DEF n
    <3>2. Event(t).generation = n + 1
      BY <2>6
    <3>3. \A x \in EventsOf(s) : x.generation # n + 1
      BY <3>1 DEF EventsOf
    <3> QED BY <3>2, <3>3
  <2> QED BY <2>7, <2>8
<1> QED BY <1>1, <1>2 DEF L!IsSuccessor

\* Sets that grow or shrink by at most one element.
LEMMA OneMore ==
  ASSUME NEW S, IsFiniteSet(S), NEW x, NEW T, T \subseteq S \cup {x}
  PROVE  IsFiniteSet(T) /\ Cardinality(T) \in Nat /\ Cardinality(T) <= Cardinality(S) + 1
<1>1. /\ IsFiniteSet(S \cup {x}) /\ Cardinality(S) \in Nat
      /\ Cardinality(S \cup {x}) = IF x \in S THEN Cardinality(S) ELSE Cardinality(S) + 1
  BY FS_AddElement, FS_CardinalityType
<1>2. T \in SUBSET (S \cup {x})
  OBVIOUS
<1>3. IsFiniteSet(T) /\ Cardinality(T) <= Cardinality(S \cup {x})
  BY <1>1, <1>2, FS_Subset
<1>4. Cardinality(T) \in Nat /\ Cardinality(S \cup {x}) \in Nat
  BY <1>1, <1>3, FS_CardinalityType
<1> QED BY <1>1, <1>3, <1>4

\* A new element counts one more.
LEMMA OneAdded ==
  ASSUME NEW S, IsFiniteSet(S), NEW x, x \notin S
  PROVE  IsFiniteSet(S \cup {x}) /\ Cardinality(S \cup {x}) = Cardinality(S) + 1 /\ Cardinality(S) \in Nat
BY FS_AddElement, FS_CardinalityType

\* An element taken away counts one less.
LEMMA OneTaken ==
  ASSUME NEW S, IsFiniteSet(S), NEW x, x \in S
  PROVE  IsFiniteSet(S \ {x}) /\ Cardinality(S \ {x}) = Cardinality(S) - 1 /\ Cardinality(S) \in Nat
BY FS_RemoveElement, FS_CardinalityType

\* Every step keeps the audit trail faithful: a process that writes the file owes
\* an event until it has published it, and takes the debt with it when it dies.
LEMMA NextAudit ==
  IInv /\ HistoryIntact /\ PendingReplays /\ AuditInv /\ [Next]_vars => AuditInv'
<1> SUFFICES ASSUME IInv, HistoryIntact, PendingReplays, AuditInv, [Next]_vars, robbed' = {}
             PROVE  /\ audits' \subseteq EventsOf(file')
                    /\ IsFiniteSet(Missing') /\ IsFiniteSet(Owing')
                    /\ Cardinality(Missing') <= faults' + Cardinality(Owing')
                    /\ \A p \in Procs : pc'[p] = "audit" => file' = next'[p] /\ Event(file') \in Missing'
  BY DEF AuditInv
<1> DEFINE Goal ==
      /\ audits' \subseteq EventsOf(file')
      /\ IsFiniteSet(Missing') /\ IsFiniteSet(Owing')
      /\ Cardinality(Missing') <= faults' + Cardinality(Owing')
      /\ \A p \in Procs : pc'[p] = "audit" => file' = next'[p] /\ Event(file') \in Missing'
<1>0. TypeOK /\ faults \in Nat
  BY DEF IInv, TypeOK
<1>1. robbed = {}
  BY DEF Next, Step, Failure, Start, Mkdir, StatLock, ProbeOwner, RenameLock,
     WriteOwner, LoadForUpdate, LoadForCreate, WriteState, WriteAuditEvent,
     CheckToken, UnlinkOwner, RemoveLock, WriteOwnerFails, WriteStateFails,
     WriteAuditEventFails, RemoveLockFails, Crash, LeaseExpires, TakeAway, vars
<1>2. /\ audits \subseteq EventsOf(file)
      /\ IsFiniteSet(Missing) /\ IsFiniteSet(Owing)
      /\ Cardinality(Missing) <= faults + Cardinality(Owing)
      /\ \A p \in Procs : pc[p] = "audit" => file = next[p] /\ Event(file) \in Missing
  BY <1>1 DEF AuditInv
<1>3. Cardinality(Missing) \in Nat /\ Cardinality(Owing) \in Nat
  BY <1>2, FS_CardinalityType
\* Only the holder is in its body.
<1>4. ASSUME NEW p \in Procs, NEW q \in Procs, pc[p] \in Holding, pc[q] \in Holding
      PROVE  p = q
  BY <1>1, <1>4 DEF IInv, HolderMadeLock
\* A step of a process that neither owes nor comes to owe, if the file system
\* fails or not.
<1>5. ASSUME NEW p \in Procs, UNCHANGED <<file, audits>>, faults' \in {faults, faults + 1},
             \A q \in Procs : q # p => pc'[q] = pc[q] /\ next'[q] = next[q],
             pc[p] \notin {"audit", "dead"}, pc'[p] \notin {"audit", "dead"}
      PROVE  Goal
  <2>1. Owing' = Owing
    BY <1>5 DEF Owing
  <2>2. Missing' = Missing
    BY <1>5 DEF Missing
  <2>3. ASSUME NEW q \in Procs, pc'[q] = "audit" PROVE file' = next'[q] /\ Event(file') \in Missing'
    <3>1. q # p /\ pc[q] = "audit" /\ next'[q] = next[q]
      BY <1>5, <2>3
    <3> QED BY <3>1, <1>2, <1>5, <2>2
  <2>4. Cardinality(Missing') <= faults' + Cardinality(Owing')
    BY <2>1, <2>2, <1>0, <1>2, <1>3, <1>5
  <2> QED BY <2>1, <2>2, <2>3, <2>4, <1>2, <1>5
<1>6. ASSUME NEW p \in Procs,
             \/ Start(p) \/ Mkdir(p) \/ StatLock(p) \/ ProbeOwner(p) \/ RenameLock(p)
             \/ WriteOwner(p) \/ LoadForUpdate(p) \/ LoadForCreate(p) \/ CheckToken(p)
             \/ UnlinkOwner(p) \/ RemoveLock(p) \/ WriteOwnerFails(p) \/ RemoveLockFails(p)
      PROVE  Goal
  <2>1. /\ UNCHANGED <<file, audits>>
        /\ \A q \in Procs : q # p => pc'[q] = pc[q] /\ next'[q] = next[q]
    BY <1>6, <1>0 DEF Start, Mkdir, StatLock, ProbeOwner, RenameLock, WriteOwner, LoadForUpdate,
       LoadForCreate, CheckToken, UnlinkOwner, RemoveLock, WriteOwnerFails, RemoveLockFails,
       Goto, TypeOK
  <2>2. pc[p] \notin {"audit", "dead"} /\ pc'[p] \notin {"audit", "dead"}
    BY <1>6, <1>0 DEF Start, Mkdir, StatLock, ProbeOwner, RenameLock, WriteOwner, LoadForUpdate,
       LoadForCreate, CheckToken, UnlinkOwner, RemoveLock, WriteOwnerFails, RemoveLockFails,
       Goto, TypeOK
  <2>3. faults' \in {faults, faults + 1}
    BY <1>6 DEF Start, Mkdir, StatLock, ProbeOwner, RenameLock, WriteOwner, LoadForUpdate,
       LoadForCreate, CheckToken, UnlinkOwner, RemoveLock, WriteOwnerFails, RemoveLockFails, Fault
  <2> QED BY <2>1, <2>2, <2>3, <1>5
<1>7. ASSUME NEW p \in Procs, WriteState(p)
      PROVE  Goal
  <2>1. /\ pc[p] = "write" /\ file' = next[p] /\ pc' = [pc EXCEPT ![p] = "audit"]
        /\ UNCHANGED <<audits, next, faults>>
    BY <1>7 DEF WriteState, Goto
  <2>2. EventsOf(file') = EventsOf(file) \cup {Event(file')} /\ Event(file') \notin EventsOf(file)
    <3>1. L!IsSuccessor(file, next[p])
      BY <1>1, <2>1 DEF IInv, LoadedIsCurrent
    <3> QED BY <3>1, <2>1, <1>0, SuccessorEvents DEF TypeOK, HistoryIntact
  <2>3. Missing' = Missing \cup {Event(file')} /\ Event(file') \notin Missing
    BY <2>1, <2>2, <1>2 DEF Missing
  <2>4. Owing' = Owing \cup {p} /\ p \notin Owing
    BY <2>1, <1>0 DEF Owing, TypeOK
  <2>5. /\ IsFiniteSet(Missing') /\ Cardinality(Missing') = Cardinality(Missing) + 1
        /\ IsFiniteSet(Owing') /\ Cardinality(Owing') = Cardinality(Owing) + 1
    BY <2>3, <2>4, <1>2, OneAdded
  <2>6. Cardinality(Missing') <= faults' + Cardinality(Owing')
    BY <2>1, <2>5, <1>0, <1>2, <1>3
  <2>7. ASSUME NEW q \in Procs, pc'[q] = "audit" PROVE q = p
    <3>1. q # p => pc[q] = "audit"
      BY <2>1, <2>7
    <3> QED BY <3>1, <2>1, <1>4 DEF Holding
  <2>8. next'[p] = file' /\ Event(file') \in Missing'
    BY <2>1, <2>3
  <2> QED BY <2>1, <2>2, <2>5, <2>6, <2>7, <2>8, <1>2
<1>8. ASSUME NEW p \in Procs, WriteStateFails(p)
      PROVE  Goal
  <2>1. /\ pc[p] = "write" /\ file' \in {file, next[p]} /\ pc' = [pc EXCEPT ![p] = "check"]
        /\ faults' = faults + 1 /\ UNCHANGED audits
    BY <1>8 DEF WriteStateFails, LeaveBody, Goto, Fault
  <2>2. EventsOf(file) \subseteq EventsOf(file') /\ EventsOf(file') \subseteq EventsOf(file) \cup {Event(file')}
    <3>1. L!IsSuccessor(file, next[p])
      BY <1>1, <2>1 DEF IInv, LoadedIsCurrent
    <3>2. EventsOf(next[p]) = EventsOf(file) \cup {Event(next[p])}
      BY <3>1, <1>0, SuccessorEvents DEF TypeOK, HistoryIntact
    <3> QED BY <3>2, <2>1
  <2>3. Missing' \subseteq Missing \cup {Event(file')}
    BY <2>1, <2>2 DEF Missing
  <2>4. Owing' = Owing
    BY <2>1, <1>0 DEF Owing, TypeOK
  <2>5. /\ IsFiniteSet(Missing') /\ Cardinality(Missing') \in Nat
        /\ Cardinality(Missing') <= Cardinality(Missing) + 1
    BY <2>3, <1>2, OneMore
  <2>6. Cardinality(Missing') <= faults' + Cardinality(Owing')
    BY <2>1, <2>4, <2>5, <1>0, <1>2, <1>3
  <2>7. ASSUME NEW q \in Procs, pc'[q] = "audit" PROVE FALSE
    <3>1. q # p /\ pc[q] = "audit"
      BY <2>1, <2>7, <1>0 DEF TypeOK
    <3> QED BY <3>1, <2>1, <1>4 DEF Holding
  <2> QED BY <2>1, <2>2, <2>4, <2>5, <2>6, <2>7, <1>2
<1>9. ASSUME NEW p \in Procs, WriteAuditEvent(p) \/ WriteAuditEventFails(p)
       PROVE  Goal
  <2>1. /\ pc[p] = "audit" /\ pc' = [pc EXCEPT ![p] = "check"] /\ UNCHANGED file
    BY <1>9 DEF WriteAuditEvent, WriteAuditEventFails, LeaveBody, Goto
  <2>2. file = next[p] /\ Event(file) \in Missing
    BY <2>1, <1>2
  <2>3. Owing' = Owing \ {p} /\ p \in Owing
    BY <2>1, <1>0 DEF Owing, TypeOK
  <2>4. IsFiniteSet(Owing') /\ Cardinality(Owing') = Cardinality(Owing) - 1
    BY <2>3, <1>2, OneTaken
  <2>5. ASSUME NEW q \in Procs, pc'[q] = "audit" PROVE FALSE
    <3>1. q # p /\ pc[q] = "audit"
      BY <2>1, <2>5, <1>0 DEF TypeOK
    <3> QED BY <3>1, <2>1, <1>4 DEF Holding
  <2>6. CASE WriteAuditEvent(p)
    <3>1. audits' = audits \cup {Event(file)} /\ faults' = faults
      BY <2>2, <2>6 DEF WriteAuditEvent
    <3>2. Missing' = Missing \ {Event(file)} /\ audits' \subseteq EventsOf(file')
      BY <3>1, <2>1, <2>2, <1>2 DEF Missing
    <3>3. IsFiniteSet(Missing') /\ Cardinality(Missing') = Cardinality(Missing) - 1
      BY <3>2, <2>2, <1>2, OneTaken
    <3>4. Cardinality(Missing') <= faults' + Cardinality(Owing')
      BY <3>1, <3>3, <2>4, <1>0, <1>2, <1>3
    <3> QED BY <3>2, <3>3, <3>4, <2>4, <2>5
  <2>7. CASE WriteAuditEventFails(p)
    <3>1. audits' = audits /\ faults' = faults + 1
      BY <2>7 DEF WriteAuditEventFails, Fault
    <3>2. Missing' = Missing /\ audits' \subseteq EventsOf(file')
      BY <3>1, <2>1, <1>2 DEF Missing
    <3>4. Cardinality(Missing') <= faults' + Cardinality(Owing')
      BY <3>1, <3>2, <2>4, <1>0, <1>2, <1>3
    <3> QED BY <3>2, <3>4, <2>4, <2>5, <1>2
  <2> QED BY <2>6, <2>7, <1>9
<1>10. ASSUME NEW p \in Procs, Crash(p)
       PROVE  Goal
  <2>1. /\ pc[p] # "dead" /\ pc' = [pc EXCEPT ![p] = "dead"] /\ UNCHANGED <<file, audits, faults>>
        /\ \A q \in Procs : q # p => next'[q] = next[q]
    BY <1>10, <1>0 DEF Crash, Goto, TypeOK
  <2>2. Owing' = Owing \cup {p} /\ Missing' = Missing
    BY <2>1, <1>0 DEF Owing, Missing, TypeOK
  <2>3. IsFiniteSet(Owing') /\ Cardinality(Owing') \in Nat /\ Cardinality(Owing) <= Cardinality(Owing')
    <3>1. IsFiniteSet(Owing') /\ Owing \in SUBSET Owing'
      BY <2>2, <1>2, FS_AddElement
    <3> QED BY <3>1, FS_Subset, FS_CardinalityType
  <2>4. Cardinality(Missing') <= faults' + Cardinality(Owing')
    BY <2>1, <2>2, <2>3, <1>0, <1>2, <1>3
  <2>5. ASSUME NEW q \in Procs, pc'[q] = "audit" PROVE file' = next'[q] /\ Event(file') \in Missing'
    <3>1. q # p /\ pc[q] = "audit" /\ next'[q] = next[q]
      BY <2>1, <2>5, <1>0 DEF TypeOK
    <3> QED BY <3>1, <1>2, <2>1, <2>2
  <2> QED BY <2>1, <2>2, <2>3, <2>4, <2>5, <1>2
<1>11. CASE LeaseExpires \/ UNCHANGED vars
  <2>1. UNCHANGED <<pc, file, audits, next, faults>>
    BY <1>11 DEF LeaseExpires, vars
  <2>2. Missing' = Missing /\ Owing' = Owing
    BY <2>1 DEF Missing, Owing
  <2> QED BY <2>1, <2>2, <1>2
<1> QED
  BY <1>6, <1>7, <1>8, <1>9, <1>10, <1>11 DEF Next, Step, Failure

\* With crashes and failing system calls, for any number of them: the audit
\* trail tells of no transition the rollout did not take and misses at most one
\* per error or death, no update is lost before the first lock is, and the first
\* lock is lost to a stale or blind judgement only (deployment_state.py).
THEOREM FaultsAreSafe == Spec => FaultSafety
<1>1. Init => AuditInv
  <2> SUFFICES ASSUME Init PROVE AuditInv
    OBVIOUS
  <2>1. Missing = {} /\ Owing = {} /\ audits \subseteq EventsOf(file) /\ faults = 0
    BY DEF Init, Missing, Owing
  <2>2. \A p \in Procs : pc[p] # "audit"
    BY DEF Init
  <2> QED BY <2>1, <2>2, FS_EmptySet DEF AuditInv
<1>2. Spec => []AuditInv
  BY <1>1, NextAudit, Invariance, PTL DEF Spec
<1>3. AuditInv => AuditTrailFaithful
  BY DEF AuditInv, AuditTrailFaithful, Missing, Owing
<1>4. Spec => []AuditTrailFaithful
  BY <1>2, <1>3, PTL
<1> QED
  BY <1>4, ImplementsLedgerUnlessRobbed, FirstRobberyNeedsStaleJudgement DEF FaultSafety
=============================================================================
