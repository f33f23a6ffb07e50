---------------------- MODULE DeploymentRuntimeProofs -----------------------
(***************************************************************************)
(* Proofs about DeploymentRuntime, for every finite set of gather runs and *)
(* all budgets whose stages are further apart than the number of runs.     *)
(***************************************************************************)
EXTENDS DeploymentRuntime, FiniteSetTheorems, TLAPS

\* The generation at which a stage is reached.
Rung == [approved |-> 1, canary_1 |-> 2, canary_5 |-> 3, canary_10 |-> 4, bounded |-> 5]

\* The rollout is where its generation says.
OnLadder(s) ==
  \/ s = L!Absent
  \/ /\ s.stage \in DOMAIN Rung
     /\ s.generation = Rung[s.stage]
     /\ Len(s.history) = s.generation
  \/ /\ s.stage = "rolled_back"
     /\ s.generation \in 2..6
     /\ Len(s.history) = s.generation
     /\ s.history[s.generation].from \in DOMAIN Rung
     /\ Rung[s.history[s.generation].from] = s.generation - 1

\* A run under way loaded a live state that the rollout has been in.
LoadedWasCurrent ==
  \A r \in Runs : pc[r] # "idle" =>
    /\ loaded[r].stage \in L!LIVE_STAGES
    /\ loaded[r].generation = Rung[loaded[r].stage]
    /\ WasLive(file)
    /\ loaded[r].generation <= LiveGeneration(file)

RolloutInv == /\ file \in L!RolloutState
              /\ OnLadder(file)
              /\ pc \in [Runs -> PC]
              /\ loaded \in [Runs -> L!RolloutState]
              /\ LoadedWasCurrent

\* Runs that may log one more row although the budget of the current stage is
\* spent: they have passed its check, or will check that of an earlier stage.
Committed ==
  {r \in Runs : \/ pc[r] \in {"assign", "log"}
                \/ pc[r] = "evaluate" /\ loaded[r].generation < LiveGeneration(file)}

ExposureInv ==
  /\ exposed \in [Generations -> Nat]
  /\ ~WasLive(file) => \A g \in Generations : exposed[g] = 0
  /\ WasLive(file) =>
       /\ \A g \in Generations : g >= LiveGeneration(file) =>
            exposed[g] = exposed[LiveGeneration(file)]
       /\ exposed[LiveGeneration(file)] + Cardinality(Committed)
            <= ExposureBudget[LiveStage(file)] + Cardinality(Runs)
-----------------------------------------------------------------------------
\* A rollback ends the climb at the stage and generation it had reached.
LEMMA RollbackOnLadder ==
  ASSUME NEW s \in L!RolloutState, OnLadder(s), s # L!Absent, s.stage # "rolled_back"
  PROVE  LET t == L!Advance(s, "rolled_back")
         IN  /\ t \in L!RolloutState /\ OnLadder(t)
             /\ t.stage = "rolled_back" /\ t.generation = s.generation + 1
             /\ WasLive(t) <=> WasLive(s)
             /\ LiveStage(t) = LiveStage(s)
             /\ LiveGeneration(t) = LiveGeneration(s)
<1> DEFINE e == [generation |-> s.generation + 1, from |-> s.stage, to |-> "rolled_back"]
           t == L!Advance(s, "rolled_back")
<1>1. /\ s.stage \in DOMAIN Rung /\ s.generation = Rung[s.stage]
      /\ Len(s.history) = s.generation
      /\ s.history \in Seq(L!HistoryEntry) /\ s.generation \in 1..5
      /\ s.stage \in L!DEPLOYMENT_STAGES
  BY DEF OnLadder, L!RolloutState, Rung, L!DEPLOYMENT_STAGES
<1>2. e \in L!HistoryEntry
  BY <1>1 DEF L!HistoryEntry, L!DEPLOYMENT_STAGES
<1>3. /\ t.stage = "rolled_back" /\ t.generation = s.generation + 1
      /\ t.history = Append(s.history, e) /\ t \in L!RolloutState
  BY <1>1, <1>2 DEF L!Advance, L!RolloutState, L!DEPLOYMENT_STAGES
<1>4. Len(t.history) = t.generation /\ t.history[t.generation] = e
  BY <1>1, <1>2, <1>3
<1>a. t.history[t.generation].from = s.stage
  BY <1>4
<1>b. t.generation \in 2..6 /\ t.generation - 1 = s.generation
  BY <1>1, <1>3
<1> HIDE DEF t
<1>5. OnLadder(t)
  BY <1>1, <1>3, <1>4, <1>a, <1>b DEF OnLadder
<1> QED
  BY <1>1, <1>3, <1>a, <1>b, <1>5 DEF t, WasLive, LiveStage, LiveGeneration, L!LIVE_STAGES

\* A promotion climbs one rung.
LEMMA PromotionOnLadder ==
  ASSUME NEW s \in L!RolloutState, OnLadder(s), s.stage \in DOMAIN L!NEXT_STAGE
  PROVE  LET t == L!Advance(s, L!NEXT_STAGE[s.stage])
         IN  /\ t \in L!RolloutState /\ OnLadder(t)
             /\ t.stage = L!NEXT_STAGE[s.stage]
             /\ WasLive(t) /\ LiveStage(t) = L!NEXT_STAGE[s.stage]
             /\ LiveGeneration(t) = s.generation + 1
             /\ s.generation \in 1..4
<1> DEFINE e == [generation |-> s.generation + 1, from |-> s.stage,
                 to |-> L!NEXT_STAGE[s.stage]]
           t == L!Advance(s, L!NEXT_STAGE[s.stage])
<1>1. /\ s.stage \in DOMAIN Rung /\ s.generation = Rung[s.stage]
      /\ Len(s.history) = s.generation
      /\ s.history \in Seq(L!HistoryEntry) /\ s.generation \in 1..4
      /\ s.stage \in L!DEPLOYMENT_STAGES
      /\ L!NEXT_STAGE[s.stage] \in L!DEPLOYMENT_STAGES \cap L!LIVE_STAGES
      /\ L!NEXT_STAGE[s.stage] \in DOMAIN Rung
      /\ Rung[L!NEXT_STAGE[s.stage]] = s.generation + 1
  BY DEF OnLadder, L!RolloutState, Rung, L!DEPLOYMENT_STAGES, L!LIVE_STAGES,
         L!NEXT_STAGE, L!Absent
<1>2. e \in L!HistoryEntry
  BY <1>1 DEF L!HistoryEntry
<1>3. /\ t.stage = L!NEXT_STAGE[s.stage] /\ t.generation = s.generation + 1
      /\ t.history = Append(s.history, e) /\ t \in L!RolloutState
  BY <1>1, <1>2 DEF L!Advance, L!RolloutState
<1>4. Len(t.history) = t.generation
  BY <1>1, <1>2, <1>3
<1> HIDE DEF t
<1>5. OnLadder(t)
  BY <1>1, <1>3, <1>4 DEF OnLadder
<1> QED
  BY <1>1, <1>3, <1>4, <1>5 DEF t, WasLive, LiveStage, LiveGeneration, L!LIVE_STAGES

\* What a rollout on the ladder looks like from its live stage.
LEMMA LadderFacts ==
  ASSUME NEW s \in L!RolloutState, OnLadder(s)
  PROVE  /\ WasLive(s) => /\ LiveStage(s) \in L!LIVE_STAGES
                          /\ LiveGeneration(s) = Rung[LiveStage(s)]
                          /\ LiveGeneration(s) \in 2..5
         /\ s.stage \in L!LIVE_STAGES => WasLive(s)
         /\ ~WasLive(s) => s.stage \in {"absent", "approved", "rolled_back"}
<1>1. CASE s = L!Absent
  BY <1>1 DEF L!Absent, WasLive, L!LIVE_STAGES
<1>2. CASE s.stage \in DOMAIN Rung /\ s.generation = Rung[s.stage]
  BY <1>2 DEF WasLive, LiveStage, LiveGeneration, Rung, L!LIVE_STAGES
<1>3. CASE /\ s.stage = "rolled_back"
           /\ s.generation \in 2..6
           /\ s.history[s.generation].from \in DOMAIN Rung
           /\ Rung[s.history[s.generation].from] = s.generation - 1
  <2> DEFINE f == s.history[s.generation].from
  <2>1. f \in DOMAIN Rung /\ Rung[f] = s.generation - 1 /\ s.generation \in Int
    BY <1>3
  <2>2. /\ WasLive(s) <=> f \in L!LIVE_STAGES
        /\ LiveStage(s) = f /\ LiveGeneration(s) = s.generation - 1
    BY <1>3 DEF WasLive, LiveStage, LiveGeneration, L!LIVE_STAGES
  <2> HIDE DEF f
  <2>3. f \in L!LIVE_STAGES => Rung[f] \in 2..5
    BY DEF Rung, L!LIVE_STAGES
  <2> QED BY <1>3, <2>1, <2>2, <2>3 DEF L!LIVE_STAGES
<1> QED BY <1>1, <1>2, <1>3 DEF OnLadder

\* The four things a step may do to the state file.
FileStays == file' = file
FileCreated == file = L!Absent /\ file' = L!ApprovedState
FileClimbs == /\ file.stage \in DOMAIN L!NEXT_STAGE
              /\ file' = L!Advance(file, L!NEXT_STAGE[file.stage])
FileRolledBack == /\ file # L!Absent /\ file.stage # "rolled_back"
                  /\ file' = L!Advance(file, "rolled_back")

\* An automatic rollback that finds the generation it evaluated finds the
\* rollout still live.
LEMMA FileSteps ==
  RolloutInv /\ [Next]_vars => FileStays \/ FileCreated \/ FileClimbs \/ FileRolledBack
<1> SUFFICES ASSUME RolloutInv, [Next]_vars
             PROVE  FileStays \/ FileCreated \/ FileClimbs \/ FileRolledBack
  OBVIOUS
<1>1. ASSUME NEW r \in Runs, AutoRollback(r) PROVE FileRolledBack
  <2>1. /\ pc[r] # "idle" /\ file.generation = loaded[r].generation
        /\ file' = L!Advance(file, "rolled_back")
    BY <1>1 DEF AutoRollback
  <2>2. WasLive(file) /\ file.generation <= LiveGeneration(file) /\ file.generation \in Nat
    BY <2>1 DEF RolloutInv, LoadedWasCurrent, L!RolloutState
  <2>3. file.stage # "rolled_back"
    BY <2>2 DEF LiveGeneration
  <2>4. file # L!Absent
    BY <2>2 DEF WasLive, L!Absent, L!LIVE_STAGES
  <2> QED BY <2>1, <2>3, <2>4 DEF FileRolledBack
<1>2. CASE CreateState
  BY <1>2 DEF CreateState, FileCreated
<1>3. CASE Promote
  BY <1>3 DEF Promote, FileClimbs
<1>4. CASE ManualRollback
  BY <1>4 DEF ManualRollback, FileRolledBack
<1>5. CASE \/ WriteReport \/ UNCHANGED vars
           \/ \E g \in Generations : RecordOutcome(g)
           \/ \E r \in Runs : \/ LoadState(r) \/ EvaluateGuardrails(r) \/ Assign(r)
                              \/ LogDecision(r) \/ FinishCandidate(r)
                              \/ AutoRollbackFails(r) \/ LogDecisionFails(r)
  BY <1>5 DEF FileStays, WriteReport, vars, RecordOutcome, LoadState, EvaluateGuardrails,
     Assign, LogDecision, FinishCandidate, AutoRollbackFails, LogDecisionFails
<1> QED BY <1>1, <1>2, <1>3, <1>4, <1>5 DEF Next, RunStep

\* The file stays on the ladder, and the live generation never goes down.
LEMMA LadderClimbs ==
  ASSUME RolloutInv, [Next]_vars
  PROVE  /\ file' \in L!RolloutState /\ OnLadder(file')
         /\ WasLive(file) => /\ WasLive(file')
                             /\ LiveGeneration(file) <= LiveGeneration(file')
         /\ \/ file' = file
            \/ ~WasLive(file) /\ ~WasLive(file')
            \/ /\ WasLive(file') /\ LiveGeneration(file') = LiveGeneration(file)
               /\ WasLive(file) /\ LiveStage(file') = LiveStage(file)
            \/ /\ FileClimbs /\ WasLive(file')
               /\ LiveGeneration(file') = file.generation + 1
               /\ LiveStage(file') = L!NEXT_STAGE[file.stage]
               /\ file.generation \in 1..4
<1>1. CASE FileStays
  BY <1>1, LadderFacts DEF FileStays, RolloutInv
<1>2. CASE FileCreated
  BY <1>2 DEF FileCreated, L!ApprovedState, L!Absent, L!RolloutState, L!HistoryEntry,
     L!DEPLOYMENT_STAGES, L!LIVE_STAGES, OnLadder, Rung, WasLive
<1>3. CASE FileClimbs
  <2>1. /\ file' \in L!RolloutState /\ OnLadder(file') /\ WasLive(file')
        /\ LiveStage(file') = L!NEXT_STAGE[file.stage]
        /\ LiveGeneration(file') = file.generation + 1
        /\ file.generation \in 1..4
    BY <1>3, PromotionOnLadder DEF FileClimbs, RolloutInv
  <2>2. LiveGeneration(file) = file.generation
    BY <1>3 DEF FileClimbs, LiveGeneration, L!NEXT_STAGE
  <2> QED BY <1>3, <2>1, <2>2
<1>4. CASE FileRolledBack
  <2>1. /\ file' \in L!RolloutState /\ OnLadder(file')
        /\ WasLive(file') <=> WasLive(file)
        /\ LiveStage(file') = LiveStage(file)
        /\ LiveGeneration(file') = LiveGeneration(file)
    BY <1>4, RollbackOnLadder DEF FileRolledBack, RolloutInv
  <2> QED BY <2>1, LadderFacts DEF RolloutInv
<1> QED BY <1>1, <1>2, <1>3, <1>4, FileSteps

\* Every step keeps the rollout on the ladder and the runs behind it.
LEMMA NextRolloutInv == RolloutInv /\ [Next]_vars => RolloutInv'
<1> SUFFICES ASSUME RolloutInv, [Next]_vars PROVE RolloutInv'
  OBVIOUS
<1>1. /\ file' \in L!RolloutState /\ OnLadder(file')
      /\ WasLive(file) => WasLive(file') /\ LiveGeneration(file) <= LiveGeneration(file')
      /\ WasLive(file) => LiveGeneration(file) \in Int /\ LiveGeneration(file') \in Int
  BY LadderClimbs, LadderFacts DEF RolloutInv
<1>2. L!Absent \in L!RolloutState
  BY DEF L!Absent, L!RolloutState, L!HistoryEntry
<1>3. ASSUME NEW r \in Runs,
             \/ RunStep(r) /\ ~LoadState(r)
             \/ AutoRollbackFails(r) \/ LogDecisionFails(r)
      PROVE  /\ pc' \in [Runs -> PC] /\ loaded' \in [Runs -> L!RolloutState]
             /\ \A q \in Runs : pc'[q] # "idle" => pc[q] # "idle" /\ loaded'[q] = loaded[q]
  BY <1>2, <1>3 DEF RunStep, EvaluateGuardrails, AutoRollback, Assign, LogDecision,
     FinishCandidate, AutoRollbackFails, LogDecisionFails, UseBaseline, Goto, PC,
     RolloutInv
<1>4. CASE \/ UNCHANGED <<pc, loaded>>
           \/ \E r \in Runs : \/ RunStep(r) /\ ~LoadState(r)
                              \/ AutoRollbackFails(r) \/ LogDecisionFails(r)
  <2>1. /\ pc' \in [Runs -> PC] /\ loaded' \in [Runs -> L!RolloutState]
        /\ \A q \in Runs : pc'[q] # "idle" => pc[q] # "idle" /\ loaded'[q] = loaded[q]
    BY <1>3, <1>4 DEF RolloutInv
  <2>2. ASSUME NEW q \in Runs, pc'[q] # "idle"
        PROVE  /\ loaded'[q].stage \in L!LIVE_STAGES
               /\ loaded'[q].generation = Rung[loaded'[q].stage]
               /\ WasLive(file') /\ loaded'[q].generation <= LiveGeneration(file')
    <3>1. /\ loaded'[q] = loaded[q] /\ loaded[q].stage \in L!LIVE_STAGES
          /\ loaded[q].generation = Rung[loaded[q].stage]
          /\ WasLive(file) /\ loaded[q].generation <= LiveGeneration(file)
          /\ loaded[q].generation \in Nat
      BY <2>1, <2>2 DEF RolloutInv, LoadedWasCurrent, L!RolloutState
    <3> QED BY <1>1, <3>1
  <2> QED BY <1>1, <2>1, <2>2 DEF RolloutInv, LoadedWasCurrent
<1>5. ASSUME NEW r \in Runs, LoadState(r) PROVE RolloutInv'
  <2>1. /\ file' = file /\ file.stage \in L!LIVE_STAGES
        /\ pc' = [pc EXCEPT ![r] = "evaluate"]
        /\ loaded' = [loaded EXCEPT ![r] = file]
    BY <1>5 DEF LoadState, Goto
  <2>2. /\ WasLive(file) /\ LiveGeneration(file) = file.generation
        /\ file.generation \in Nat /\ file.generation = Rung[file.stage]
    BY <2>1 DEF WasLive, LiveGeneration, L!LIVE_STAGES, RolloutInv, L!RolloutState,
       OnLadder, L!Absent
  <2>3. LoadedWasCurrent'
    BY <2>1, <2>2 DEF RolloutInv, LoadedWasCurrent
  <2> QED BY <1>1, <2>1, <2>3 DEF RolloutInv, PC
<1>6. \/ UNCHANGED <<pc, loaded>>
      \/ \E r \in Runs : \/ RunStep(r) \/ AutoRollbackFails(r) \/ LogDecisionFails(r)
  BY DEF Next, vars, RecordOutcome, CreateState, WriteReport, Promote, ManualRollback
<1> QED BY <1>4, <1>5, <1>6
-----------------------------------------------------------------------------
\* The committed runs are at most all runs, and fewer if one leaves.
LEMMA CommittedFinite ==
  ASSUME NEW S, NEW T, S \subseteq T, T \subseteq Runs
  PROVE  /\ IsFiniteSet(S) /\ IsFiniteSet(T)
         /\ Cardinality(S) \in Nat /\ Cardinality(T) \in Nat /\ Cardinality(Runs) \in Nat
         /\ Cardinality(S) <= Cardinality(T) /\ Cardinality(T) <= Cardinality(Runs)
         /\ \A r \in T : r \notin S => Cardinality(S) + 1 <= Cardinality(T)
<1>1. IsFiniteSet(Runs)
  BY BudgetAssumption
<1>2. IsFiniteSet(T) /\ Cardinality(T) <= Cardinality(Runs)
  BY <1>1, FS_Subset
<1>3. IsFiniteSet(S) /\ Cardinality(S) <= Cardinality(T)
  BY <1>2, FS_Subset
<1>4. ASSUME NEW r \in T, r \notin S PROVE Cardinality(S) + 1 <= Cardinality(T)
  <2>1. IsFiniteSet(T \ {r}) /\ Cardinality(T \ {r}) = Cardinality(T) - 1
    BY <1>2, <1>4, FS_RemoveElement
  <2>2. Cardinality(S) <= Cardinality(T \ {r})
    BY <2>1, <1>4, FS_Subset
  <2> QED BY <2>1, <2>2, <1>2, <1>3, FS_CardinalityType
<1> QED BY <1>1, <1>2, <1>3, <1>4, FS_CardinalityType

\* A step that logs nothing, leaves the live stage where it is and commits no
\* run keeps the bound.
LEMMA QuietStep ==
  ASSUME RolloutInv, ExposureInv, exposed' = exposed, Committed' \subseteq Committed,
         \/ file' = file
         \/ ~WasLive(file) /\ ~WasLive(file')
         \/ /\ WasLive(file') /\ LiveGeneration(file') = LiveGeneration(file)
            /\ WasLive(file) /\ LiveStage(file') = LiveStage(file)
  PROVE  ExposureInv'
<1>1. CASE WasLive(file)
  <2>1. /\ LiveGeneration(file) \in Generations
        /\ ExposureBudget[LiveStage(file)] \in Nat
        /\ exposed[LiveGeneration(file)] \in Nat
    BY <1>1, LadderFacts, BudgetAssumption DEF RolloutInv, Generations, ExposureInv
  <2>2. /\ Cardinality(Committed') <= Cardinality(Committed)
        /\ Cardinality(Committed') \in Nat /\ Cardinality(Committed) \in Nat
        /\ Cardinality(Runs) \in Nat
    BY CommittedFinite DEF Committed
  <2>3. LiveGeneration(file') = LiveGeneration(file) /\ LiveStage(file') = LiveStage(file)
    BY <1>1
  <2> QED BY <1>1, <2>1, <2>2, <2>3 DEF ExposureInv
<1>2. CASE ~WasLive(file)
  BY <1>2 DEF ExposureInv
<1> QED BY <1>1, <1>2

\* A committed run that logs its row uses up its commitment.
LEMMA RowLogged ==
  ASSUME RolloutInv, ExposureInv, NEW r \in Runs, pc[r] = "log",
         exposed' = CountOne(exposed, loaded[r].generation), file' = file,
         Committed' \subseteq Committed, r \notin Committed'
  PROVE  ExposureInv'
<1>1. /\ WasLive(file) /\ loaded[r].generation <= LiveGeneration(file)
      /\ loaded[r].generation \in Generations
  BY DEF RolloutInv, LoadedWasCurrent, Rung, L!LIVE_STAGES, Generations
<1>2. /\ LiveGeneration(file) \in Generations
      /\ ExposureBudget[LiveStage(file)] \in Nat
      /\ exposed \in [Generations -> Nat]
  BY <1>1, LadderFacts, BudgetAssumption DEF RolloutInv, Generations, ExposureInv
<1>3. /\ Cardinality(Committed') + 1 <= Cardinality(Committed)
      /\ Cardinality(Committed') \in Nat /\ Cardinality(Committed) \in Nat
      /\ Cardinality(Runs) \in Nat
  <2>1. r \in Committed
    BY DEF Committed
  <2> QED BY <2>1, CommittedFinite DEF Committed
<1>4. /\ exposed' \in [Generations -> Nat]
      /\ \A g \in Generations : g >= loaded[r].generation => exposed'[g] = exposed[g] + 1
  BY <1>2 DEF CountOne, Generations
<1>5. \A g \in Generations : g >= LiveGeneration(file) =>
        exposed'[g] = exposed[LiveGeneration(file)] + 1
  BY <1>1, <1>2, <1>4 DEF ExposureInv, Generations
<1>6. exposed'[LiveGeneration(file)] + Cardinality(Committed')
        <= ExposureBudget[LiveStage(file)] + Cardinality(Runs)
  <2>1. exposed'[LiveGeneration(file)] = exposed[LiveGeneration(file)] + 1
    BY <1>2, <1>5 DEF Generations
  <2>2. exposed[LiveGeneration(file)] + Cardinality(Committed)
          <= ExposureBudget[LiveStage(file)] + Cardinality(Runs)
    BY <1>1 DEF ExposureInv
  <2>3. exposed[LiveGeneration(file)] \in Nat
    BY <1>2
  <2> QED BY <1>2, <1>3, <2>1, <2>2, <2>3
<1>7. exposed'[LiveGeneration(file)] = exposed[LiveGeneration(file)] + 1
  BY <1>2, <1>5 DEF Generations
<1> QED BY <1>1, <1>4, <1>5, <1>6, <1>7 DEF ExposureInv

\* Every step keeps the exposure bound.
LEMMA NextExposureInv == RolloutInv /\ ExposureInv /\ [Next]_vars => ExposureInv'
<1> SUFFICES ASSUME RolloutInv, ExposureInv, [Next]_vars PROVE ExposureInv'
  OBVIOUS
<1>1. CASE file' = file /\ UNCHANGED <<pc, loaded, exposed>>
  BY <1>1, QuietStep DEF Committed
<1>2. ASSUME NEW r \in Runs,
             \/ LoadState(r) \/ Assign(r) \/ FinishCandidate(r) \/ AutoRollbackFails(r)
             \/ LogDecisionFails(r) /\ UNCHANGED exposed
      PROVE  ExposureInv'
  <2>1. file' = file /\ exposed' = exposed
    BY <1>2 DEF LoadState, Assign, FinishCandidate, AutoRollbackFails, LogDecisionFails,
       log
  <2>2. CASE LoadState(r)
    <3>1. /\ pc' = [pc EXCEPT ![r] = "evaluate"] /\ loaded' = [loaded EXCEPT ![r] = file]
          /\ file.generation \in Nat /\ LiveGeneration(file) = file.generation
      BY <2>2 DEF LoadState, Goto, RolloutInv, L!RolloutState, LiveGeneration,
         L!LIVE_STAGES
    <3>2. Committed' \subseteq Committed
      BY <2>1, <3>1 DEF Committed, RolloutInv
    <3> QED BY <2>1, <3>2, QuietStep
  <2>3. CASE ~LoadState(r)
    <3>1. Committed' \subseteq Committed
      BY <1>2, <2>1, <2>3 DEF Committed, Assign, FinishCandidate, AutoRollbackFails,
         LogDecisionFails, UseBaseline, Goto, RolloutInv
    <3> QED BY <2>1, <3>1, QuietStep
  <2> QED BY <2>2, <2>3
<1>3. ASSUME NEW r \in Runs, EvaluateGuardrails(r) PROVE ExposureInv'
  <2>1. /\ pc[r] = "evaluate" /\ file' = file /\ exposed' = exposed /\ loaded' = loaded
        /\ pc' \in {[pc EXCEPT ![r] = "rollback"], [pc EXCEPT ![r] = "assign"]}
    BY <1>3 DEF EvaluateGuardrails, Goto, log
  <2>2. CASE pc'[r] # "assign" \/ loaded[r].generation < LiveGeneration(file)
    <3>1. Committed' \subseteq Committed
      BY <2>1, <2>2 DEF Committed, RolloutInv
    <3> QED BY <2>1, <3>1, QuietStep
  <2>3. CASE pc'[r] = "assign" /\ ~(loaded[r].generation < LiveGeneration(file))
    <3>1. /\ loaded[r].stage \in L!LIVE_STAGES /\ WasLive(file)
          /\ loaded[r].generation = Rung[loaded[r].stage]
          /\ loaded[r].generation <= LiveGeneration(file)
      BY <2>1 DEF RolloutInv, LoadedWasCurrent
    <3>2. /\ LiveGeneration(file) \in Generations
          /\ LiveStage(file) \in L!LIVE_STAGES
          /\ LiveGeneration(file) = Rung[LiveStage(file)]
          /\ ExposureBudget[LiveStage(file)] \in Nat
          /\ exposed[LiveGeneration(file)] \in Nat
      BY <3>1, LadderFacts, BudgetAssumption DEF RolloutInv, Generations, ExposureInv
    <3>3. loaded[r].generation = LiveGeneration(file)
      BY <2>3, <3>1, <3>2 DEF Rung, L!LIVE_STAGES, Generations
    <3>4. loaded[r].stage = LiveStage(file)
      BY <3>1, <3>2, <3>3 DEF Rung, L!LIVE_STAGES
    <3>5. ~BudgetExhausted(loaded[r])
      BY <1>3, <2>1, <2>3, <3>1 DEF EvaluateGuardrails, RollbackRequired, Goto, RolloutInv
    <3>6. exposed[LiveGeneration(file)] <= ExposureBudget[LiveStage(file)]
      BY <3>2, <3>3, <3>4, <3>5 DEF BudgetExhausted
    <3>7. Cardinality(Committed') <= Cardinality(Runs) /\ Cardinality(Committed') \in Nat
          /\ Cardinality(Runs) \in Nat
      BY CommittedFinite DEF Committed
    <3> QED BY <2>1, <3>1, <3>2, <3>6, <3>7 DEF ExposureInv
  <2> QED BY <2>2, <2>3
<1>4. ASSUME NEW r \in Runs, LogDecision(r) \/ LogDecisionFails(r),
             exposed' = CountOne(exposed, loaded[r].generation)
      PROVE  ExposureInv'
  <2>1. /\ pc[r] = "log" /\ file' = file
        /\ Committed' \subseteq Committed /\ r \notin Committed'
    BY <1>4 DEF LogDecision, LogDecisionFails, UseBaseline, Goto, Committed, RolloutInv
  <2> QED BY <1>4, <2>1, RowLogged
<1>5. ASSUME FileClimbs, UNCHANGED <<pc, loaded, exposed>> PROVE ExposureInv'
  <2>1. /\ WasLive(file') /\ LiveGeneration(file') = file.generation + 1
        /\ LiveStage(file') = L!NEXT_STAGE[file.stage]
        /\ file.generation \in 1..4
    BY <1>5, PromotionOnLadder DEF FileClimbs, RolloutInv
  <2>2. /\ Cardinality(Committed') <= Cardinality(Runs)
        /\ Cardinality(Committed') \in Nat /\ Cardinality(Committed) \in Nat
        /\ Cardinality(Runs) \in Nat
    BY CommittedFinite DEF Committed
  <2>3. CASE file.stage \in L!LIVE_STAGES
    <3>1. /\ WasLive(file) /\ LiveGeneration(file) = file.generation
          /\ LiveStage(file) = file.stage
      BY <2>3 DEF WasLive, LiveGeneration, LiveStage, L!LIVE_STAGES
    <3>2. /\ ExposureBudget[file.stage] \in Nat
          /\ ExposureBudget[L!NEXT_STAGE[file.stage]] \in Nat
          /\ ExposureBudget[L!NEXT_STAGE[file.stage]]
               >= ExposureBudget[file.stage] + Cardinality(Runs)
      BY <1>5, <2>3, BudgetAssumption, BudgetGapAssumption DEF FileClimbs, L!NEXT_STAGE,
         L!LIVE_STAGES
    <3>3. exposed \in [Generations -> Nat]
      BY DEF ExposureInv
    <3>4. \A g \in Generations : g >= file.generation => exposed[g] = exposed[file.generation]
      BY <3>1 DEF ExposureInv
    <3>5. exposed[file.generation + 1] = exposed[file.generation]
      BY <2>1, <3>4 DEF Generations
    <3>6. exposed[file.generation] + Cardinality(Committed)
            <= ExposureBudget[file.stage] + Cardinality(Runs)
      BY <3>1 DEF ExposureInv
    <3>7. exposed[file.generation] \in Nat
      BY <2>1, <3>3 DEF Generations
    <3>8. exposed'[LiveGeneration(file')] + Cardinality(Committed')
            <= ExposureBudget[LiveStage(file')] + Cardinality(Runs)
      BY <1>5, <2>1, <2>2, <3>2, <3>5, <3>6, <3>7
    <3>9. \A g \in Generations : g >= LiveGeneration(file') =>
            exposed'[g] = exposed'[LiveGeneration(file')]
      BY <1>5, <2>1, <3>4, <3>5 DEF Generations
    <3> QED BY <1>5, <2>1, <3>3, <3>8, <3>9 DEF ExposureInv
  <2>4. CASE file.stage \notin L!LIVE_STAGES
    <3>1. file.stage = "approved" /\ ~WasLive(file)
      BY <1>5, <2>4 DEF FileClimbs, L!NEXT_STAGE, L!LIVE_STAGES, WasLive
    <3>2. \A g \in Generations : exposed[g] = 0
      BY <3>1 DEF ExposureInv
    <3>3. ExposureBudget[LiveStage(file')] \in Nat
      BY <2>1, <3>1, BudgetAssumption DEF L!NEXT_STAGE, L!LIVE_STAGES
    <3>4. exposed'[LiveGeneration(file')] = 0
      BY <1>5, <2>1, <3>2 DEF Generations
    <3> QED BY <1>5, <2>1, <2>2, <3>2, <3>3, <3>4 DEF ExposureInv
  <2> QED BY <2>3, <2>4
<1>6. ASSUME FileRolledBack, exposed' = exposed, Committed' \subseteq Committed
      PROVE  ExposureInv'
  <2>1. /\ WasLive(file') <=> WasLive(file)
        /\ LiveStage(file') = LiveStage(file)
        /\ LiveGeneration(file') = LiveGeneration(file)
    BY <1>6, RollbackOnLadder DEF FileRolledBack, RolloutInv
  <2> QED BY <1>6, <2>1, QuietStep
<1>7. ASSUME NEW r \in Runs, AutoRollback(r) PROVE ExposureInv'
  <2>1. FileRolledBack
    <3>1. file' # file
      BY <1>7 DEF AutoRollback, L!Advance, RolloutInv, L!RolloutState
    <3>2. file # L!Absent
      BY <1>7 DEF AutoRollback, RolloutInv, LoadedWasCurrent, WasLive, L!Absent, L!LIVE_STAGES
    <3>3. file'.stage = "rolled_back"
      BY <1>7 DEF AutoRollback, L!Advance
    <3> QED
      BY <3>1, <3>2, <3>3, FileSteps DEF FileStays, FileCreated, FileClimbs, L!Advance,
         L!NEXT_STAGE
  <2>2. LiveGeneration(file') = LiveGeneration(file)
    BY <2>1, RollbackOnLadder DEF FileRolledBack, RolloutInv
  <2>3. exposed' = exposed /\ Committed' \subseteq Committed
    BY <1>7, <2>2 DEF AutoRollback, UseBaseline, Goto, Committed, RolloutInv, log
  <2> QED BY <1>6, <2>1, <2>3
<1>8. CASE ManualRollback
  <2>1. FileRolledBack /\ exposed' = exposed
    BY <1>8 DEF ManualRollback, FileRolledBack, log
  <2>2. LiveGeneration(file') = LiveGeneration(file)
    BY <2>1, RollbackOnLadder DEF FileRolledBack, RolloutInv
  <2> QED BY <1>6, <1>8, <2>1, <2>2 DEF ManualRollback, Committed
<1>9. CASE CreateState
  <2>1. ~WasLive(file) /\ ~WasLive(file') /\ exposed' = exposed
    BY <1>9 DEF CreateState, WasLive, L!Absent, L!ApprovedState, L!LIVE_STAGES, log
  <2>2. \A r \in Runs : pc[r] = "idle"
    BY <2>1 DEF RolloutInv, LoadedWasCurrent
  <2>3. Committed' \subseteq Committed
    BY <1>9, <2>2 DEF CreateState, Committed
  <2> QED BY <2>1, <2>3, QuietStep
<1>10. CASE Promote
  BY <1>5, <1>10 DEF Promote, FileClimbs, log
<1>11. CASE WriteReport \/ UNCHANGED vars \/ \E g \in Generations : RecordOutcome(g)
  BY <1>1, <1>11 DEF WriteReport, RecordOutcome, vars, log
<1> QED
  BY <1>2, <1>3, <1>4, <1>7, <1>8, <1>9, <1>10, <1>11
     DEF Next, RunStep, LogDecision, LogDecisionFails
-----------------------------------------------------------------------------
\* A safe report, and each rung above canary_1, rest on verified outcomes.
EvidenceInv ==
  /\ verified \in [Generations -> Nat]
  /\ report.safe_to_advance =>
       /\ report.generation \in Generations
       /\ verified[report.generation] >= MinimumOutcomes
  /\ ClimbNeedsEvidence

LEMMA NextEvidenceInv == RolloutInv /\ EvidenceInv /\ [Next]_vars => EvidenceInv'
<1> SUFFICES ASSUME RolloutInv, EvidenceInv, [Next]_vars PROVE EvidenceInv'
  OBVIOUS
<1>1. /\ verified \in [Generations -> Nat] /\ MinimumOutcomes \in Nat
      /\ file.generation \in 0..6 /\ Len(file.history) = file.generation
      /\ file.history \in Seq(L!HistoryEntry)
  BY BudgetAssumption DEF EvidenceInv, RolloutInv, OnLadder, Rung, L!Absent, L!RolloutState
<1>2. ASSUME file' = file, report' = report, verified' \in [Generations -> Nat],
             \A g \in Generations : verified'[g] >= verified[g]
      PROVE  EvidenceInv'
  <2>1. ASSUME NEW g \in Generations, verified[g] >= MinimumOutcomes
        PROVE  verified'[g] >= MinimumOutcomes
    BY <1>1, <1>2, <2>1
  <2>2. \A i \in 3..file.generation : i - 1 \in Generations
    BY <1>1 DEF Generations
  <2> QED BY <1>2, <2>1, <2>2 DEF EvidenceInv, ClimbNeedsEvidence
<1>3. ASSUME NEW g \in Generations, RecordOutcome(g) PROVE EvidenceInv'
  <2>1. /\ verified' \in [Generations -> Nat]
        /\ \A h \in Generations : verified'[h] >= verified[h]
    BY <1>1, <1>3 DEF RecordOutcome, CountOne
  <2> QED BY <1>2, <1>3, <2>1 DEF RecordOutcome
<1>4. CASE WriteReport
  <2>1. file' = file /\ verified' = verified
    BY <1>4 DEF WriteReport, log
  <2>2. file.generation \in Generations
    BY <1>4 DEF WriteReport, RolloutInv, OnLadder, Rung, Generations
  <2>3. PICK regression \in BOOLEAN, clusters \in BOOLEAN :
          report' = [generation |-> file.generation, stage |-> file.stage,
                     safe_to_advance |-> SafeToAdvance(file, regression, clusters)]
    BY <1>4 DEF WriteReport
  <2>4. report'.safe_to_advance => verified[report'.generation] >= MinimumOutcomes
    BY <2>3 DEF SafeToAdvance
  <2>5. report'.generation = file.generation
    BY <2>3
  <2>6. ClimbNeedsEvidence'
    BY <2>1 DEF EvidenceInv, ClimbNeedsEvidence
  <2> QED BY <1>1, <2>1, <2>2, <2>4, <2>5, <2>6 DEF EvidenceInv
<1>5. ASSUME UNCHANGED <<verified, report>>, NEW target \in L!DEPLOYMENT_STAGES,
             file' = L!Advance(file, target), file.stage \in L!DEPLOYMENT_STAGES,
             (target # "rolled_back" /\ file.generation >= 2)
               => verified[file.generation] >= MinimumOutcomes
      PROVE  EvidenceInv'
  <2> DEFINE e == [generation |-> file.generation + 1, from |-> file.stage, to |-> target]
  <2>1. e \in L!HistoryEntry
    BY <1>1, <1>5 DEF L!HistoryEntry
  <2>2. file'.generation = file.generation + 1 /\ file'.history = Append(file.history, e)
    BY <1>5 DEF L!Advance
  <2>3. /\ \A i \in 1..file.generation : file'.history[i] = file.history[i]
        /\ file'.history[file.generation + 1].to = target
    BY <1>1, <2>1, <2>2
  <2>4. ASSUME NEW i \in 3..file'.generation, file'.history[i].to # "rolled_back"
        PROVE  verified[i - 1] >= MinimumOutcomes
    <3>1. CASE i = file.generation + 1
      <4>1. i - 1 = file.generation /\ file.generation >= 2
        BY <1>1, <3>1, <2>2
      <4>2. target # "rolled_back"
        BY <2>3, <2>4, <3>1
      <4> QED BY <1>5, <4>1, <4>2
    <3>2. CASE i # file.generation + 1
      <4>1. i \in 3..file.generation /\ i \in 1..file.generation
        BY <1>1, <2>2, <3>2
      <4>2. file.history[i].to # "rolled_back"
        BY <2>3, <2>4, <4>1
      <4> QED BY <4>1, <4>2 DEF EvidenceInv, ClimbNeedsEvidence
    <3> QED BY <3>1, <3>2
  <2>5. ClimbNeedsEvidence'
    BY <1>5, <2>4 DEF ClimbNeedsEvidence
  <2> QED BY <1>5, <2>5 DEF EvidenceInv
<1>6. CASE Promote
  <2>1. /\ file.stage \in DOMAIN L!NEXT_STAGE
        /\ file' = L!Advance(file, L!NEXT_STAGE[file.stage])
        /\ UNCHANGED <<verified, report>>
    BY <1>6 DEF Promote, log
  <2>2. /\ L!NEXT_STAGE[file.stage] \in L!DEPLOYMENT_STAGES
        /\ file.stage \in L!DEPLOYMENT_STAGES
    BY <2>1 DEF L!NEXT_STAGE, L!DEPLOYMENT_STAGES
  <2>3. file.generation >= 2 => file.stage \in L!LIVE_STAGES
    BY <2>1 DEF RolloutInv, OnLadder, Rung, L!Absent, L!NEXT_STAGE, L!LIVE_STAGES
  <2>4. file.generation >= 2 => verified[file.generation] >= MinimumOutcomes
    BY <1>6, <2>3 DEF Promote, EvidenceInv
  <2> QED BY <1>5, <2>1, <2>2, <2>4
<1>7. CASE ManualRollback \/ \E r \in Runs : AutoRollback(r)
  <2>1. file' = L!Advance(file, "rolled_back") /\ UNCHANGED <<verified, report>>
    BY <1>7 DEF ManualRollback, AutoRollback, log
  <2>2. file.stage \in L!DEPLOYMENT_STAGES /\ "rolled_back" \in L!DEPLOYMENT_STAGES
    <3>1. file # L!Absent
      BY <1>7 DEF ManualRollback, AutoRollback, RolloutInv, LoadedWasCurrent, WasLive,
         L!Absent, L!LIVE_STAGES
    <3> QED BY <3>1 DEF RolloutInv, OnLadder, Rung, L!DEPLOYMENT_STAGES
  <2> QED BY <1>5, <2>1, <2>2
<1>8. CASE CreateState
  <2>1. verified' = verified /\ report' = report /\ file'.generation = 1
    BY <1>8 DEF CreateState, log, L!ApprovedState
  <2> QED BY <1>1, <2>1 DEF EvidenceInv, ClimbNeedsEvidence
<1>9. CASE \/ UNCHANGED vars
           \/ \E r \in Runs : \/ RunStep(r) /\ ~AutoRollback(r)
                              \/ AutoRollbackFails(r) \/ LogDecisionFails(r)
  <2>1. UNCHANGED <<file, verified, report>>
    BY <1>9 DEF vars, log, RunStep, LoadState, EvaluateGuardrails, Assign, LogDecision,
       FinishCandidate, AutoRollbackFails, LogDecisionFails
  <2> QED BY <1>1, <1>2, <2>1
<1> QED BY <1>3, <1>4, <1>6, <1>7, <1>8, <1>9 DEF Next
-----------------------------------------------------------------------------
\* The rollouts a behaviour starts from are on the first two rungs.
LEMMA InitialOnLadder ==
  ASSUME NEW s \in InitialStates
  PROVE  s \in L!RolloutState /\ OnLadder(s) /\ s.generation \in 0..2
<1>1. /\ s \in L!RolloutState /\ L!HistoryReplays(s)
      /\ s.stage \in {"absent", "approved", "canary_1"}
  BY InitialStatesAssumption
<1>2. CASE s = L!Absent
  BY <1>1, <1>2 DEF OnLadder, L!Absent
<1>3. CASE s # L!Absent
  <2>1. /\ s.stage \in {"approved", "canary_1"} /\ s.generation \in Nat
        /\ s.generation = Len(s.history) /\ s.generation >= 1
        /\ s.history[1].to = "approved"
        /\ s.history[s.generation].to = s.stage
        /\ \A i \in 2..s.generation :
             /\ s.history[i].from = s.history[i - 1].to
             /\ L!MayFollow(s.history[i].from, s.history[i].to)
    BY <1>1, <1>3 DEF L!HistoryReplays, L!RolloutState, L!DEPLOYMENT_STAGES,
       L!ApprovedState
  <2>0. s.generation \in Nat /\ s.generation >= 1
    BY <2>1
  <2>2. \A i \in 2..s.generation : s.history[i].to # "approved"
    BY <2>1 DEF L!MayFollow, L!NEXT_STAGE
  <2>3. CASE s.generation = 1
    <3>1. s.stage = "approved"
      BY <2>1, <2>3
    <3> QED BY <1>1, <2>1, <2>3, <3>1 DEF OnLadder, Rung
  <2>4. CASE s.generation # 1
    <3>1. s.generation \in 2..s.generation
      BY <2>0, <2>4
    <3>2. s.stage = "canary_1"
      BY <2>1, <2>2, <3>1
    <3>3. s.history[s.generation - 1].to = "approved"
      BY <2>1, <3>1, <3>2 DEF L!MayFollow, L!NEXT_STAGE
    <3>4. s.generation - 1 \notin 2..s.generation
      BY <2>2, <3>3
    <3>5. s.generation = 2
      BY <2>0, <2>4, <3>4
    <3> QED BY <1>1, <2>1, <3>2, <3>5 DEF OnLadder, Rung
  <2> QED BY <2>3, <2>4
<1> QED BY <1>2, <1>3

\* Who saw a failing guardrail is about to roll back and nowhere else.
ObserverRollsBack == \A r \in Runs : r \in observed => pc[r] = "rollback"

IInv == RolloutInv /\ ExposureInv /\ EvidenceInv /\ ObserverRollsBack
        /\ IncidentsDescribeRollback

LEMMA InitIInv == Init => IInv
<1> SUFFICES ASSUME Init PROVE IInv
  OBVIOUS
<1>1. file \in L!RolloutState /\ OnLadder(file) /\ file.generation \in 0..2
  BY InitialOnLadder DEF Init
<1>2. L!Absent \in L!RolloutState
  BY DEF L!Absent, L!RolloutState, L!HistoryEntry
<1>3. RolloutInv
  BY <1>1, <1>2 DEF Init, RolloutInv, LoadedWasCurrent, PC
<1>4. ExposureInv
  <2>1. Committed = {} /\ Cardinality(Committed) = 0 /\ Cardinality(Runs) \in Nat
    BY BudgetAssumption, FS_EmptySet, FS_CardinalityType DEF Init, Committed
  <2>2. WasLive(file) => /\ LiveGeneration(file) \in Generations
                         /\ ExposureBudget[LiveStage(file)] \in Nat
    BY <1>1, LadderFacts, BudgetAssumption DEF Generations
  <2>3. exposed = [g \in Generations |-> 0]
    BY DEF Init
  <2> QED BY <2>1, <2>2, <2>3 DEF ExposureInv
<1>5. EvidenceInv
  BY <1>1 DEF Init, EvidenceInv, ClimbNeedsEvidence, NoReport
<1>6. ObserverRollsBack
  BY DEF Init, ObserverRollsBack
<1>7. IncidentsDescribeRollback
  BY DEF Init, IncidentsDescribeRollback
<1> QED BY <1>3, <1>4, <1>5, <1>6, <1>7 DEF IInv

LEMMA NextObserver == RolloutInv /\ ObserverRollsBack /\ [Next]_vars => ObserverRollsBack'
<1> SUFFICES ASSUME RolloutInv, ObserverRollsBack, [Next]_vars PROVE ObserverRollsBack'
  OBVIOUS
<1> USE DEF ObserverRollsBack, RolloutInv
<1>1. ASSUME NEW r \in Runs, RunStep(r) PROVE ObserverRollsBack'
  BY <1>1 DEF RunStep, LoadState, EvaluateGuardrails, AutoRollback, Assign, LogDecision,
     FinishCandidate, UseBaseline, Goto
<1>2. ASSUME NEW r \in Runs, AutoRollbackFails(r) \/ LogDecisionFails(r)
      PROVE  ObserverRollsBack'
  BY <1>2 DEF AutoRollbackFails, LogDecisionFails, UseBaseline, Goto
<1>3. CASE UNCHANGED <<pc, observed>>
  BY <1>3
<1> QED
  BY <1>1, <1>2, <1>3 DEF Next, vars, RecordOutcome, CreateState, WriteReport, Promote,
     ManualRollback

\* A rolled-back file stays, and an incident is filed with the rollback itself.
LEMMA NextIncidents ==
  RolloutInv /\ IncidentsDescribeRollback /\ [Next]_vars => IncidentsDescribeRollback'
<1> SUFFICES ASSUME RolloutInv, IncidentsDescribeRollback, [Next]_vars
             PROVE  IncidentsDescribeRollback'
  OBVIOUS
<1>1. file.stage = "rolled_back" => file' = file
  BY FileSteps DEF FileStays, FileCreated, FileClimbs, FileRolledBack, L!Absent,
     L!NEXT_STAGE
<1>2. CASE incidents' \subseteq incidents
  BY <1>1, <1>2 DEF IncidentsDescribeRollback
<1>3. CASE ManualRollback \/ \E r \in Runs : AutoRollback(r)
  <2>1. /\ file' = L!Advance(file, "rolled_back")
        /\ incidents' \subseteq incidents \cup {file.generation + 1}
    BY <1>3 DEF ManualRollback, AutoRollback, FileIncident
  <2>2. file' # file /\ file'.stage = "rolled_back" /\ file'.generation = file.generation + 1
    BY <2>1 DEF L!Advance, RolloutInv, L!RolloutState
  <2>3. incidents = {}
    BY <1>1, <2>2 DEF IncidentsDescribeRollback
  <2> QED BY <2>1, <2>2, <2>3 DEF IncidentsDescribeRollback
<1> QED
  BY <1>2, <1>3 DEF Next, vars, RunStep, LoadState, EvaluateGuardrails, Assign,
     LogDecision, FinishCandidate, AutoRollbackFails, LogDecisionFails, RecordOutcome,
     CreateState, WriteReport, Promote

\* The inductive invariant holds throughout.
THEOREM Invariance == Spec => []IInv
<1>1. IInv /\ [Next]_vars => IInv'
  BY NextRolloutInv, NextExposureInv, NextEvidenceInv, NextObserver, NextIncidents
     DEF IInv
<1> QED BY <1>1, InitIInv, PTL DEF Spec
-----------------------------------------------------------------------------
(* The types of the rows, of the report and of the incidents. *)

\* A cumulative counter over the generations.
Cumulative(counter) ==
  /\ counter \in [Generations -> Nat]
  /\ \A g, h \in Generations : g <= h => counter[g] <= counter[h]

\* Outcomes are recorded at most once per decision, at its generation, and
\* failures are outcomes.
RowsInv ==
  /\ Cumulative(exposed) /\ Cumulative(verified) /\ Cumulative(failed)
  /\ \A g \in Generations : Of(verified, g) <= Of(exposed, g) /\ failed[g] <= verified[g]
  /\ exposed[6] <= MaxRows

ReportInv ==
  /\ report \in [generation : 0..6, stage : L!DEPLOYMENT_STAGES \cup {"none"},
                 safe_to_advance : BOOLEAN]
  /\ incidents \subseteq Generations
  /\ observed \subseteq Runs

\* One more row of a generation keeps a counter cumulative and moves the count
\* of that generation alone.
LEMMA CountOneCounts ==
  ASSUME NEW counter, Cumulative(counter), NEW g \in Generations
  PROVE  /\ Cumulative(CountOne(counter, g))
         /\ \A h \in Generations :
              Of(CountOne(counter, g), h) = IF h = g THEN Of(counter, h) + 1 ELSE Of(counter, h)
         /\ CountOne(counter, g)[6] = counter[6] + 1
<1>1. \A h \in Generations : CountOne(counter, g)[h] = IF h >= g THEN counter[h] + 1 ELSE counter[h]
  BY DEF CountOne
<1>2. CountOne(counter, g) \in [Generations -> Nat]
  BY DEF CountOne, Cumulative
<1>3. Cumulative(CountOne(counter, g))
  BY <1>1, <1>2 DEF Cumulative, Generations
<1>4. ASSUME NEW h \in Generations
      PROVE  Of(CountOne(counter, g), h) = IF h = g THEN Of(counter, h) + 1 ELSE Of(counter, h)
  <2>1. h # 1 => h - 1 \in Generations
    BY DEF Generations
  <2> QED BY <1>1, <2>1 DEF Of, Generations, Cumulative
<1> QED BY <1>1, <1>3, <1>4 DEF Generations

\* There are no more outcomes than rows up to any generation.
LEMMA OutcomesWithinRows ==
  ASSUME RowsInv PROVE \A g \in Generations : verified[g] <= exposed[g]
<1>1. /\ \A g \in Generations : verified[g] \in Nat /\ exposed[g] \in Nat
      /\ \A g \in Generations : Of(verified, g) <= Of(exposed, g)
  BY DEF RowsInv, Cumulative
<1>2. verified[1] <= exposed[1]
  BY <1>1 DEF Of, Generations
<1>3. ASSUME NEW g \in 2..6, verified[g - 1] <= exposed[g - 1] PROVE verified[g] <= exposed[g]
  BY <1>1, <1>3 DEF Of, Generations
<1>4. verified[2] <= exposed[2]
  BY <1>2, <1>3
<1>5. verified[3] <= exposed[3]
  BY <1>4, <1>3
<1>6. verified[4] <= exposed[4]
  BY <1>5, <1>3
<1>7. verified[5] <= exposed[5]
  BY <1>6, <1>3
<1>8. verified[6] <= exposed[6]
  BY <1>7, <1>3
<1> QED BY <1>2, <1>4, <1>5, <1>6, <1>7, <1>8 DEF Generations

LEMMA InitRowsInv == Init => RowsInv /\ ReportInv
<1> SUFFICES ASSUME Init PROVE RowsInv /\ ReportInv
  OBVIOUS
<1>1. RowsInv
  BY BudgetAssumption DEF Init, RowsInv, Cumulative, Generations, Of
<1>2. ReportInv
  BY DEF Init, ReportInv, NoReport
<1> QED BY <1>1, <1>2

\* Every step keeps the rows and the outcomes apart from each other.
LEMMA NextRowsInv == RolloutInv /\ RowsInv /\ [Next]_vars => RowsInv'
<1> SUFFICES ASSUME RolloutInv, RowsInv, [Next]_vars PROVE RowsInv'
  OBVIOUS
<1>1. CASE UNCHANGED log
  BY <1>1 DEF log, RowsInv, Cumulative, Of
<1>2. ASSUME NEW r \in Runs, pc[r] = "log", exposed[6] < MaxRows,
             exposed' = CountOne(exposed, loaded[r].generation), UNCHANGED <<verified, failed>>
      PROVE  RowsInv'
  <2>1. loaded[r].generation \in Generations
    BY <1>2 DEF RolloutInv, LoadedWasCurrent, L!LIVE_STAGES, Rung, Generations
  <2>2. /\ Cumulative(exposed') /\ exposed'[6] = exposed[6] + 1
        /\ \A g \in Generations : Of(exposed', g) \in {Of(exposed, g), Of(exposed, g) + 1}
    BY <1>2, <2>1, CountOneCounts DEF RowsInv
  <2>3. \A g \in Generations : Of(exposed, g) \in Int /\ Of(verified, g) \in Int /\ verified' = verified
    BY <1>2 DEF RowsInv, Cumulative, Of, Generations
  <2>4. \A g \in Generations : Of(verified', g) <= Of(exposed', g)
    BY <2>2, <2>3 DEF RowsInv
  <2>5. exposed'[6] <= MaxRows
    BY <1>2, <2>2, BudgetAssumption DEF RowsInv, Cumulative, Generations
  <2> QED BY <1>2, <2>2, <2>4, <2>5 DEF RowsInv, Cumulative
<1>3. ASSUME NEW g \in Generations, RecordOutcome(g) PROVE RowsInv'
  <2>1. /\ Cumulative(verified')
        /\ \A h \in Generations :
             Of(verified', h) = IF h = g THEN Of(verified, h) + 1 ELSE Of(verified, h)
    BY <1>3, CountOneCounts DEF RowsInv, RecordOutcome
  <2>2. Cumulative(failed')
    BY <1>3, CountOneCounts DEF RowsInv, RecordOutcome
  <2>3. \A h \in Generations : Of(exposed, h) \in Int /\ Of(verified, h) \in Int /\ exposed' = exposed
    BY <1>3 DEF RowsInv, Cumulative, Of, Generations, RecordOutcome
  <2>4. \A h \in Generations : Of(verified', h) <= Of(exposed', h)
    BY <1>3, <2>1, <2>3 DEF RowsInv, RecordOutcome
  <2>5. \A h \in Generations : failed'[h] <= verified'[h]
    BY <1>3 DEF RowsInv, Cumulative, RecordOutcome, CountOne, Generations
  <2> QED BY <2>1, <2>2, <2>3, <2>4, <2>5 DEF RowsInv
<1>4. \/ UNCHANGED log \/ \E g \in Generations : RecordOutcome(g)
      \/ \E r \in Runs : /\ pc[r] = "log" /\ exposed[6] < MaxRows
                        /\ exposed' = CountOne(exposed, loaded[r].generation)
                        /\ UNCHANGED <<verified, failed>>
  BY DEF Next, RunStep, LoadState, EvaluateGuardrails, AutoRollback, AutoRollbackFails, Assign,
     LogDecision, LogDecisionFails, FinishCandidate, CreateState, WriteReport, Promote,
     ManualRollback, vars, log
<1> QED BY <1>1, <1>2, <1>3, <1>4

\* Every step keeps the report and the incidents well formed.
LEMMA NextReportInv == RolloutInv /\ ReportInv /\ [Next]_vars => ReportInv'
<1> SUFFICES ASSUME RolloutInv, ReportInv, [Next]_vars PROVE ReportInv'
  OBVIOUS
<1> USE DEF ReportInv
<1>1. CASE WriteReport
  <2>1. \A regression, clusters \in BOOLEAN : SafeToAdvance(file, regression, clusters) \in BOOLEAN
    BY DEF SafeToAdvance
  <2>2. file.generation \in 0..6 /\ file.stage \in L!DEPLOYMENT_STAGES
    BY <1>1 DEF RolloutInv, OnLadder, Rung, L!RolloutState, L!Absent, L!DEPLOYMENT_STAGES, WriteReport
  <2> QED BY <1>1, <2>1, <2>2 DEF WriteReport
<1>2. ASSUME file # L!Absent, file.stage # "rolled_back", FileIncident(file.generation + 1)
      PROVE  incidents' \subseteq Generations
  BY <1>2 DEF FileIncident, RolloutInv, OnLadder, Rung, Generations
<1>3. CASE ManualRollback
  BY <1>2, <1>3 DEF ManualRollback
<1>4. ASSUME NEW r \in Runs, AutoRollback(r) PROVE ReportInv'
  <2>1. file.generation + 1 \in Generations
    BY <1>4 DEF AutoRollback, RolloutInv, LoadedWasCurrent, L!LIVE_STAGES, Rung, Generations
  <2> QED BY <1>4, <2>1 DEF AutoRollback, UseBaseline, FileIncident
<1>5. ASSUME NEW r \in Runs,
             LoadState(r) \/ EvaluateGuardrails(r) \/ Assign(r) \/ LogDecision(r)
               \/ FinishCandidate(r) \/ AutoRollbackFails(r) \/ LogDecisionFails(r)
      PROVE  ReportInv'
  BY <1>5 DEF LoadState, EvaluateGuardrails, Assign, LogDecision, FinishCandidate,
     AutoRollbackFails, LogDecisionFails, UseBaseline
<1>6. CASE \/ CreateState \/ Promote \/ UNCHANGED vars
           \/ \E g \in Generations : RecordOutcome(g)
  BY <1>6 DEF CreateState, Promote, RecordOutcome, vars
<1> QED BY <1>1, <1>3, <1>4, <1>5, <1>6 DEF Next, RunStep

\* The file, the runs, the rows, the report and the incidents stay well formed,
\* whatever the runs and the operator do: no counter passes the bound of the
\* rows although outcomes and failures are counted without looking at it.
THEOREM TypeCorrect == Spec => []TypeOK
<1>1. Init => RowsInv /\ ReportInv
  BY InitRowsInv
<1>2. RolloutInv /\ RowsInv /\ ReportInv /\ [Next]_vars => (RowsInv /\ ReportInv)'
  BY NextRowsInv, NextReportInv
<1>3. IInv => RolloutInv
  BY DEF IInv
<1>4. RolloutInv /\ RowsInv /\ ReportInv => TypeOK
  <2> SUFFICES ASSUME RolloutInv, RowsInv, ReportInv PROVE TypeOK
    OBVIOUS
  <2>1. \A g \in Generations : /\ exposed[g] \in 0..MaxRows /\ verified[g] \in 0..MaxRows
                              /\ failed[g] \in 0..MaxRows
    BY OutcomesWithinRows, BudgetAssumption DEF RowsInv, Cumulative, Generations
  <2> QED BY <2>1 DEF TypeOK, RolloutInv, RowsInv, Cumulative, ReportInv, Counter
<1> QED BY <1>1, <1>2, <1>3, <1>4, Invariance, PTL DEF Spec

\* Candidate exposures exceed the budget of the stage by at most one per
\* concurrent run, across promotions and rollbacks.
THEOREM OvershootIsBounded == Spec => []ExposureOvershootBounded
<1>1. IInv => ExposureOvershootBounded
  <2> SUFFICES ASSUME IInv, WasLive(file)
               PROVE  exposed[LiveGeneration(file)]
                        <= ExposureBudget[LiveStage(file)] + Cardinality(Runs)
    BY DEF ExposureOvershootBounded
  <2>1. /\ LiveGeneration(file) \in Generations
        /\ ExposureBudget[LiveStage(file)] \in Nat
        /\ exposed[LiveGeneration(file)] \in Nat
    BY LadderFacts, BudgetAssumption DEF IInv, RolloutInv, Generations, ExposureInv
  <2>2. Cardinality(Committed) \in Nat /\ Cardinality(Runs) \in Nat
    BY CommittedFinite DEF Committed
  <2>3. exposed[LiveGeneration(file)] + Cardinality(Committed)
          <= ExposureBudget[LiveStage(file)] + Cardinality(Runs)
    BY DEF IInv, ExposureInv
  <2> QED BY <2>1, <2>2, <2>3
<1> QED BY <1>1, Invariance, PTL

\* No rung above canary_1 is climbed without the minimum number of verified
\* candidate outcomes.
THEOREM ClimbsNeedEvidence == Spec => []ClimbNeedsEvidence
<1>1. IInv => ClimbNeedsEvidence
  BY DEF IInv, EvidenceInv
<1> QED BY <1>1, Invariance, PTL

\* A run that saw a failing guardrail never uses the candidate arm.
THEOREM ObserversFailClosed == Spec => []ObserverFailsClosed
<1>1. IInv => ObserverFailsClosed
  BY DEF IInv, ObserverRollsBack, ObserverFailsClosed
<1> QED BY <1>1, Invariance, PTL

\* Incident bundles describe the rollback that is in the file.
THEOREM IncidentsAreTrue == Spec => []IncidentsDescribeRollback
<1>1. IInv => IncidentsDescribeRollback
  BY DEF IInv
<1> QED BY <1>1, Invariance, PTL

\* The runs and the operator together implement the ledger.
THEOREM RuntimeImplementsLedger == Spec => ImplementsLedger
<1>1. Init => L!Init
  BY InitialStatesAssumption DEF Init, L!Init
<1>2. IInv /\ [Next]_vars => [L!Next]_file
  <2> SUFFICES ASSUME IInv, [Next]_vars PROVE L!Next \/ file' = file
    OBVIOUS
  <2>1. CASE FileStays
    BY <2>1 DEF FileStays
  <2>2. CASE FileCreated
    BY <2>2 DEF FileCreated, L!Next, L!IsSuccessor
  <2>3. CASE FileClimbs
    BY <2>3 DEF FileClimbs, L!Next, L!IsSuccessor, L!MayFollow, L!Absent, L!NEXT_STAGE,
       L!DEPLOYMENT_STAGES
  <2>4. CASE FileRolledBack
    BY <2>4 DEF FileRolledBack, L!Next, L!IsSuccessor, L!MayFollow, L!DEPLOYMENT_STAGES
  <2> QED BY <2>1, <2>2, <2>3, <2>4, FileSteps DEF IInv
<1> QED BY <1>1, <1>2, Invariance, PTL DEF Spec, ImplementsLedger, L!Spec
=============================================================================
