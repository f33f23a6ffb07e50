------------------------- MODULE MCWorkspaceStores --------------------------
(* The components that keep records in the workspace and decide from them,  *)
(* side by side in one state space: a behaviour is one of the component     *)
(* named by `part`, the others stay at one of their initial states.         *)
(* Nothing is composed here; the properties are those of the components.    *)
EXTENDS MCRepositoryRegistry, WorkspaceRecords, RunJournal, WorkspaceIndexes,
        PolicyGovernance, ReleaseAuthorization, TLC

VARIABLE part

Parts == {"registry", "memory", "traces", "journal", "index", "graph", "scip",
          "governance", "release"}

(***************************************************************************)
(* Only the part that runs starts from every initial state.                *)
(***************************************************************************)
StoresInit ==
  /\ part \in Parts
  /\ RegistryInit
  /\ part = "registry" \/ (registry = NoRegistry /\ \A p \in RepoPaths : checkout[p] = Gone)
  /\ MemoryInit /\ (part = "memory" \/ content = 0)
  /\ TraceInit /\ (part = "traces" \/ expired = {})
  /\ JournalInit
  /\ IndexInit
  /\ GraphInit
  /\ ScipInit
  /\ GovernanceInit
  /\ ReleaseInit

Alone(p) ==
  /\ part = p /\ part' = p
  /\ IF p = "registry" THEN TRUE ELSE UNCHANGED registryVars
  /\ IF p = "memory" THEN TRUE ELSE UNCHANGED memoryVars
  /\ IF p = "traces" THEN TRUE ELSE UNCHANGED traceVars
  /\ IF p = "journal" THEN TRUE ELSE UNCHANGED journalVars
  /\ IF p = "index" THEN TRUE ELSE UNCHANGED indexVars
  /\ IF p = "graph" THEN TRUE ELSE UNCHANGED graphVars
  /\ IF p = "scip" THEN TRUE ELSE UNCHANGED scipVars
  /\ IF p = "governance" THEN TRUE ELSE UNCHANGED governanceVars
  /\ IF p = "release" THEN TRUE ELSE UNCHANGED releaseVars

StoresNext ==
  \/ Alone("registry") /\ RegistryNext
  \/ Alone("memory") /\ MemoryNext
  \/ Alone("traces") /\ TraceNext
  \/ Alone("journal") /\ JournalNext
  \/ Alone("index") /\ IndexNext
  \/ Alone("graph") /\ GraphNext
  \/ Alone("scip") /\ ScipNext
  \/ Alone("governance") /\ GovernanceNext
  \/ Alone("release") /\ ReleaseNext

storesVars == <<part, registryVars, memoryVars, traceVars, journalVars, indexVars, graphVars,
                scipVars, governanceVars, releaseVars>>

StoresSpec == StoresInit /\ [][StoresNext]_storesVars
-----------------------------------------------------------------------------
(* Small instances. *)
CONSTANTS p1, p2, s1, s2, rA, rB

\* The processes of every part but the graph's are interchangeable.
SameProcesses == Permutations({p1, p2})

MCEventKinds == <<"routing", "retrieval", "selection">>
\* Both trees are registered in the first workspace, one in the second.
MCManaged == (s1 :> <<rA, rB>>) @@ (s2 :> <<rA>>)
MCWorkflows == <<"tests", "codeql">>

MCRow(risk, arm, support, reward, half, verified) ==
  [risk |-> risk, arm |-> arm, support |-> support, reward |-> reward, half |-> half, verified |-> verified]
MCBoth == {"baseline", "alternative"}
MCRowShapes ==
  {MCRow("low", "alternative", MCBoth, 1, half, TRUE) : half \in {"development", "holdout"}}
  \cup {MCRow("low", "baseline", {"baseline"}, 0, "development", TRUE),
        MCRow("high", "alternative", MCBoth, 1, "development", TRUE)}
=============================================================================
