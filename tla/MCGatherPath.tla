---------------------------- MODULE MCGatherPath ----------------------------
(* The components one gather call passes through, side by side in one state *)
(* space: a behaviour is one of the component named by `part`, the others   *)
(* stay where Parked leaves them.  Nothing is composed here; the invariants *)
(* are those of the components.                                             *)
EXTENDS CapabilityGate, RetrievalPipeline, ContextGathering, StructuralEvidence,
        ContextSelection, ProviderAdmission, ProviderRunner, AsyncProvider,
        ProviderPayload

VARIABLE part

Parts == {"gate", "pipeline", "gathering", "structural", "selection", "admission",
          "provider", "async", "payload"}

(***************************************************************************)
(* Only the part that runs starts from every initial state.                *)
(***************************************************************************)
AnyOf(S) == CHOOSE x \in S : TRUE

PathInit ==
  /\ part \in Parts
  /\ IF part = "gate" THEN GateInit ELSE GateStart(NoTask)
  /\ PipelineInit
  /\ IF part = "gathering" THEN GatherInit ELSE GatherStart(AnyOf(Jobs))
  /\ IF part = "structural" THEN EvidenceInit
     ELSE EvidenceStart(AnyOf(Trees), AnyOf(Trees), AnyOf(Trees), AnyOf(GraphCalls))
  /\ IF part = "selection" THEN SelectionInit
     ELSE SelectionStart(AnyOf(SelectionRequests), {})
  /\ AdmissionInit /\ (part = "admission" \/ ~backend)
  /\ Init
  /\ AsyncInit
  /\ IF part = "payload" THEN PayloadInit ELSE PayloadStart([form |-> "empty", records |-> <<>>], 0)

Alone(p) ==
  /\ part = p /\ part' = p
  /\ IF p = "gate" THEN TRUE ELSE UNCHANGED gateVars
  /\ IF p = "pipeline" THEN TRUE ELSE UNCHANGED pipelineVars
  /\ IF p = "gathering" THEN TRUE ELSE UNCHANGED gatherVars
  /\ IF p = "structural" THEN TRUE ELSE UNCHANGED evidenceVars
  /\ IF p = "selection" THEN TRUE ELSE UNCHANGED selectionVars
  /\ IF p = "admission" THEN TRUE ELSE UNCHANGED admissionVars
  /\ IF p = "provider" THEN TRUE ELSE UNCHANGED vars
  /\ IF p = "async" THEN TRUE ELSE UNCHANGED asyncVars
  /\ IF p = "payload" THEN TRUE ELSE UNCHANGED payloadVars

PathNext ==
  \/ Alone("gate") /\ GateNext
  \/ Alone("pipeline") /\ PipelineNext
  \/ Alone("gathering") /\ GatherNext
  \/ Alone("structural") /\ EvidenceNext
  \/ Alone("selection") /\ SelectionNext
  \/ Alone("admission") /\ AdmissionNext
  \/ Alone("provider") /\ Next
  \/ Alone("async") /\ AsyncNext
  \/ Alone("payload") /\ PayloadNext

pathVars == <<part, gateVars, pipelineVars, gatherVars, evidenceVars, selectionVars,
              admissionVars, vars, asyncVars, payloadVars>>

(***************************************************************************)
(* The fairness of the three components whose liveness is checked, asked   *)
(* of the one that runs.                                                   *)
(***************************************************************************)
PathFairness ==
  /\ WF_pipelineVars(part = "pipeline" /\ Loop)
  /\ WF_pipelineVars(part = "pipeline" /\ Expire)
  /\ WF_vars(part = "provider" /\ Caller)
  /\ WF_vars(part = "provider" /\ EnterRead)
  /\ WF_vars(part = "provider" /\ ReadReturns)
  /\ WF_vars(part = "provider" /\ Extend)
  /\ WF_vars(part = "provider" /\ ReaderKills)
  /\ WF_vars(part = "provider" /\ ErrReaderEnds)
  /\ WF_asyncVars(part = "async" /\ HearExit)
  /\ WF_asyncVars(part = "async" /\ ReadOut)
  /\ WF_asyncVars(part = "async" /\ ReadErr)
  /\ WF_asyncVars(part = "async" /\ SendRequest)
  /\ WF_asyncVars(part = "async" /\ AwaitOut)
  /\ WF_asyncVars(part = "async" /\ AwaitErr)
  /\ WF_asyncVars(part = "async" /\ AwaitExit)
  /\ WF_asyncVars(part = "async" /\ CallerNext)

PathSpec == PathInit /\ [][PathNext]_pathVars /\ PathFairness

\* RetrievalPipeline!EventuallyReturns, of the behaviours of the pipeline.
PipelineReturns == part = "pipeline" => EventuallyReturns
\* ProviderRunner!ReturnsUnlessHeldUp, of the behaviours of the runner.
ProviderReturns == part = "provider" => ReturnsUnlessHeldUp
\* AsyncProvider!AsyncReturnsUnlessHeldUp, of the behaviours of the coroutine.
AsyncReturns == part = "async" => AsyncReturnsUnlessHeldUp
\* Whatever blocks, a gather returns by its deadline, and a provider call returns
\* unless a living descendant or an unread request holds it up.
CallsReturn == PipelineReturns /\ ProviderReturns /\ AsyncReturns
-----------------------------------------------------------------------------
(* Small instances. *)

MCBudgets == {[slots |-> 4, calls |-> 6, depth |-> 3, review |-> 2, verify |-> 2],
              [slots |-> 1, calls |-> 1, depth |-> 1, review |-> 1, verify |-> 1]}

Row(source, chars, isCode, valid) ==
    [source |-> source, chars |-> chars, code |-> isCode, valid |-> valid]

MCEvidence ==
    ("test" :> Row("test_resolver", 2, FALSE, FALSE)) @@ ("hot" :> Row("hot_cache", 2, FALSE, FALSE))
      @@ ("row" :> Row("lightweight_index", 2, TRUE, FALSE))
      @@ ("dom" :> Row("domain_manifest", 1, TRUE, FALSE))
      @@ ("memo" :> Row("durable_memory", 1, FALSE, FALSE))
      @@ ("rel" :> Row("code_review_graph", 2, TRUE, TRUE))
      @@ ("arch" :> Row("code_review_graph", 2, FALSE, FALSE))
      @@ ("line" :> Row("targeted_source", 2, FALSE, FALSE))

MCShares == ("tests" :> 1) @@ ("hot" :> 2) @@ ("light" :> 2) @@ ("crg" :> 2)

(* t0: a caller, named in its file; t1: no caller, though the file names   *)
(* r2; t2: two callers, one under an alias; t3: only the aliased one.      *)
MCRelated == ("t0" :> {"r1"}) @@ ("t1" :> {}) @@ ("t2" :> {"r1", "r2"}) @@ ("t3" :> {"r2"})
MCNamed   == ("t0" :> {"r1"}) @@ ("t1" :> {"r2"}) @@ ("t2" :> {"r1"}) @@ ("t3" :> {})

Ev(source, pattern, structural, level, absent, terms, chars, relevance, root, stale, exact) ==
    [source |-> source, pattern |-> pattern, structural |-> structural, level |-> level,
     absent |-> absent, anchor |-> "f", terms |-> terms, chars |-> chars,
     relevance |-> relevance, exact |-> exact, root |-> root, stale |-> stale]

MCEvidencePool == <<
  Ev("code_review_graph", "callers_of", TRUE, "corroborated", FALSE, {"q1"}, 2, 4, "control", FALSE, FALSE),
  Ev("code_review_graph", "callers_of", TRUE, "corroborated", TRUE, {"q2"}, 3, 2, "nested", FALSE, FALSE),
  Ev("code_review_graph", "callers_of", FALSE, "candidate", FALSE, {"q1", "x"}, 3, 3, "control", FALSE, FALSE),
  Ev("lightweight_index", "", FALSE, "", FALSE, {"q1", "q2"}, 4, 3, "control", FALSE, TRUE),
  Ev("semantic", "", FALSE, "", FALSE, {"q2", "x"}, 3, 2, "nested", TRUE, FALSE),
  Ev("scip", "references_to", TRUE, "", FALSE, {"q1", "q2"}, 1, 0, "nested", FALSE, FALSE) >>

Said(score, path, metadata) ==
    [object |-> TRUE, nest |-> 1, text |-> "said", fine |-> TRUE, score |-> score,
     path |-> path, metadata |-> metadata]
Plain == Said(1, "none", <<>>)

MCRecords ==
    {Plain, Said(0, "inside", "provider" :> "another" @@ "trust" :> "trusted"),
     Said(1, "inside", "path" :> "outside"), Said(1, "none", "path" :> "outside"),
     Said(2, "outside", <<>>)}
      \cup {[Plain EXCEPT !.nest = n] : n \in 2..4}
      \cup {[Plain EXCEPT !.object = FALSE], [Plain EXCEPT !.fine = FALSE],
            [Plain EXCEPT !.score = -1], [Plain EXCEPT !.text = "notString"],
            [Plain EXCEPT !.text = "blank", !.score = -1]}

MCPlans == {{}, {"callers_of"}}
MCRoutes == {{}, {"control"}, {"nested"}, {"control", "nested"}}
=============================================================================
