-------------------------- MODULE RetrievalPipeline -------------------------
(***************************************************************************)
(* The retrieval stages of WorkflowEngine.gather_detailed_async and the    *)
(* BoundedRetrievalScheduler that runs each of them: the base retrieval of *)
(* every root, then the specialists the early gate lets through, then the  *)
(* two structural expansions, each stage a batch of blocking calls on a    *)
(* private thread pool, all under one global deadline.                     *)
(*                                                                         *)
(* Calls are numbered in the order in which the engine lists them.  What a *)
(* call computes is its worker's answer: a value, a value with an error    *)
(* (a ProviderResult), an exception, or a TimeoutError of its own.  Which  *)
(* calls a stage consists of (sufficiency, configuration, anchors) is a    *)
(* choice of the environment.  The floor of one millisecond under the      *)
(* deadline of the base stage is left out.                                 *)
(***************************************************************************)
EXTENDS Integers, Sequences, FiniteSets

CONSTANTS
  NBase,           \* base calls, one per selected root
  NSpecialists,    \* semantic and external calls there may be
  MaxConcurrency   \* max_concurrency

ASSUME PipelineAssumption ==
  /\ NBase \in Nat \ {0}
  /\ NSpecialists \in Nat
  /\ MaxConcurrency \in Nat \ {0}

VARIABLES
  stage,     \* the stage gather is in
  batch,     \* the calls scheduler.run was given, in input order
  worker,    \* per call: its future in the thread pool
  outcome,   \* per call: the SchedulerOutcome
  expired,   \* is the global deadline over?
  merged,    \* the calls whose items were added to the candidates, in order
  errors,    \* provider_errors
  attempted  \* providers_attempted

pipelineVars == <<stage, batch, worker, outcome, expired, merged, errors, attempted>>

Calls == 1..(NBase + NSpecialists + 2)
CallsOf(s) ==
  CASE s = "base"        -> 1..NBase
    [] s = "specialists" -> (NBase + 1)..(NBase + NSpecialists)
    [] s = "structural"  -> {NBase + NSpecialists + 1}
    [] s = "scip"        -> {NBase + NSpecialists + 2}
StageAfter == [base |-> "specialists", specialists |-> "structural", structural |-> "scip"]

\* The numbers of S, least first: calls in input order, or places in a batch.
InOrder(S) == [i \in 1..Cardinality(S) |-> CHOOSE c \in S : Cardinality({d \in S : d < c}) = i - 1]
Scheduled == {batch[i] : i \in DOMAIN batch}
Ended == stage \in {"done", "cancelled"}

\* Only specialists answer with a ProviderResult, which may carry an error.
Answers == {"value", "partial", "raised", "raised_timeout"}
AnswersOf(c) ==
  IF c \in CallsOf("specialists") THEN Answers ELSE Answers \ {"partial"}
Running == {c \in Calls : worker[c] = "running"}

PipelineTypeOK ==
  /\ stage \in {"base", "specialists", "structural", "scip", "done", "cancelled"}
  /\ batch \in Seq(Calls)
  /\ worker \in [Calls -> Answers \cup {"none", "queued", "running", "cancelled"}]
  /\ outcome \in [Calls -> {"none", "ok", "partial", "exception", "deadline"}]
  /\ expired \in BOOLEAN
  /\ merged \in Seq(Calls)
  /\ errors \subseteq Calls
  /\ attempted \subseteq Calls

PipelineInit ==
  /\ stage = "base"
  /\ batch = InOrder(CallsOf("base"))
  /\ worker = [c \in Calls |-> "none"]
  /\ outcome = [c \in Calls |-> "none"]
  /\ expired = FALSE
  /\ merged = << >>
  /\ errors = {}
  /\ attempted = CallsOf("base")
-----------------------------------------------------------------------------
(* BoundedRetrievalScheduler.run: one task per call, in one event loop. *)

\* execute(call) begins: tasks begin in the order of the batch.
Submit(c) ==
  /\ c \in Scheduled /\ worker[c] = "none" /\ outcome[c] = "none"
  /\ \A d \in Scheduled : d < c => worker[d] # "none" \/ outcome[d] # "none"
  /\ IF expired
       THEN outcome' = [outcome EXCEPT ![c] = "deadline"] /\ UNCHANGED worker
       ELSE worker' = [worker EXCEPT ![c] = "queued"] /\ UNCHANGED outcome
  /\ UNCHANGED <<stage, batch, expired, merged, errors, attempted>>

\* A thread of the pool takes the call that was submitted first.
StartCall(c) ==
  /\ worker[c] = "queued"
  /\ \A d \in Calls : worker[d] = "queued" => c <= d
  /\ Cardinality(Running \cap Scheduled) < MaxConcurrency
  /\ worker' = [worker EXCEPT ![c] = "running"]
  /\ UNCHANGED <<stage, batch, outcome, expired, merged, errors, attempted>>

\* The blocking call comes to an end, perhaps long after the deadline.
CallEnds(c) ==
  /\ worker[c] = "running"
  /\ \E a \in AnswersOf(c) : worker' = [worker EXCEPT ![c] = a]
  /\ UNCHANGED <<stage, batch, outcome, expired, merged, errors, attempted>>

\* Mutant: gather with return_exceptions, and no except clause in execute.
Complete_Raw(c) ==
  /\ c \in Scheduled /\ outcome[c] = "none" /\ worker[c] \in Answers
  /\ outcome' = [outcome EXCEPT ![c] = IF worker[c] = "value" THEN "ok" ELSE worker[c]]
  /\ UNCHANGED <<stage, batch, worker, expired, merged, errors, attempted>>

\* The task of the call learns the answer.  A TimeoutError of the call is
\* caught by the same clause as that of wait_for.
Complete(c) ==
  /\ c \in Scheduled /\ outcome[c] = "none" /\ worker[c] \in Answers
  /\ outcome' = [outcome EXCEPT ![c] =
       CASE worker[c] = "value"          -> "ok"
         [] worker[c] = "partial"        -> "partial"
         [] worker[c] = "raised"         -> "exception"
         [] worker[c] = "raised_timeout" -> "deadline"]
  /\ UNCHANGED <<stage, batch, worker, expired, merged, errors, attempted>>

\* Mutant: a call that is executing is waited for.
TimeOut_WaitsForThread(c) ==
  /\ expired
  /\ c \in Scheduled /\ outcome[c] = "none" /\ worker[c] = "queued"
  /\ outcome' = [outcome EXCEPT ![c] = "deadline"]
  /\ UNCHANGED <<stage, batch, worker, expired, merged, errors, attempted>>

\* wait_for times out, even if the answer is there but not yet delivered.
TimeOut(c) ==
  /\ expired
  /\ c \in Scheduled /\ outcome[c] = "none" /\ worker[c] # "none"
  /\ outcome' = [outcome EXCEPT ![c] = "deadline"]
  /\ UNCHANGED <<stage, batch, worker, expired, merged, errors, attempted>>

\* The cancellation reaches the pool an iteration of the loop later; a thread
\* that has taken the call in the meantime goes on.
CancelFuture(c) ==
  /\ worker[c] = "queued" /\ outcome[c] = "deadline"
  /\ worker' = [worker EXCEPT ![c] = "cancelled"]
  /\ UNCHANGED <<stage, batch, outcome, expired, merged, errors, attempted>>

\* Mutant: shutdown without cancel_futures.
Shutdown_KeepsQueue == worker

\* executor.shutdown(wait=False, cancel_futures=True)
Shutdown == [c \in Calls |-> IF worker[c] = "queued" THEN "cancelled" ELSE worker[c]]

Expire ==
  /\ ~expired /\ ~Ended
  /\ expired' = TRUE
  /\ UNCHANGED <<stage, batch, worker, outcome, merged, errors, attempted>>
-----------------------------------------------------------------------------
(* WorkflowEngine.gather_detailed_async *)

HasItems(c) == outcome[c] \in {"ok", "partial"}

\* The calls of the batch that have items, in its order.
Delivered ==
  LET places == InOrder({i \in DOMAIN batch : HasItems(batch[i])})
  IN  [k \in DOMAIN places |-> batch[places[k]]]

\* Mutant: the outcomes are merged last call first.
Collect_Reversed ==
  /\ batch # << >>
  /\ \A c \in Scheduled : outcome[c] # "none"
  /\ worker' = Shutdown
  /\ merged' = merged \o [i \in 1..Len(Delivered) |-> Delivered[Len(Delivered) + 1 - i]]
  /\ errors' = errors \cup {c \in Scheduled : outcome[c] # "ok"}
  /\ batch' = << >>
  /\ UNCHANGED <<stage, outcome, expired, attempted>>

\* Mutant: an outcome without a value is passed over.
Collect_DropsErrors ==
  /\ batch # << >>
  /\ \A c \in Scheduled : outcome[c] # "none"
  /\ worker' = Shutdown
  /\ merged' = merged \o Delivered
  /\ errors' = errors \cup {c \in Scheduled : outcome[c] = "exception"}
  /\ batch' = << >>
  /\ UNCHANGED <<stage, outcome, expired, attempted>>

\* gather of all tasks returns, the pool is shut down, and the engine goes
\* through the outcomes in input order.
Collect ==
  /\ batch # << >>
  /\ \A c \in Scheduled : outcome[c] # "none"
  /\ worker' = Shutdown
  /\ merged' = merged \o Delivered
  /\ errors' = errors \cup {c \in Scheduled : outcome[c] # "ok"}
  /\ batch' = << >>
  /\ UNCHANGED <<stage, outcome, expired, attempted>>

\* Mutant: every stage is given the whole deadline anew.
NextStage_FreshDeadline ==
  /\ batch = << >>
  /\ stage \in DOMAIN StageAfter
  /\ stage' = StageAfter[stage]
  /\ \E S \in SUBSET CallsOf(StageAfter[stage]) :
       attempted' = attempted \cup S /\ batch' = InOrder(S)
  /\ expired' = FALSE
  /\ UNCHANGED <<worker, outcome, errors, merged>>

\* The next stage, with the calls S; without time left they are not run.
NextStage ==
  /\ batch = << >>
  /\ stage \in DOMAIN StageAfter
  /\ stage' = StageAfter[stage]
  /\ \E S \in SUBSET CallsOf(StageAfter[stage]) :
       /\ attempted' = attempted \cup S
       /\ IF expired
            THEN /\ outcome' = [c \in Calls |-> IF c \in S THEN "deadline" ELSE outcome[c]]
                 /\ errors' = errors \cup S
                 /\ UNCHANGED batch
            ELSE /\ batch' = InOrder(S)
                 /\ UNCHANGED <<outcome, errors>>
  /\ UNCHANGED <<worker, expired, merged>>

\* Ranking, selection, fingerprints, contracts and records follow.
Finish ==
  /\ batch = << >> /\ stage = "scip"
  /\ stage' = "done"
  /\ UNCHANGED <<batch, worker, outcome, expired, merged, errors, attempted>>

\* The caller of gather_detailed_async is cancelled while a batch runs.
Cancel ==
  /\ batch # << >>
  /\ stage' = "cancelled"
  /\ batch' = << >>
  /\ worker' = Shutdown
  /\ UNCHANGED <<outcome, expired, merged, errors, attempted>>

Loop == \/ \E c \in Calls : Submit(c) \/ Complete(c) \/ TimeOut(c)
        \/ Collect \/ NextStage \/ Finish
Pool == \E c \in Calls : StartCall(c) \/ CallEnds(c)

\* Late threads may end, or not, after gather has returned.
PipelineNext == Loop \/ Pool \/ (\E c \in Calls : CancelFuture(c)) \/ Expire \/ Cancel

PipelineSpec == PipelineInit /\ [][PipelineNext]_pipelineVars

\* The event loop runs and time passes.  No call is assumed to end.
PipelineFairSpec == PipelineSpec /\ WF_pipelineVars(Loop) /\ WF_pipelineVars(Expire)
-----------------------------------------------------------------------------
\* The candidates of a gather that was not cancelled are a function of the
\* outcomes: the items of every collected call that delivered some, in input
\* order over all stages, whatever order the threads finished in, and nothing
\* of a call that was reported as late.
MergedInInputOrder ==
  stage # "cancelled" =>
    merged = InOrder({c \in attempted \ Scheduled : HasItems(c)})

\* Nothing is lost silently: each provider that the diagnostics list as
\* attempted has delivered items or is listed with its error.
AttemptsAccountedFor ==
  stage = "done" => attempted = errors \cup {merged[i] : i \in DOMAIN merged}

\* Threads that outlive their batch never add up: the calls executing at any
\* time, those of earlier stages and of a gather that has returned included,
\* are at most max_concurrency, because no stage begins after the deadline.
WorkersBounded == Cardinality(Running) <= MaxConcurrency

\* Once gather has returned, or was cancelled, none of its calls begins.
NothingStartsAfterwards == Ended => \A c \in Calls : worker[c] # "queued"

\* gather comes to its end although calls may hang for ever.
EventuallyReturns == <>Ended

\* However calls hang, raise, end late or are cancelled, gather merges what they
\* found in input order, accounts for every attempt, keeps to its threads, and
\* starts nothing after it has returned (BoundedRetrievalScheduler.run).
PipelineSafety ==
  PipelineTypeOK /\ MergedInInputOrder /\ AttemptsAccountedFor /\ WorkersBounded /\ NothingStartsAfterwards
=============================================================================
