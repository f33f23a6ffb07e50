-------------------------- MODULE ContextGathering --------------------------
(***************************************************************************)
(* gather (context_broker.py): the base evidence of one repository.  Test  *)
(* files and the hot cache come first; the lightweight index and the code  *)
(* graph are asked in two threads and joined in that order; a source       *)
(* search fills what they leave open.  Each stage is capped by its share   *)
(* and by what is left of the lane's character budget.                     *)
(***************************************************************************)
EXTENDS Integers, Sequences, FiniteSets, SequencesExt, FiniteSetsExt

CONSTANTS
    Evidence,    \* id -> [source, chars, code, valid]: what the stores may return,
                 \* always with a text
    Budgets,     \* values of the lane's context_chars
    Shares,      \* stage -> characters, the source_shares of that budget
    MinSearch    \* characters that must be left for a source search (80)

ASSUME GatheringAssumption ==
    /\ IsFiniteSet(DOMAIN Evidence)
    /\ \A e \in DOMAIN Evidence:
          Evidence[e] \in [source: STRING, chars: Nat \ {0}, code: BOOLEAN, valid: BOOLEAN]
    /\ Budgets \subseteq Nat /\ MinSearch \in Nat
    /\ Shares \in [{"tests", "hot", "light", "crg"} -> Nat]

VARIABLES
    job,     \* what the caller and the configuration fix
    threads, \* stage -> what the thread returned, or that it is running
    joined,  \* the items so far, with the characters kept of each
    keys,    \* ids already seen
    gatherStage    \* where gather is

gatherVars == <<job, threads, joined, keys, gatherStage>>

From(sources) == {e \in DOMAIN Evidence : Evidence[e].source \in sources}

Knowledge == {"domain_manifest", "research_cache", "durable_memory"}
CodeSources == {"lightweight_index", "domain_manifest", "code_review_graph"}

Pending == [state |-> "running", found |-> {}]

\* The `graph` of a job stands for a graph tool that is there, a mode that is not
\* off and the thresholds of the configuration being met.
Jobs == [budget: Budgets, changed: BOOLEAN, isolation: BOOLEAN, mutating: BOOLEAN,
         structural: BOOLEAN, graph: BOOLEAN]
GatherStart(asked) ==
    /\ job = asked
    /\ threads = [light |-> Pending, crg |-> Pending, search |-> Pending]
    /\ joined = <<>>
    /\ keys = {}
    /\ gatherStage = "tests"
GatherInit == \E asked \in Jobs: GatherStart(asked)

(* Graph evidence is wanted for structural queries, broad changes and full *)
(* lanes of large repositories, if the graph tool is there and not off.    *)
WantsGraph == job.graph /\ (job.structural \/ job.changed \/ job.mutating)

\* What the first items take, those of some evidence only.
UsedTo(items, ids) ==
    LET used[n \in 0..Len(items)] ==
          IF n = 0 THEN 0
          ELSE used[n - 1] + (IF items[n].id \in ids THEN items[n].kept ELSE 0)
    IN  used

Used(items) == UsedTo(items, DOMAIN Evidence)[Len(items)]
BudgetLeft(items) == Max({0, job.budget - Used(items)})

(* _cap_items in one order: an id seen before is skipped, a text that does *)
(* not fit is cut, and once the cap is reached nothing more is looked at.  *)
Keep(acc, e, cap) ==
    IF acc.used >= cap \/ e \in acc.seen THEN acc
    ELSE LET kept == Min({Evidence[e].chars, cap - acc.used})
         IN  [used |-> acc.used + kept, seen |-> acc.seen \cup {e},
              items |-> Append(acc.items, [id |-> e, kept |-> kept])]

CappedTo(order, cap, seen) ==
    LET acc[n \in 0..Len(order)] ==
          IF n = 0 THEN [used |-> 0, seen |-> seen, items |-> <<>>]
          ELSE Keep(acc[n - 1], order[n], cap)
    IN  acc

Capped(order, cap, seen) == CappedTo(order, cap, seen)[Len(order)]

(* The fused ranking of a stage's items is any order of them.              *)
Join(found, cap, next) ==
    \E order \in SetToSeqs(found):
        LET capped == Capped(order, cap, keys)
        IN  /\ joined' = joined \o capped.items
            /\ keys' = capped.seen
            /\ gatherStage' = next
            /\ UNCHANGED job

(* find_tests_for_changed, with its fixed cap.                             *)
JoinTests ==
    /\ gatherStage = "tests"
    /\ \E found \in SUBSET (IF job.changed THEN From({"test_resolver"}) ELSE {}):
          Join(found, Shares["tests"], "hot")
    /\ UNCHANGED threads

\* Mutant: the caches of earlier runs are read in a benchmark too.
HotCache_Always == SUBSET From({"hot_cache"})

HotCache == IF job.isolation THEN {{}} ELSE SUBSET From({"hot_cache"})

JoinHot ==
    /\ gatherStage = "hot"
    /\ \E found \in HotCache: Join(found, Shares["hot"], "light")
    /\ UNCHANGED threads

(* lightweight: fresh index rows and, outside benchmarks, the project's    *)
(* own knowledge.                                                          *)
LightEnds ==
    /\ gatherStage = "light" /\ threads.light.state = "running"
    /\ \E found \in SUBSET From({"lightweight_index"} \cup IF job.isolation THEN {} ELSE Knowledge):
          threads' = [threads EXCEPT !.light = [state |-> "ended", found |-> found]]
    /\ UNCHANGED <<job, joined, keys, gatherStage>>

(* The graph's thread is started only when it is wanted; its evidence is   *)
(* modelled by StructuralEvidence.                                         *)
GraphEnds ==
    /\ gatherStage \in {"light", "crg"} /\ WantsGraph /\ threads.crg.state = "running"
    /\ \E found \in SUBSET From({"code_review_graph"}):
          threads' = [threads EXCEPT !.crg = [state |-> "ended", found |-> found]]
    /\ UNCHANGED <<job, joined, keys, gatherStage>>

(* An exception of a thread is raised where its result is asked for, and   *)
(* by then the executor has waited for the other one.                      *)
ThreadFails ==
    /\ \/ gatherStage = "light" /\ threads.light.state = "running"
       \/ gatherStage = "crg" /\ WantsGraph /\ threads.crg.state = "running"
    /\ gatherStage' = "failed"
    /\ UNCHANGED <<job, threads, joined, keys>>

JoinLight ==
    /\ gatherStage = "light" /\ threads.light.state = "ended"
    /\ Join(threads.light.found, Min({BudgetLeft(joined), Shares["light"]}), "crg")
    /\ UNCHANGED threads

JoinGraph ==
    /\ gatherStage = "crg"
    /\ WantsGraph => threads.crg.state = "ended"
    /\ Join(threads.crg.found, Min({BudgetLeft(joined), Shares["crg"]}), "search")
    /\ UNCHANGED threads

HasCode == \E i \in DOMAIN joined: LET e == Evidence[joined[i].id]
                                   IN  e.source \in CodeSources /\ e.code
HasStructure == \E e \in threads.crg.found: Evidence[e].valid

\* Mutant: any graph evidence passes for structural evidence.
WantsSearch_AnyGraph ==
    \/ joined = <<>>
    \/ job.structural /\ threads.crg.found = {}
    \/ job.mutating /\ ~HasCode

WantsSearch ==
    \/ joined = <<>>
    \/ job.structural /\ ~HasStructure
    \/ job.mutating /\ ~HasCode

(* targeted_source: ripgrep, or the walk of the tree that replaces it.     *)
SearchSource ==
    /\ gatherStage = "search"
    /\ IF WantsSearch /\ BudgetLeft(joined) > MinSearch
         THEN \E found \in SUBSET From({"targeted_source"}):
                /\ threads' = [threads EXCEPT !.search = [state |-> "ended", found |-> found]]
                /\ Join(found, BudgetLeft(joined), "cap")
         ELSE gatherStage' = "cap" /\ UNCHANGED <<job, threads, joined, keys>>

\* Mutant: the stages' caps are taken to add up to the budget.
FinalCap_None == gatherStage = "cap" /\ gatherStage' = "done" /\ UNCHANGED <<job, threads, joined, keys>>

(* The last pass over all items, against the whole budget.                 *)
KeepWithin(items, x) ==
    LET kept == Min({x.kept, job.budget - Used(items)})
    IN  IF kept <= 0 THEN items ELSE Append(items, [x EXCEPT !.kept = kept])

WithinTo(items) ==
    LET acc[n \in 0..Len(items)] == IF n = 0 THEN <<>> ELSE KeepWithin(acc[n - 1], items[n])
    IN  acc

FinalCap ==
    /\ gatherStage = "cap"
    /\ joined' = WithinTo(joined)[Len(joined)]
    /\ gatherStage' = "done"
    /\ UNCHANGED <<job, threads, keys>>

GatherNext ==
    \/ JoinTests \/ JoinHot \/ LightEnds \/ GraphEnds \/ ThreadFails
    \/ JoinLight \/ JoinGraph \/ SearchSource \/ FinalCap

GatherSpec == GatherInit /\ [][GatherNext]_gatherVars

-----------------------------------------------------------------------------
Kept == {joined[i].id : i \in DOMAIN joined}

(* No evidence is joined twice, and the result never exceeds the lane's    *)
(* budget, although the first stages look at their own share only.         *)
GatherTypeOK ==
    /\ gatherStage \in {"tests", "hot", "light", "crg", "search", "cap", "done", "failed"}
    /\ Cardinality(Kept) = Len(joined) /\ Kept \subseteq keys
    /\ gatherStage = "done" => Used(joined) <= job.budget

(* A benchmark sees nothing the project has generated: neither the caches  *)
(* nor the notes nor the memory of earlier runs.                           *)
BenchmarkIsolated ==
    job.isolation => Kept \cap From({"hot_cache"} \cup Knowledge) = {}

(* What the graph's evidence takes of its own share.                       *)
GraphShareSpent ==
    UsedTo(joined, From({"code_review_graph"}))[Len(joined)] >= Shares["crg"]

(* The base evidence of a structural query holds valid structural evidence *)
(* or what a source search brought, unless the budget was all but spent -- *)
(* also when the graph answered, but with nothing valid.  Valid evidence   *)
(* that found no place in the graph's share counts nevertheless: gather    *)
(* looks for it in what the graph returned, not in what it kept.           *)
StructureOrSource ==
    gatherStage = "cap" /\ job.structural =>
        \/ \E e \in Kept: Evidence[e].valid
        \/ threads.search.state = "ended"
        \/ BudgetLeft(joined) <= MinSearch
        \/ HasStructure /\ GraphShareSpent

\* The base evidence of gather stays within the lane's budget without duplicates,
\* a benchmark sees no knowledge of earlier runs, and a structural question gets
\* valid structure or a source search, also when stages are cut or find nothing.
GatheringSafety ==
  GatherTypeOK /\ BenchmarkIsolated /\ StructureOrSource
=============================================================================
