----------------------------- MODULE CodeGraph -----------------------------
(***************************************************************************)
(* The structural graphs of a workspace: one database per repository,      *)
(* written by the external code-review-graph (CRG), and one manifest       *)
(* beside it that binds the database's bytes to the repository's           *)
(* fingerprint.  A sync goes through the repositories one by one; syncs    *)
(* overlap, CRG fails or is killed half way, repositories are edited       *)
(* meanwhile.  A tree's fingerprint is its version, and the digest of a    *)
(* database is the database itself.                                        *)
(***************************************************************************)
EXTENDS Integers, Sequences, FiniteSets, SequencesExt

CONSTANTS
  Syncs,       \* processes that run sync_workspace_graphs
  Trees,       \* the repositories under management
  Edited,      \* those that change while they are looked at
  Managed,     \* per sync: the rows managed_repositories finds for it, in order
  MaxTree      \* versions of a tree

ASSUME GraphAssumption == MaxTree \in Nat \ {0} /\ IsFiniteSet(Trees) /\ Edited \subseteq Trees
                          /\ \A s \in Syncs : Managed[s] \in Seq(Trees) /\ IsInjective(Managed[s])

VARIABLES
  tree,     \* per repository: the version of its working tree
  graph,    \* per repository: graph.db, [of, whole]; of = 0 is no file
  binding,  \* per repository: manifest.json, [tree, graph]; tree = 0 is no file
  syncer,   \* per sync: where it is, what it has left, what it reports
  sound     \* per repository: its manifest came from a sync nothing disturbed

graphVars == <<tree, graph, binding, syncer, sound>>

Versions == 1..MaxTree
NoGraph == [of |-> 0, whole |-> FALSE]
NoBinding == [tree |-> 0, graph |-> NoGraph]
IdleSync == [at |-> "idle", todo |-> <<>>, repo |-> {}, read |-> 0, clean |-> TRUE, quiet |-> TRUE,
             rows |-> {}, ok |-> {}, failed |-> {}]

GraphInit ==
  /\ tree = [r \in Trees |-> 1]
  /\ graph = [r \in Trees |-> NoGraph] /\ binding = [r \in Trees |-> NoBinding]
  /\ syncer = [s \in Syncs |-> IdleSync]
  /\ sound = [r \in Trees |-> TRUE]

\* What another process does to a repository disturbs every sync that is at it
\* (clean) or reports on it (quiet).
Disturb(r, but) ==
  [s \in Syncs |-> IF s \in but \/ syncer[s].at = "idle" THEN syncer[s]
                   ELSE [syncer[s] EXCEPT !.clean = @ /\ r \notin syncer[s].repo,
                                          !.quiet = @ /\ r \notin syncer[s].rows]]

EditTree(r) ==
  /\ \E v \in Versions \ {tree[r]} : tree' = [tree EXCEPT ![r] = v]
  /\ syncer' = Disturb(r, {})
  /\ UNCHANGED <<graph, binding, sound>>

-----------------------------------------------------------------------------
(* Reading: validate_graph_database, graph_freshness and what uses them.    *)

\* validate_graph_database: SQLite finds it intact, with the tables, the schema
\* and the nodes the control plane needs.
ValidGraph(r) == graph[r].of # 0 /\ graph[r].whole

\* Mutant: the bytes of the database are not hashed.
GraphFresh_Unhashed(r) ==
  graph[r].of # 0 /\ binding[r].tree # 0 /\ binding[r].tree = tree[r]

\* graph_freshness.
GraphFresh(r) ==
  /\ graph[r].of # 0 /\ binding[r].tree # 0
  /\ binding[r].graph = graph[r]
  /\ binding[r].tree = tree[r]

\* repository_health, when CRG's own status command succeeds.
RepositoryReady(r) == ValidGraph(r) /\ GraphFresh(r)

\* workspace_health.
WorkspaceReady(rows) == rows # {} /\ \A r \in rows : RepositoryReady(r)

\* any_graph_ready, which routes a request to the structural lane.
AnyGraphReady(rows) == \E r \in rows : ValidGraph(r) /\ GraphFresh(r)

-----------------------------------------------------------------------------
(* sync_workspace_graphs. *)

Sync(s, held) == syncer' = [syncer EXCEPT ![s] = held]
Repo(s) == CHOOSE r \in Trees : syncer[s].repo = {r}

\* The rows are those managed_repositories finds: included and Git repositories.
StartSync(s) ==
  /\ syncer[s].at = "idle"
  /\ Sync(s, [IdleSync EXCEPT !.at = "next", !.todo = Managed[s], !.rows = ToSet(Managed[s])])
  /\ UNCHANGED <<tree, graph, binding, sound>>

NextRepository(s) ==
  /\ syncer[s].at = "next" /\ syncer[s].todo # <<>>
  /\ Sync(s, [syncer[s] EXCEPT !.at = "crg", !.repo = {Head(syncer[s].todo)}, !.todo = Tail(@), !.clean = TRUE])
  /\ UNCHANGED <<tree, graph, binding, sound>>

\* Mutant: the first failure ends the sync.
RowFails_EndsSync(held, r) ==
  [held EXCEPT !.at = "next", !.read = 0, !.repo = {}, !.failed = @ \cup {r}, !.todo = <<>>]

\* A row that failed is reported, and the next one is tried.
RowFails(held, r) ==
  [held EXCEPT !.at = "next", !.read = 0, !.repo = {}, !.failed = @ \cup {r}]

\* CRG reads the repository ...
CrgReads(s) ==
  /\ syncer[s].at = "crg" /\ syncer[s].read = 0
  /\ Sync(s, [syncer[s] EXCEPT !.read = tree[Repo(s)], !.clean = TRUE])
  /\ UNCHANGED <<tree, graph, binding, sound>>

\* ... and writes the database in place; killed by its timeout or by an error
\* it may leave it untouched or half written.
CrgWrites(s, whole) ==
  /\ syncer[s].at = "crg" /\ syncer[s].read # 0
  /\ LET r == Repo(s)
         held == Disturb(r, {s})[s]
     IN /\ graph' = [graph EXCEPT ![r] = [of |-> held.read, whole |-> whole]]
        /\ syncer' = [Disturb(r, {s}) EXCEPT ![s] =
                        IF whole THEN [held EXCEPT !.at = "validate", !.read = 0]
                        ELSE RowFails(held, r)]
  /\ UNCHANGED <<tree, binding, sound>>

CrgFails(s) ==
  /\ syncer[s].at = "crg"
  /\ Sync(s, RowFails(syncer[s], Repo(s)))
  /\ UNCHANGED <<tree, graph, binding, sound>>

ValidateGraph(s) ==
  /\ syncer[s].at = "validate"
  /\ Sync(s, IF ValidGraph(Repo(s)) THEN [syncer[s] EXCEPT !.at = "fingerprint"]
             ELSE RowFails(syncer[s], Repo(s)))
  /\ UNCHANGED <<tree, graph, binding, sound>>

\* _write_graph_manifest takes the repository's fingerprint after CRG has run,
TakeFingerprint(s) ==
  /\ syncer[s].at = "fingerprint"
  /\ Sync(s, [syncer[s] EXCEPT !.at = "manifest", !.read = tree[Repo(s)]])
  /\ UNCHANGED <<tree, graph, binding, sound>>

\* Mutant: the row is reported before its manifest is written.
WriteGraphManifest_Unwritten(s) ==
  /\ syncer[s].at = "manifest"
  /\ Sync(s, [syncer[s] EXCEPT !.at = "next", !.read = 0, !.repo = {}, !.ok = @ \cup {Repo(s)}])
  /\ UNCHANGED <<tree, graph, binding, sound>>

\* then hashes the database and replaces the manifest.
WriteGraphManifest(s) ==
  /\ syncer[s].at = "manifest"
  /\ LET r == Repo(s)
         held == syncer[s]
     IN /\ binding' = [binding EXCEPT ![r] = [tree |-> held.read, graph |-> graph[r]]]
        /\ sound' = [sound EXCEPT ![r] = held.clean]
        /\ syncer' = [Disturb(r, {s}) EXCEPT
                        ![s] = [held EXCEPT !.at = "next", !.read = 0, !.repo = {}, !.ok = @ \cup {r}]]
  /\ UNCHANGED <<tree, graph>>

EndSync(s) ==
  /\ syncer[s].at = "next" /\ syncer[s].todo = <<>>
  /\ Sync(s, IdleSync)
  /\ UNCHANGED <<tree, graph, binding, sound>>

SyncDies(s) ==
  /\ syncer[s].at # "idle"
  /\ Sync(s, IdleSync)
  /\ UNCHANGED <<tree, graph, binding, sound>>

GraphNext ==
  \/ \E r \in Edited : EditTree(r)
  \/ \E s \in Syncs :
       \/ StartSync(s) \/ NextRepository(s) \/ CrgReads(s) \/ CrgFails(s) \/ ValidateGraph(s)
       \/ TakeFingerprint(s) \/ WriteGraphManifest(s) \/ EndSync(s) \/ SyncDies(s)
       \/ \E whole \in BOOLEAN : CrgWrites(s, whole)

GraphSpec == GraphInit /\ [][GraphNext]_graphVars

-----------------------------------------------------------------------------
(* Properties. *)

GraphTypeOK ==
  /\ tree \in [Trees -> Versions] /\ sound \in [Trees -> BOOLEAN]
  /\ \A r \in Trees : /\ graph[r].of \in 0..MaxTree /\ graph[r].of = 0 => ~graph[r].whole
                      /\ binding[r].tree \in 0..MaxTree
                      /\ binding[r].tree # 0 => binding[r].graph.of # 0
  /\ \A s \in Syncs : LET held == syncer[s] IN
       /\ held.at \in {"idle", "next", "crg", "validate", "fingerprint", "manifest"}
       /\ Cardinality(held.repo) = (IF held.at \in {"idle", "next"} THEN 0 ELSE 1)
       /\ held.rows = ToSet(held.todo) \cup held.repo \cup held.ok \cup held.failed

\* A graph that is ready describes the repository as it is, whatever CRG left
\* behind and however often the repository was changed and changed back, as
\* long as its manifest was written by a sync during which neither the
\* repository nor the database was changed by somebody else.
ReadyGraphIsCurrent ==
  \A r \in Trees : sound[r] /\ RepositoryReady(r) => graph[r].of = tree[r]

\* What a sync reports: one row for each repository it set out with, however
\* many failed, and a row reported ready is ready if nothing changed under the
\* sync since it began; so is the workspace when every row is, unless it has
\* none (workspace_health calls a workspace without repositories not ready).
SyncReportsTruth ==
  [][\A s \in Syncs :
       LET held == syncer[s] IN
       held.at = "next" /\ held.todo = <<>> /\ syncer'[s].at = "idle" =>
         /\ held.ok \cup held.failed = held.rows /\ held.ok \cap held.failed = {}
         /\ held.quiet => /\ \A r \in held.ok : RepositoryReady(r)
                          /\ held.ok # {} => /\ AnyGraphReady(held.rows)
                                             /\ held.failed = {} => WorkspaceReady(held.rows)]_graphVars

\* A graph that is called ready is whole and of the tree its manifest names, and a
\* sync reports as ready only what it validated and bound
\* (sync_workspace_graphs, graph_freshness).
GraphSafety ==
  /\ [](GraphTypeOK /\ ReadyGraphIsCurrent)
  /\ SyncReportsTruth
=============================================================================
