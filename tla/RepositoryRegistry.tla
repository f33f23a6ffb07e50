------------------------- MODULE RepositoryRegistry -------------------------
(***************************************************************************)
(* repositories.json, the reviewed set of repositories of a workspace: the *)
(* commands that rewrite it under a sidecar lock, the one path of setup    *)
(* that rewrites it without, and a gather run that reads it three times,   *)
(* without the lock, to decide which repositories it searches.             *)
(*                                                                         *)
(* A path is a number, its place in the sort order of relative paths; 0 is *)
(* ".", the control root.  A remote is a number too, 0 for none.  A        *)
(* repository id is a hash of path and remote: here the pair itself.       *)
(* Legacy roots are directories of workspace.roots, numbered above the     *)
(* paths.  A lock of flock dies with its process; msvcrt is left out.      *)
(***************************************************************************)
EXTENDS Integers, Sequences, FiniteSets

CONSTANTS
  RegistryWriters,  \* processes that run repos and setup commands
  NPaths,         \* directories 1..NPaths may be checkouts
  NRemotes,
  DeepPaths,      \* paths that a refresh with a small --discover-depth misses
  LegacyRoots,    \* workspace.roots
  ReviewedEdges,  \* rows of repository-graph.json: [from, to, prior], ids and a rank
  MaxRoots, MaxPrimary, MaxExpansions,
  MaxCommands,    \* bound on commands
  MaxOutside      \* bound on checkout changes, slow gits and hand edits

RepoPaths == 0..NPaths
Gone == NRemotes + 1
RepoKey == [path : RepoPaths, remote : 0..NRemotes]

ASSUME RegistryAssumption ==
  /\ "free" \notin RegistryWriters
  /\ NPaths \in Nat /\ NRemotes \in Nat \ {0} /\ DeepPaths \subseteq 1..NPaths
  /\ IsFiniteSet(LegacyRoots) /\ \A r \in LegacyRoots : r \in Nat /\ r > NPaths
  /\ IsFiniteSet(ReviewedEdges) /\ ReviewedEdges \subseteq [from : RepoKey, to : RepoKey, prior : Nat]
  /\ MaxRoots \in Nat \ {0} /\ MaxPrimary \in Nat \ {0} /\ MaxExpansions \in Nat
  /\ MaxCommands \in Nat /\ MaxOutside \in Nat

VARIABLES
  checkout,   \* path -> the remote of the checkout there, or Gone
  registry,   \* repositories.json, or NoRegistry
  flock,      \* the holder of repositories.json.lock, or "free"
  command,    \* per writer: the command it runs and what it has read
  started, outside,  \* commands and outside changes so far
  decision,   \* key -> what the last acknowledged include or exclude said
  dropped,    \* keys that have left the registry since
  search      \* the gather run

registryVars == <<checkout, registry, flock, command, started, outside,
                  decision, dropped, search>>

-----------------------------------------------------------------------------
(* Sorted lists.  `before` holds the pairs of S in which the first is less. *)

Listed(S, before) ==
  [i \in 1..Cardinality(S) |-> CHOOSE x \in S : Cardinality({y \in S : <<y, x>> \in before}) = i - 1]

Ascending(S) == Listed(S, {p \in S \X S : p[1] < p[2]})
FirstOf(n, s) == SubSeq(s, 1, IF Len(s) < n THEN Len(s) ELSE n)
Members(s) == {s[i] : i \in DOMAIN s}

-----------------------------------------------------------------------------
(* The file.  A row is well formed when its fields have their types and its *)
(* repository_id, when there is one, is the hash of path and remote.        *)

RegistryRow == [path : RepoPaths, remote : 0..NRemotes, included : BOOLEAN,
        reason : {"discovered", "auto", "manual"}, sound : BOOLEAN]
KeyOf(row) == [path |-> row.path, remote |-> row.remote]
KeysOf(rows) == {KeyOf(row) : row \in rows}

RowBefore(a, b) == a.path < b.path \/ (a.path = b.path /\ a.remote < b.remote)
NoRegistry == [version |-> 0, review |-> FALSE, rows |-> <<>>]
RegistryPayload(rows) ==
  [version |-> 1, review |-> TRUE, rows |-> Listed(rows, {p \in rows \X rows : RowBefore(p[1], p[2])})]

EntryToSpec(row) == IF row.sound THEN {row} ELSE {}

\* load_registry: every doubt about the file empties it.
LoadRegistry(file) ==
  IF \/ file.version # 1
     \/ file.review # TRUE
     \/ \E i \in DOMAIN file.rows : EntryToSpec(file.rows[i]) = {}
     \/ \E i, j \in DOMAIN file.rows : i # j /\ KeyOf(file.rows[i]) = KeyOf(file.rows[j])
  THEN {}
  ELSE UNION {EntryToSpec(file.rows[i]) : i \in DOMAIN file.rows}

\* _spec_for_directory: the remote that git, or the file fallback, reports; a
\* git that does not answer in time leaves the repository without a remote.
SpecsFor(p) ==
  IF checkout[p] = Gone THEN {}
  ELSE {[path |-> p, remote |-> r, included |-> FALSE, reason |-> "discovered", sound |-> TRUE] :
        r \in {checkout[p], 0}}

\* discover_repositories: one spec per checkout within the depth.
Discoveries(shallow) ==
  LET seen == {p \in RepoPaths : checkout[p] # Gone /\ ~(shallow /\ p \in DeepPaths)}
  IN  {D \in SUBSET UNION {SpecsFor(p) : p \in seen} :
         \A p \in seen : Cardinality({d \in D : d.path = p}) = 1}

\* The merge of refresh_registry.
MergedRow(repo, existing, includeNew) ==
  LET previous == {e \in existing : KeyOf(e) = KeyOf(repo)}
  IN  IF previous = {}
      THEN [repo EXCEPT !.included = includeNew,
                        !.reason = IF includeNew THEN "auto" ELSE @]
      ELSE LET e == CHOOSE e \in previous : TRUE
           IN  IF includeNew /\ ~e.included /\ e.reason = "discovered"
               THEN [e EXCEPT !.included = TRUE, !.reason = "auto"]
               ELSE e
MergedRows(found, existing, includeNew) ==
  {MergedRow(repo, existing, includeNew) : repo \in found}

\* _matches_selector: a path, a repository id, or a remote (a name is a path's).
Selectors == [path : RepoPaths] \cup RepoKey \cup [remote : 1..NRemotes]
Matching(rows, selector) ==
  {row \in rows : \A f \in DOMAIN selector : row[f] = selector[f]}

-----------------------------------------------------------------------------
(* The writers. *)

IdleCommand == [at |-> "idle", op |-> "none", read |-> {}]

RegistryTypeOK ==
  /\ registry \in [version : 0..2, review : BOOLEAN, rows : Seq(RegistryRow)]
  /\ flock \in RegistryWriters \cup {"free"}
  /\ \A w \in RegistryWriters : command[w].at \in {"idle", "found_none", "loaded", "crashed"}
  /\ decision \in [RepoKey -> {"none", "include", "exclude"}]
  /\ dropped \subseteq RepoKey
  \* Exclusion: whoever is past the lock holds it.
  /\ \A w \in RegistryWriters : command[w].at = "loaded" <=> flock = w

RegistryInit ==
  /\ checkout \in [RepoPaths -> {0, 1, Gone}]
  /\ \A p \in 1..NPaths : checkout[p] # 0
  /\ checkout[0] # 1
  \* No file yet, or the one that setup wrote.
  /\ \/ registry = NoRegistry
     \/ registry = RegistryPayload(MergedRows(UNION {SpecsFor(p) \ {s \in SpecsFor(p) : s.remote # checkout[p]} :
                                         p \in RepoPaths}, {}, TRUE))
  /\ flock = "free"
  /\ command = [w \in RegistryWriters |-> IdleCommand]
  /\ started = 0 /\ outside = 0
  /\ decision = [k \in RepoKey |-> "none"]
  /\ dropped = {}
  /\ search = [at |-> "idle"]

\* repos refresh (never includes), setup (includes what is new), repos include
\* and exclude, setup --no-discover-repos.
CommandOps == {"refresh", "refresh_shallow", "setup", "include", "exclude", "setup_empty"}

\* Mutant: a lock file that is opened and never locked.
LockRegistry_Unserialised(w) ==
  /\ command[w].at = "idle"
  /\ started < MaxCommands
  /\ started' = started + 1
  /\ flock' = w
  /\ \E op \in CommandOps \ {"setup_empty"} :
       command' = [command EXCEPT ![w] = [at |-> "loaded", op |-> op, read |-> LoadRegistry(registry)]]
  /\ UNCHANGED <<checkout, registry, outside, decision, dropped, search>>

\* The command starts, waits for the lock and reads the file under it.
LockRegistry(w) ==
  /\ command[w].at = "idle"
  /\ started < MaxCommands
  /\ started' = started + 1
  /\ flock = "free"
  /\ flock' = w
  /\ \E op \in CommandOps \ {"setup_empty"} :
       command' = [command EXCEPT ![w] = [at |-> "loaded", op |-> op, read |-> LoadRegistry(registry)]]
  /\ UNCHANGED <<checkout, registry, outside, decision, dropped, search>>

\* setup --no-discover-repos looks for the file before it decides to create one.
FindNoRegistry(w) ==
  /\ command[w].at = "idle"
  /\ started < MaxCommands
  /\ started' = started + 1
  /\ registry = NoRegistry
  /\ command' = [command EXCEPT ![w] = [at |-> "found_none", op |-> "setup_empty", read |-> {}]]
  /\ UNCHANGED <<checkout, registry, flock, outside, decision, dropped, search>>

\* atomic_write_json; keys that the new file leaves out are remembered.
PublishRegistry(rows) ==
  /\ registry' = RegistryPayload(rows)
  /\ dropped' = dropped \cup (KeysOf(LoadRegistry(registry)) \ KeysOf(rows))

RefreshRegistry(w) ==
  /\ command[w].at = "loaded"
  /\ command[w].op \in {"refresh", "refresh_shallow", "setup"}
  /\ \E found \in Discoveries(command[w].op = "refresh_shallow") :
       /\ IF \A repo \in found : repo.remote = checkout[repo.path] THEN UNCHANGED outside
          ELSE outside < MaxOutside /\ outside' = outside + 1
       /\ PublishRegistry(MergedRows(found, command[w].read, command[w].op = "setup"))
  /\ command' = [command EXCEPT ![w] = IdleCommand]
  /\ flock' = "free"
  /\ UNCHANGED <<checkout, started, decision, search>>

SetIncluded(w) ==
  /\ command[w].at = "loaded"
  /\ command[w].op \in {"include", "exclude"}
  /\ \E selector \in Selectors :
       LET matches == Matching(command[w].read, selector)
       IN  IF Cardinality(matches) # 1
           THEN UNCHANGED <<registry, decision, dropped>>
           ELSE LET target == CHOOSE t \in matches : TRUE
                    new == [target EXCEPT !.included = command[w].op = "include", !.reason = "manual"]
                IN  /\ registry' = RegistryPayload((command[w].read \ {target}) \cup {new})
                    /\ dropped' = (dropped \cup (KeysOf(LoadRegistry(registry)) \ KeysOf(command[w].read)))
                                  \ {KeyOf(target)}
                    /\ decision' = [decision EXCEPT ![KeyOf(target)] = command[w].op]
  /\ command' = [command EXCEPT ![w] = IdleCommand]
  /\ flock' = "free"
  /\ UNCHANGED <<checkout, started, outside, search>>

\* _write_repository_registry without discovery: no lock, no second look.
CreateEmpty(w) ==
  /\ command[w].at = "found_none"
  /\ PublishRegistry({})
  /\ command' = [command EXCEPT ![w] = IdleCommand]
  /\ UNCHANGED <<checkout, flock, started, outside, decision, search>>

\* Mutant: the lock is a file that outlives its writer.
CommandCrash_KeepsLock(w) ==
  /\ command[w].at \in {"found_none", "loaded"}
  /\ command' = [command EXCEPT ![w] = [IdleCommand EXCEPT !.at = "crashed"]]
  /\ UNCHANGED <<checkout, registry, flock, started, outside, decision, dropped, search>>

\* The process dies, and its flock with it; the file is replaced or it is not.
CommandCrash(w) ==
  /\ command[w].at \in {"found_none", "loaded"}
  /\ command' = [command EXCEPT ![w] = [IdleCommand EXCEPT !.at = "crashed"]]
  /\ flock' = IF flock = w THEN "free" ELSE flock
  /\ UNCHANGED <<checkout, registry, started, outside, decision, dropped, search>>

\* A checkout appears, disappears or is replaced by one of another remote.
MoveCheckout ==
  /\ outside < MaxOutside
  /\ outside' = outside + 1
  /\ \E p \in 1..NPaths, r \in 1..Gone :
       r # checkout[p] /\ checkout' = [checkout EXCEPT ![p] = r]
  /\ UNCHANGED <<registry, flock, command, started, decision, dropped, search>>

\* Someone edits the file by hand, without the lock.
EditFile ==
  /\ outside < MaxOutside
  /\ registry # NoRegistry
  /\ outside' = outside + 1
  /\ registry' \in
       {[registry EXCEPT !.version = 2], [registry EXCEPT !.review = FALSE]} \cup
       {[registry EXCEPT !.rows[i].sound = FALSE] : i \in DOMAIN registry.rows} \cup
       {[registry EXCEPT !.rows = Append(@, @[i])] : i \in DOMAIN registry.rows}
  /\ dropped' = dropped \cup KeysOf(LoadRegistry(registry))
  /\ UNCHANGED <<checkout, flock, command, started, decision, search>>

-----------------------------------------------------------------------------
(* The reader: workspace_roots, the registry identities and the repository  *)
(* graph are three reads of the file.                                       *)

\* Mutant: discovery is taken for acceptance.
AcceptedRows_Discovered(file) == LoadRegistry(file)

AcceptedRows(file) == {row \in LoadRegistry(file) : row.included}

\* _registry_roots: accepted rows whose path is still a checkout.
RegistryRoots == {row.path : row \in {a \in AcceptedRows(registry) : checkout[a.path] # Gone}}

\* active_repository_roots, cut to max_roots: the control root if it is one, the
\* accepted roots in file order, workspace.roots.  Numbers are in that order.
WorkspaceRoots ==
  LET control == IF checkout[0] # Gone \/ RegistryRoots = {} THEN {0} ELSE {}
  IN  FirstOf(MaxRoots, Ascending(control \cup RegistryRoots \cup LegacyRoots))

StartSearch ==
  /\ search.at = "idle"
  /\ search' = [at |-> "roots", roots |-> WorkspaceRoots,
                excluded |-> {k.path : k \in {d \in RepoKey : decision[d] = "exclude"} \ dropped}]
  /\ UNCHANGED <<checkout, registry, flock, command, started, outside, decision, dropped>>

ReadIdentities ==
  /\ search.at = "roots"
  /\ search' = [at |-> "identities", roots |-> search.roots, excluded |-> search.excluded,
                known |-> KeysOf(AcceptedRows(registry))]
  /\ UNCHANGED <<checkout, registry, flock, command, started, outside, decision, dropped>>

\* load_repository_graph: one edge that is not between two accepted
\* repositories empties the graph.
GraphEdges(nodes) ==
  IF \E e \in ReviewedEdges : e.from = e.to \/ e.from \notin nodes \/ e.to \notin nodes
  THEN {} ELSE ReviewedEdges

\* _changed_matches, and the control root's share of the changed files.
OwnsChange(p, known, changed) ==
  LET nested == {k.path : k \in known} \ {0}
  IN  IF p # 0 THEN p \in changed
      ELSE changed \ nested # {}

\* The signalled roots, or the first one when there is no signal.
Signalled(roots, known, changed, mentioned) ==
  LET ids == {k.path : k \in known}
      hit == {p \in Members(roots) \cap ids : OwnsChange(p, known, changed) \/ p \in mentioned}
  IN  IF hit = {} THEN FirstOf(1, roots) ELSE Ascending(hit)

\* The other end of an edge that touches a primary repository.
Neighbours(edge, primaryIds) ==
  IF edge.from \in primaryIds THEN {edge.to.path}
  ELSE IF edge.to \in primaryIds THEN {edge.from.path} ELSE {}

StrongerEdge(a, b) ==
  \/ a.prior > b.prior
  \/ a.prior = b.prior /\ RowBefore(a.from, b.from)
  \/ a.prior = b.prior /\ a.from = b.from /\ RowBefore(a.to, b.to)

\* Of the edges that lead from a primary repository to a target, the strongest
\* to each; the targets in the order of those, as many as allowed.
ExpansionsTo(targets, primaryIds, nodes) ==
  LET end(e) == Neighbours(e, primaryIds) \cap targets
      leading == {e \in GraphEdges(nodes) : end(e) # {}}
      best == {e \in leading : \A f \in leading : end(f) = end(e) => ~StrongerEdge(f, e)}
      ranked == FirstOf(MaxExpansions, Listed(best, {p \in best \X best : StrongerEdge(p[1], p[2])}))
  IN  [i \in DOMAIN ranked |-> CHOOSE p \in end(ranked[i]) : TRUE]

\* Mutant: the bounded root set of the caller is not consulted.
Expansions_Unbounded(roots, primary, known, nodes) ==
  ExpansionsTo(RepoPaths \ Members(primary), {k \in known : k.path \in Members(primary)}, nodes)

Expansions(roots, primary, known, nodes) ==
  LET reachable == {k.path : k \in known \cap nodes} \cap Members(roots)
  IN  ExpansionsTo(reachable \ Members(primary), {k \in known : k.path \in Members(primary)}, nodes)

\* plan_repository_retrieval, with the registry as it is when it reads the graph.
PlanSearch ==
  /\ search.at = "identities"
  /\ \E changed \in SUBSET RepoPaths, mentioned \in SUBSET (1..NPaths) :
       LET roots == search.roots
           known == search.known
           nodes == KeysOf(AcceptedRows(registry))
           legacy == {k.path : k \in known} \cap Members(roots) = {}
           primary == FirstOf(MaxPrimary, Signalled(roots, known, changed, mentioned))
           all == IF legacy THEN roots ELSE primary \o Expansions(roots, primary, known, nodes)
           plan == FirstOf(MaxRoots, all)
       IN  search' = [at |-> "planned", roots |-> roots, excluded |-> search.excluded,
                      known |-> known, nodes |-> nodes, legacy |-> legacy, primary |-> primary,
                      plan |-> plan]
  /\ UNCHANGED <<checkout, registry, flock, command, started, outside, decision, dropped>>

RegistryNext ==
  \/ \E w \in RegistryWriters :
       \/ LockRegistry(w) \/ FindNoRegistry(w) \/ RefreshRegistry(w) \/ SetIncluded(w) \/ CreateEmpty(w) \/ CommandCrash(w)
  \/ MoveCheckout \/ EditFile
  \/ StartSearch \/ ReadIdentities \/ PlanSearch

RegistrySpec == RegistryInit /\ [][RegistryNext]_registryVars

-----------------------------------------------------------------------------
(* Properties. *)

\* While a repository stays in the registry, the last acknowledged include or
\* exclude of it is what the registry says, whatever started run at once and
\* wherever one of them dies.  setup --no-discover-repos, which does not take
\* the lock of _registry_lock, can take every row with it, but it cannot make a
\* command that overlaps with it write another decision.
DecisionsKept ==
  \A k \in RepoKey :
    decision[k] # "none" /\ k \notin dropped =>
      \E row \in LoadRegistry(registry) : KeyOf(row) = k /\ row.included = (decision[k] = "include")

\* refresh_registry promises to preserve explicit exclude decisions: once a
\* repository was excluded, no rediscovery includes it again.
ExclusionStands ==
  \A row \in LoadRegistry(registry) : decision[KeyOf(row)] = "exclude" => ~row.included

\* What was excluded when a run began is not searched by it, except that the
\* control root is always searched.
ExcludedIsNotSearched ==
  search.at = "planned" => search.excluded \cap Members(search.plan) \subseteq {0}

\* A plan grows past the primaries and the reviewed expansions only when none of
\* the roots is accepted any more at the second read, and it never leaves the
\* roots of the first; an expansion is accepted at both later reads.
PlanStaysReviewed ==
  search.at = "planned" =>
    /\ Members(search.plan) \subseteq Members(search.roots)
    /\ Len(search.plan) > MaxPrimary + MaxExpansions =>
         \A k \in search.known : k.path \notin Members(search.roots)
    /\ \A p \in Members(search.plan) \ Members(search.primary) :
         search.legacy \/ \E k \in search.known \cap search.nodes : k.path = p

\* Acknowledged decisions stand while their row does; what was excluded when a
\* search began is not searched, and the search stays within the roots and the
\* reviewed expansions it read
\* (refresh_registry, set_repository_included, plan_repository_retrieval).
RegistrySafety ==
  RegistryTypeOK /\ DecisionsKept /\ ExcludedIsNotSearched /\ PlanStaysReviewed
=============================================================================
