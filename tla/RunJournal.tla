----------------------------- MODULE RunJournal -----------------------------
(***************************************************************************)
(* The end of a gather: the fingerprints it takes of the workspace, its    *)
(* replay journal (a hash chain of events), the run record the Python API  *)
(* persists, and the commands that verify and replay a journal later.      *)
(* Files are edited while all of this runs, and so are stored journals.    *)
(* A digest is the value it is taken of, so it is injective; an optional   *)
(* value is a sequence of at most one element.                             *)
(***************************************************************************)
EXTENDS Integers, Sequences, FiniteSets

CONSTANTS
  Tracers,      \* processes that gather for the command line: they journal a run
  Persisters,   \* processes that gather for WorkflowClient: they persist a run record
  RunIds,
  EventKinds,   \* the event contract: a sequence of kinds, seven in the code
  Changing,     \* what of the workspace changes meanwhile, of Facets
  MaxVersion,   \* versions of the configuration and of each file
  MaxDiffering  \* how many of them may be away from their first version

ASSUME JournalAssumption ==
  /\ MaxVersion \in Nat /\ MaxDiffering \in Nat
  /\ RunIds # {} /\ EventKinds \in Seq(STRING)
  /\ \E i, k \in 1..Len(EventKinds) : EventKinds[i] = "retrieval" /\ EventKinds[k] = "selection"

VARIABLES
  world,     \* versions: of the config, a listed changed file, another file, the graph
  gather,    \* per gather: where it is and what it holds
  journals,  \* per run id: the stored journal, if any
  runfiles,  \* per run id: "none", "partial" or "whole"
  rewritten, \* run ids whose journal an editor changed
  replay,    \* the command that verifies or replays a journal
  moved      \* whether the workspace changed since that command started

journalVars == <<world, gather, journals, runfiles, rewritten, replay, moved>>

Gathers == Tracers \cup Persisters
Facets == {"config", "listed", "other", "graph"}
Kinds == {EventKinds[i] : i \in 1..Len(EventKinds)}
Fields == {"config", "workspace", "graph", "repository"}

\* What each fingerprint covers.  The workspace one covers the HEAD and the
\* changed files the caller listed; the state of a worktree every tracked or
\* untracked file that is not excluded, the run files among them; the
\* repository one that state for every active repository.
ConfigIdentity == <<world.config>>
WorkspaceIdentity == <<world.listed>>
GraphIdentity == <<world.graph>>
WorktreeState == <<world.listed, world.other, runfiles>>
RepositoryIdentity == WorktreeState

Identity(f) ==
  CASE f = "config"     -> ConfigIdentity
    [] f = "workspace"  -> WorkspaceIdentity
    [] f = "graph"      -> GraphIdentity
    [] f = "repository" -> RepositoryIdentity

-----------------------------------------------------------------------------
(* The journal. *)

Payload(event) == event.payload
Body(event) == [sequence |-> event.sequence, kind |-> event.kind,
                previous |-> event.previous, payload |-> event.payload]

\* The digests of a chain: each is of a body that holds the one before.
Digests(payloads) ==
  LET digest[i \in 0..Len(payloads)] ==
        IF i = 0 THEN <<>>
        ELSE <<[sequence |-> i, kind |-> EventKinds[i], previous |-> digest[i - 1], payload |-> payloads[i]]>>
  IN  digest

\* chain_replay_events.
Chained(payloads) ==
  LET digest == Digests(payloads)
  IN  [i \in 1..Len(payloads) |->
         [sequence |-> i, kind |-> EventKinds[i], previous |-> digest[i - 1],
          payload |-> payloads[i], digest |-> digest[i]]]

PayloadOf(events, kind) == Payload(events[CHOOSE i \in 1..Len(events) : events[i].kind = kind])

\* _journal_digest: of everything but the digest itself.
JournalDigest(j) == <<j.schema, j.id, j.identity, j.retrieval, j.selected, j.events, j.count, j.head>>

\* build_replay_journal.
BuildJournal(id, identity, payloads) ==
  LET events == Chained(payloads)
      bare == [schema |-> "v2", id |-> id, identity |-> identity,
               retrieval |-> PayloadOf(events, "retrieval"),
               selected |-> PayloadOf(events, "selection"),
               events |-> events, count |-> Len(events),
               head |-> events[Len(events)].digest, digest |-> <<>>]
  IN  [bare EXCEPT !.digest = JournalDigest(bare)]

\* Mutant: the links of the chain and the journal digest are not compared.
VerifyReplayJournal_EventsOnly(j, id) ==
  /\ j.schema = "v2" /\ j.id = id
  /\ Len(j.events) = Len(EventKinds)
  /\ \A i \in 1..Len(j.events) :
       j.events[i].kind = EventKinds[i] /\ j.events[i].digest = <<Body(j.events[i])>>
  /\ j.count = Len(j.events)

\* verify_replay_journal: no check fails.  An event that is no mapping has the
\* kind "junk" here; it has no digest to compare.
VerifyReplayJournal(j, id) ==
  LET previous(i) == IF i = 1 THEN <<>> ELSE j.events[i - 1].digest IN
  /\ j.schema = "v2" /\ j.id = id
  /\ Len(j.events) = Len(EventKinds)
  /\ \A i \in 1..Len(j.events) :
       LET e == j.events[i] IN
       /\ e.kind = EventKinds[i] /\ e.sequence = i
       /\ e.previous = previous(i)
       /\ e.digest = <<Body(e)>>
  /\ j.count = Len(j.events)
  /\ j.head = previous(Len(j.events) + 1)
  /\ PayloadOf(j.events, "retrieval") = j.retrieval
  /\ PayloadOf(j.events, "selection") = j.selected
  /\ j.digest = JournalDigest(j)

-----------------------------------------------------------------------------
(* The gather, from its selection on. *)

NoGather == [at |-> "idle", id |-> CHOOSE id \in RunIds : TRUE,
             identity |-> [f \in Fields |-> <<>>], journal |-> FALSE]
NoReplay == [at |-> "idle", id |-> CHOOSE id \in RunIds : TRUE, events |-> FALSE, compatible |-> FALSE,
             recorded |-> [f \in Fields |-> <<>>], drift |-> {}]

JournalInit ==
  /\ world = [f \in Facets |-> 0]
  /\ gather = [g \in Gathers |-> NoGather]
  /\ journals = [id \in RunIds |-> <<>>]
  /\ runfiles = [id \in RunIds |-> "none"]
  /\ rewritten = {} /\ replay = NoReplay /\ moved = FALSE

\* A file, the configuration or the graph changes, or changes back.
ChangeWorld ==
  /\ \E f \in Changing, v \in 0..MaxVersion : world[f] # v /\ world' = [world EXCEPT ![f] = v]
  /\ Cardinality({f \in Facets : world'[f] # 0}) <= MaxDiffering
  /\ moved' = TRUE
  /\ UNCHANGED <<gather, journals, runfiles, rewritten, replay>>

\* The caller chooses the run id, and may choose one again.  Gathers only test
\* whether a journal exists: none runs on after one was edited (a bound).
StartGather(g) ==
  /\ gather[g].at \in {"idle", "done"} /\ rewritten = {}
  /\ \E id \in RunIds :
       gather' = [gather EXCEPT ![g] =
         [NoGather EXCEPT !.at = "selected", !.id = id, !.identity["config"] = Identity("config")]]
  /\ UNCHANGED <<world, journals, runfiles, rewritten, replay, moved>>

\* It returned or raised; what counts is whether it claims a journal.
Ended(g, claims) == [NoGather EXCEPT !.at = "done", !.id = gather[g].id, !.journal = claims]

\* The fingerprints are taken after the evidence was selected.
TakeSnapshot(g) ==
  /\ gather[g].at = "selected"
  /\ gather' = [gather EXCEPT ![g].identity = [@ EXCEPT !["workspace"] = Identity("workspace"),
                                                       !["graph"] = Identity("graph")],
                              ![g].at = IF g \in Tracers THEN "trace" ELSE "persist"]
  /\ UNCHANGED <<world, journals, runfiles, rewritten, replay, moved>>

\* write_trace is not guarded: a failure ends the gather.
EmitTrace(g) ==
  /\ gather[g].at = "trace"
  /\ \E written \in BOOLEAN :
       gather' = [gather EXCEPT ![g] = IF written THEN [@ EXCEPT !.at = "aggregate"] ELSE Ended(g, FALSE)]
  /\ UNCHANGED <<world, journals, runfiles, rewritten, replay, moved>>

\* aggregate_workspace_fingerprint, then build_replay_journal, which raises
\* when the changed files are too many or have too long a name.
AggregateIdentity(g) ==
  /\ gather[g].at = "aggregate"
  /\ \E built \in BOOLEAN :
       gather' = [gather EXCEPT ![g] =
         IF built THEN [@ EXCEPT !.identity["repository"] = Identity("repository"), !.at = "write"]
                  ELSE Ended(g, FALSE)]
  /\ UNCHANGED <<world, journals, runfiles, rewritten, replay, moved>>

BuiltBy(g) == BuildJournal(gather[g].id, gather[g].identity, [i \in 1..Len(EventKinds) |-> 0])

\* Mutant: the journal is replaced like any other generated file.
WriteRunJournal_Replaces(g) ==
  /\ gather[g].at = "write"
  /\ gather' = [gather EXCEPT ![g] = Ended(g, TRUE)]
  /\ journals' = [journals EXCEPT ![gather[g].id] = <<BuiltBy(g)>>]
  /\ UNCHANGED <<world, runfiles, rewritten, replay, moved>>

\* Mutant: the path is reported whether or not the file was created.
WriteRunJournal_Claims(g) ==
  /\ gather[g].at = "write"
  /\ \E created \in BOOLEAN :
       /\ created => journals[gather[g].id] = <<>>
       /\ gather' = [gather EXCEPT ![g] = Ended(g, TRUE)]
       /\ journals' = IF created THEN [journals EXCEPT ![gather[g].id] = <<BuiltBy(g)>>] ELSE journals
  /\ UNCHANGED <<world, runfiles, rewritten, replay, moved>>

\* write_run_journal creates the file or, when there is one or the disk
\* refuses, goes on without.
WriteRunJournal(g) ==
  /\ gather[g].at = "write"
  /\ \E created \in BOOLEAN :
       /\ created => journals[gather[g].id] = <<>>
       /\ gather' = [gather EXCEPT ![g] = Ended(g, created)]
       /\ journals' = IF created THEN [journals EXCEPT ![gather[g].id] = <<BuiltBy(g)>>] ELSE journals
  /\ UNCHANGED <<world, runfiles, rewritten, replay, moved>>

\* LocalRunStore.add: open with "x", then write.
OpenRunFile(g) ==
  /\ gather[g].at = "persist"
  /\ IF runfiles[gather[g].id] = "none"
       THEN /\ gather' = [gather EXCEPT ![g].at = "persisting"]
            /\ runfiles' = [runfiles EXCEPT ![gather[g].id] = "partial"]
            /\ moved' = TRUE
       ELSE /\ gather' = [gather EXCEPT ![g] = Ended(g, FALSE)]
            /\ UNCHANGED <<runfiles, moved>>
  /\ UNCHANGED <<world, journals, rewritten, replay>>

WriteRunFile(g) ==
  /\ gather[g].at = "persisting"
  /\ gather' = [gather EXCEPT ![g] = Ended(g, FALSE)]
  /\ runfiles' = [runfiles EXCEPT ![gather[g].id] = "whole"]
  /\ moved' = TRUE
  /\ UNCHANGED <<world, journals, rewritten, replay>>

\* The process of a gather dies; what it wrote stays.
GatherDies(g) ==
  /\ gather[g].at \notin {"idle", "done"}
  /\ gather' = [gather EXCEPT ![g] = Ended(g, FALSE)]
  /\ UNCHANGED <<world, journals, runfiles, rewritten, replay, moved>>

-----------------------------------------------------------------------------
(* A stored journal is edited: one part of it, one digest, or all of it. *)

Junk(e) == [e EXCEPT !.kind = "junk"]
Forged(e) == LET other == [e EXCEPT !.payload = 1 - @] IN [other EXCEPT !.digest = <<Body(other)>>]
Without(s, i) == [k \in 1..(Len(s) - 1) |-> IF k < i THEN s[k] ELSE s[k + 1]]
Swapped(s, i) == [s EXCEPT ![i] = s[i + 1], ![i + 1] = s[i]]
Resealed(j) == [j EXCEPT !.digest = JournalDigest(j)]

EditsAt(events, i) ==
  {[events EXCEPT ![i].payload = 1 - @], [events EXCEPT ![i] = Junk(@)],
   [events EXCEPT ![i] = Forged(@)], Without(events, i)}

EventEdits(events) ==
  (UNION {EditsAt(events, i) : i \in 1..Len(events)})
  \cup {Swapped(events, i) : i \in 1..(Len(events) - 1)}

Edits(j) ==
  {[j EXCEPT !.events = events] : events \in EventEdits(j.events)}
  \cup {[j EXCEPT !.retrieval = 1 - @], [j EXCEPT !.selected = 1 - @], [j EXCEPT !.schema = "v1"],
        [j EXCEPT !.head = <<>>], [j EXCEPT !.identity["workspace"] = Identity("workspace")]}
  \cup {[j EXCEPT !.id = id] : id \in RunIds}

\* An editor changes a stored journal, with or without the digest of the whole,
\* or rewrites it with every digest computed anew.
EditJournal(id) ==
  /\ journals[id] # <<>> /\ id \notin rewritten
  /\ \A g \in Gathers : gather[g].at \in {"idle", "done"}
  /\ LET j == journals[id][1] IN
       \E edited \in Edits(j) \cup {Resealed(e) : e \in Edits(j)}
                     \cup {BuildJournal(j.id, [j.identity EXCEPT !["workspace"] = Identity("workspace")],
                                        [i \in 1..Len(EventKinds) |-> 1 - j.events[1].payload])} :
         journals' = [journals EXCEPT ![id] = <<edited>>]
  /\ rewritten' = rewritten \cup {id}
  /\ UNCHANGED <<world, gather, runfiles, replay, moved>>

-----------------------------------------------------------------------------
(* verify and replay. *)

\* Mutant: the aggregate fingerprint is not compared.
Drifted_WorkspaceOnly(f, recorded) == f # "repository" /\ Identity(f) # recorded[f]

\* The repository fingerprint is compared when the journal has one.
Drifted(f, recorded) == Identity(f) # recorded[f] /\ ~(f = "repository" /\ recorded[f] = <<>>)

\* Mutant: like `run verify`, a journal without a v2 schema is not verified.
Releasable_AnySchema(id) == journals[id][1].schema = "v2" => VerifyReplayJournal(journals[id][1], id)

\* Whether replay goes on with a stored journal.
Releasable(id) == VerifyReplayJournal(journals[id][1], id)

\* read_run_journal, and the integrity of what was read.  replay requires it
\* of every journal, `run verify` only of one that says it is a v2 journal.
ReadRunJournal ==
  /\ replay.at \in {"idle", "done"}
  /\ \E id \in RunIds, releases \in BOOLEAN :
       LET found == journals[id] # <<>>
           goesOn == found /\ (Releasable(id) \/ (~releases /\ journals[id][1].schema # "v2"))
           recorded == journals[id][1].identity
       IN  replay' = IF ~goesOn THEN [NoReplay EXCEPT !.at = "done", !.id = id]
                     ELSE [NoReplay EXCEPT !.at = "workspace", !.id = id, !.events = releases,
                             !.recorded = recorded,
                             !.drift = {f \in {"config"} : Drifted(f, recorded)}]
  /\ moved' = FALSE
  /\ UNCHANGED <<world, gather, journals, runfiles, rewritten>>

\* _compatibility_from_record: the current fingerprints, one after the other.
ReadField(f, next) ==
  /\ replay.at = f
  /\ LET drift == replay.drift \cup {x \in {f} : Drifted(x, replay.recorded)} IN
       replay' = [replay EXCEPT !.drift = drift, !.at = next,
                                !.compatible = next = "done" /\ drift = {}]
  /\ UNCHANGED <<world, gather, journals, runfiles, rewritten, moved>>

ReplayNext ==
  \/ ReadRunJournal
  \/ ReadField("workspace", "graph")
  \/ ReadField("graph", "repository")
  \/ ReadField("repository", "done")

GatherNext(g) ==
  \/ StartGather(g) \/ TakeSnapshot(g) \/ EmitTrace(g) \/ AggregateIdentity(g)
  \/ WriteRunJournal(g) \/ OpenRunFile(g) \/ WriteRunFile(g) \/ GatherDies(g)

JournalNext ==
  \/ ChangeWorld
  \/ \E g \in Gathers : GatherNext(g)
  \/ \E id \in RunIds : EditJournal(id)
  \/ ReplayNext

JournalSpec == JournalInit /\ [][JournalNext]_journalVars

-----------------------------------------------------------------------------
(* Properties. *)

JournalTypeOK ==
  /\ world \in [Facets -> 0..MaxVersion]
  /\ \A g \in Gathers :
       /\ gather[g].at \in {"idle", "selected", "trace", "aggregate", "write", "persist",
                            "persisting", "done"}
       /\ gather[g].at = "persisting" => runfiles[gather[g].id] = "partial"
       /\ gather[g].journal => journals[gather[g].id] # <<>>
  /\ runfiles \in [RunIds -> {"none", "partial", "whole"}]
  /\ replay.at \in {"idle", "workspace", "graph", "repository", "done"}

\* Integrity: whatever was done to a stored journal, it verifies exactly when
\* it is what build_replay_journal makes of the identity and the payloads it
\* holds, for the run it is stored as.
TamperEvident ==
  \A id \in RunIds : journals[id] # <<>> =>
    LET j == journals[id][1] IN
    VerifyReplayJournal(j, id) <=>
      /\ Len(j.events) = Len(EventKinds)
      /\ j = BuildJournal(id, j.identity, [i \in 1..Len(j.events) |-> j.events[i].payload])

\* Replay releases the events of such a journal only, drifted or not, whatever
\* schema the stored one says it has.
ReleasedIntact ==
  [][replay.at # "workspace" /\ replay'.at = "workspace" /\ replay'.events =>
       \E payloads \in [1..Len(EventKinds) -> 0..1] :
         LET j == journals[replay'.id][1] IN j = BuildJournal(replay'.id, j.identity, payloads)]_journalVars

\* Drift: a command that calls a journal compatible, in a workspace that nobody
\* changed meanwhile, has found every identity the journal records as it is.
CompatibleMeansSame ==
  replay.at = "done" /\ replay.compatible /\ ~moved =>
    \A f \in Fields : replay.recorded[f] = Identity(f)

\* The journal of a run and its run record are immutable: no gather replaces
\* what an earlier one, or one with the same run id, wrote.
CreateOnce ==
  [][\A id \in RunIds :
       /\ journals[id] # <<>> /\ id \notin rewritten' => journals'[id] = journals[id]
       /\ runfiles[id] = "whole" => runfiles'[id] = "whole"]_journalVars

\* Journals and run files are created once, an edited journal does not verify,
\* replay releases only what was built, and a journal is compatible only with the
\* workspace it was recorded in (run_journal.py, provenance.py).
JournalSafety ==
  /\ [](JournalTypeOK /\ TamperEvident /\ CompatibleMeansSame)
  /\ ReleasedIntact /\ CreateOnce
=============================================================================
