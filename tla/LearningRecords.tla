-------------------------- MODULE LearningRecords ---------------------------
(***************************************************************************)
(* The evidence of the learning loop: the immutable decision, observation  *)
(* and outcome files of retrieval_learning.py, and their SQLite mirror in  *)
(* production_store.py.  Gather runs and recorders of verified outcomes    *)
(* write concurrently; an operator backfills (production sync) and         *)
(* compares (production reconcile); a process may crash, a call may raise, *)
(* and the host may lose power.                                            *)
(*                                                                         *)
(* A gather run has one decision id, and a second one if it falls back.    *)
(* The payload of an outcome is its recorder: recorded_at alone makes the  *)
(* payloads of two recorders differ.  With the mirror switched off         *)
(* mirror_learning_event does nothing, as in MirrorFails.                  *)
(***************************************************************************)
EXTENDS Integers, FiniteSets

CONSTANTS
  Runs,        \* gather runs (learning mode is not "off")
  Recorders,   \* calls of record_verified_outcome
  None,        \* no record
  MaxFaults,   \* bound: errors raised by the file system or by SQLite
  MaxLosses    \* bound: power losses of the host

VARIABLES
  pc,            \* where each writer is
  arm,           \* per run: the retrieval arm it uses
  writing,       \* per writer: the record at hand
  files,         \* the JSON records readers see
  durable,       \* ... of which the directory entry is on disk
  store,         \* rows of the SQLite store
  task, dir, todo, seen,  \* the operator's command and its progress
  verdict,       \* what the last command answered
  faults, losses,
  \* History variables: no action reads them.
  acknowledged,  \* records whose write returned normally
  lost,          \* records a power loss took away
  backlog        \* records readers saw when the operator's command began

writers == <<pc, arm, writing>>
operator == <<task, dir, todo, seen, verdict, backlog>>
vars == <<pc, arm, writing, files, durable, store, task, dir, todo, seen, verdict,
          faults, losses, acknowledged, lost, backlog>>

Writers == Runs \cup Recorders
Kinds == {"decision", "observation", "outcome"}
Arms == {"candidate", "baseline"}
Record == [kind : Kinds, run : Runs, attempt : {1, 2},
           body : Arms \cup {"observed"} \cup Recorders]

ASSUME WritersAssumption ==
  /\ Runs \cap Recorders = {}
  /\ None \notin Record
  /\ MaxFaults \in Nat
  /\ MaxLosses \in Nat

\* The order in which sync and reconcile visit the directories.
Directories == <<"decision", "observation", "outcome">>

Decision(r, n, a) == [kind |-> "decision", run |-> r, attempt |-> n, body |-> a]

\* The same file name, the same event id.
SameName(a, b) == a.kind = b.kind /\ a.run = b.run /\ a.attempt = b.attempt

TypeOK ==
  /\ pc \in [Writers -> {"idle", "publish", "flush", "mirror", "execute", "done", "dead"}]
  /\ arm \in [Runs -> Arms]
  /\ writing \in [Writers -> Record \cup {None}]
  /\ files \subseteq Record /\ durable \subseteq files /\ store \subseteq Record
  /\ task \in {"idle", "sync", "reconcile"} /\ dir \in 1..4
  /\ todo \subseteq Record /\ seen \subseteq Record
  /\ verdict \in {"none", "synced", "failed", "consistent", "inconsistent"}
  /\ faults \in 0..MaxFaults /\ losses \in 0..MaxLosses
  /\ acknowledged \subseteq Record /\ lost \subseteq Record /\ backlog \subseteq Record

Init ==
  /\ pc = [w \in Writers |-> "idle"]
  /\ arm = [r \in Runs |-> "baseline"]
  /\ writing = [w \in Writers |-> None]
  /\ files = {} /\ durable = {} /\ store = {}
  /\ task = "idle" /\ dir = 1 /\ todo = {} /\ seen = {}
  /\ verdict = "none"
  /\ faults = 0 /\ losses = 0
  /\ acknowledged = {} /\ lost = {} /\ backlog = {}
-----------------------------------------------------------------------------
Goto(w, label) == pc' = [pc EXCEPT ![w] = label]
Hold(w, record) == writing' = [writing EXCEPT ![w] = record]
Fault == faults < MaxFaults /\ faults' = faults + 1

\* append_production_event: the same payload again is accepted, another one
\* under the same event id is refused.
Conflicts(record) == \E row \in store : SameName(row, record) /\ row # record
Append(record) == store' = IF Conflicts(record) THEN store ELSE store \cup {record}

\* A write function returns: the run goes on to retrieve, other calls are over.
Return(w) ==
  /\ acknowledged' = acknowledged \cup {writing[w]}
  /\ IF writing[w].kind = "decision"
       THEN Goto(w, "execute") /\ UNCHANGED writing
       ELSE Goto(w, "done") /\ Hold(w, None)
  /\ UNCHANGED arm

\* Mutant: a candidate that cannot be logged retrieves unlogged.
Raise_KeepsCandidate(w) ==
  /\ Hold(w, None)
  /\ Goto(w, IF writing[w].kind = "decision" THEN "execute" ELSE "done")
  /\ UNCHANGED <<arm, acknowledged>>

\* Mutant: every failing decision falls back to one with a new id.
Raise_AlwaysFallsBack(w) ==
  /\ IF writing[w].kind = "decision"
       THEN /\ Hold(w, Decision(w, writing[w].attempt + 1, "baseline"))
            /\ arm' = [arm EXCEPT ![w] = "baseline"]
            /\ Goto(w, "publish")
       ELSE Hold(w, None) /\ Goto(w, "done") /\ UNCHANGED arm
  /\ UNCHANGED acknowledged

\* A write function raises OSError (FileExistsError is one).  A candidate
\* decision that cannot be logged is replaced by a baseline decision with an
\* id of its own (baseline_fallback); failing again, or for a baseline choice,
\* the run retrieves with the baseline unlogged.
Raise(w) ==
  /\ IF writing[w].kind = "decision"
       THEN IF writing[w].body = "candidate"
              THEN /\ Hold(w, Decision(w, 2, "baseline"))
                   /\ arm' = [arm EXCEPT ![w] = "baseline"]
                   /\ Goto(w, "publish")
              ELSE Hold(w, None) /\ Goto(w, "execute") /\ UNCHANGED arm
       ELSE Hold(w, None) /\ Goto(w, "done") /\ UNCHANGED arm
  /\ UNCHANGED acknowledged
-----------------------------------------------------------------------------
\* choose_learning_decision: explored or not, by deployment or by sampling.
Choose(r) ==
  /\ pc[r] = "idle"
  /\ \E a \in Arms :
       /\ arm' = [arm EXCEPT ![r] = a]
       /\ Hold(r, Decision(r, 1, a))
  /\ Goto(r, "publish")
  /\ UNCHANGED <<files, durable, store, operator, faults, losses, acknowledged, lost>>

\* Mutant: the decision is not looked up.
RecordOutcome_UnknownDecision(w) ==
  /\ pc[w] = "idle"
  /\ \E r \in Runs, n \in {1, 2} :
       Hold(w, [kind |-> "outcome", run |-> r, attempt |-> n, body |-> w])
  /\ Goto(w, "publish")
  /\ UNCHANGED <<arm, files, durable, store, operator, faults, losses, acknowledged, lost>>

\* record_verified_outcome: the decision is there and readable.
RecordOutcome(w) ==
  /\ pc[w] = "idle"
  /\ \E d \in files :
       /\ d.kind = "decision"
       /\ Hold(w, [kind |-> "outcome", run |-> d.run, attempt |-> d.attempt, body |-> w])
  /\ Goto(w, "publish")
  /\ UNCHANGED <<arm, files, durable, store, operator, faults, losses, acknowledged, lost>>

\* Mutant: the directory is not flushed before the record is mirrored.
Publish_Unflushed(w) ==
  /\ pc[w] = "publish"
  /\ IF \E f \in files : SameName(f, writing[w])
       THEN Raise(w) /\ UNCHANGED files
       ELSE /\ files' = files \cup {writing[w]}
            /\ Goto(w, "mirror")
            /\ UNCHANGED <<arm, writing, acknowledged>>
  /\ UNCHANGED <<durable, store, operator, faults, losses, lost>>

\* atomic_create_text: the complete temporary file is linked to its name.
Publish(w) ==
  /\ pc[w] = "publish"
  /\ IF \E f \in files : SameName(f, writing[w])
       THEN Raise(w) /\ UNCHANGED files
       ELSE /\ files' = files \cup {writing[w]}
            /\ Goto(w, "flush")
            /\ UNCHANGED <<arm, writing, acknowledged>>
  /\ UNCHANGED <<durable, store, operator, faults, losses, lost>>

\* Mutant: the event is mirrored although the file was not written.
PublishFails_StillMirrors(w) ==
  /\ pc[w] = "publish"
  /\ Fault
  /\ Goto(w, "mirror")
  /\ UNCHANGED <<arm, writing, files, durable, store, operator, losses, acknowledged, lost>>

PublishFails(w) ==
  /\ pc[w] = "publish"
  /\ Fault
  /\ Raise(w)
  /\ UNCHANGED <<files, durable, store, operator, losses, lost>>

\* fsync_directory: every entry of the directory reaches the disk.
Flushed(w) == durable \cup {f \in files : f.kind = writing[w].kind}
Flush(w) ==
  /\ pc[w] = "flush"
  /\ durable' = Flushed(w)
  /\ Goto(w, "mirror")
  /\ UNCHANGED <<arm, writing, files, store, operator, faults, losses, acknowledged, lost>>

\* fsync_directory or the removal of the temporary file raises: readers keep
\* seeing the record although the caller is told that it was not written.
FlushFails(w) ==
  /\ pc[w] = "flush"
  /\ Fault
  /\ durable' \in {durable, Flushed(w)}
  /\ Raise(w)
  /\ UNCHANGED <<files, store, operator, losses, lost>>

\* mirror_learning_event.
Mirror(w) ==
  /\ pc[w] = "mirror"
  /\ Append(writing[w])
  /\ Return(w)
  /\ UNCHANGED <<files, durable, operator, faults, losses, lost>>

\* Errors of the mirror are swallowed.
MirrorFails(w) ==
  /\ pc[w] = "mirror"
  /\ Fault
  /\ Return(w)
  /\ UNCHANGED <<files, durable, store, operator, losses, lost>>

\* Mutant: the observation is filed under the id that was chosen first.
Retrieve_FirstId(r) ==
  /\ pc[r] = "execute"
  /\ IF writing[r] = None
       THEN Goto(r, "done") /\ UNCHANGED writing
       ELSE /\ Hold(r, [kind |-> "observation", run |-> r, attempt |-> 1,
                        body |-> "observed"])
            /\ Goto(r, "publish")
  /\ UNCHANGED <<arm, files, durable, store, operator, faults, losses, acknowledged, lost>>

\* WorkflowEngine.gather retrieves with the arm and then writes the
\* observation of a logged decision.
Retrieve(r) ==
  /\ pc[r] = "execute"
  /\ IF writing[r] = None
       THEN Goto(r, "done") /\ UNCHANGED writing
       ELSE /\ Hold(r, [kind |-> "observation", run |-> writing[r].run,
                        attempt |-> writing[r].attempt, body |-> "observed"])
            /\ Goto(r, "publish")
  /\ UNCHANGED <<arm, files, durable, store, operator, faults, losses, acknowledged, lost>>

Crash(w) ==
  /\ pc[w] \notin {"idle", "done", "dead"}
  /\ Goto(w, "dead")
  /\ UNCHANGED <<arm, writing, files, durable, store, operator, faults, losses,
                 acknowledged, lost>>

\* The host loses power: every running process dies, committed SQLite rows
\* survive (synchronous=FULL), directory entries that were not flushed may not.
PowerLoss ==
  /\ losses < MaxLosses
  /\ losses' = losses + 1
  /\ \E gone \in SUBSET (files \ durable) :
       /\ files' = files \ gone
       /\ durable' = files \ gone
       /\ lost' = lost \cup gone
  /\ pc' = [w \in Writers |-> IF pc[w] \in {"idle", "done"} THEN pc[w] ELSE "dead"]
  /\ task' = "idle" /\ todo' = {} /\ seen' = {} /\ dir' = 1
  /\ UNCHANGED <<arm, writing, store, verdict, faults, acknowledged, backlog>>
-----------------------------------------------------------------------------
(* The operator: sync_learning_store and reconcile_learning_store. *)

Begin(command) ==
  /\ task = "idle"
  /\ task' = command
  /\ dir' = 1 /\ todo' = {} /\ seen' = {}
  /\ verdict' = "none"
  /\ backlog' = files
  /\ UNCHANGED <<writers, files, durable, store, faults, losses, acknowledged, lost>>

Finish(answer) == task' = "idle" /\ verdict' = answer

StartSync == Begin("sync")

\* The names of one directory, listed before the first of them is mirrored.
ListDirectory ==
  /\ task = "sync" /\ todo = {} /\ dir <= 3
  /\ todo' = {f \in files : f.kind = Directories[dir]}
  /\ dir' = dir + 1
  /\ UNCHANGED <<writers, files, durable, store, task, seen, verdict, backlog,
                 faults, losses, acknowledged, lost>>

\* Mutant: a row that is already there is an error.
SyncRecord_NotIdempotent ==
  /\ task = "sync"
  /\ \E record \in todo :
       /\ store' = store \cup {record}
       /\ todo' = todo \ {record}
       /\ IF \E row \in store : SameName(row, record)
            THEN Finish("failed") ELSE UNCHANGED <<task, verdict>>
  /\ UNCHANGED <<writers, files, durable, dir, seen, backlog, faults, losses,
                 acknowledged, lost>>

\* One file; an event id with another payload ends the command.
SyncRecord ==
  /\ task = "sync"
  /\ \E record \in todo :
       /\ Append(record)
       /\ todo' = todo \ {record}
       /\ IF Conflicts(record) THEN Finish("failed") ELSE UNCHANGED <<task, verdict>>
  /\ UNCHANGED <<writers, files, durable, dir, seen, backlog, faults, losses,
                 acknowledged, lost>>

SyncFails ==
  /\ task = "sync" /\ todo # {}
  /\ Fault
  /\ Finish("failed")
  /\ UNCHANGED <<writers, files, durable, store, dir, todo, seen, backlog, losses,
                 acknowledged, lost>>

\* Mutant: the last directory is not visited.
FinishSync_Early ==
  /\ task = "sync" /\ todo = {} /\ dir >= 3
  /\ Finish("synced")
  /\ UNCHANGED <<writers, files, durable, store, dir, todo, seen, backlog, faults,
                 losses, acknowledged, lost>>

FinishSync ==
  /\ task = "sync" /\ todo = {} /\ dir = 4
  /\ Finish("synced")
  /\ UNCHANGED <<writers, files, durable, store, dir, todo, seen, backlog, faults,
                 losses, acknowledged, lost>>

StartReconcile == Begin("reconcile")

ReadDirectory ==
  /\ task = "reconcile" /\ dir <= 3
  /\ seen' = seen \cup {f \in files : f.kind = Directories[dir]}
  /\ dir' = dir + 1
  /\ UNCHANGED <<writers, files, durable, store, task, todo, verdict, backlog,
                 faults, losses, acknowledged, lost>>

\* The rows are read last.  A store that was never opened is inconsistent.
ReadStore ==
  /\ task = "reconcile" /\ dir = 4
  /\ \/ Finish(IF seen = store THEN "consistent" ELSE "inconsistent")
     \/ store = {} /\ Finish("inconsistent")
  /\ UNCHANGED <<writers, files, durable, store, dir, todo, seen, backlog, faults,
                 losses, acknowledged, lost>>

Write(w) == Publish(w) \/ Flush(w) \/ Mirror(w)
WriteFails(w) == PublishFails(w) \/ FlushFails(w) \/ MirrorFails(w)
Sync == ListDirectory \/ SyncRecord \/ FinishSync
Reconcile == ReadDirectory \/ ReadStore

Next ==
  \/ \E r \in Runs : Choose(r) \/ Retrieve(r)
  \/ \E w \in Recorders : RecordOutcome(w)
  \/ \E w \in Writers : Write(w) \/ WriteFails(w) \/ Crash(w)
  \/ StartSync \/ Sync \/ SyncFails
  \/ StartReconcile \/ Reconcile
  \/ PowerLoss

Spec == Init /\ [][Next]_vars

\* Commands that were started proceed, and the operator runs sync again and
\* again.  Nothing is assumed of the writers.
Fairness == SF_vars(StartSync) /\ WF_vars(Sync) /\ WF_vars(Reconcile)
FairSpec == Spec /\ Fairness
-----------------------------------------------------------------------------
\* A run that retrieves with the candidate arm has its decision on disk, and
\* readers agree with it on the arm; whatever failed before, prepare_learning_
\* decision let no candidate through unlogged.
CandidateIsLogged ==
  \A r \in Runs : pc[r] = "execute" /\ arm[r] = "candidate" =>
                    Decision(r, 1, "candidate") \in durable

\* A record whose write function returned stays what readers see, with that
\* payload, across crashes, other recorders and power losses.
AcknowledgedStays == acknowledged \subseteq files

\* An observation is filed under the decision whose arm the run used: the one
\* of the fallback, never the candidate decision that may have become visible
\* before its write raised.
ObservationMatchesArm ==
  \A f \in files : f.kind = "observation" =>
    Decision(f.run, f.attempt, arm[f.run]) \in files \cup lost

\* A file name is given away once, and an outcome belongs to a decision; only
\* a power loss can take that decision away again.
OutcomeBelongs ==
  \A f \in files :
    /\ \A g \in files : SameName(f, g) => f = g
    /\ f.kind = "outcome" =>
         \E d \in files \cup lost :
           d.kind = "decision" /\ d.run = f.run /\ d.attempt = f.attempt

\* Every row of the mirror is a record readers see, with the same payload,
\* unless a power loss took the record; no writer's mirror step, only a sync
\* that reads before the flush, can leave such a row behind.
MirrorFollowsFiles ==
  store \subseteq files \cup lost
MirroredByWriterIsDurable ==
  [][\A w \in Writers : pc[w] = "mirror" /\ pc'[w] # "mirror" =>
       store' \ store \subseteq durable]_vars

\* A sync that returns has mirrored every record there was when it began, and
\* a reconcile that answers "consistent" has found each of them in the store,
\* although runs keep writing while the directories are visited one by one.
AnswersCoverBacklog ==
  verdict \in {"synced", "consistent"} => backlog \subseteq store

\* Without a power loss, repeated syncs complete the mirror in spite of
\* mirror failures, crashed writers and failed syncs.
EventuallyBackfilled == []<>(files \subseteq store)

\* The two representations of the evidence never disagree on a payload.
SameEvidence == \A f \in files : ~Conflicts(f)
=============================================================================
