------------------------ MODULE DeploymentStateLock -------------------------
(***************************************************************************)
(* deployment_state.py: processes that create or update one deployment     *)
(* state file under the directory lock of _state_lock, with its lease, its *)
(* recovery of stale locks, crashes and I/O errors.                        *)
(*                                                                         *)
(* One element of Procs is one operating-system process.  It performs any  *)
(* number of calls, one after the other, until it exits or crashes; its    *)
(* pid is then dead for good (pid reuse is not modelled).  The token of a  *)
(* call is the process: an owner.json left by an earlier call of the same  *)
(* process can never be found by a later call that holds the lock.         *)
(***************************************************************************)
EXTENDS Integers, Sequences, FiniteSets

CONSTANTS
  Procs,          \* processes
  None,           \* no process
  HostOf,         \* the host each process runs on
  Posix,          \* os.name # "nt": os.kill(pid, 0) tells whether a pid lives
  Reports,        \* guardrail reports an operator may hand to a promotion
  InitialStates,  \* rollouts a behaviour may start from
  PromptHolders,  \* environment: is every live holder done within its lease?
  MaxCrashes,     \* bound: processes that exit or crash
  MaxFaults       \* bound: OSErrors raised by the file system

ASSUME ProcsAssumption ==
  /\ None \notin Procs
  /\ DOMAIN HostOf = Procs
  /\ Posix \in BOOLEAN
  /\ PromptHolders \in BOOLEAN
  /\ MaxCrashes \in Nat
  /\ MaxFaults \in Nat

VARIABLES
  pc,       \* where each process is in its call
  lock,     \* the lock directory: who made it, its owner.json, its age
  file,     \* the state file
  audits,   \* the audit events published under events/
  next,     \* per process: the state it built from the one it loaded
  faults,   \* OSErrors so far
  \* History variables: no action reads them.
  judged,   \* processes for which the lock is still as it was when they timed it
  robbed    \* processes whose lock directory another one has taken away

vars == <<pc, lock, file, audits, next, faults, judged, robbed>>

L == INSTANCE DeploymentLedger WITH state <- file

ASSUME InitialStatesAssumption ==
  \A s \in InitialStates : s \in L!RolloutState /\ L!HistoryReplays(s)

NoLock == [by |-> None, owner |-> None, age |-> "young"]
Locked == lock.by # None

\* The lock is held from the mkdir until the release has removed it.
Holding == {"own", "load", "write", "audit", "check", "rmtree", "rmdir"}
PC == Holding \cup {"idle", "mkdir", "stat", "probe", "rename", "remkdir", "dead"}

\* The audit event of state s, and the events of all transitions that led to s.
Event(s) == [generation |-> s.generation, stage |-> s.stage]
EventsOf(s) == {[generation |-> s.history[i].generation, stage |-> s.history[i].to] :
                  i \in DOMAIN s.history}

TypeOK ==
  /\ pc \in [Procs -> PC]
  /\ lock \in [by : Procs \cup {None}, owner : Procs \cup {None},
               age : {"young", "expired"}]
  /\ file \in L!RolloutState
  /\ audits \subseteq [generation : Nat, stage : L!DEPLOYMENT_STAGES]
  /\ next \in [Procs -> L!RolloutState]
  /\ faults \in Nat
  /\ judged \subseteq Procs
  /\ robbed \subseteq Procs

Init ==
  /\ pc = [p \in Procs |-> "idle"]
  /\ lock = NoLock
  /\ file \in InitialStates
  /\ audits = EventsOf(file)
  /\ next = [p \in Procs |-> L!Absent]
  /\ faults = 0
  /\ judged = {}
  /\ robbed = {}
-----------------------------------------------------------------------------
Goto(p, label) == pc' = [pc EXCEPT ![p] = label]

\* The body of the with statement is left, normally or by an exception.
LeaveBody(p) == Goto(p, "check") /\ next' = [next EXCEPT ![p] = L!Absent]

\* The lock directory disappears, by the hand of process p.
TakeAway(p) ==
  /\ lock' = NoLock
  /\ judged' = {}
  /\ robbed' = IF lock.by # p /\ lock.by \in Procs /\ pc[lock.by] \in Holding
                 THEN robbed \cup {lock.by} ELSE robbed

\* Can p tell whether the process that wrote owner.json is alive?
Local(p, q) == Posix /\ HostOf[p] = HostOf[q]
Fault == faults < MaxFaults /\ faults' = faults + 1

Start(p) ==
  /\ pc[p] = "idle"
  /\ Goto(p, "mkdir")
  /\ UNCHANGED <<lock, file, audits, next, faults, judged, robbed>>

\* Mutant: mkdir with exist_ok, as a caller that forgets the lock may be taken.
Mkdir_ExistOk(p) ==
  /\ pc[p] \in {"mkdir", "remkdir"}
  /\ Goto(p, "own")
  /\ lock' = IF Locked THEN lock ELSE [by |-> p, owner |-> None, age |-> "young"]
  /\ UNCHANGED <<file, audits, next, faults, judged, robbed>>

\* lock.mkdir, on either attempt.
Mkdir(p) ==
  /\ pc[p] \in {"mkdir", "remkdir"}
  /\ IF Locked
       THEN /\ Goto(p, IF pc[p] = "mkdir" THEN "stat" ELSE "idle")
            /\ UNCHANGED lock
       ELSE /\ Goto(p, "own")
            /\ lock' = [by |-> p, owner |-> None, age |-> "young"]
  /\ UNCHANGED <<file, audits, next, faults, judged, robbed>>

\* _recover_stale_lock: the age of the directory.
StatLock(p) ==
  /\ pc[p] = "stat"
  /\ IF Locked /\ lock.age = "expired"
       THEN Goto(p, "probe") /\ judged' = judged \cup {p}
       ELSE Goto(p, "idle") /\ UNCHANGED judged
  /\ UNCHANGED <<lock, file, audits, next, faults, robbed>>

\* Mutant: the pid of the owner is not probed.
ProbeOwner_Unprobed(p) ==
  /\ pc[p] = "probe"
  /\ Goto(p, "rename")
  /\ UNCHANGED <<lock, file, audits, next, faults, judged, robbed>>

\* Mutant: a directory whose owner.json was never written is somebody's.
ProbeOwner_MissingProtects(p) ==
  /\ pc[p] = "probe"
  /\ IF lock.owner \notin Procs \/ (Local(p, lock.owner) /\ pc[lock.owner] # "dead")
       THEN Goto(p, "idle") /\ judged' = judged \ {p}
       ELSE Goto(p, "rename") /\ UNCHANGED judged
  /\ UNCHANGED <<lock, file, audits, next, faults, robbed>>

\* _recover_stale_lock: the owner and its pid.  A missing owner.json, an owner
\* on another host and an unanswered probe do not protect the lock.
ProbeOwner(p) ==
  /\ pc[p] = "probe"
  /\ IF lock.owner \in Procs /\ Local(p, lock.owner) /\ pc[lock.owner] # "dead"
       THEN Goto(p, "idle") /\ judged' = judged \ {p}
       ELSE Goto(p, "rename") /\ UNCHANGED judged
  /\ UNCHANGED <<lock, file, audits, next, faults, robbed>>

\* _recover_stale_lock: whatever directory is at the path now is moved to a
\* private name and deleted there.
RenameLock(p) ==
  /\ pc[p] = "rename"
  /\ IF Locked
       THEN Goto(p, "remkdir") /\ TakeAway(p)
       ELSE Goto(p, "idle") /\ UNCHANGED <<lock, judged, robbed>>
  /\ UNCHANGED <<file, audits, next, faults>>

\* atomic_write_json(owner.json): re-creates the directory if it is gone and
\* replaces the owner.json it finds; either way the directory is young again.
WriteOwner(p) ==
  /\ pc[p] = "own"
  /\ lock' = [by |-> IF Locked THEN lock.by ELSE p, owner |-> p, age |-> "young"]
  /\ judged' = {}
  /\ Goto(p, "load")
  /\ UNCHANGED <<file, audits, next, faults, robbed>>

\* owner.json cannot be written, or its temporary file went away with the
\* directory: the exception leaves _state_lock before its try block, and what
\* is at the path stays behind.
WriteOwnerFails(p) ==
  /\ pc[p] = "own"
  /\ Fault \/ (lock.by # p /\ UNCHANGED faults)
  /\ Goto(p, "idle")
  /\ UNCHANGED <<lock, file, audits, next, judged, robbed>>

\* Mutant: the ladder is not consulted.
Accepts_AnyTarget(s, target, r) ==
  (s.stage \in L!LIVE_STAGES /\ target # "rolled_back") =>
    r # None /\ r.safe_to_advance /\ r.own_policy

\* transition_deployment_state accepts the target for state s with report r.
Accepts(s, target, r) ==
  /\ L!MayFollow(s.stage, target)
  /\ (s.stage \in L!LIVE_STAGES /\ target # "rolled_back") =>
       /\ r # None
       /\ r.safe_to_advance
       /\ r.own_policy
       /\ r.state_generation = s.generation
       /\ r.stage = s.stage

\* Mutant: a missing file is not noticed.
LoadForUpdate_Unchecked(p) ==
  /\ pc[p] = "load"
  /\ \E target \in L!DEPLOYMENT_STAGES, r \in Reports \cup {None} :
       IF Accepts(file, target, r)
         THEN /\ next' = [next EXCEPT ![p] = L!Advance(file, target)]
              /\ Goto(p, "write")
         ELSE Goto(p, "check") /\ UNCHANGED next
  /\ UNCHANGED <<lock, file, audits, faults, judged, robbed>>

\* The body of update_deployment_state_file up to the write: load, verify,
\* compare the expected generation (0: none given), transition.
LoadForUpdate(p) ==
  /\ pc[p] = "load"
  /\ \E target \in L!DEPLOYMENT_STAGES, r \in Reports \cup {None},
        expected \in {0, file.generation, file.generation + 1} :
       IF /\ file # L!Absent
          /\ expected \in {0, file.generation}
          /\ Accepts(file, target, r)
         THEN /\ next' = [next EXCEPT ![p] = L!Advance(file, target)]
              /\ Goto(p, "write")
         ELSE Goto(p, "check") /\ UNCHANGED next
  /\ UNCHANGED <<lock, file, audits, faults, judged, robbed>>

\* The body of write_new_deployment_state up to the write.
LoadForCreate(p) ==
  /\ pc[p] = "load"
  /\ IF file = L!Absent
       THEN /\ next' = [next EXCEPT ![p] = L!ApprovedState]
            /\ Goto(p, "write")
       ELSE Goto(p, "check") /\ UNCHANGED next
  /\ UNCHANGED <<lock, file, audits, faults, judged, robbed>>

\* Mutant: the audit event is forgotten.
WriteState_Unaudited(p) ==
  /\ pc[p] = "write"
  /\ file' = next[p]
  /\ LeaveBody(p)
  /\ UNCHANGED <<lock, audits, faults, judged, robbed>>

\* atomic_write_json(path).
WriteState(p) ==
  /\ pc[p] = "write"
  /\ file' = next[p]
  /\ Goto(p, "audit")
  /\ UNCHANGED <<lock, audits, next, faults, judged, robbed>>

\* The write raises: before os.replace nothing changed, after it (the
\* directory fsync) the new state is in place; no audit event either way.
WriteStateFails(p) ==
  /\ pc[p] = "write"
  /\ Fault
  /\ file' \in {file, next[p]}
  /\ LeaveBody(p)
  /\ UNCHANGED <<lock, audits, judged, robbed>>

\* _write_audit_event: an existing event of that name is left as it is.
WriteAuditEvent(p) ==
  /\ pc[p] = "audit"
  /\ audits' = audits \cup {Event(next[p])}
  /\ LeaveBody(p)
  /\ UNCHANGED <<lock, file, faults, judged, robbed>>

WriteAuditEventFails(p) ==
  /\ pc[p] = "audit"
  /\ Fault
  /\ LeaveBody(p)
  /\ UNCHANGED <<lock, file, audits, judged, robbed>>

\* The finally block of _state_lock: compare the token in owner.json ...
CheckToken(p) ==
  /\ pc[p] = "check"
  /\ Goto(p, IF lock.owner = p THEN "rmtree" ELSE "idle")
  /\ UNCHANGED <<lock, file, audits, next, faults, judged, robbed>>

\* ... and rmtree the directory that is at the path by then: owner.json first,
\* which makes the directory young again,
UnlinkOwner(p) ==
  /\ pc[p] = "rmtree"
  /\ IF Locked
       THEN /\ lock' = [by |-> lock.by, owner |-> None, age |-> "young"]
            /\ judged' = {}
            /\ Goto(p, "rmdir")
       ELSE Goto(p, "idle") /\ UNCHANGED <<lock, judged>>
  /\ UNCHANGED <<file, audits, next, faults, robbed>>

\* then the directory that is at the path by now, if it is empty.
RemoveLock(p) ==
  /\ pc[p] = "rmdir"
  /\ Goto(p, "idle")
  /\ IF Locked /\ lock.owner = None
       THEN TakeAway(p)
       ELSE UNCHANGED <<lock, judged, robbed>>
  /\ UNCHANGED <<file, audits, next, faults>>

\* rmtree(ignore_errors=True) gives up: the directory stays behind.
RemoveLockFails(p) ==
  /\ pc[p] \in {"rmtree", "rmdir"}
  /\ Fault
  /\ Goto(p, "idle")
  /\ UNCHANGED <<lock, file, audits, next, judged, robbed>>

\* The process exits, or crashes in the middle of its call.
Crash(p) ==
  /\ pc[p] # "dead"
  /\ Cardinality({q \in Procs : pc[q] = "dead"}) < MaxCrashes
  /\ Goto(p, "dead")
  /\ next' = [next EXCEPT ![p] = L!Absent]
  /\ judged' = judged \ {p}
  /\ UNCHANGED <<lock, file, audits, faults, robbed>>

\* More than STATE_LOCK_LEASE_SECONDS pass since the directory changed.  With
\* PromptHolders that only happens to a directory nobody is working under.
LeaseExpires ==
  /\ Locked /\ lock.age = "young"
  /\ PromptHolders => \A p \in Procs : pc[p] \notin Holding
  /\ lock' = [by |-> lock.by, owner |-> lock.owner, age |-> "expired"]
  /\ UNCHANGED <<pc, file, audits, next, faults, judged, robbed>>

Step(p) ==
  \/ Mkdir(p) \/ StatLock(p) \/ ProbeOwner(p) \/ RenameLock(p)
  \/ WriteOwner(p) \/ LoadForUpdate(p) \/ LoadForCreate(p)
  \/ WriteState(p) \/ WriteAuditEvent(p)
  \/ CheckToken(p) \/ UnlinkOwner(p) \/ RemoveLock(p)

Failure(p) ==
  \/ WriteOwnerFails(p) \/ WriteStateFails(p) \/ WriteAuditEventFails(p)
  \/ RemoveLockFails(p) \/ Crash(p)

Next ==
  \/ \E p \in Procs : Start(p) \/ Step(p) \/ Failure(p)
  \/ LeaseExpires

Spec == Init /\ [][Next]_vars

\* A process that is running proceeds with its call, callers retry a rollout
\* that was locked, and time passes.
Fairness ==
  /\ \A p \in Procs : WF_vars(Start(p)) /\ WF_vars(Step(p))
  /\ WF_vars(LeaseExpires)
FairSpec == Spec /\ Fairness
-----------------------------------------------------------------------------
\* The history of the state file replays the ladder whatever the interleaving,
\* lost updates included: every write of transition_deployment_state extends a
\* history that was itself in the file.
HistoryIntact == L!HistoryReplays(file)

\* No update is lost while no lock has been taken from a process that was
\* using it: each write of update_deployment_state_file and of
\* write_new_deployment_state is one step of the ledger from what the file
\* holds at that moment, so a rollback is final and generations grow by one.
LedgerUnlessRobbed == [][robbed = {} => L!Next]_file

\* The only way the first lock is lost: _recover_stale_lock renames the
\* directory although it changed since its age was read, or its holder had not
\* written owner.json, or runs where its pid cannot be probed.  In particular
\* the release in _state_lock never removes a lock of another process first.
FirstRobbery ==
  [][(robbed = {} /\ robbed' # {}) =>
       \E p \in Procs :
         /\ pc[p] = "rename" /\ pc'[p] = "remkdir"
         /\ \/ p \notin judged
            \/ lock.owner # lock.by
            \/ ~Local(p, lock.by)]_vars

\* The audit trail never tells of a transition that is not in the rollout.
\* It can miss one only because an OSError or a crash came between the write of
\* the state and _write_audit_event, each costing at most one event.
AuditTrailFaithful ==
  robbed = {} =>
    /\ audits \subseteq EventsOf(file)
    /\ Cardinality(EventsOf(file) \ audits) <=
         faults + Cardinality({p \in Procs : pc[p] \in {"audit", "dead"}})

\* With crashes and failing system calls, as without: the rollout is a run of
\* the ladder until a lock is taken away from its holder, only a directory that
\* was judged stale is taken, and the audit trail tells of no other transition than the
\* rollout's (update_deployment_state_file, write_new_deployment_state).
FaultSafety == []AuditTrailFaithful /\ LedgerUnlessRobbed /\ FirstRobbery

\* A crash cannot leave the rollout locked for good: the lock directory is
\* gone again and again, because callers that find it locked retry and recover
\* it once its lease is over.  The exception is the directory that the rmtree
\* of a process that lives on failed to delete: its pid keeps protecting it.
Undeletable == /\ lock.owner \in Procs
               /\ pc[lock.owner] \notin Holding \cup {"dead"}
NeverLockedForGood == []<>(~Locked \/ Undeletable)

\* What the documentation promises without the condition of
\* LedgerUnlessRobbed: a rolled-back deployment state is terminal.
RolledBackIsTerminal ==
  [][file.stage = "rolled_back" => file' = file]_vars
=============================================================================
