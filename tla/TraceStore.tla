----------------------------- MODULE TraceStore -----------------------------
(***************************************************************************)
(* write_trace at the end of a traced run: a temporary file beside the     *)
(* traces, the rename to the name with the time stamp, and the pruning of  *)
(* the whole directory by age and by number.  Runs of several processes    *)
(* share the directory and take no lock; the glob "*.json" of the pruning  *)
(* also matches the temporary files of other runs.  Files are numbered in  *)
(* the order in which they were written; what a trace says, redaction and  *)
(* the OTLP export, whose errors are swallowed, are left out.              *)
(***************************************************************************)
EXTENDS Integers, FiniteSets

CONSTANTS
  TraceRuns,      \* traced runs, each writes one trace
  MaxTraceFiles,  \* max_trace_files
  OldTraces       \* files of earlier runs

ASSUME TraceAssumption == MaxTraceFiles \in Nat \ {0} /\ OldTraces \in Nat

VARIABLES
  traces,     \* the files that match the glob: number, and is the name temporary?
  expired,    \* numbers past retention_days
  run,        \* per run: where write_trace is, its file and the files it lists
  written,    \* files written so far, the mtime of the next one
  lastOther   \* has another run changed the directory since this one's glob?

traceVars == <<traces, expired, run, written, lastOther>>

OwnFile(r) == {f \in traces : f.at = run[r].at}
Newer(f, files) == {g \in files : g.at > f.at}
NoRun == [pc |-> "ready", at |-> 0, listed |-> {}]

TraceInit ==
  /\ traces = [at : 1..OldTraces, temp : {FALSE}]
  /\ expired \in SUBSET (1..OldTraces)
  /\ run = [r \in TraceRuns |-> NoRun]
  /\ written = OldTraces
  /\ lastOther = {}

Touched(r) == lastOther' = lastOther \cup (TraceRuns \ {r})

\* mkstemp and the write of LocalJsonSink.emit.
WriteTemporary(r) ==
  /\ run[r].pc = "ready"
  /\ written' = written + 1
  /\ traces' = traces \cup {[at |-> written + 1, temp |-> TRUE]}
  /\ run' = [run EXCEPT ![r] = [NoRun EXCEPT !.pc = "written", !.at = written + 1]]
  /\ Touched(r)
  /\ UNCHANGED expired

\* Mutant: a copy instead of a rename.
PublishTrace_Copies(r) ==
  /\ run[r].pc = "written"
  /\ traces' = traces \cup {[f EXCEPT !.temp = FALSE] : f \in OwnFile(r)}
  /\ run' = [run EXCEPT ![r].pc = IF OwnFile(r) = {} THEN "failed" ELSE "published"]
  /\ Touched(r)
  /\ UNCHANGED <<expired, written>>

\* os.replace keeps the mtime; it raises when a pruning has removed the file.
PublishTrace(r) ==
  /\ run[r].pc = "written"
  /\ traces' = (traces \ OwnFile(r)) \cup {[f EXCEPT !.temp = FALSE] : f \in OwnFile(r)}
  /\ run' = [run EXCEPT ![r].pc = IF OwnFile(r) = {} THEN "failed" ELSE "published"]
  /\ Touched(r)
  /\ UNCHANGED <<expired, written>>

\* Mutant: the directory is listed before the rename.
ListTraces_Early(r) ==
  /\ run[r].pc = "published"
  /\ run' = [run EXCEPT ![r].pc = "listed",
                       ![r].listed = traces \cup {[f EXCEPT !.temp = TRUE] : f \in OwnFile(r)}]
  /\ lastOther' = lastOther \ {r}
  /\ UNCHANGED <<traces, expired, written>>

\* _prune_traces: glob, then stat every file to sort them; a file that is gone
\* by then raises, and so does the gather run.
ListTraces(r) ==
  /\ run[r].pc = "published"
  /\ run' = [run EXCEPT ![r].pc = "listed", ![r].listed = traces]
  /\ lastOther' = lastOther \ {r}
  /\ UNCHANGED <<traces, expired, written>>

SortTraces(r) ==
  /\ run[r].pc = "listed"
  /\ run' = [run EXCEPT ![r].pc = IF run[r].listed \subseteq traces THEN "sorted" ELSE "failed"]
  /\ UNCHANGED <<traces, expired, written, lastOther>>

\* Mutants: one file too many stays; the oldest stay.
ToPrune_OneMore(listed) ==
  {f \in listed : f.at \in expired \/ Cardinality(Newer(f, listed)) > MaxTraceFiles}
ToPrune_Newest(listed) ==
  {f \in listed : Cardinality({g \in listed : g.at < f.at}) >= MaxTraceFiles}

\* Expired files go first; of the others the newest max_files stay.
ToPrune(listed) ==
  LET live == {f \in listed : f.at \notin expired}
  IN  (listed \ live) \cup {f \in live : Cardinality(Newer(f, live)) >= MaxTraceFiles}

\* A file that is already gone does no harm now.
PruneTraces(r) ==
  /\ run[r].pc = "sorted"
  /\ traces' = traces \ ToPrune(run[r].listed)
  /\ run' = [run EXCEPT ![r].pc = "done"]
  /\ IF traces' = traces THEN UNCHANGED lastOther ELSE Touched(r)
  /\ UNCHANGED <<expired, written>>

\* The process dies; its temporary file stays.
RunDies(r) ==
  /\ run[r].pc \in {"written", "published", "listed", "sorted"}
  /\ run' = [run EXCEPT ![r].pc = "dead"]
  /\ UNCHANGED <<traces, expired, written, lastOther>>

\* Time passes for the files whose runs are over.
TraceExpires ==
  /\ \E n \in {f.at : f \in traces} \ expired :
       /\ \A r \in TraceRuns : run[r].at = n => run[r].pc \in {"done", "dead", "failed"}
       /\ expired' = expired \cup {n}
  /\ UNCHANGED <<traces, run, written, lastOther>>

TraceNext ==
  \/ TraceExpires
  \/ \E r \in TraceRuns :
       \/ WriteTemporary(r) \/ PublishTrace(r) \/ ListTraces(r)
       \/ SortTraces(r) \/ PruneTraces(r) \/ RunDies(r)

TraceSpec == TraceInit /\ [][TraceNext]_traceVars

-----------------------------------------------------------------------------
(* Properties. *)

\* A name is used once, and a run that has finished left no temporary file.
TraceTypeOK ==
  /\ \A f, g \in traces : f.at = g.at => f = g
  /\ \A r \in TraceRuns :
       run[r].pc \in {"published", "listed", "sorted", "done"} => \A f \in OwnFile(r) : ~f.temp

\* docs/state-and-telemetry.md: max_trace_files caps the local trace count.  With
\* concurrent runs the cap is what a pruning leaves that no other run disturbed.
PruningRestoresCap ==
  [][\A r \in TraceRuns :
       run[r].pc = "sorted" /\ run'[r].pc = "done" /\ r \notin lastOther =>
         Cardinality(traces') <= MaxTraceFiles]_traceVars

\* The path that write_trace returns exists, unless as many newer files were
\* written meanwhile as the directory may hold, or it has expired since.
ReturnedTraceExists ==
  \A r \in TraceRuns :
    run[r].pc = "done" /\ OwnFile(r) = {} =>
      written - run[r].at >= MaxTraceFiles \/ run[r].at \in expired

\* A run fails in write_trace only because of another run: it lost its own
\* temporary file to a pruning, or a file it had listed went before it was sorted.
FailureNeedsAnother ==
  \A r \in TraceRuns : run[r].pc = "failed" => r \in lastOther

\* The trace that write_trace returns exists, a run fails only by the interference
\* of another, and an undisturbed pruning restores the cap.
TraceSafety ==
  /\ [](TraceTypeOK /\ ReturnedTraceExists /\ FailureNeedsAnother)
  /\ PruningRestoresCap
=============================================================================
