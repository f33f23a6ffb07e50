-------------------------- MODULE WorkspaceRecords --------------------------
(* The two stores of records that several processes of a workspace write to *)
(* without one lock over a command: memories and traces.                    *)
EXTENDS MemoryStore, TraceStore

\* What a store is given it keeps, or loses in the way its limits say: memories
\* under prune and import, traces under pruning.
RecordsSafety == MemorySafety /\ TraceSafety
=============================================================================
