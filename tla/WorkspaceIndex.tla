--------------------------- MODULE WorkspaceIndex ---------------------------
(***************************************************************************)
(* The symbol index of one repository, seen through one source file.  An   *)
(* index run hashes the file, stats it, parses it, and then replaces three *)
(* files one after the other: the symbol rows, the endpoint rows and the   *)
(* state later runs compare with.  The file is edited meanwhile, runs      *)
(* overlap, and any of them may die.  A digest is the content it is of;    *)
(* content 0 is no file.                                                   *)
(***************************************************************************)
EXTENDS Integers

CONSTANTS
  Indexers,    \* processes that index
  MaxFileContent,  \* contents of the file
  MaxEdits     \* edits of the file

ASSUME IndexAssumption == MaxFileContent \in Nat \ {0} /\ MaxEdits \in Nat

VARIABLES
  file,      \* [content, stamp]: the stamp is its size and mtime
  edits,     \* how often it was edited
  symbols,   \* symbol-index.jsonl: [sha, parsed], or NoRow
  endpoints, \* endpoint-index.jsonl, likewise
  state,     \* index-state.json: [sha, stamp], or NoEntry
  indexer,   \* per indexer: where it is and what it holds
  disturbed, \* indexers that ran while the file or the index changed under them
  torn       \* whether some parse was of another content than its hash

indexVars == <<file, edits, symbols, endpoints, state, indexer, disturbed, torn>>

Contents == 0..MaxFileContent
NoRow == [sha |-> 0, parsed |-> 0]
NoEntry == [sha |-> 0, stamp |-> 0]
IdleIndexer == [at |-> "idle", mode |-> "full", old |-> NoEntry, rows |-> NoRow, entry |-> NoEntry, row |-> NoRow]
Modes == {"full", "fast", "strict"}

IndexInit ==
  /\ file = [content |-> 1, stamp |-> 0] /\ edits = 0
  /\ symbols = NoRow /\ endpoints = NoRow /\ state = NoEntry
  /\ indexer = [i \in Indexers |-> IdleIndexer] /\ disturbed = {}
  /\ torn = FALSE

Others(i) == {k \in Indexers \ {i} : indexer[k].at # "idle"}
Running == {k \in Indexers : indexer[k].at # "idle"}

\* An edit, a removal or a checkout; a tool that restores the mtime of a file
\* of the same size leaves the stamp.
EditSourceFile ==
  /\ edits < MaxEdits
  /\ edits' = edits + 1
  /\ \E c \in Contents \ {file.content}, keeps \in BOOLEAN :
       /\ keeps => 0 \notin {c, file.content}
       /\ file' = [content |-> c, stamp |-> IF keeps THEN file.stamp ELSE edits + 1]
  /\ disturbed' = Running
  /\ UNCHANGED <<symbols, endpoints, state, indexer, torn>>

-----------------------------------------------------------------------------
(* Index runs. *)

Advance(i, held) == indexer' = [indexer EXCEPT ![i] = held]
IndexFilesUnchanged == UNCHANGED <<symbols, endpoints, state>>
Untorn == UNCHANGED torn

\* index_workspace: auto picks full when there is no state file yet.  The old
\* state, and then the old rows, are read by an incremental run only.
StartIndex(i) ==
  /\ indexer[i].at = "idle"
  /\ \E mode \in Modes :
       Advance(i, [IdleIndexer EXCEPT !.at = IF mode = "full" THEN "check" ELSE "read",
                                      !.mode = mode, !.old = IF mode = "full" THEN NoEntry ELSE state])
  /\ disturbed' = disturbed \ {i}
  /\ UNCHANGED <<file, edits>> /\ IndexFilesUnchanged /\ Untorn

ReadOldRows(i) ==
  /\ indexer[i].at = "read"
  /\ Advance(i, [indexer[i] EXCEPT !.rows = symbols, !.at = "check"])
  /\ UNCHANGED <<file, edits, disturbed>> /\ IndexFilesUnchanged /\ Untorn

\* Mutant: the stamp is compared whatever the mode.
StatMatches_AnyMode(held) == held.old.sha # 0 /\ held.old.stamp = file.stamp

\* _stat_matches, which strict_hash turns off.
StatMatches(held) == held.mode = "fast" /\ held.old.sha # 0 /\ held.old.stamp = file.stamp

\* A file that is gone has no state and no rows.
CheckFile(i) ==
  /\ indexer[i].at = "check"
  /\ LET held == indexer[i] IN
     Advance(i, IF file.content = 0 THEN [held EXCEPT !.at = "symbols"]
                ELSE IF StatMatches(held) THEN [held EXCEPT !.at = "restat", !.entry.sha = held.old.sha]
                ELSE [held EXCEPT !.at = "hash"])
  /\ UNCHANGED <<file, edits, disturbed>> /\ IndexFilesUnchanged /\ Untorn

\* One whose stat matches keeps its digest and its rows, with the stat it has
\* by now.
RestatFile(i) ==
  /\ indexer[i].at = "restat"
  /\ LET held == indexer[i] IN
     Advance(i, IF file.content = 0 THEN [held EXCEPT !.at = "symbols", !.entry = NoEntry]
                ELSE [held EXCEPT !.at = "symbols", !.entry.stamp = file.stamp, !.row = held.rows])
  /\ UNCHANGED <<file, edits, disturbed>> /\ IndexFilesUnchanged /\ Untorn

\* A file that vanished since fails a full run, and is left out of another.
HashFile(i) ==
  /\ indexer[i].at = "hash"
  /\ LET held == indexer[i] IN
     Advance(i, IF file.content # 0 THEN [held EXCEPT !.at = "stat", !.entry.sha = file.content]
                ELSE IF held.mode = "full" THEN IdleIndexer
                ELSE [held EXCEPT !.at = "symbols"])
  /\ UNCHANGED <<file, edits, disturbed>> /\ IndexFilesUnchanged /\ Untorn

\* Mutant: a full run trusts the rows that are there.
Unchanged_TrustsRows(held, sha) == symbols.sha = sha /\ (held.mode = "full" \/ held.old.sha = sha)

\* Whether a hashed file keeps its old rows.
Unchanged(held, sha) == held.mode # "full" /\ held.old.sha = sha

StatFile(i) ==
  /\ indexer[i].at = "stat"
  /\ LET held == indexer[i] IN
     Advance(i, IF file.content = 0 THEN [held EXCEPT !.at = "symbols", !.entry = NoEntry]
                ELSE IF Unchanged(held, held.entry.sha)
                  THEN [held EXCEPT !.at = "symbols", !.entry.stamp = file.stamp, !.row = held.rows]
                ELSE [held EXCEPT !.at = "parse", !.entry.stamp = file.stamp])
  /\ UNCHANGED <<file, edits, disturbed>> /\ IndexFilesUnchanged /\ Untorn

\* Mutant: a file that vanished still has a row.
ParseFile_Vanished(i) ==
  /\ indexer[i].at = "parse"
  /\ Advance(i, [indexer[i] EXCEPT !.at = "symbols",
                   !.row = [sha |-> indexer[i].entry.sha, parsed |-> file.content]])
  /\ torn' = (torn \/ file.content # indexer[i].entry.sha)
  /\ UNCHANGED <<file, edits, disturbed>> /\ IndexFilesUnchanged

\* _parse_file: of what the file is now, under the digest it had before.
ParseFile(i) ==
  /\ indexer[i].at = "parse"
  /\ Advance(i, [indexer[i] EXCEPT !.at = "symbols",
                   !.row = IF file.content = 0 THEN NoRow
                           ELSE [sha |-> indexer[i].entry.sha, parsed |-> file.content]])
  /\ torn' = (torn \/ file.content # indexer[i].entry.sha)
  /\ UNCHANGED <<file, edits, disturbed>> /\ IndexFilesUnchanged

\* Three atomic replacements; the index is not locked.
WriteSymbols(i) ==
  /\ indexer[i].at = "symbols"
  /\ symbols' = indexer[i].row
  /\ Advance(i, [indexer[i] EXCEPT !.at = "endpoints"])
  /\ disturbed' = disturbed \cup Others(i)
  /\ UNCHANGED <<file, edits, endpoints, state>> /\ Untorn

WriteEndpoints(i) ==
  /\ indexer[i].at = "endpoints"
  /\ endpoints' = indexer[i].row
  /\ Advance(i, [indexer[i] EXCEPT !.at = "state"])
  /\ disturbed' = disturbed \cup Others(i)
  /\ UNCHANGED <<file, edits, symbols, state>> /\ Untorn

WriteState(i) ==
  /\ indexer[i].at = "state"
  /\ state' = indexer[i].entry
  /\ Advance(i, IdleIndexer)
  /\ disturbed' = (disturbed \ {i}) \cup Others(i)
  /\ UNCHANGED <<file, edits, symbols, endpoints>> /\ Untorn

IndexerDies(i) ==
  /\ indexer[i].at # "idle"
  /\ Advance(i, IdleIndexer)
  /\ UNCHANGED <<file, edits, disturbed>> /\ IndexFilesUnchanged /\ Untorn

\* Mutant: the file is not hashed again.
RowFresh_StateOnly(row) == row.sha # 0 /\ file.content # 0 /\ row.sha = state.sha

\* row_fresh, the test every row passes before it becomes evidence.
RowFresh(row) == row.sha # 0 /\ row.sha = state.sha /\ file.content = row.sha

-----------------------------------------------------------------------------
IndexNext ==
  \/ EditSourceFile
  \/ \E i \in Indexers :
       \/ StartIndex(i) \/ ReadOldRows(i) \/ CheckFile(i) \/ RestatFile(i) \/ HashFile(i) \/ StatFile(i) \/ ParseFile(i)
       \/ WriteSymbols(i) \/ WriteEndpoints(i) \/ WriteState(i) \/ IndexerDies(i)

IndexSpec == IndexInit /\ [][IndexNext]_indexVars

-----------------------------------------------------------------------------
(* Properties. *)

IndexTypeOK ==
  /\ file.content \in Contents /\ edits \in 0..MaxEdits
  /\ \A row \in {symbols, endpoints} \cup {indexer[i].row : i \in Indexers} :
       /\ {row.sha, row.parsed} \subseteq Contents
       /\ row.sha = 0 <=> row.parsed = 0
  /\ \A i \in Indexers :
       indexer[i].at \in {"idle", "read", "check", "restat", "hash", "stat", "parse", "symbols", "endpoints", "state"}
  /\ torn \in BOOLEAN /\ disturbed \subseteq Indexers

\* Freshness is authoritative: a row that passes row_fresh describes the file
\* as it is, unless the file changed between the hash and the parse of a run
\* and was changed back.
FreshRowIsCurrent ==
  ~torn =>
    \A row \in {symbols, endpoints} : RowFresh(row) => row.parsed = file.content

Ends(i, mode) == indexer[i].at = "state" /\ indexer'[i].at = "idle" /\ state' = indexer[i].entry
                 /\ indexer[i].mode = mode /\ i \notin disturbed
Repaired == file.content # 0 => symbols = [sha |-> file.content, parsed |-> file.content]
                                /\ endpoints = symbols /\ state'.sha = file.content

\* A full run that nothing disturbed leaves rows that are fresh and of the
\* file as it is, whatever crashes and races left before it.
FullRunRepairs ==
  [][\A i \in Indexers : Ends(i, "full") => Repaired]_indexVars

\* A strict run does so when the rows it found were of the content its state
\* recorded, however the stamps were restored.
StrictRunFollowsEdits ==
  [][\A i \in Indexers :
       Ends(i, "strict") /\ indexer[i].rows.sha = indexer[i].old.sha
         /\ indexer[i].rows.parsed = indexer[i].rows.sha => Repaired]_indexVars

\* Strict mode verifies an index: after a strict run that nothing disturbed the
\* rows are fresh and of the file as it is.  Rows that were stale before keep
\* that from being so (no run checks it; see the README).
StrictRunVerifies ==
  [][\A i \in Indexers : Ends(i, "strict") => Repaired]_indexVars

\* A row that is called fresh is of the file as it is, a full run that nothing
\* disturbs repairs any index, and a strict run follows every edit (indexer.py).
IndexSafety ==
  /\ [](IndexTypeOK /\ FreshRowIsCurrent)
  /\ FullRunRepairs /\ StrictRunFollowsEdits
=============================================================================
