----------------------------- MODULE MemoryStore ----------------------------
(***************************************************************************)
(* Durable memory: records in SQLite, each with the hashes of the files it *)
(* is about.  One SQLite transaction is one step; what a command does      *)
(* outside of one (hashing files, judging staleness, reading a JSONL file) *)
(* is a step of its own, so that commands of several processes interleave  *)
(* there.  A file's content is a number, 0 when there is no file; texts,   *)
(* types and scores are left out.                                          *)
(***************************************************************************)
EXTENDS Integers, FiniteSets

CONSTANTS
  MemoryUsers,   \* processes
  MemoryIds,     \* record ids; uuids, so no two adds share one
  MaxContent     \* contents the file may have, besides being absent

ASSUME MemoryAssumption == MaxContent \in Nat \ {0}

VARIABLES
  content,    \* the file all records are about
  memories,   \* the table
  exported,   \* the JSONL file of the last export, or {}
  user,       \* per process: the command it runs and what it holds
  added,      \* ids whose insert was acknowledged
  prunedStale,\* ids that a prune judged stale
  overrun     \* ids inserted between some prune's list and its replace_all

memoryVars == <<content, memories, exported, user, added, prunedStale, overrun>>

\* A record: its id, whether it names the file, and the hash taken of it (0:
\* the file was not there, and nothing was recorded for it).
Memory == [id : MemoryIds, names : BOOLEAN, hash : 0..MaxContent]
IdsOf(records) == {r.id : r \in records}

\* Mutant: a record about no file has no matching hash either.
StaleMemory_NoFiles(r) == r.hash = 0 \/ content # r.hash

\* _stale: a file without a hash, a file that is gone, a file that changed.
StaleMemory(r) == r.names /\ (r.hash = 0 \/ content # r.hash)

NoCommand == [at |-> "idle", held |-> {}, kept |-> {}]

MemoryInit ==
  /\ content \in {0, 1}
  /\ memories = {} /\ exported = {}
  /\ user = [u \in MemoryUsers |-> NoCommand]
  /\ added = {} /\ prunedStale = {} /\ overrun = {}

\* The file is edited, created or removed.
EditSource ==
  /\ content' \in 0..MaxContent \ {content}
  /\ UNCHANGED <<memories, exported, user, added, prunedStale, overrun>>

\* add_memory: hash the files, then insert.
HashSources(u) ==
  /\ user[u].at = "idle"
  /\ \E id \in MemoryIds \ (added \cup UNION {IdsOf(user[v].held) : v \in MemoryUsers}), names \in BOOLEAN :
       user' = [user EXCEPT ![u] =
         [NoCommand EXCEPT !.at = "insert",
                           !.held = {[id |-> id, names |-> names, hash |-> IF names THEN content ELSE 0]}]]
  /\ UNCHANGED <<content, memories, exported, added, prunedStale, overrun>>

NoteOverrun(ids) ==
  overrun' = overrun \cup
    {id \in ids : \E v \in MemoryUsers : user[v].at \in {"judge", "replace"}}

InsertMemory(u) ==
  /\ user[u].at = "insert"
  /\ memories' = memories \cup user[u].held
  /\ added' = added \cup IdsOf(user[u].held)
  /\ NoteOverrun(IdsOf(user[u].held))
  /\ user' = [user EXCEPT ![u] = NoCommand]
  /\ UNCHANGED <<content, exported, prunedStale>>

\* prune_stale: list, judge each record, then replace the whole table.
ListForPrune(u) ==
  /\ user[u].at = "idle"
  /\ user' = [user EXCEPT ![u] = [at |-> "judge", held |-> memories, kept |-> {}]]
  /\ UNCHANGED <<content, memories, exported, added, prunedStale, overrun>>

JudgeRecord(u) ==
  /\ user[u].at = "judge"
  /\ \E r \in user[u].held :
       /\ user' = [user EXCEPT ![u].held = @ \ {r},
                               ![u].kept = IF StaleMemory(r) THEN @ ELSE @ \cup {r},
                               ![u].at = IF user[u].held = {r} THEN "replace" ELSE @]
       /\ prunedStale' = IF r.names /\ (r.hash = 0 \/ content # r.hash) THEN prunedStale \cup {r.id} ELSE prunedStale
  /\ UNCHANGED <<content, memories, exported, added, overrun>>

\* An empty list is replaced by itself.
ReplaceMemories(u) ==
  /\ user[u].at = "replace" \/ (user[u].at = "judge" /\ user[u].held = {})
  /\ memories' = user[u].kept
  /\ user' = [user EXCEPT ![u] = NoCommand]
  /\ UNCHANGED <<content, exported, added, prunedStale, overrun>>

\* export_jsonl: list, then replace the file atomically.
ExportMemories(u) ==
  /\ user[u].at = "idle"
  /\ exported' = memories
  /\ UNCHANGED <<content, memories, user, added, prunedStale, overrun>>

\* import_jsonl: read an exported file, of this workspace or of a copy of it,
\* then insert what is not there yet.
ReadJsonl(u) ==
  /\ user[u].at = "idle" /\ exported # {}
  /\ \E source \in {exported, {[r EXCEPT !.hash = content] : r \in exported}} :
       user' = [user EXCEPT ![u] = [at |-> "import", held |-> source, kept |-> {}]]
  /\ UNCHANGED <<content, memories, exported, added, prunedStale, overrun>>

\* Mutant: the conflict clause of upsert.
InsertOrIgnore_Upsert(u) ==
  /\ user[u].at = "import"
  /\ memories' = user[u].held \cup {r \in memories : r.id \notin IdsOf(user[u].held)}
  /\ NoteOverrun(IdsOf(user[u].held))
  /\ user' = [user EXCEPT ![u] = NoCommand]
  /\ UNCHANGED <<content, exported, added, prunedStale>>

\* Mutant: a table without a primary key.
InsertOrIgnore_NoKey(u) ==
  /\ user[u].at = "import"
  /\ memories' = memories \cup user[u].held
  /\ NoteOverrun(IdsOf(user[u].held))
  /\ user' = [user EXCEPT ![u] = NoCommand]
  /\ UNCHANGED <<content, exported, added, prunedStale>>

InsertOrIgnore(u) ==
  /\ user[u].at = "import"
  /\ memories' = memories \cup {r \in user[u].held : r.id \notin IdsOf(memories)}
  /\ user' = [user EXCEPT ![u] = NoCommand]
  /\ UNCHANGED <<content, exported, added, prunedStale, overrun>>

\* A command dies between its transactions.
CommandDies(u) ==
  /\ user[u].at # "idle"
  /\ user' = [user EXCEPT ![u] = NoCommand]
  /\ UNCHANGED <<content, memories, exported, added, prunedStale, overrun>>

MemoryNext ==
  \/ EditSource
  \/ \E u \in MemoryUsers :
       \/ HashSources(u) \/ InsertMemory(u)
       \/ ListForPrune(u) \/ JudgeRecord(u) \/ ReplaceMemories(u)
       \/ ExportMemories(u) \/ ReadJsonl(u) \/ InsertOrIgnore(u) \/ CommandDies(u)

MemorySpec == MemoryInit /\ [][MemoryNext]_memoryVars

-----------------------------------------------------------------------------
(* Properties. *)

\* The id is the key of the table, in the table and in what a command holds.
MemoryTypeOK ==
  /\ content \in 0..MaxContent
  /\ memories \subseteq Memory /\ exported \subseteq Memory
  /\ \A r, s \in memories : r.id = s.id => r = s
  /\ \A u \in MemoryUsers :
       /\ user[u].at \in {"idle", "insert", "judge", "replace", "import"}
       /\ user[u].held \subseteq Memory /\ user[u].kept \subseteq Memory

\* Durable memory: once insert has returned, the record stays until some prune
\* finds its files changed.  This is what a reader expects of a store with
\* transactions, and prune_stale breaks it (no run checks it; see the README).
PruneKeepsFresh == (added \ IdsOf(memories)) \subseteq prunedStale

\* What the list and replace_all of prune_stale, two transactions, cost at most:
\* a fresh record goes only if it was inserted while some prune was between the
\* two, by an add or by an import.
LostOnlyInBetween == (added \ IdsOf(memories)) \subseteq (prunedStale \cup overrun)

\* import_jsonl is idempotent by id: whatever file it is given, no record that
\* is in the table is changed by it or removed.
ImportKeepsRecords ==
  [][\A u \in MemoryUsers :
       user[u].at = "import" /\ user'[u].at = "idle" => memories \subseteq memories']_memoryVars

\* A fresh memory is lost only between the two transactions of a prune, and an
\* import changes no record that is there (prune_stale, import_jsonl).
MemorySafety ==
  /\ [](MemoryTypeOK /\ LostOnlyInBetween)
  /\ ImportKeepsRecords
=============================================================================
