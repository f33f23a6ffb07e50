----------------------- MODULE WorkspaceRecordsProofs -----------------------
(***************************************************************************)
(* Proofs about the components that keep records in the workspace and      *)
(* decide from them: memories and traces (WorkspaceRecords), journals of   *)
(* runs (RunJournal), the learning of policies (PolicyGovernance) and the  *)
(* gate of a release (ReleaseAuthorization), for any number of processes,  *)
(* records, runs, events and workflows and whatever limits are configured. *)
(***************************************************************************)
EXTENDS WorkspaceRecords, RunJournal, PolicyGovernance, ReleaseAuthorization,
        FiniteSetTheorems, SequenceTheorems, WellFoundedInduction, TLAPS

-----------------------------------------------------------------------------
(* Numbers *)

LessThan == {p \in Nat \X Nat : p[1] < p[2]}

\* A set of natural numbers has a least element.
LEMMA LeastOf ==
  ASSUME NEW S \in SUBSET Nat, S # {} PROVE \E n \in S : \A m \in S : n <= m
  <1>1. IsWellFoundedOn(LessThan, Nat)
    BY NatLessThanWellFounded DEF OpToRel, LessThan
  <1>2. PICK n \in S : \A m \in S : ~(<<m, n>> \in LessThan)
    BY <1>1, WFMin
  <1>3. ASSUME NEW m \in S, m < n PROVE FALSE
    <2>1. <<m, n>> \in LessThan
      BY <1>3 DEF LessThan
    <2> QED
      BY <1>2, <2>1
  <1>4. n \in Nat /\ \A m \in S : m \in Nat /\ ~(m < n)
    BY <1>3
  <1>5. \A m \in S : n <= m
    BY <1>4
  <1> QED
    BY <1>5

\* ... and, if it is bounded, a greatest.
LEMMA LastOf ==
  ASSUME NEW S \in SUBSET Nat, S # {}, NEW b \in Nat, \A m \in S : m <= b
  PROVE  \E n \in S : \A m \in S : m <= n
  <1>1. PICK n \in {c \in Nat : \A m \in S : m <= c} :
          \A c \in {c \in Nat : \A m \in S : m <= c} : n <= c
    BY LeastOf
  <1>2. CASE n = 0
    <2>1. \A m \in S : m = 0
      BY <1>1, <1>2
    <2>2. 0 \in S
      BY <2>1
    <2> QED
      BY <2>1, <2>2
  <1>3. CASE n # 0 /\ n \notin S
    <2>1. \A m \in S : m <= n - 1
      BY <1>1, <1>3
    <2> QED
      BY <1>1, <1>3, <2>1
  <1> QED
    BY <1>1, <1>2, <1>3

-----------------------------------------------------------------------------
(* MemoryStore *)

Commands == [at : {"idle", "insert", "judge", "replace", "import"},
             held : SUBSET Memory, kept : SUBSET Memory]

\* One record per id.
Keyed(rows) == \A r, s \in rows : r.id = s.id => r = s

MemoryType ==
  /\ content \in 0..MaxContent
  /\ memories \subseteq Memory /\ exported \subseteq Memory
  /\ user \in [MemoryUsers -> Commands]

Holds(c) == c.held \cup c.kept

\* The id is the key of the table, of the exported file and of every list that a
\* command holds, and only an insert holds an id that was not inserted yet.
KeyInv ==
  /\ Keyed(memories) /\ Keyed(exported)
  /\ \A r \in memories \cup exported : r.id \in added
  /\ \A u \in MemoryUsers :
       /\ Keyed(Holds(user[u]))
       /\ user[u].at # "insert" => \A r \in Holds(user[u]) : r.id \in added
       /\ user[u].at = "insert" =>
            \A r \in user[u].held :
              /\ r.id \notin added
              /\ \A v \in MemoryUsers \ {u} : \A s \in user[v].held : s.id # r.id

\* The memories that are gone from a set of records with a reason.
Accounted(rows, id) == id \in IdsOf(rows) \cup prunedStale \cup overrun

\* A prune that has listed the table still holds what it has not found stale,
\* and what came later is noted.
PruneInv ==
  /\ \A id \in added : Accounted(memories, id)
  /\ \A u \in MemoryUsers : user[u].at \in {"judge", "replace"} =>
       /\ \A id \in added : Accounted(Holds(user[u]), id)
       /\ user[u].at = "replace" => user[u].held = {}

MemoryInv == MemoryType /\ KeyInv /\ PruneInv

\* The command in hand of a process with none is a command.
LEMMA NoCommandType == NoCommand \in Commands
  BY DEF NoCommand, Commands

\* The inductive invariant holds initially.
LEMMA MemoryInitInv == MemoryInit => MemoryInv
  <1> SUFFICES ASSUME MemoryInit PROVE MemoryInv
    OBVIOUS
  <1>2. MemoryType
    BY NoCommandType, MemoryAssumption DEF MemoryInit, MemoryType
  <1> QED
    BY <1>2 DEF MemoryInit, MemoryInv, KeyInv, PruneInv, Keyed, Holds, NoCommand

\* A step of one process leaves the commands of the others alone.
LEMMA OneCommandMoves ==
  ASSUME MemoryType, NEW u \in MemoryUsers, NEW c \in Commands, user' = [user EXCEPT ![u] = c]
  PROVE  /\ user' \in [MemoryUsers -> Commands]
         /\ user'[u] = c /\ \A v \in MemoryUsers \ {u} : user'[v] = user[v]
  BY DEF MemoryType

\* Every step of a command and of the world preserves it.
LEMMA MemoryNextInv == MemoryInv /\ [MemoryNext]_memoryVars => MemoryInv'
  <1> SUFFICES ASSUME MemoryInv, [MemoryNext]_memoryVars PROVE MemoryInv'
    OBVIOUS
  <1> USE DEF MemoryInv
  <1>1. CASE EditSource
    BY <1>1 DEF EditSource, MemoryType, KeyInv, PruneInv, Accounted
  <1>2. ASSUME NEW u \in MemoryUsers, HashSources(u) PROVE MemoryInv'
    <2>1. PICK id \in MemoryIds \ (added \cup UNION {IdsOf(user[v].held) : v \in MemoryUsers}), names \in BOOLEAN :
            user' = [user EXCEPT ![u] = [NoCommand EXCEPT !.at = "insert",
                 !.held = {[id |-> id, names |-> names, hash |-> IF names THEN content ELSE 0]}]]
      BY <1>2 DEF HashSources
    <2> DEFINE row == [id |-> id, names |-> names, hash |-> IF names THEN content ELSE 0]
               c == [NoCommand EXCEPT !.at = "insert", !.held = {row}]
    <2>2. row \in Memory /\ row.id = id
      BY MemoryAssumption DEF Memory, MemoryType
    <2>4. user' = [user EXCEPT ![u] = c]
      BY <2>1
    <2> HIDE DEF row
    <2>3. c \in Commands /\ c.at = "insert" /\ c.held = {row} /\ c.kept = {}
      BY <2>2 DEF NoCommand, Commands
    <2> HIDE DEF c
    <2>5. /\ user' \in [MemoryUsers -> Commands] /\ user'[u] = c
          /\ \A v \in MemoryUsers \ {u} : user'[v] = user[v]
      BY <2>3, <2>4, OneCommandMoves
    <2>6. UNCHANGED <<content, memories, exported, added, prunedStale, overrun>>
      BY <1>2 DEF HashSources
    <2>7. id \notin added /\ \A v \in MemoryUsers : \A s \in user[v].held : s.id # id
      BY <2>1 DEF IdsOf
    <2>8. KeyInv'
      BY <2>2, <2>3, <2>5, <2>6, <2>7 DEF KeyInv, Keyed, Holds
    <2> QED
      BY <2>3, <2>5, <2>6, <2>8 DEF MemoryType, PruneInv, Accounted
  <1>3. ASSUME NEW u \in MemoryUsers, InsertMemory(u) PROVE MemoryInv'
    <2>1. /\ user' \in [MemoryUsers -> Commands] /\ user'[u] = NoCommand
          /\ \A v \in MemoryUsers \ {u} : user'[v] = user[v]
      BY <1>3, NoCommandType, OneCommandMoves DEF InsertMemory
    <2>2. /\ user[u].at = "insert" /\ memories' = memories \cup user[u].held
          /\ added' = added \cup IdsOf(user[u].held)
          /\ UNCHANGED <<content, exported, prunedStale>>
      BY <1>3 DEF InsertMemory
    <2>3. MemoryType'
      BY <2>1, <2>2 DEF MemoryType, Commands
    <2>4. KeyInv'
      BY <2>1, <2>2 DEF KeyInv, Keyed, Holds, IdsOf, NoCommand
    <2>5. /\ overrun \subseteq overrun'
          /\ (\E v \in MemoryUsers : user[v].at \in {"judge", "replace"}) => IdsOf(user[u].held) \subseteq overrun'
      BY <1>3 DEF InsertMemory, NoteOverrun
    <2>6. PruneInv'
      BY <2>1, <2>2, <2>5 DEF PruneInv, Accounted, IdsOf, NoCommand
    <2> QED
      BY <2>3, <2>4, <2>6
  <1>4. ASSUME NEW u \in MemoryUsers, ListForPrune(u) PROVE MemoryInv'
    <2>1. [at |-> "judge", held |-> memories, kept |-> {}] \in Commands
      BY DEF Commands, MemoryType
    <2>2. /\ user' \in [MemoryUsers -> Commands] /\ user'[u] = [at |-> "judge", held |-> memories, kept |-> {}]
          /\ \A v \in MemoryUsers \ {u} : user'[v] = user[v]
          /\ UNCHANGED <<content, memories, exported, added, prunedStale, overrun>>
      BY <1>4, <2>1, OneCommandMoves DEF ListForPrune
    <2>3. KeyInv'
      BY <2>2 DEF KeyInv, Keyed, Holds
    <2> QED
      BY <2>2, <2>3 DEF MemoryType, PruneInv, Accounted, Holds
  <1>5. ASSUME NEW u \in MemoryUsers, JudgeRecord(u) PROVE MemoryInv'
    <2>1. PICK r \in user[u].held :
            /\ user[u].at = "judge"
            /\ user' = [user EXCEPT ![u].held = @ \ {r},
                                    ![u].kept = IF StaleMemory(r) THEN @ ELSE @ \cup {r},
                                    ![u].at = IF user[u].held = {r} THEN "replace" ELSE @]
            /\ prunedStale' = IF StaleMemory(r) THEN prunedStale \cup {r.id} ELSE prunedStale
            /\ UNCHANGED <<content, memories, exported, added, overrun>>
      BY <1>5 DEF JudgeRecord, StaleMemory
    <2> DEFINE h == user[u].held \ {r}
               k == IF StaleMemory(r) THEN user[u].kept ELSE user[u].kept \cup {r}
               a == IF user[u].held = {r} THEN "replace" ELSE "judge"
               c == user'[u]
    <2>2. user[u] \in Commands /\ user[u].at = "judge" /\ user \in [MemoryUsers -> Commands]
      BY <2>1 DEF MemoryType
    <2>3. user' = [user EXCEPT ![u].held = h, ![u].kept = k, ![u].at = a]
      BY <2>1, <2>2 DEF Commands
    <2>5. /\ user' \in [MemoryUsers -> Commands] /\ user'[u] = c
          /\ c.held = h /\ c.kept = k /\ c.at = a
          /\ \A v \in MemoryUsers \ {u} : user'[v] = user[v]
      <3>1. a \in {"judge", "replace"} /\ h \in SUBSET Memory /\ k \in SUBSET Memory
        BY <2>1, <2>2 DEF Commands
      <3> HIDE DEF h, k, a
      <3> QED
        BY <2>2, <2>3, <3>1 DEF Commands
    <2>4. /\ Holds(c) \subseteq Holds(user[u])
          /\ \A s \in Holds(user[u]) : s \in Holds(c) \/ s.id \in prunedStale'
          /\ c.at \in {"judge", "replace"} /\ (c.at = "replace" => c.held = {})
      BY <2>1, <2>5 DEF Holds
    <2>6. c.held \subseteq user[u].held /\ prunedStale \subseteq prunedStale'
      BY <2>1, <2>5
    <2> HIDE DEF c
    <2>7. KeyInv'
      <3>1. Keyed(Holds(c)) /\ \A s \in Holds(c) : s.id \in added
        BY <2>1, <2>4 DEF KeyInv, Keyed
      <3>2. c.at # "insert"
        BY <2>4
      <3> QED
        <4> SUFFICES ASSUME NEW v \in MemoryUsers
                     PROVE  (/\ Keyed(Holds(user[v]))
                             /\ user[v].at # "insert" => \A s \in Holds(user[v]) : s.id \in added
                             /\ user[v].at = "insert" =>
                                  \A s \in user[v].held :
                                    /\ s.id \notin added
                                    /\ \A w \in MemoryUsers \ {v} : \A t \in user[w].held : t.id # s.id)'
          BY <2>1 DEF KeyInv, Keyed
        <4>1. CASE v = u
          BY <2>1, <2>5, <3>1, <3>2, <4>1 DEF Keyed, Holds
        <4>2. CASE v # u
          <5>1. user'[v] = user[v] /\ added' = added /\ \A w \in MemoryUsers : user'[w].held \subseteq user[w].held
            BY <2>1, <2>5, <2>6, <4>2
          <5>2. Keyed(Holds(user[v])) /\ (user[v].at # "insert" => \A s \in Holds(user[v]) : s.id \in added)
            BY DEF KeyInv
          <5>3. user[v].at = "insert" =>
                  \A s \in user[v].held :
                    /\ s.id \notin added
                    /\ \A w \in MemoryUsers \ {v} : \A t \in user'[w].held : t.id # s.id
            BY <5>1 DEF KeyInv
          <5> QED
            BY <5>1, <5>2, <5>3 DEF Keyed, Holds
        <4> QED
          BY <4>1, <4>2
    <2>8. PruneInv'
      <3>1. \A id \in added : id \in IdsOf(Holds(c)) \cup prunedStale' \cup overrun
        <4> SUFFICES ASSUME NEW id \in added PROVE id \in IdsOf(Holds(c)) \cup prunedStale' \cup overrun
          OBVIOUS
        <4>1. id \in IdsOf(Holds(user[u])) \cup prunedStale \cup overrun
          BY <2>1 DEF PruneInv, Accounted
        <4>2. CASE id \in IdsOf(Holds(user[u]))
          BY <2>4, <4>2 DEF IdsOf
        <4> QED
          BY <2>6, <4>1, <4>2
      <3> QED
        BY <2>1, <2>4, <2>5, <2>6, <3>1 DEF PruneInv, Accounted
    <2> QED
      BY <2>1, <2>5, <2>7, <2>8 DEF MemoryType
  <1>6. ASSUME NEW u \in MemoryUsers, ReplaceMemories(u) PROVE MemoryInv'
    <2>1. /\ user' \in [MemoryUsers -> Commands] /\ user'[u] = NoCommand
          /\ \A v \in MemoryUsers \ {u} : user'[v] = user[v]
          /\ memories' = user[u].kept /\ user[u].at \in {"judge", "replace"}
          /\ UNCHANGED <<content, exported, added, prunedStale, overrun>>
      BY <1>6, NoCommandType, OneCommandMoves DEF ReplaceMemories
    <2>2. user[u].held = {} /\ Holds(user[u]) = memories'
      BY <1>6, <2>1 DEF ReplaceMemories, PruneInv, Holds
    <2>3. MemoryType'
      BY <2>1 DEF MemoryType, Commands
    <2>4. KeyInv'
      BY <2>1, <2>2 DEF KeyInv, Keyed, Holds, NoCommand
    <2>5. PruneInv'
      BY <2>1, <2>2 DEF PruneInv, Accounted, NoCommand
    <2> QED
      BY <2>3, <2>4, <2>5
  <1>7. ASSUME NEW u \in MemoryUsers, ExportMemories(u) PROVE MemoryInv'
    BY <1>7 DEF ExportMemories, MemoryType, KeyInv, PruneInv, Accounted
  <1>8. ASSUME NEW u \in MemoryUsers, ReadJsonl(u) PROVE MemoryInv'
    <2>1. PICK source : /\ source \in {exported, {[r EXCEPT !.hash = content] : r \in exported}}
                        /\ user' = [user EXCEPT ![u] = [at |-> "import", held |-> source, kept |-> {}]]
                        /\ UNCHANGED <<content, memories, exported, added, prunedStale, overrun>>
      BY <1>8 DEF ReadJsonl
    <2>2. /\ source \subseteq Memory /\ Keyed(source) /\ \A s \in source : s.id \in added
      <3>1. CASE source = exported
        BY <3>1 DEF MemoryType, KeyInv
      <3>2. CASE source = {[r EXCEPT !.hash = content] : r \in exported}
        <4>1. \A r \in exported : [r EXCEPT !.hash = content] \in Memory /\ [r EXCEPT !.hash = content].id = r.id
          BY DEF MemoryType, Memory
        <4>2. \A s \in source : s \in Memory /\ \E r \in exported : s = [r EXCEPT !.hash = content] /\ s.id = r.id
          BY <3>2, <4>1
        <4>3. Keyed(source)
          BY <4>2 DEF KeyInv, Keyed
        <4> QED
          BY <4>2, <4>3 DEF KeyInv
      <3> QED
        BY <2>1, <3>1, <3>2
    <2>3. /\ user' \in [MemoryUsers -> Commands] /\ user'[u] = [at |-> "import", held |-> source, kept |-> {}]
          /\ \A v \in MemoryUsers \ {u} : user'[v] = user[v]
      BY <2>1, <2>2, OneCommandMoves DEF Commands
    <2>4. KeyInv'
      BY <2>1, <2>2, <2>3 DEF KeyInv, Keyed, Holds
    <2> QED
      BY <2>1, <2>3, <2>4 DEF MemoryType, PruneInv, Accounted
  <1>9. ASSUME NEW u \in MemoryUsers, InsertOrIgnore(u) PROVE MemoryInv'
    <2>1. /\ user' \in [MemoryUsers -> Commands] /\ user'[u] = NoCommand
          /\ \A v \in MemoryUsers \ {u} : user'[v] = user[v]
          /\ user[u].at = "import"
          /\ memories' = memories \cup {r \in user[u].held : r.id \notin IdsOf(memories)}
          /\ UNCHANGED <<content, exported, added, prunedStale, overrun>>
      BY <1>9, NoCommandType, OneCommandMoves DEF InsertOrIgnore
    <2>2. MemoryType'
      BY <2>1 DEF MemoryType, Commands
    <2>3. KeyInv'
      BY <2>1 DEF KeyInv, Keyed, Holds, NoCommand, IdsOf
    <2>4. PruneInv'
      BY <2>1 DEF PruneInv, Accounted, NoCommand, IdsOf
    <2> QED
      BY <2>2, <2>3, <2>4
  <1>10. ASSUME NEW u \in MemoryUsers, CommandDies(u) PROVE MemoryInv'
    <2>1. /\ user' \in [MemoryUsers -> Commands] /\ user'[u] = NoCommand
          /\ \A v \in MemoryUsers \ {u} : user'[v] = user[v]
          /\ UNCHANGED <<content, memories, exported, added, prunedStale, overrun>>
      BY <1>10, NoCommandType, OneCommandMoves DEF CommandDies
    <2>2. KeyInv'
      BY <2>1 DEF KeyInv, Keyed, Holds, NoCommand
    <2> QED
      BY <2>1, <2>2 DEF MemoryType, PruneInv, Accounted, NoCommand
  <1>11. CASE UNCHANGED memoryVars
    BY <1>11 DEF memoryVars, MemoryType, KeyInv, PruneInv, Accounted
  <1> QED
    BY <1>1, <1>2, <1>3, <1>4, <1>5, <1>6, <1>7, <1>8, <1>9, <1>10, <1>11 DEF MemoryNext

\* Between the two transactions of a prune, and only there, a fresh memory is
\* lost, and an import changes and removes nothing: for any number of processes
\* and of memories (prune_stale, import_jsonl).
LEMMA MemoryIsSafe == MemorySpec => MemorySafety
  <1>1. MemoryInv => MemoryTypeOK /\ LostOnlyInBetween
    BY DEF MemoryInv, MemoryType, KeyInv, PruneInv, Accounted, Keyed, MemoryTypeOK, LostOnlyInBetween, Commands
  <1>2. MemoryInv /\ [MemoryNext]_memoryVars =>
          [\A u \in MemoryUsers :
             user[u].at = "import" /\ user'[u].at = "idle" => memories \subseteq memories']_memoryVars
    <2> SUFFICES ASSUME MemoryInv, MemoryNext, NEW u \in MemoryUsers,
                        user[u].at = "import", user'[u].at = "idle"
                 PROVE  memories \subseteq memories'
      BY DEF memoryVars
    <2>1. ASSUME NEW v \in MemoryUsers, ReplaceMemories(v) PROVE FALSE
      BY <2>1 DEF ReplaceMemories, MemoryInv, MemoryType
    <2> QED
      BY <2>1 DEF MemoryNext, EditSource, HashSources, InsertMemory, ListForPrune, JudgeRecord, ExportMemories,
           ReadJsonl, InsertOrIgnore, CommandDies
  <1> QED
    BY <1>1, <1>2, MemoryInitInv, MemoryNextInv, PTL DEF MemorySpec, MemorySafety, ImportKeepsRecords

-----------------------------------------------------------------------------
(* TraceStore *)

TraceFiles == [at : Nat \ {0}, temp : BOOLEAN]
TraceSteps == {"ready", "written", "published", "listed", "sorted", "done", "failed", "dead"}
Finished == {"published", "listed", "sorted", "done"}

\* No two files of a listing have the same number, and none has one to come.
Numbered(files, n) ==
  /\ files \subseteq TraceFiles
  /\ \A f \in files : f.at <= n
  /\ \A f, g \in files : f.at = g.at => f = g

TraceType ==
  /\ written \in Nat /\ lastOther \subseteq TraceRuns
  /\ Numbered(traces, written)
  /\ run \in [TraceRuns -> [pc : TraceSteps, at : Nat, listed : SUBSET TraceFiles]]

\* A run's number is its own, and so is what it published.
RunInv ==
  \A r \in TraceRuns :
    /\ run[r].at <= written
    /\ run[r].pc # "ready" => \A q \in TraceRuns \ {r} : run[q].at # run[r].at
    /\ run[r].pc = "ready" => run[r].at = 0
    /\ run[r].pc \in {"listed", "sorted"} => Numbered(run[r].listed, written)

\* Is there a file of this number?
Present(files, n) == \E f \in files : f.at = n

\* The file of a run that published it is no temporary one, and has only gone
\* for a reason.
PublishedInv ==
  \A r \in TraceRuns : run[r].pc \in Finished =>
    /\ \A f \in traces : f.at = run[r].at => f.temp = FALSE
    /\ Present(traces, run[r].at) \/ written - run[r].at >= MaxTraceFiles \/ run[r].at \in expired

\* As long as no other run has changed the directory it is as this one knows it.
UndisturbedInv ==
  \A r \in TraceRuns :
    /\ run[r].pc = "written" /\ r \notin lastOther => Present(traces, run[r].at)
    /\ run[r].pc \in {"listed", "sorted"} /\ r \notin lastOther => run[r].listed = traces
    /\ run[r].pc = "failed" => r \in lastOther

TraceInv == TraceType /\ RunInv /\ PublishedInv /\ UndisturbedInv

\* The limits of the trace store are numbers.
LEMMA TraceNumbers == MaxTraceFiles \in Nat \ {0} /\ OldTraces \in Nat
  BY TraceAssumption

\* Files with numbers between two numbers are no more than those.
LEMMA FilesBetween ==
  ASSUME NEW n \in Nat, NEW a \in 0..n, NEW files, Numbered(files, n), \A f \in files : a < f.at
  PROVE  IsFiniteSet(files) /\ Cardinality(files) \in Nat /\ Cardinality(files) <= n - a
  <1> DEFINE number == [f \in files |-> f.at]
  <1>1. number \in Injection(files, (a + 1)..n)
    BY DEF Numbered, TraceFiles, Injection, IsInjective
  <1>2. IsFiniteSet((a + 1)..n) /\ Cardinality((a + 1)..n) = n - a
    <2>1. a + 1 \in Int /\ n \in Int /\ a <= n
      OBVIOUS
    <2>2. IsFiniteSet((a + 1)..n) /\ Cardinality((a + 1)..n) = IF a + 1 > n THEN 0 ELSE n - (a + 1) + 1
      BY <2>1, FS_Interval
    <2> QED
      BY <2>1, <2>2
  <1>3. IsFiniteSet(files) /\ Cardinality(files) <= n - a
    BY <1>1, <1>2, FS_Injection
  <1> QED
    BY <1>3, FS_CardinalityType

\* A pruning leaves no more files of its listing than the cap.
LEMMA PruningCaps ==
  ASSUME NEW n \in Nat, NEW files, Numbered(files, n)
  PROVE  Cardinality(files \ ToPrune(files)) <= MaxTraceFiles
  <1> DEFINE live == {f \in files : f.at \notin expired}
             kept == {f \in live : ~(Cardinality(Newer(f, live)) >= MaxTraceFiles)}
  <1>1. files \ ToPrune(files) = kept
    BY DEF ToPrune
  <1>2. CASE kept = {}
    <2>1. Cardinality(kept) = 0
      BY <1>2, FS_EmptySet
    <2> HIDE DEF kept
    <2> QED
      BY <1>1, <2>1, TraceNumbers
  <1>3. CASE kept # {}
    <2>1. PICK f \in kept : \A g \in kept : f.at <= g.at
      <3> DEFINE numbers == {g.at : g \in kept}
      <3>1. numbers \in SUBSET Nat /\ numbers # {}
        <4>1. \A g \in files : g.at \in Nat
          BY DEF Numbered, TraceFiles
        <4>2. kept \subseteq files
          OBVIOUS
        <4> HIDE DEF kept
        <4> QED
          BY <1>3, <4>1, <4>2
      <3>2. PICK k \in numbers : \A m \in numbers : k <= m
        BY <3>1, LeastOf
      <3> QED
        BY <3>2
    <2>2. f.at \in 0..n /\ Numbered(Newer(f, live), n) /\ \A g \in Newer(f, live) : f.at < g.at
      BY DEF Numbered, TraceFiles, Newer
    <2>3. IsFiniteSet(Newer(f, live)) /\ Cardinality(Newer(f, live)) \in Nat
      BY <2>2, FilesBetween
    <2>4. kept \subseteq Newer(f, live) \cup {f}
      <3> SUFFICES ASSUME NEW g \in kept, g # f PROVE g \in Newer(f, live)
        OBVIOUS
      <3>1. g.at # f.at /\ g.at \in Nat /\ f.at \in Nat /\ f.at <= g.at
        BY <2>1 DEF Numbered, TraceFiles
      <3> QED
        BY <3>1 DEF Newer
    <2>5. Cardinality(kept) <= Cardinality(Newer(f, live)) + 1
      <3>1. /\ IsFiniteSet(Newer(f, live) \cup {f})
            /\ Cardinality(Newer(f, live) \cup {f}) <= Cardinality(Newer(f, live)) + 1
        <4> DEFINE newer == Newer(f, live)
        <4>1. IsFiniteSet(newer) /\ Cardinality(newer) \in Nat
          BY <2>3
        <4> HIDE DEF newer
        <4>2. /\ IsFiniteSet(newer \cup {f})
              /\ Cardinality(newer \cup {f}) = IF f \in newer THEN Cardinality(newer) ELSE Cardinality(newer) + 1
          BY <4>1, FS_AddElement
        <4>3. Cardinality(newer \cup {f}) <= Cardinality(newer) + 1
          BY <4>1, <4>2
        <4> QED
          BY <4>2, <4>3 DEF newer
      <3>2. IsFiniteSet(kept) /\ Cardinality(kept) <= Cardinality(Newer(f, live) \cup {f})
        BY <2>4, <3>1, FS_Subset
      <3> HIDE DEF kept, live
      <3> QED
        BY <2>3, <3>1, <3>2, FS_CardinalityType
    <2>6. Cardinality(Newer(f, live)) < MaxTraceFiles
      BY <2>3, TraceNumbers
    <2>7. Cardinality(kept) \in Nat
      <3>1. IsFiniteSet(Newer(f, live) \cup {f})
        BY <2>3, FS_AddElement
      <3> QED
        BY <2>4, <3>1, FS_Subset, FS_CardinalityType
    <2> HIDE DEF kept, live
    <2> QED
      BY <1>1, <2>3, <2>5, <2>6, <2>7, TraceNumbers
  <1> QED
    BY <1>2, <1>3

\* What a pruning removes is expired or older than as many as may stay.
LEMMA PrunedIsOld ==
  ASSUME NEW n \in Nat, NEW files, Numbered(files, n), NEW f \in ToPrune(files)
  PROVE  f.at \in expired \/ n - f.at >= MaxTraceFiles
  <1> DEFINE live == {g \in files : g.at \notin expired}
  <1>1. CASE f.at \notin expired
    <2>1. f \in files /\ Cardinality(Newer(f, live)) >= MaxTraceFiles
      BY <1>1 DEF ToPrune
    <2>2. f.at \in 0..n /\ Numbered(Newer(f, live), n) /\ \A g \in Newer(f, live) : f.at < g.at
      BY <2>1 DEF Numbered, TraceFiles, Newer
    <2>3. Cardinality(Newer(f, live)) \in Nat /\ Cardinality(Newer(f, live)) <= n - f.at
      BY <2>2, FilesBetween
    <2> HIDE DEF live
    <2> QED
      BY <2>1, <2>2, <2>3, TraceNumbers
  <1> QED
    BY <1>1

\* The inductive invariant holds initially.
LEMMA TraceInitInv == TraceInit => TraceInv
  <1> SUFFICES ASSUME TraceInit PROVE TraceInv
    OBVIOUS
  <1>1. Numbered(traces, written)
    <2>1. /\ OldTraces \in Nat /\ written = OldTraces
          /\ \A f \in traces : f \in [at : 1..OldTraces, temp : {FALSE}]
      BY TraceNumbers DEF TraceInit
    <2>2. \A f \in traces : f.at \in 1..OldTraces /\ f.temp = FALSE /\ f = [at |-> f.at, temp |-> f.temp]
      <3> SUFFICES ASSUME NEW f \in [at : 1..OldTraces, temp : {FALSE}]
                   PROVE  f.at \in 1..OldTraces /\ f.temp = FALSE /\ f = [at |-> f.at, temp |-> f.temp]
        BY <2>1
      <3>1. f.at \in 1..OldTraces /\ f.temp \in {FALSE}
        OBVIOUS
      <3>2. f = [at |-> f.at, temp |-> f.temp]
        OBVIOUS
      <3>3. f.temp = FALSE
        BY <3>1, Zenon
      <3> QED
        BY <3>1, <3>2, <3>3, Zenon
    <2>3. \A f \in traces : f \in TraceFiles /\ f.at <= written
      <3> SUFFICES ASSUME NEW f \in traces PROVE f \in TraceFiles /\ f.at <= written
        OBVIOUS
      <3>1. f.temp \in BOOLEAN
        BY <2>2, Zenon
      <3> QED
        BY <2>1, <2>2, <3>1 DEF TraceFiles
    <2>4. \A f, g \in traces : f.at = g.at => f = g
      BY <2>2
    <2> QED
      BY <2>3, <2>4 DEF Numbered
  <1>2. TraceType
    BY <1>1, TraceNumbers DEF TraceInit, TraceType, TraceSteps, NoRun
  <1> QED
    <2>1. \A r \in TraceRuns : run[r].pc = "ready" /\ run[r].at = 0
      BY DEF TraceInit, NoRun
    <2> QED
      BY <1>2, <2>1 DEF TraceInv, TraceType, RunInv, PublishedInv, UndisturbedInv, Finished

\* Every step of a run and of time preserves it.
LEMMA TraceNextInv == TraceInv /\ [TraceNext]_traceVars => TraceInv'
  <1> SUFFICES ASSUME TraceInv, [TraceNext]_traceVars PROVE TraceInv'
    OBVIOUS
  <1> USE DEF TraceInv
  <1>0. \A f \in traces : f.at \in 1..written
    BY DEF TraceType, Numbered, TraceFiles
  <1>1. CASE TraceExpires
    BY <1>1 DEF TraceExpires, TraceType, RunInv, PublishedInv, UndisturbedInv
  <1>2. ASSUME NEW r \in TraceRuns, WriteTemporary(r) PROVE TraceInv'
    <2> DEFINE new == [at |-> written + 1, temp |-> TRUE]
    <2>1. /\ run[r].pc = "ready" /\ written' = written + 1 /\ traces' = traces \cup {new}
          /\ run' = [run EXCEPT ![r] = [NoRun EXCEPT !.pc = "written", !.at = written + 1]]
          /\ lastOther' = lastOther \cup (TraceRuns \ {r}) /\ UNCHANGED expired
      BY <1>2 DEF WriteTemporary, Touched
    <2>2. /\ run' \in [TraceRuns -> [pc : TraceSteps, at : Nat, listed : SUBSET TraceFiles]]
          /\ run'[r].pc = "written" /\ run'[r].at = written + 1
          /\ \A q \in TraceRuns \ {r} : run'[q] = run[q]
      <3> DEFINE c == [NoRun EXCEPT !.pc = "written", !.at = written + 1]
      <3>1. /\ c \in [pc : TraceSteps, at : Nat, listed : SUBSET TraceFiles]
            /\ c.pc = "written" /\ c.at = written + 1
        <4>1. NoRun \in [pc : TraceSteps, at : Nat, listed : SUBSET TraceFiles]
          BY DEF NoRun, TraceSteps
        <4>2. written + 1 \in Nat
          BY DEF TraceType
        <4> QED
          BY <4>1, <4>2 DEF TraceSteps
      <3>2. run' = [run EXCEPT ![r] = c]
        BY <2>1
      <3> HIDE DEF c
      <3> QED
        BY <3>1, <3>2 DEF TraceType
    <2>3. new \in TraceFiles /\ new.at = written + 1 /\ written + 1 \in Nat /\ written \in Nat
      BY DEF TraceType, TraceFiles
    <2> HIDE DEF new
    <2>4. Numbered(traces', written') /\ \A files : Numbered(files, written) => Numbered(files, written')
      BY <1>0, <2>1, <2>3 DEF TraceType, Numbered, TraceFiles
    <2>5. TraceType'
      BY <2>1, <2>2, <2>3, <2>4 DEF TraceType
    <2>6. \A q \in TraceRuns : run[q].at \in Nat /\ run[q].at <= written
      BY DEF TraceType, RunInv
    <2>7. RunInv'
      BY <2>1, <2>2, <2>3, <2>4, <2>6 DEF RunInv
    <2>8. PublishedInv'
      <3> SUFFICES ASSUME NEW q \in TraceRuns, run'[q].pc \in Finished
                   PROVE  /\ \A f \in traces' : f.at = run'[q].at => f.temp = FALSE
                          /\ \/ Present(traces', run'[q].at)
                             \/ written' - run'[q].at >= MaxTraceFiles \/ run'[q].at \in expired'
        BY DEF PublishedInv, Present
      <3>1. q # r /\ run'[q] = run[q]
        BY <2>2 DEF Finished
      <3> QED
        BY <2>1, <2>3, <2>6, <3>1, TraceNumbers DEF PublishedInv, Present
    <2>9. UndisturbedInv'
      BY <2>1, <2>2, <2>3 DEF UndisturbedInv, Present
    <2> QED
      BY <2>5, <2>7, <2>8, <2>9
  <1>3. ASSUME NEW r \in TraceRuns, PublishTrace(r) PROVE TraceInv'
    <2> DEFINE own == OwnFile(r)
               named == {[f EXCEPT !.temp = FALSE] : f \in own}
    <2>1. /\ run[r].pc = "written" /\ traces' = (traces \ own) \cup named
          /\ run' = [run EXCEPT ![r].pc = IF own = {} THEN "failed" ELSE "published"]
          /\ lastOther' = lastOther \cup (TraceRuns \ {r}) /\ UNCHANGED <<expired, written>>
      BY <1>3 DEF PublishTrace, Touched
    <2>2. /\ run' \in [TraceRuns -> [pc : TraceSteps, at : Nat, listed : SUBSET TraceFiles]]
          /\ run'[r].pc = (IF own = {} THEN "failed" ELSE "published")
          /\ run'[r].at = run[r].at /\ run'[r].listed = run[r].listed
          /\ \A q \in TraceRuns \ {r} : run'[q] = run[q]
      <3>1. (IF own = {} THEN "failed" ELSE "published") \in TraceSteps
        BY DEF TraceSteps
      <3> QED
        BY <2>1, <3>1 DEF TraceType
    <2>3. \A f \in own : /\ [f EXCEPT !.temp = FALSE] \in TraceFiles
                         /\ [f EXCEPT !.temp = FALSE].at = f.at /\ [f EXCEPT !.temp = FALSE].temp = FALSE
                         /\ f \in traces /\ f.at = run[r].at
      BY DEF OwnFile, TraceType, Numbered, TraceFiles
    <2>4. \A g \in named : g \in TraceFiles /\ g.at = run[r].at /\ g.temp = FALSE /\ \E f \in own : f.at = g.at
      BY <2>3
    <2>5. /\ \A f \in traces : f.at # run[r].at => f \in traces'
          /\ \A f \in traces' : (f \in traces /\ f.at # run[r].at) \/ f \in named
          /\ \A f, g \in named : f = g
      <3>1. \A f, g \in own : f = g
        BY <2>3 DEF TraceType, Numbered
      <3>2. \A f \in traces : f \in own <=> f.at = run[r].at
        BY DEF OwnFile
      <3> QED
        BY <2>1, <3>1, <3>2
    <2>6. own # {} => Present(traces', run[r].at)
      <3>1. \A f \in own : [f EXCEPT !.temp = FALSE] \in traces'
        BY <2>1
      <3> QED
        BY <2>3, <3>1 DEF Present
    <2>7. Present(traces, run[r].at) <=> own # {}
      BY DEF Present, OwnFile
    <2> HIDE DEF own, named
    <2>8. Numbered(traces', written')
      BY <1>0, <2>1, <2>4, <2>5 DEF TraceType, Numbered, TraceFiles, RunInv
    <2>9. TraceType'
      BY <2>1, <2>2, <2>8 DEF TraceType
    <2>10. RunInv'
      BY <2>1, <2>2 DEF RunInv
    <2>11. PublishedInv'
      <3> SUFFICES ASSUME NEW q \in TraceRuns, run'[q].pc \in Finished
                   PROVE  /\ \A f \in traces' : f.at = run'[q].at => f.temp = FALSE
                          /\ \/ Present(traces', run'[q].at)
                             \/ written' - run'[q].at >= MaxTraceFiles \/ run'[q].at \in expired'
        BY DEF PublishedInv, Present
      <3>1. CASE q = r
        BY <2>2, <2>4, <2>5, <2>6, <3>1 DEF Finished
      <3>2. CASE q # r
        <4>1. run'[q] = run[q] /\ run[q].at # run[r].at
          BY <2>1, <2>2, <3>2 DEF RunInv
        <4> QED
          BY <2>1, <2>4, <2>5, <4>1 DEF PublishedInv, Present
      <3> QED
        BY <3>1, <3>2
    <2>12. UndisturbedInv'
      BY <2>1, <2>2, <2>7 DEF UndisturbedInv
    <2> QED
      BY <2>9, <2>10, <2>11, <2>12
  <1>4. ASSUME NEW r \in TraceRuns, ListTraces(r) PROVE TraceInv'
    <2>1. /\ run[r].pc = "published" /\ run' = [run EXCEPT ![r].pc = "listed", ![r].listed = traces]
          /\ lastOther' = lastOther \ {r} /\ UNCHANGED <<traces, expired, written>>
      BY <1>4 DEF ListTraces
    <2>2. /\ run' \in [TraceRuns -> [pc : TraceSteps, at : Nat, listed : SUBSET TraceFiles]]
          /\ run'[r].pc = "listed" /\ run'[r].at = run[r].at /\ run'[r].listed = traces
          /\ \A q \in TraceRuns \ {r} : run'[q] = run[q]
      BY <2>1 DEF TraceType, TraceSteps, Numbered
    <2>3. RunInv'
      BY <2>1, <2>2 DEF RunInv, TraceType, Numbered
    <2> QED
      BY <2>1, <2>2, <2>3 DEF TraceType, PublishedInv, UndisturbedInv, Finished, Present
  <1>5. ASSUME NEW r \in TraceRuns, SortTraces(r) PROVE TraceInv'
    <2> DEFINE pc == IF run[r].listed \subseteq traces THEN "sorted" ELSE "failed"
    <2>1. run[r].pc = "listed" /\ run' = [run EXCEPT ![r].pc = pc] /\ UNCHANGED <<traces, expired, written, lastOther>>
      BY <1>5 DEF SortTraces
    <2>2. pc \in {"sorted", "failed"} /\ (pc = "failed" => run[r].listed # traces)
      OBVIOUS
    <2> HIDE DEF pc
    <2>3. /\ run' \in [TraceRuns -> [pc : TraceSteps, at : Nat, listed : SUBSET TraceFiles]]
          /\ run'[r].pc = pc /\ run'[r].at = run[r].at /\ run'[r].listed = run[r].listed
          /\ \A q \in TraceRuns \ {r} : run'[q] = run[q]
      BY <2>1, <2>2 DEF TraceType, TraceSteps
    <2> QED
      BY <2>1, <2>2, <2>3 DEF TraceType, RunInv, PublishedInv, UndisturbedInv, Finished, Present
  <1>6. ASSUME NEW r \in TraceRuns, PruneTraces(r) PROVE TraceInv'
    <2>1. /\ run[r].pc = "sorted" /\ traces' = traces \ ToPrune(run[r].listed)
          /\ run' = [run EXCEPT ![r].pc = "done"] /\ UNCHANGED <<expired, written>>
          /\ lastOther' = IF traces' = traces THEN lastOther ELSE lastOther \cup (TraceRuns \ {r})
      BY <1>6 DEF PruneTraces, Touched
    <2>2. /\ run' \in [TraceRuns -> [pc : TraceSteps, at : Nat, listed : SUBSET TraceFiles]]
          /\ run'[r].pc = "done" /\ run'[r].at = run[r].at /\ run'[r].listed = run[r].listed
          /\ \A q \in TraceRuns \ {r} : run'[q] = run[q]
      BY <2>1 DEF TraceType, TraceSteps
    <2>3. TraceType'
      BY <2>1, <2>2 DEF TraceType, Numbered
    <2>4. RunInv'
      BY <2>1, <2>2 DEF RunInv
    <2>5. \A n \in Nat : Present(traces, n) => Present(traces', n) \/ n \in expired \/ written - n >= MaxTraceFiles
      <3>1. Numbered(run[r].listed, written)
        BY <2>1 DEF RunInv
      <3>2. \A f \in traces \ traces' : f.at \in expired \/ written - f.at >= MaxTraceFiles
        BY <2>1, <3>1, PrunedIsOld DEF TraceType
      <3> QED
        BY <3>2 DEF Present
    <2>6. PublishedInv'
      BY <2>1, <2>2, <2>5 DEF PublishedInv, Finished, TraceType, Present
    <2>7. UndisturbedInv'
      BY <2>1, <2>2 DEF UndisturbedInv
    <2> QED
      BY <2>3, <2>4, <2>6, <2>7
  <1>7. ASSUME NEW r \in TraceRuns, RunDies(r) PROVE TraceInv'
    <2>1. /\ run[r].pc # "ready" /\ run' = [run EXCEPT ![r].pc = "dead"]
          /\ UNCHANGED <<traces, expired, written, lastOther>>
      BY <1>7 DEF RunDies
    <2>2. /\ run' \in [TraceRuns -> [pc : TraceSteps, at : Nat, listed : SUBSET TraceFiles]]
          /\ run'[r].pc = "dead" /\ run'[r].at = run[r].at
          /\ \A q \in TraceRuns \ {r} : run'[q] = run[q]
      BY <2>1 DEF TraceType, TraceSteps
    <2> QED
      BY <2>1, <2>2 DEF TraceType, RunInv, PublishedInv, UndisturbedInv, Finished, Present
  <1>8. CASE UNCHANGED traceVars
    BY <1>8 DEF traceVars, TraceType, RunInv, PublishedInv, UndisturbedInv, Present
  <1> QED
    BY <1>1, <1>2, <1>3, <1>4, <1>5, <1>6, <1>7, <1>8 DEF TraceNext

\* The trace that write_trace returns exists unless the pruning had a reason, a
\* run fails only by the interference of another, and an undisturbed pruning
\* restores the cap: for any number of runs, of old files and any cap.
LEMMA TracesAreSafe == TraceSpec => TraceSafety
  <1>1. TraceInv => TraceTypeOK /\ ReturnedTraceExists /\ FailureNeedsAnother
    <2> SUFFICES ASSUME TraceInv PROVE TraceTypeOK /\ ReturnedTraceExists /\ FailureNeedsAnother
      OBVIOUS
    <2>1. TraceTypeOK
      BY DEF TraceInv, TraceType, Numbered, PublishedInv, Finished, TraceTypeOK, OwnFile
    <2>2. ReturnedTraceExists
      BY DEF TraceInv, PublishedInv, Finished, Present, ReturnedTraceExists, OwnFile
    <2>3. FailureNeedsAnother
      BY DEF TraceInv, UndisturbedInv, FailureNeedsAnother
    <2> QED
      BY <2>1, <2>2, <2>3
  <1>2. TraceInv /\ [TraceNext]_traceVars =>
          [\A r \in TraceRuns :
             run[r].pc = "sorted" /\ run'[r].pc = "done" /\ r \notin lastOther =>
               Cardinality(traces') <= MaxTraceFiles]_traceVars
    <2> SUFFICES ASSUME TraceInv, TraceNext, NEW r \in TraceRuns,
                        run[r].pc = "sorted", run'[r].pc = "done", r \notin lastOther
                 PROVE  Cardinality(traces') <= MaxTraceFiles
      BY DEF traceVars
    <2>1. run \in [TraceRuns -> [pc : TraceSteps, at : Nat, listed : SUBSET TraceFiles]]
      BY DEF TraceInv, TraceType
    <2>2. ASSUME NEW q \in TraceRuns,
                 WriteTemporary(q) \/ PublishTrace(q) \/ ListTraces(q) \/ SortTraces(q) \/ RunDies(q)
          PROVE  FALSE
      BY <2>1, <2>2 DEF WriteTemporary, PublishTrace, ListTraces, SortTraces, RunDies, NoRun
    <2>3. ASSUME NEW q \in TraceRuns, PruneTraces(q), q # r PROVE FALSE
      BY <2>1, <2>3 DEF PruneTraces
    <2>4. PruneTraces(r)
      BY <2>1, <2>2, <2>3 DEF TraceNext, TraceExpires
    <2>5. run[r].listed = traces /\ Numbered(traces, written) /\ written \in Nat
      BY DEF TraceInv, UndisturbedInv, TraceType
    <2> QED
      BY <2>4, <2>5, PruningCaps DEF PruneTraces
  <1> QED
    BY <1>1, <1>2, TraceInitInv, TraceNextInv, PTL DEF TraceSpec, TraceSafety, PruningRestoresCap

\* Memories and traces: what is lost is lost as the limits of the stores say,
\* whatever commands and runs of other processes do in between, for any number
\* of them (prune_stale, import_jsonl, write_trace).
THEOREM RecordsAreKept == MemorySpec /\ TraceSpec => RecordsSafety
  BY MemoryIsSafe, TracesAreSafe DEF RecordsSafety

-----------------------------------------------------------------------------
(* ReleaseAuthorization *)

Readings == [tag : Commits, reachable : BOOLEAN, branch : SUBSET Commits, protected : BOOLEAN,
             listed : Seq(SUBSET RunKinds)]

\* The remote, the gate and the facts are well formed.
ReleaseType ==
  /\ remote \in [tag : Commits, branch : SUBSET Commits, protected : BOOLEAN,
                 runs : [ToSet(Workflows) -> [RunKinds -> RunStates]]]
  /\ release \in [at : {"branch", "tag", "protection", "runs", "approval", "draft",
                        "created", "denied"},
                  round : {1, 2}, read : Readings]
  /\ sinceThen \subseteq AllFacts
  /\ Len(release.read.listed) <= Len(Workflows)
  /\ release.at = "approval" => release.round = 1
  /\ release.at \in {"draft", "created"} => release.round = 2

\* What a verification has read was a fact at some time since it began.
ReadWasFact ==
  /\ release.at = "branch" => release.read = NothingRead
  /\ release.read.tag = Expected => "tag" \in sinceThen
  /\ Expected \in release.read.branch => "reachable" \in sinceThen
  /\ release.read.reachable => release.read.tag \in release.read.branch
  /\ release.read.protected => "protected" \in sinceThen
  /\ \A i \in DOMAIN release.read.listed :
       release.read.listed[i] # {} => Workflows[i] \in sinceThen

\* A draft is created after a verification that read everything and was content.
DraftIsAuthorized ==
  release.at \in {"draft", "created"} => Authorized /\ Len(release.read.listed) = Len(Workflows)

ReleaseInv == ReleaseType /\ ReadWasFact /\ DraftIsAuthorized

\* The workflows are listed one by one, and the expected commit is no other.
LEMMA WorkflowsInOrder ==
  /\ Expected # Other /\ Workflows \in Seq(ToSet(Workflows))
  /\ \A i \in 1..Len(Workflows) : Workflows[i] \in ToSet(Workflows)
  /\ \A w \in ToSet(Workflows) : \E i \in 1..Len(Workflows) : Workflows[i] = w
  BY ReleaseAssumption DEF ToSet

\* A verifier that has read nothing holds an empty reading.
LEMMA NothingReadType == NothingRead \in Readings /\ NothingRead.listed = <<>>
  BY DEF NothingRead, Readings, Commits

\* The inductive invariant holds initially.
LEMMA ReleaseInitInv == ReleaseInit => ReleaseInv
  <1> SUFFICES ASSUME ReleaseInit PROVE ReleaseInv
    OBVIOUS
  <1>1. ReleaseType
    BY NothingReadType, WorkflowsInOrder DEF ReleaseInit, ReleaseType, Commits, RunStates
  <1> QED
    BY <1>1, NothingReadType, WorkflowsInOrder
       DEF ReleaseInit, ReleaseInv, ReadWasFact, DraftIsAuthorized, NothingRead

\* Fetching one more piece keeps what was read before a fact.
LEMMA ReadsKeep ==
  ASSUME ReleaseInv, NEW to \in {"tag", "protection", "runs"}, NEW read \in Readings,
         release.at \in {"branch", "tag", "protection", "runs"}, Reads(to, read),
         Len(read.listed) <= Len(Workflows), ReadWasFact'
  PROVE  ReleaseInv'
  <1>1. Facts \subseteq AllFacts
    BY DEF Facts, AllFacts
  <1> QED
    BY <1>1 DEF Reads, ReleaseInv, ReleaseType, DraftIsAuthorized

\* Every step of the workflow and of the remote preserves it.
LEMMA ReleaseNextInv == ReleaseInv /\ [ReleaseNext]_releaseVars => ReleaseInv'
  <1> SUFFICES ASSUME ReleaseInv, [ReleaseNext]_releaseVars PROVE ReleaseInv'
    OBVIOUS
  <1>0. release \in [at : {"branch", "tag", "protection", "runs", "approval", "draft",
                           "created", "denied"}, round : {1, 2}, read : Readings]
    BY DEF ReleaseInv, ReleaseType
  <1>1. CASE FetchBranch
    <2> DEFINE read == [release.read EXCEPT !.branch = remote.branch]
    <2>1. read \in Readings /\ Reads("tag", read) /\ release.at = "branch"
      BY <1>0, <1>1 DEF FetchBranch, Readings, ReleaseInv, ReleaseType
    <2>2. ReadWasFact'
      BY <1>0, <1>1, <2>1, NothingReadType, WorkflowsInOrder
         DEF Reads, ReadWasFact, ReleaseInv, Readings, Facts, NothingRead
    <2> QED
      BY <1>0, <2>1, <2>2, ReadsKeep DEF ReleaseInv, ReleaseType, Readings
  <1>2. CASE FetchTag
    <2> DEFINE read == [release.read EXCEPT !.tag = remote.tag,
                                            !.reachable = remote.tag \in release.read.branch]
    <2>1. read \in Readings /\ Reads("protection", read) /\ release.at = "tag"
      <3>1. (remote.tag \in release.read.branch) \in BOOLEAN
        OBVIOUS
      <3>2. read \in Readings
        BY <1>0, <3>1 DEF Readings, ReleaseInv, ReleaseType
      <3> QED
        BY <1>2, <3>2 DEF FetchTag
    <2>2. ReadWasFact'
      BY <1>0, <1>2, <2>1 DEF Reads, ReadWasFact, ReleaseInv, Readings, Facts
    <2> QED
      BY <1>0, <2>1, <2>2, ReadsKeep DEF ReleaseInv, ReleaseType, Readings
  <1>3. CASE AskProtection
    <2> DEFINE read == [release.read EXCEPT !.protected = remote.protected]
    <2>1. read \in Readings /\ Reads("runs", read) /\ release.at = "protection"
      BY <1>0, <1>3 DEF AskProtection, Readings, ReleaseInv, ReleaseType
    <2>2. ReadWasFact'
      BY <1>0, <1>3, <2>1 DEF Reads, ReadWasFact, ReleaseInv, Readings, Facts
    <2> QED
      BY <1>0, <2>1, <2>2, ReadsKeep DEF ReleaseInv, ReleaseType, Readings
  <1>4. CASE ListRuns
    <2> DEFINE listed == release.read.listed
               read == [release.read EXCEPT !.listed = Append(listed, Listing(NextWorkflow))]
    <2>1. /\ listed \in Seq(SUBSET RunKinds) /\ Len(listed) < Len(Workflows)
          /\ Listing(NextWorkflow) \in SUBSET RunKinds
          /\ Reads("runs", read) /\ release.at = "runs"
      BY <1>0, <1>4 DEF ListRuns, Listing, Readings
    <2>2. read \in Readings /\ Len(read.listed) <= Len(Workflows)
      <3>1. Append(listed, Listing(NextWorkflow)) \in Seq(SUBSET RunKinds)
        BY <2>1
      <3>2. Len(Append(listed, Listing(NextWorkflow))) <= Len(Workflows)
        BY <2>1, WorkflowsInOrder
      <3> QED
        BY <1>0, <3>1, <3>2 DEF Readings
    <2>3. Listing(NextWorkflow) # {} => Workflows[Len(listed) + 1] \in Facts
      <3>1. Workflows[Len(listed) + 1] \in ToSet(Workflows)
        BY <2>1, WorkflowsInOrder
      <3> QED
        BY <3>1 DEF Listing, NextWorkflow, Facts, Tested
    <2>4. ReadWasFact'
      <3>1. release'.read = read /\ release'.at = "runs" /\ sinceThen' = sinceThen \cup Facts
        BY <1>0, <2>1 DEF Reads
      <3>2. \A i \in DOMAIN read.listed : read.listed[i] # {} => Workflows[i] \in sinceThen'
        BY <1>0, <2>1, <2>3, <3>1 DEF ReadWasFact, ReleaseInv, Readings
      <3> QED
        BY <1>0, <3>1, <3>2 DEF ReadWasFact, ReleaseInv, Readings
    <2> QED
      BY <2>1, <2>2, <2>4, ReadsKeep
  <1>5. CASE Evaluate
    BY <1>0, <1>5 DEF Evaluate, Denied, ReleaseInv, ReleaseType, ReadWasFact, DraftIsAuthorized, Authorized
  <1>6. CASE RequestFails
    BY <1>0, <1>6 DEF RequestFails, Denied, ReleaseInv, ReleaseType, ReadWasFact, DraftIsAuthorized
  <1>7. CASE Approve
    BY <1>0, <1>7, NothingReadType, WorkflowsInOrder
       DEF Approve, ReleaseInv, ReleaseType, ReadWasFact, DraftIsAuthorized, NothingRead
  <1>8. CASE CreateDraft
    BY <1>0, <1>8 DEF CreateDraft, ReleaseInv, ReleaseType, ReadWasFact, DraftIsAuthorized, Authorized
  <1>9. ASSUME UNCHANGED <<release, sinceThen>>,
               remote' \in [tag : Commits, branch : SUBSET Commits, protected : BOOLEAN,
                            runs : [ToSet(Workflows) -> [RunKinds -> RunStates]]]
        PROVE  ReleaseInv'
    BY <1>9 DEF ReleaseInv, ReleaseType, ReadWasFact, DraftIsAuthorized, Authorized
  <1>10. CASE MoveTag \/ PushBranch \/ Protect
    BY <1>9, <1>10 DEF MoveTag, PushBranch, Protect, Moves, ReleaseInv, ReleaseType
  <1>11. CASE RunWorkflow \/ CompleteRun
    <2>1. PICK w \in ToSet(Workflows), k \in RunKinds, s \in RunStates :
            remote' = [remote EXCEPT !.runs[w][k] = s]
      BY <1>11 DEF RunWorkflow, CompleteRun, Moves, RunStates
    <2> QED
      BY <1>9, <1>11, <2>1 DEF RunWorkflow, CompleteRun, Moves, ReleaseInv, ReleaseType
  <1>12. CASE UNCHANGED releaseVars
    BY <1>9, <1>12 DEF releaseVars, ReleaseInv, ReleaseType
  <1> QED
    BY <1>1, <1>2, <1>3, <1>4, <1>5, <1>6, <1>7, <1>8, <1>10, <1>11, <1>12 DEF ReleaseNext

\* A draft release is created only if the tag, the branch, its protection and a
\* successful run of every required workflow have each held since the approval,
\* however the remote moved meanwhile: for any list of workflows
\* (verify_release_authorization).
THEOREM ReleaseIsAuthorized == ReleaseSpec => []ReleaseSafety
  <1>1. ReleaseInv => ReleaseSafety
    <2> SUFFICES ASSUME ReleaseInv PROVE ReleaseSafety
      OBVIOUS
    <2>1. ReleaseTypeOK
      BY DEF ReleaseInv, ReleaseType, ReleaseTypeOK
    <2>2. ASSUME release.at \in {"draft", "created"} PROVE AllFacts \subseteq sinceThen
      <3>1. Authorized /\ Len(release.read.listed) = Len(Workflows)
        BY <2>2 DEF ReleaseInv, DraftIsAuthorized
      <3>2. {"tag", "reachable", "protected"} \subseteq sinceThen
        BY <3>1 DEF Authorized, ReleaseInv, ReadWasFact
      <3>3. ASSUME NEW w \in ToSet(Workflows) PROVE w \in sinceThen
        <4>1. PICK i \in 1..Len(Workflows) : Workflows[i] = w
          BY WorkflowsInOrder
        <4>2. release.read.listed \in Seq(SUBSET RunKinds)
          BY DEF ReleaseInv, ReleaseType, Readings
        <4>3. DOMAIN release.read.listed = 1..Len(release.read.listed)
          BY <4>2
        <4>4. DOMAIN Workflows = 1..Len(Workflows)
          BY WorkflowsInOrder
        <4>5. i \in DOMAIN release.read.listed /\ i \in DOMAIN Workflows
          BY <3>1, <4>3, <4>4
        <4> QED
          BY <3>1, <4>1, <4>5 DEF Authorized, ReleaseInv, ReadWasFact
      <3> QED
        BY <3>2, <3>3 DEF AllFacts
    <2>3. sinceThen \subseteq AllFacts
      BY DEF ReleaseInv, ReleaseType
    <2> QED
      BY <2>1, <2>2, <2>3 DEF ReleaseSafety, DraftWasAuthorized
  <1> QED
    BY <1>1, ReleaseInitInv, ReleaseNextInv, PTL DEF ReleaseSpec
-----------------------------------------------------------------------------
(* PolicyGovernance *)

StampedRows == [shape : RowShapes, at : 1..MaxTime]

\* The clock and the records.
RowsType ==
  /\ clock \in 1..MaxTime
  /\ records \in Seq(StampedRows) /\ Len(records) <= MaxRows

\* Rows that were written, were there by the cutoff and show the candidate arm
\* in both halves.
Covers(rows, policy, cutoff) ==
  /\ rows \subseteq RowIds /\ cutoff \in Nat /\ \A i \in rows : records[i].at <= cutoff
  /\ Cardinality(Chose(Low(Half(rows, "development")), "alternative")) >= MinDirect
  /\ Cardinality(DirectTargets(Half(rows, "holdout"), policy)) >= MinDirect

ReportsInv ==
  \A r \in report : r.policy = {"alternative"} /\ Covers(r.rows, r.policy, r.cutoff)

\* The identity and what was signed are of the report; the content may be edited.
ManifestInv ==
  \A m \in manifest :
    /\ \A n \in manifest : n = m
    /\ m = [identity |-> m.identity, content |-> m.content, signed |-> m.signed]
    /\ m.identity.policy = {"alternative"}
    /\ Covers(m.identity.rows, m.identity.policy, m.identity.cutoff)
    /\ m.signed = [policy |-> m.identity.policy, cutoff |-> m.identity.cutoff, models |-> "fitted",
                   status |-> "shadow_only"]

\* The last evaluation is of the manifest as it is now.
GateInv ==
  \A g \in gate :
    /\ g.rows \subseteq RowIds
    /\ \A m \in manifest :
         /\ \A i \in g.rows : /\ records[i].at > m.content.cutoff
                              /\ DesiredAction(Shape(i), m) = TargetAction(Shape(i), m.content.policy)
         /\ g.eligible => /\ m.content = m.signed /\ m.identity.cutoff = m.content.cutoff

GovernanceInv == RowsType /\ ReportsInv /\ ManifestInv /\ GateInv

\* The thresholds of the policy evaluation are numbers.
LEMMA GovernanceNumbers ==
  /\ MaxRows \in Nat /\ MaxTime \in Nat \ {0}
  /\ MinDirect \in Nat \ {0} /\ MinHoldout \in Nat \ {0} /\ MaxWeight \in Nat \ {0}
  BY GovernanceAssumption

\* The cutoff is not before any row.
LEMMA CutoffCovers ==
  ASSUME RowsType, NEW rows \in SUBSET RowIds
  PROVE  EvidenceCutoff(rows) \in Nat /\ \A i \in rows : records[i].at <= EvidenceCutoff(rows)
  <1>0. CASE rows = {}
    BY <1>0 DEF EvidenceCutoff
  <1> SUFFICES ASSUME rows # {}
               PROVE  EvidenceCutoff(rows) \in Nat /\ \A i \in rows : records[i].at <= EvidenceCutoff(rows)
    BY <1>0
  <1> DEFINE stamps == {records[i].at : i \in rows}
  <1>1. stamps \in SUBSET (1..MaxTime) /\ stamps # {}
    <2>1. \A i \in 1..Len(records) : records[i] \in StampedRows
      BY DEF RowsType
    <2>2. \A i \in RowIds : records[i].at \in 1..MaxTime
      BY <2>1 DEF RowIds, RowsType, StampedRows
    <2> QED
      BY <2>2
  <1>2. \A x \in stamps : x <= MaxTime
    BY <1>1, GovernanceNumbers
  <1>3. \E t \in stamps : \A x \in stamps : x <= t
    <2>1. stamps \in SUBSET Nat
      BY <1>1
    <2> HIDE DEF stamps
    <2> QED
      BY <1>1, <1>2, <2>1, LastOf, GovernanceNumbers
  <1>4. EvidenceCutoff(rows) \in stamps /\ \A i \in rows : records[i].at <= EvidenceCutoff(rows)
    BY <1>3 DEF EvidenceCutoff
  <1> QED
    BY <1>1, <1>4

\* Rows written later change nothing of the earlier ones.
LEMMA EarlierRowsStay ==
  ASSUME RowsType, GovernanceNext \/ UNCHANGED governanceVars
  PROVE  /\ RowsType' /\ RowIds \subseteq RowIds'
         /\ \A i \in RowIds : records'[i] = records[i]
  <1>1. CASE UNCHANGED records
    <2>1. clock' \in 1..MaxTime
      <3>1. UNCHANGED clock \/ PassTime
        BY DEF GovernanceNext, governanceVars, RecordOutcome, BuildReport, CreateManifest, EditManifest,
             EvaluateShadow
      <3> QED
        BY <3>1, GovernanceNumbers DEF RowsType, PassTime
    <2> QED
      BY <1>1, <2>1 DEF RowsType, RowIds
  <1>2. CASE RecordOutcome
    <2>1. PICK shape \in RowShapes, at \in 1..clock : records' = Append(records, [shape |-> shape, at |-> at])
      BY <1>2 DEF RecordOutcome
    <2>2. [shape |-> shape, at |-> at] \in StampedRows
      BY GovernanceNumbers DEF RowsType, StampedRows
    <2> QED
      BY <1>2, <2>1, <2>2, GovernanceNumbers DEF RowsType, RowIds, RecordOutcome
  <1>3. UNCHANGED records \/ RecordOutcome
    BY DEF GovernanceNext, governanceVars, PassTime, BuildReport, CreateManifest, EditManifest, EvaluateShadow
  <1> QED
    BY <1>1, <1>2, <1>3

\* ... and so what rows cover they go on covering.
LEMMA CoversStays ==
  ASSUME RowsType, GovernanceNext \/ UNCHANGED governanceVars,
         NEW rows, NEW policy, NEW cutoff, Covers(rows, policy, cutoff)
  PROVE  Covers(rows, policy, cutoff)'
  <1>1. rows \subseteq RowIds /\ \A i \in rows : records'[i] = records[i] /\ i \in RowIds'
    BY EarlierRowsStay DEF Covers
  <1>2. Chose(Low(Half(rows, "development")), "alternative")' = Chose(Low(Half(rows, "development")), "alternative")
    BY <1>1 DEF Chose, Low, Half, Shape
  <1>3. DirectTargets(Half(rows, "holdout"), policy)' = DirectTargets(Half(rows, "holdout"), policy)
    BY <1>1 DEF DirectTargets, Half, Shape
  <1> QED
    BY <1>1, <1>2, <1>3 DEF Covers

\* The inductive invariant holds initially.
LEMMA GovernanceInitInv == GovernanceInit => GovernanceInv
  <1> SUFFICES ASSUME GovernanceInit PROVE GovernanceInv
    OBVIOUS
  <1>1. RowsType
    BY GovernanceNumbers DEF GovernanceInit, RowsType
  <1> QED
    BY <1>1 DEF GovernanceInit, GovernanceInv, ReportsInv, ManifestInv, GateInv

\* Every step of the policy commands and of the world preserves it.
LEMMA GovernanceNextInv == GovernanceInv /\ [GovernanceNext]_governanceVars => GovernanceInv'
  <1> SUFFICES ASSUME GovernanceInv, GovernanceNext \/ UNCHANGED governanceVars PROVE GovernanceInv'
    OBVIOUS
  <1>0. RowsType /\ RowsType' /\ RowIds \subseteq RowIds' /\ \A i \in RowIds : records'[i] = records[i]
    BY EarlierRowsStay DEF GovernanceInv
  <1>1. ReportsInv'
    <2>1. CASE BuildReport
      <3> SUFFICES ASSUME NEW r \in report' PROVE (r.policy = {"alternative"} /\ Covers(r.rows, r.policy, r.cutoff))'
        BY DEF ReportsInv
      <3> DEFINE development == Half(Usable, "development")
                 holdout == Half(Usable, "holdout")
                 policy == PolicyMap(development)
      <3>1. PICK clears \in BOOLEAN : report' = IF Promotable(development, holdout, policy, clears)
                THEN {[rows |-> Usable, policy |-> policy, cutoff |-> EvidenceCutoff(Usable)]} ELSE {}
        BY <2>1 DEF BuildReport
      <3>2. /\ Promotable(development, holdout, policy, clears)
            /\ r = [rows |-> Usable, policy |-> policy, cutoff |-> EvidenceCutoff(Usable)]
        BY <3>1
      <3>3. policy = {"alternative"} /\ Cardinality(DirectTargets(holdout, policy)) >= MinDirect
        BY <3>2 DEF Promotable
      <3>4. Cardinality(Chose(Low(development), "alternative")) >= MinDirect
        BY <3>3 DEF PolicyMap, Supported
      <3>5. Usable \in SUBSET RowIds
        BY DEF Usable
      <3>6. Covers(r.rows, r.policy, r.cutoff)
        BY <1>0, <3>2, <3>3, <3>4, <3>5, CutoffCovers DEF Covers
      <3> QED
        BY <1>0, <3>2, <3>3, <3>6, CoversStays
    <2>2. CASE UNCHANGED report
      BY <1>0, <2>2, CoversStays DEF ReportsInv, GovernanceInv
    <2> QED
      BY <2>1, <2>2 DEF GovernanceNext, governanceVars, PassTime, RecordOutcome, CreateManifest, EditManifest, EvaluateShadow
  <1>2. ManifestInv'
    <2>1. CASE CreateManifest
      <3> SUFFICES ASSUME NEW m \in manifest'
                   PROVE (/\ \A n \in manifest : n = m
                          /\ m = [identity |-> m.identity, content |-> m.content, signed |-> m.signed]
                          /\ m.identity.policy = {"alternative"}
                          /\ Covers(m.identity.rows, m.identity.policy, m.identity.cutoff)
                          /\ m.signed = [policy |-> m.identity.policy, cutoff |-> m.identity.cutoff,
                                         models |-> "fitted", status |-> "shadow_only"])'
        BY DEF ManifestInv
      <3>1. PICK r \in report :
              LET identity == [policy |-> r.policy, cutoff |-> r.cutoff, rows |-> r.rows]
                  body == [policy |-> r.policy, cutoff |-> r.cutoff, models |-> "fitted",
                              status |-> "shadow_only"]
              IN manifest' = {[identity |-> identity, content |-> body, signed |-> body]}
        BY <2>1 DEF CreateManifest
      <3>2. r.policy = {"alternative"} /\ Covers(r.rows, r.policy, r.cutoff)
        BY DEF GovernanceInv, ReportsInv
      <3>3. Covers(r.rows, r.policy, r.cutoff)'
        BY <1>0, <3>2, CoversStays
      <3> QED
        <4>1. PICK identity, body :
                /\ identity = [policy |-> r.policy, cutoff |-> r.cutoff, rows |-> r.rows]
                /\ body = [policy |-> r.policy, cutoff |-> r.cutoff, models |-> "fitted",
                              status |-> "shadow_only"]
                /\ manifest' = {[identity |-> identity, content |-> body, signed |-> body]}
          BY <3>1
        <4>2. m = [identity |-> identity, content |-> body, signed |-> body]
          BY <4>1
        <4>3. m.identity = identity /\ m.content = body /\ m.signed = body
          BY <4>2
        <4>4. /\ m.identity.policy = r.policy /\ m.identity.cutoff = r.cutoff /\ m.identity.rows = r.rows
              /\ m.signed = [policy |-> r.policy, cutoff |-> r.cutoff, models |-> "fitted", status |-> "shadow_only"]
          BY <4>1, <4>3
        <4>5. \A n \in manifest' : n = m
          BY <4>1
        <4>6. m = [identity |-> m.identity, content |-> m.content, signed |-> m.signed]
          BY <4>2, <4>3
        <4> HIDE DEF Covers
        <4> QED
          BY <3>2, <3>3, <4>4, <4>5, <4>6
    <2>2. CASE EditManifest
      <3> SUFFICES ASSUME NEW n \in manifest'
                   PROVE (/\ \A o \in manifest : o = n
                          /\ n = [identity |-> n.identity, content |-> n.content, signed |-> n.signed]
                          /\ n.identity.policy = {"alternative"}
                          /\ Covers(n.identity.rows, n.identity.policy, n.identity.cutoff)
                          /\ n.signed = [policy |-> n.identity.policy, cutoff |-> n.identity.cutoff,
                                         models |-> "fitted", status |-> "shadow_only"])'
        BY DEF ManifestInv
      <3>1. PICK m \in manifest : \E body : n = [m EXCEPT !.content = body] /\ manifest' = {n}
        BY <2>2 DEF EditManifest
      <3>3. \E body : n = [identity |-> m.identity, content |-> body, signed |-> m.signed]
        BY <3>1 DEF GovernanceInv, ManifestInv
      <3>2. Covers(m.identity.rows, m.identity.policy, m.identity.cutoff)'
        BY <1>0, CoversStays DEF GovernanceInv, ManifestInv
      <3> QED
        BY <3>1, <3>2, <3>3 DEF GovernanceInv, ManifestInv
    <2>3. CASE UNCHANGED manifest
      BY <1>0, <2>3, CoversStays DEF ManifestInv, GovernanceInv
    <2> QED
      BY <2>1, <2>2, <2>3 DEF GovernanceNext, governanceVars, PassTime, RecordOutcome, BuildReport, EvaluateShadow
  <1>3. GateInv'
    <2>1. CASE gate' = {}
      BY <2>1 DEF GateInv
    <2>2. CASE EvaluateShadow
      <3>1. PICK m \in manifest, key \in {"own", "other"}, clears \in BOOLEAN :
              LET fresh == PostCutoff(m.content.cutoff)
                  target(i) == DesiredAction(Shape(i), m)
                  supported == {i \in fresh : SupportedForTarget(Shape(i), target(i))}
                  scored == {i \in supported : ~WeightViolation(Shape(i), target(i))}
              IN gate' = {[rows |-> scored,
                           eligible |-> /\ VerifyManifest(m, key)
                                        /\ Cardinality(fresh) >= MinHoldout
                                        /\ supported = fresh /\ scored = supported
                                        /\ clears]}
        BY <2>2 DEF EvaluateShadow
      <3> DEFINE target(i) == DesiredAction(Shape(i), m)
                 fresh == PostCutoff(m.content.cutoff)
                 scored == {i \in {i \in fresh : SupportedForTarget(Shape(i), target(i))} :
                               ~WeightViolation(Shape(i), target(i))}
      <3>7. \E e : gate' = {[rows |-> scored, eligible |-> e]} /\ (e => VerifyManifest(m, key))
        BY <3>1
      <3>2. PICK g : /\ gate' = {g}
                     /\ \A i \in g.rows : /\ i \in PostCutoff(m.content.cutoff)
                                          /\ SupportedForTarget(Shape(i), target(i))
                     /\ g.eligible => VerifyManifest(m, key)
        <4>1. PICK e : gate' = {[rows |-> scored, eligible |-> e]} /\ (e => VerifyManifest(m, key))
          BY <3>7
        <4>2. \A i \in scored : i \in fresh /\ SupportedForTarget(Shape(i), target(i))
          OBVIOUS
        <4> HIDE DEF scored, target
        <4> WITNESS [rows |-> scored, eligible |-> e]
        <4> QED
          BY <4>1, <4>2
      <3>3. \A i \in g.rows : i \in RowIds /\ records[i].at > m.content.cutoff
        BY <3>2 DEF PostCutoff, Usable
      <3>4. \A i \in g.rows : DesiredAction(Shape(i), m) = TargetAction(Shape(i), m.content.policy)
        BY <3>2 DEF SupportedForTarget, DesiredAction, TargetAction
      <3>5. g.eligible => m.content = m.signed /\ m.identity.cutoff = m.content.cutoff
        BY <3>2 DEF VerifyManifest
      <3>6. UNCHANGED <<records, manifest>> /\ \A n \in manifest : n = m
        BY <2>2 DEF EvaluateShadow, GovernanceInv, ManifestInv
      <3> QED
        BY <3>2, <3>3, <3>4, <3>5, <3>6 DEF GateInv, Shape, RowIds, DesiredAction
    <2>3. CASE UNCHANGED <<gate, manifest>>
      <3> SUFFICES ASSUME NEW g \in gate
                   PROVE  (/\ g.rows \subseteq RowIds
                           /\ \A m \in manifest :
                                /\ \A i \in g.rows :
                                     /\ records[i].at > m.content.cutoff
                                     /\ DesiredAction(Shape(i), m) = TargetAction(Shape(i), m.content.policy)
                                /\ g.eligible => /\ m.content = m.signed
                                                 /\ m.identity.cutoff = m.content.cutoff)'
        BY <2>3 DEF GateInv
      <3>1. \A i \in g.rows : i \in RowIds /\ i \in RowIds' /\ records'[i] = records[i]
        BY <1>0 DEF GovernanceInv, GateInv
      <3> QED
        BY <2>3, <3>1 DEF GovernanceInv, GateInv, Shape, DesiredAction
    <2> QED
      BY <2>1, <2>2, <2>3 DEF GovernanceNext, governanceVars, PassTime, RecordOutcome, BuildReport, CreateManifest,
           EditManifest
  <1> QED
    BY <1>0, <1>1, <1>2, <1>3 DEF GovernanceInv

\* The inductive invariant holds in every state of the specification.
LEMMA GovernanceInvariance == GovernanceSpec => []GovernanceInv
  <1>1. GovernanceInv /\ [GovernanceNext]_governanceVars => GovernanceInv'
    BY GovernanceNextInv
  <1> QED
    BY <1>1, GovernanceInitInv, PTL DEF GovernanceSpec

\* A policy is recommended as it was signed, on records its report has not seen,
\* and after its arm was taken in both halves of those it has: for any records
\* in any order, any edits and any thresholds (build_contextual_policy_report,
\* verify_policy_manifest, evaluate_shadow_policy).
THEOREM GovernanceIsSafe == GovernanceSpec => []GovernanceSafety
  <1>1. GovernanceInv => GovernanceSafety
    <2> SUFFICES ASSUME GovernanceInv PROVE GovernanceSafety
      OBVIOUS
    <2>1. GovernanceTypeOK
      BY DEF GovernanceInv, RowsType, ReportsInv, ManifestInv, GateInv, GovernanceTypeOK, Covers
    <2>2. ShadowEvidenceIsUnseen
      <3> SUFFICES ASSUME NEW g \in gate, NEW m \in manifest, g.eligible,
                          NEW i \in g.rows \cap m.identity.rows PROVE FALSE
        BY DEF ShadowEvidenceIsUnseen
      <3>1. m.content.cutoff \in Nat /\ records[i].at <= m.content.cutoff /\ records[i].at > m.content.cutoff
        BY DEF GovernanceInv, ManifestInv, GateInv, Covers
      <3>2. i \in 1..Len(records) /\ records[i] \in StampedRows
        BY DEF GovernanceInv, GateInv, RowIds, RowsType
      <3>3. records[i].at \in Int
        BY <3>2 DEF StampedRows
      <3> QED
        BY <3>1, <3>3
    <2>3. RecommendedAsSigned
      <3> SUFFICES ASSUME NEW g \in gate, NEW m \in manifest, g.eligible
                   PROVE  /\ m.content.policy = m.identity.policy /\ m.content.cutoff = m.identity.cutoff
                          /\ m.content.models = "fitted" /\ m.content.status = "shadow_only"
        BY DEF RecommendedAsSigned
      <3>1. m.content = m.signed
        BY DEF GovernanceInv, GateInv
      <3>2. m.signed = [policy |-> m.identity.policy, cutoff |-> m.identity.cutoff, models |-> "fitted",
                        status |-> "shadow_only"]
        BY DEF GovernanceInv, ManifestInv
      <3> QED
        BY <3>1, <3>2
    <2>4. AccountsAgree
      BY DEF GovernanceInv, GateInv, AccountsAgree
    <2>5. ManifestHasExposures
      BY DEF GovernanceInv, ManifestInv, Covers, ManifestHasExposures
    <2> QED
      BY <2>1, <2>2, <2>3, <2>4, <2>5 DEF GovernanceSafety
  <1> QED
    BY <1>1, GovernanceInvariance, PTL

-----------------------------------------------------------------------------
(* RunJournal: chains of digests *)

\* What is indexed from 1 to n is a sequence of n.
LEMMA LenIs ==
  ASSUME NEW n \in Nat, NEW s, s = [i \in 1..n |-> s[i]]
  PROVE  s \in Seq({s[i] : i \in 1..n}) /\ Len(s) = n /\ DOMAIN s = 1..n
  <1>1. \A i \in 1..n : s[i] \in {s[k] : k \in 1..n}
    OBVIOUS
  <1> DEFINE S == {s[k] : k \in 1..n}
  <1>2. \A i \in 1..n : s[i] \in S
    BY <1>1
  <1> HIDE DEF S
  <1>3. s \in [1..n -> S]
    BY <1>2
  <1>4. s \in Seq(S) /\ Len(s) = n
    BY <1>3
  <1> QED BY <1>3, <1>4 DEF S

\* The next digest of a chain.
NextDigest(i, before, payload) ==
  <<[sequence |-> i, kind |-> EventKinds[i], previous |-> before, payload |-> payload]>>

\* The digests up to the m-th.
DigestsTo(m, payloads, d) ==
  d = [i \in 0..m |-> IF i = 0 THEN <<>> ELSE NextDigest(i, d[i - 1], payloads[i])]

\* Each digest is of the body that holds the one before it.
LEMMA DigestsAre ==
  ASSUME NEW payloads, Len(payloads) \in Nat
  PROVE  DigestsTo(Len(payloads), payloads, Digests(payloads))
  <1> DEFINE n == Len(payloads)
             Bad == {m \in Nat : ~ \E d : DigestsTo(m, payloads, d)}
  <1>1. Bad = {}
    <2> SUFFICES ASSUME Bad # {} PROVE FALSE
      OBVIOUS
    <2>1. PICK m \in Bad : \A k \in Bad : m <= k
      <3> HIDE DEF Bad
      <3>1. Bad \in SUBSET Nat
        BY DEF Bad
      <3> QED BY <3>1, LeastOf
    <2>2. CASE m = 0
      <3> DEFINE d0 == [i \in 0..0 |-> <<>>]
      <3>1. d0 = [i \in 0..0 |-> IF i = 0 THEN <<>> ELSE NextDigest(i, d0[i - 1], payloads[i])]
        OBVIOUS
      <3> HIDE DEF d0
      <3>2. DigestsTo(0, payloads, d0)
        BY <3>1 DEF DigestsTo
      <3> QED BY <2>1, <2>2, <3>2
    <2>3. CASE m # 0
      <3>1. m - 1 \in Nat /\ m - 1 \notin Bad
        BY <2>1, <2>3
      <3>2. PICK d : DigestsTo(m - 1, payloads, d)
        BY <3>1
      <3> DEFINE e == [i \in 0..m |-> IF i = m THEN NextDigest(m, d[m - 1], payloads[m]) ELSE d[i]]
                 next(i) == IF i = 0 THEN <<>> ELSE NextDigest(i, e[i - 1], payloads[i])
      <3>3. \A i \in 0..(m - 1) : d[i] = (IF i = 0 THEN <<>> ELSE NextDigest(i, d[i - 1], payloads[i]))
        BY <3>1, <3>2 DEF DigestsTo
      <3>4. m \in Nat
        BY <2>1
      <3>5. ASSUME NEW i \in 0..m PROVE e[i] = next(i)
        <4>1. CASE i = 0
          <5>1. i \in 0..(m - 1) /\ i # m
            BY <4>1, <2>3, <3>4
          <5>2. e[i] = d[i] /\ d[i] = <<>>
            BY <4>1, <3>3, <5>1
          <5> HIDE DEF e
          <5> QED BY <4>1, <5>2
        <4>2. CASE i = m
          BY <4>2, <2>3, <3>4
        <4>3. CASE i # 0 /\ i # m
          <5>1. i \in 0..(m - 1) /\ i - 1 \in 0..m /\ i - 1 # m
            BY <4>3, <3>4
          <5>2. e[i] = d[i] /\ e[i - 1] = d[i - 1]
            BY <5>1, <4>3
          <5>3. d[i] = NextDigest(i, d[i - 1], payloads[i])
            BY <3>3, <5>1, <4>3
          <5> HIDE DEF e
          <5> QED BY <5>2, <5>3, <4>3
        <4> QED BY <4>1, <4>2, <4>3
      <3>6. e = [i \in 0..m |-> e[i]]
        OBVIOUS
      <3>7. e = [i \in 0..m |-> next(i)]
        <4> HIDE DEF next, e
        <4> QED BY <3>5, <3>6
      <3> HIDE DEF e
      <3>8. DigestsTo(m, payloads, e)
        BY <3>7 DEF DigestsTo
      <3> QED BY <2>1, <3>8
    <2> QED BY <2>2, <2>3
  <1>2. PICK d : DigestsTo(n, payloads, d)
    BY <1>1
  <1>3. Digests(payloads) = CHOOSE g : DigestsTo(n, payloads, g)
    BY DEF Digests, DigestsTo, NextDigest
  <1> HIDE DEF n, Bad
  <1>4. DigestsTo(n, payloads, CHOOSE g : DigestsTo(n, payloads, g))
    BY <1>2
  <1> QED BY <1>3, <1>4 DEF n

\* A body with its digest.
IsEvent(e) ==
  e \in [sequence : {e.sequence}, kind : {e.kind}, previous : {e.previous}, payload : 0..1,
         digest : {e.digest}]

\* A list of events.
EventsShape(events) ==
  /\ Len(events) \in Nat /\ events = [i \in 1..Len(events) |-> events[i]]
  /\ \A i \in 1..Len(events) : IsEvent(events[i])

\* What a journal looks like that was built and possibly edited.
JournalShape(j) ==
  /\ j \in [schema : {j.schema}, id : {j.id}, identity : {j.identity}, retrieval : {j.retrieval},
            selected : {j.selected}, events : {j.events}, count : {j.count}, head : {j.head},
            digest : {j.digest}]
  /\ j.identity = [f \in Fields |-> j.identity[f]] /\ j.identity["repository"] # <<>>
  /\ EventsShape(j.events)

\* The contract names at least one kind.
LEMMA SomeKinds == Len(EventKinds) \in Nat /\ Len(EventKinds) >= 1
  BY JournalAssumption

\* A chain of payloads, event by event.
LEMMA ChainIs ==
  ASSUME NEW n \in Nat, NEW payloads, payloads = [i \in 1..n |-> payloads[i]]
  PROVE  /\ Len(payloads) = n /\ Len(Chained(payloads)) = n
         /\ Chained(payloads) = [i \in 1..n |-> Chained(payloads)[i]]
         /\ \A i \in 1..n :
              /\ Chained(payloads)[i] =
                   [sequence |-> i, kind |-> EventKinds[i],
                    previous |-> IF i = 1 THEN <<>> ELSE Chained(payloads)[i - 1].digest,
                    payload |-> payloads[i], digest |-> <<Body(Chained(payloads)[i])>>]
  <1> DEFINE d == Digests(payloads)
             c == Chained(payloads)
  <1>1. Len(payloads) = n
    BY LenIs
  <1>2. c = [i \in 1..n |-> [sequence |-> i, kind |-> EventKinds[i], previous |-> d[i - 1],
                             payload |-> payloads[i], digest |-> d[i]]]
    BY <1>1 DEF Chained
  <1>3. DigestsTo(n, payloads, d)
    BY <1>1, DigestsAre
  <1> HIDE DEF c, d
  <1>4. d[0] = <<>> /\ \A i \in 1..n : d[i] = NextDigest(i, d[i - 1], payloads[i])
    <2>1. \A i \in 0..n : d[i] = (IF i = 0 THEN <<>> ELSE NextDigest(i, d[i - 1], payloads[i]))
      BY <1>3 DEF DigestsTo
    <2>2. 0 \in 0..n /\ \A i \in 1..n : i \in 0..n /\ i # 0
      OBVIOUS
    <2> QED BY <2>1, <2>2
  <1>5. c = [i \in 1..n |-> c[i]]
    BY <1>2
  <1>6. Len(c) = n
    BY <1>5, LenIs
  <1>7. ASSUME NEW i \in 1..n
        PROVE  c[i] = [sequence |-> i, kind |-> EventKinds[i],
                       previous |-> IF i = 1 THEN <<>> ELSE c[i - 1].digest,
                       payload |-> payloads[i], digest |-> <<Body(c[i])>>]
    <2>1. c[i] = [sequence |-> i, kind |-> EventKinds[i], previous |-> d[i - 1],
                  payload |-> payloads[i], digest |-> d[i]]
      BY <1>2
    <2>2. d[i - 1] = IF i = 1 THEN <<>> ELSE c[i - 1].digest
      <3>1. CASE i = 1
        BY <3>1, <1>4
      <3>2. CASE i # 1
        <4>1. i - 1 \in 1..n
          BY <3>2
        <4>2. c[i - 1].digest = d[i - 1]
          BY <4>1, <1>2
        <4> QED BY <3>2, <4>2
      <3> QED BY <3>1, <3>2
    <2>3. d[i] = <<Body(c[i])>>
      BY <1>4, <2>1 DEF NextDigest, Body, Payload
    <2> QED BY <2>1, <2>2, <2>3
  <1> QED BY <1>1, <1>5, <1>6, <1>7 DEF c

\* build_replay_journal, field by field.
LEMMA BuiltIs ==
  ASSUME NEW id, NEW identity, NEW payloads, NEW b, b = BuildJournal(id, identity, payloads)
  PROVE  /\ b = [schema |-> "v2", id |-> id, identity |-> identity, retrieval |-> b.retrieval,
                 selected |-> b.selected, events |-> b.events, count |-> b.count, head |-> b.head,
                 digest |-> JournalDigest(b)]
         /\ b.events = Chained(payloads) /\ b.count = Len(b.events)
         /\ b.head = b.events[Len(b.events)].digest
         /\ b.retrieval = PayloadOf(b.events, "retrieval")
         /\ b.selected = PayloadOf(b.events, "selection")
  BY DEF BuildJournal, JournalDigest

\* The other way round: what has these fields was built.
LEMMA IsBuilt ==
  ASSUME NEW id, NEW payloads, NEW b,
         b = [schema |-> "v2", id |-> id, identity |-> b.identity, retrieval |-> b.retrieval,
              selected |-> b.selected, events |-> b.events, count |-> b.count, head |-> b.head,
              digest |-> JournalDigest(b)],
         b.events = Chained(payloads), b.count = Len(b.events),
         b.head = b.events[Len(b.events)].digest,
         b.retrieval = PayloadOf(b.events, "retrieval"),
         b.selected = PayloadOf(b.events, "selection")
  PROVE  b = BuildJournal(id, b.identity, payloads)
  BY DEF BuildJournal, JournalDigest

\* A journal verifies exactly when it was built.
LEMMA VerifiedIsBuilt ==
  ASSUME NEW j, JournalShape(j), NEW id
  PROVE  VerifyReplayJournal(j, id) <=>
           /\ Len(j.events) = Len(EventKinds)
           /\ j = BuildJournal(id, j.identity, [i \in 1..Len(j.events) |-> j.events[i].payload])
  <1> DEFINE n == Len(EventKinds)
             e == j.events
             payloads == [i \in 1..Len(j.events) |-> j.events[i].payload]
             c == Chained(payloads)
  <1>1. n \in Nat /\ n >= 1
    BY SomeKinds
  <1>2. Len(e) \in Nat /\ e = [i \in 1..Len(e) |-> e[i]] /\ \A i \in 1..Len(e) : IsEvent(e[i])
    BY Zenon DEF JournalShape, EventsShape
  <1>3. payloads = [i \in 1..Len(e) |-> payloads[i]] /\ \A i \in 1..Len(e) : payloads[i] = e[i].payload
    OBVIOUS
  <1>4. ASSUME VerifyReplayJournal(j, id)
        PROVE  Len(e) = n /\ j = BuildJournal(id, j.identity, payloads)
    <2>1. Len(e) = n /\ j.schema = "v2" /\ j.id = id /\ j.count = Len(e)
      BY <1>4 DEF VerifyReplayJournal
    <2>2. \A i \in 1..n : /\ e[i].kind = EventKinds[i] /\ e[i].sequence = i
                           /\ e[i].previous = (IF i = 1 THEN <<>> ELSE e[i - 1].digest)
                           /\ e[i].digest = <<Body(e[i])>>
      BY <1>4, <2>1 DEF VerifyReplayJournal
    <2>3. /\ j.head = (IF n + 1 = 1 THEN <<>> ELSE e[n + 1 - 1].digest)
          /\ PayloadOf(e, "retrieval") = j.retrieval /\ PayloadOf(e, "selection") = j.selected
          /\ j.digest = JournalDigest(j)
      BY <1>4, <2>1 DEF VerifyReplayJournal
    <2>4. j.head = e[n].digest
      BY <1>1, <2>3
    <2> HIDE DEF payloads, c, n
    <2>5. /\ Len(c) = n /\ c = [i \in 1..n |-> c[i]]
          /\ \A i \in 1..n :
                c[i] = [sequence |-> i, kind |-> EventKinds[i],
                        previous |-> IF i = 1 THEN <<>> ELSE c[i - 1].digest,
                        payload |-> payloads[i], digest |-> <<Body(c[i])>>]
      <3>1. payloads = [i \in 1..n |-> payloads[i]]
        BY <1>3, <2>1
      <3> QED BY <1>1, <3>1, ChainIs DEF c
    <2> DEFINE Off == {m \in Nat : m \in 1..n /\ e[m] # c[m]}
    <2>6. Off = {}
      <3> SUFFICES ASSUME Off # {} PROVE FALSE
        OBVIOUS
      <3>1. PICK m \in Off : \A k \in Off : m <= k
        <4>1. Off \in SUBSET Nat
          OBVIOUS
        <4> HIDE DEF Off
        <4> QED BY <4>1, LeastOf
      <3>2. m \in 1..n /\ e[m] # c[m]
        BY <3>1
      <3>3. e[m].previous = c[m].previous
        <4>1. CASE m = 1
          <5>1. c[m].previous = <<>>
            BY <4>1, <2>5, <3>2
          <5> QED BY <4>1, <5>1, <2>2, <3>2
        <4>2. CASE m # 1
          <5>1. m - 1 \in 1..n /\ m - 1 \in Nat /\ ~(m <= m - 1)
            BY <4>2, <3>2, <1>1
          <5>2. e[m - 1] = c[m - 1]
            BY <5>1, <3>1
          <5>3. c[m].previous = c[m - 1].digest
            BY <4>2, <2>5, <3>2
          <5>4. e[m].previous = e[m - 1].digest
            BY <4>2, <2>2, <3>2
          <5> QED BY <5>2, <5>3, <5>4
        <4> QED BY <4>1, <4>2
      <3>4. /\ c[m].sequence = m /\ c[m].kind = EventKinds[m] /\ c[m].payload = payloads[m]
            /\ c[m].digest = <<Body(c[m])>>
        <4> DEFINE prior == IF m = 1 THEN <<>> ELSE c[m - 1].digest
                   body == <<Body(c[m])>>
        <4>1. c[m] = [sequence |-> m, kind |-> EventKinds[m], previous |-> prior,
                      payload |-> payloads[m], digest |-> body]
          BY <2>5, <3>2
        <4> HIDE DEF prior, body
        <4>2. c[m].sequence = m /\ c[m].kind = EventKinds[m] /\ c[m].payload = payloads[m] /\ c[m].digest = body
          BY <4>1
        <4> QED BY <4>2 DEF body
      <3>5. payloads[m] = e[m].payload
        BY <1>3, <2>1, <3>2
      <3>6. Body(e[m]) = Body(c[m])
        BY <2>2, <3>2, <3>3, <3>4, <3>5 DEF Body, Payload
      <3>7. e[m].digest = c[m].digest
        BY <3>6, <3>4, <2>2, <3>2
      <3>8. e[m] = [sequence |-> e[m].sequence, kind |-> e[m].kind, previous |-> e[m].previous,
                    payload |-> e[m].payload, digest |-> e[m].digest]
        BY <1>2, <2>1, <3>2 DEF IsEvent
      <3>9. c[m] = [sequence |-> c[m].sequence, kind |-> c[m].kind, previous |-> c[m].previous,
                    payload |-> c[m].payload, digest |-> c[m].digest]
        <4>1. \A v, w, x, y, z, r : r = [sequence |-> v, kind |-> w, previous |-> x, payload |-> y, digest |-> z] =>
                r = [sequence |-> r.sequence, kind |-> r.kind, previous |-> r.previous,
                     payload |-> r.payload, digest |-> r.digest]
          OBVIOUS
        <4> QED BY <4>1, <2>5, <3>2
      <3>10. e[m].sequence = c[m].sequence /\ e[m].kind = c[m].kind /\ e[m].payload = c[m].payload
        BY <2>2, <3>2, <3>4, <3>5
      <3> QED BY <3>2, <3>3, <3>7, <3>8, <3>9, <3>10
    <2>7. \A i \in 1..n : e[i] = c[i]
      BY <2>6, <1>1
    <2>8. e = c
      BY <2>7, <1>2, <2>1, <2>5
    <2>9. j = [schema |-> "v2", id |-> id, identity |-> j.identity, retrieval |-> j.retrieval,
               selected |-> j.selected, events |-> j.events, count |-> j.count, head |-> j.head,
               digest |-> JournalDigest(j)]
      BY <2>1, <2>3 DEF JournalShape
    <2>10. j = BuildJournal(id, j.identity, payloads)
      BY <2>1, <2>3, <2>4, <2>8, <2>9, IsBuilt DEF c
    <2> QED BY <2>1, <2>10 DEF n
  <1>5. ASSUME Len(e) = n, j = BuildJournal(id, j.identity, payloads)
        PROVE  VerifyReplayJournal(j, id)
    <2> HIDE DEF payloads, c, n
    <2>1. /\ j = [schema |-> "v2", id |-> id, identity |-> j.identity, retrieval |-> j.retrieval,
                  selected |-> j.selected, events |-> j.events, count |-> j.count, head |-> j.head,
                  digest |-> JournalDigest(j)]
          /\ e = c /\ j.count = Len(e) /\ j.head = e[Len(e)].digest
          /\ j.retrieval = PayloadOf(e, "retrieval") /\ j.selected = PayloadOf(e, "selection")
      <3> HIDE DEF JournalDigest
      <3> DEFINE identity == j.identity
      <3>1. j = BuildJournal(id, identity, payloads)
        BY <1>5
      <3> HIDE DEF identity
      <3> QED BY <3>1, BuiltIs DEF identity, c
    <2>2. \A i \in 1..n :
                c[i] = [sequence |-> i, kind |-> EventKinds[i],
                        previous |-> IF i = 1 THEN <<>> ELSE c[i - 1].digest,
                        payload |-> payloads[i], digest |-> <<Body(c[i])>>]
      BY <1>1, <1>3, <1>5, ChainIs DEF c
    <2>3. \A i \in 1..n : /\ e[i].kind = EventKinds[i] /\ e[i].sequence = i
                           /\ e[i].previous = (IF i = 1 THEN <<>> ELSE e[i - 1].digest)
                           /\ e[i].digest = <<Body(e[i])>>
      <3> SUFFICES ASSUME NEW i \in 1..n
                   PROVE  /\ e[i].kind = EventKinds[i] /\ e[i].sequence = i
                          /\ e[i].previous = (IF i = 1 THEN <<>> ELSE e[i - 1].digest)
                          /\ e[i].digest = <<Body(e[i])>>
        OBVIOUS
      <3> HIDE DEF e
      <3>1. e[i] = [sequence |-> i, kind |-> EventKinds[i],
                        previous |-> IF i = 1 THEN <<>> ELSE e[i - 1].digest,
                        payload |-> payloads[i], digest |-> <<Body(e[i])>>]
        BY <2>1, <2>2
      <3> DEFINE prior == IF i = 1 THEN <<>> ELSE e[i - 1].digest
                 body == <<Body(e[i])>>
      <3>2. e[i] = [sequence |-> i, kind |-> EventKinds[i], previous |-> prior,
                        payload |-> payloads[i], digest |-> body]
        BY <3>1
      <3> HIDE DEF prior, body
      <3>3. e[i].kind = EventKinds[i] /\ e[i].sequence = i /\ e[i].previous = prior /\ e[i].digest = body
        BY <3>2
      <3> QED BY <3>3 DEF prior, body
    <2>4. j.schema = "v2" /\ j.id = id /\ j.digest = JournalDigest(j)
      BY <2>1
    <2>5. j.head = (IF n + 1 = 1 THEN <<>> ELSE e[n + 1 - 1].digest)
      BY <1>1, <1>5, <2>1
    <2> QED BY <1>5, <2>1, <2>3, <2>4, <2>5 DEF VerifyReplayJournal, n
  <1> QED BY <1>4, <1>5

-----------------------------------------------------------------------------
(* RunJournal: the invariant *)

\* A gather, with the identity of its repository before it writes a journal.
GatherFits(r) ==
  /\ r \in [at : {"idle", "selected", "trace", "aggregate", "write", "persist", "persisting", "done"},
            id : RunIds, identity : {r.identity}, journal : BOOLEAN]
  /\ r.identity = [f \in Fields |-> r.identity[f]]
  /\ r.at = "write" => r.identity["repository"] # <<>>

\* Who claims a journal has one, and a run file that is being written is written
\* by one gather.
GathersHold ==
  /\ gather = [g \in Gathers |-> gather[g]] /\ \A g \in Gathers : GatherFits(gather[g])
  /\ \A g \in Gathers : /\ gather[g].at = "persisting" => runfiles[gather[g].id] = "partial"
                        /\ gather[g].journal = TRUE => journals[gather[g].id] # <<>>
  /\ \A g, h \in Gathers : gather[g].at = "persisting" /\ gather[h].at = "persisting" /\ g # h =>
                            gather[g].id # gather[h].id

\* Stored journals look like journals, and are as long as they were built.
JournalsHold ==
  /\ journals = [id \in RunIds |-> journals[id]] /\ rewritten \subseteq RunIds
  /\ \A id \in RunIds : journals[id] # <<>> =>
       /\ JournalShape(journals[id][1])
       /\ id \notin rewritten => Len(journals[id][1].events) = Len(EventKinds)

\* The workspace and the run files are well formed.
WorldHolds ==
  /\ world \in [Facets -> 0..MaxVersion] /\ runfiles \in [RunIds -> {"none", "partial", "whole"}]

\* The fields a command has compared when it is about to read another.
ReadBefore(at) ==
  CASE at = "workspace"  -> {"config"}
    [] at = "graph"      -> {"config", "workspace"}
    [] at = "repository" -> {"config", "workspace", "graph"}

\* What a command found the same, in a workspace that stays, is the same.
ReplayHolds ==
  /\ replay \in [at : {"idle", "workspace", "graph", "repository", "done"}, id : {replay.id},
                 events : BOOLEAN, compatible : BOOLEAN, recorded : {replay.recorded}, drift : {replay.drift}]
  /\ replay.at \in {"workspace", "graph", "repository"} =>
       /\ replay.recorded["repository"] # <<>>
       /\ moved = FALSE => \A f \in ReadBefore(replay.at) :
                             f \in replay.drift \/ replay.recorded[f] = Identity(f)
  /\ replay.at = "done" /\ replay.compatible = TRUE /\ moved = FALSE =>
       \A f \in Fields : replay.recorded[f] = Identity(f)

JournalInv == GathersHold /\ JournalsHold /\ WorldHolds /\ ReplayHolds

\* Before the first gather.
LEMMA JournalInitFits == JournalInit => JournalInv
  <1> SUFFICES ASSUME JournalInit PROVE JournalInv
    OBVIOUS
  <1>1. NoGather.id \in RunIds /\ NoReplay.id \in RunIds
    BY JournalAssumption DEF NoGather, NoReplay
  <1>2. GatherFits(NoGather) /\ NoGather.at = "idle" /\ NoGather.journal = FALSE
    BY <1>1 DEF GatherFits, NoGather, Fields
  <1>3. GathersHold
    BY <1>2, Zenon DEF GathersHold, JournalInit
  <1>4. JournalsHold
    BY DEF JournalsHold, JournalInit
  <1>5. WorldHolds
    BY JournalAssumption DEF WorldHolds, JournalInit
  <1>6. ReplayHolds
    BY DEF ReplayHolds, JournalInit, NoReplay
  <1> QED BY <1>3, <1>4, <1>5, <1>6 DEF JournalInv

\* A gather moves on; the others keep their journals and their run files.
LEMMA GatherMoves ==
  ASSUME GathersHold, NEW g \in Gathers, NEW now, GatherFits(now),
         gather' = [gather EXCEPT ![g] = now],
         now.at = "persisting" => /\ runfiles'[now.id] = "partial"
                                  /\ \A h \in Gathers \ {g} : gather[h].at = "persisting" => gather[h].id # now.id,
         now.journal = TRUE => journals'[now.id] # <<>>,
         \A id \in RunIds : journals[id] # <<>> => journals'[id] # <<>>,
         \A h \in Gathers \ {g} : gather[h].at = "persisting" => runfiles'[gather[h].id] = "partial"
  PROVE  GathersHold'
  <1>1. \A h \in Gathers : gather'[h] = IF h = g THEN now ELSE gather[h]
    BY DEF GathersHold
  <1>2. gather' = [h \in Gathers |-> gather'[h]]
    BY DEF GathersHold
  <1>3. \A h \in Gathers : GatherFits(gather[h])' 
    <2>1. \A h \in Gathers : GatherFits(gather[h])
      BY DEF GathersHold
    <2> QED BY <1>1, <2>1 DEF GatherFits
  <1>4. \A h \in Gathers : gather[h].id \in RunIds
    BY DEF GathersHold, GatherFits
  <1>5. \A h \in Gathers : /\ gather'[h].at = "persisting" => runfiles'[gather'[h].id] = "partial"
                           /\ gather'[h].journal = TRUE => journals'[gather'[h].id] # <<>>
    <2> SUFFICES ASSUME NEW h \in Gathers
                 PROVE  /\ gather'[h].at = "persisting" => runfiles'[gather'[h].id] = "partial"
                        /\ gather'[h].journal = TRUE => journals'[gather'[h].id] # <<>>
      OBVIOUS
    <2>1. CASE h = g
      BY <2>1, <1>1
    <2>2. CASE h # g
      <3>1. gather'[h] = gather[h] /\ gather[h].id \in RunIds /\ h \in Gathers \ {g}
        BY <1>1, <1>4, <2>2
      <3>2. gather[h].at = "persisting" => runfiles'[gather[h].id] = "partial"
        BY <3>1
      <3>3. gather[h].journal = TRUE => journals[gather[h].id] # <<>>
        BY Zenon DEF GathersHold
      <3> QED BY <3>1, <3>2, <3>3
    <2> QED BY <2>1, <2>2
  <1>6. \A h, k \in Gathers : gather'[h].at = "persisting" /\ gather'[k].at = "persisting" /\ h # k =>
                              gather'[h].id # gather'[k].id
    BY <1>1 DEF GathersHold
  <1> QED BY <1>2, <1>3, <1>5, <1>6 DEF GathersHold

\* What a command has found stays so when neither the workspace nor it moves.
LEMMA ReplayStays ==
  ASSUME ReplayHolds, UNCHANGED replay,
         moved' = TRUE \/ UNCHANGED <<world, runfiles, moved>>
  PROVE  ReplayHolds'
  <1>1. CASE moved' = TRUE
    BY <1>1 DEF ReplayHolds
  <1>2. CASE UNCHANGED <<world, runfiles, moved>>
    <2>1. \A f \in Fields : Identity(f)' = Identity(f)
      BY <1>2 DEF Identity, ConfigIdentity, WorkspaceIdentity, GraphIdentity, WorktreeState, RepositoryIdentity
    <2>2. replay.at \in {"workspace", "graph", "repository"} => ReadBefore(replay.at) \subseteq Fields
      BY DEF ReadBefore, Fields
    <2> HIDE DEF Identity, ReadBefore
    <2>3. (\A f \in Fields : Identity(f)' = Identity(f)) /\ ReadBefore(replay.at)' = ReadBefore(replay.at)
      BY <2>1 DEF ReadBefore
    <2> QED BY <1>2, <2>2, <2>3 DEF ReplayHolds
  <1> QED BY <1>1, <1>2

\* The record of a gather, field by field.
LEMMA GatherRecord ==
  ASSUME NEW r, GatherFits(r)
  PROVE  /\ r.id \in RunIds /\ r.journal \in BOOLEAN /\ r.identity = [f \in Fields |-> r.identity[f]]
         /\ \A a \in {"selected", "trace", "aggregate", "persist", "persisting", "done"} :
              GatherFits([r EXCEPT !.at = a]) /\ [r EXCEPT !.at = a].at = a
              /\ [r EXCEPT !.at = a].id = r.id /\ [r EXCEPT !.at = a].journal = r.journal
  BY DEF GatherFits

\* A gather that starts is well formed.
LEMMA StartedFits ==
  ASSUME NEW id \in RunIds, NEW v, NEW now,
         now = [NoGather EXCEPT !.at = "selected", !.id = id, !.identity["config"] = v]
  PROVE  GatherFits(now) /\ now.at = "selected" /\ now.journal = FALSE
  BY DEF NoGather, GatherFits

\* So is one that has its last fingerprint,
LEMMA IdentifiedFits ==
  ASSUME NEW r, GatherFits(r), NEW v, v # <<>>, NEW now,
         now = [r EXCEPT !.identity["repository"] = v, !.at = "write"]
  PROVE  GatherFits(now) /\ now.at = "write" /\ now.journal = r.journal /\ now.id = r.id
  BY DEF GatherFits, Fields

\* and one that has ended.
LEMMA EndedFits ==
  ASSUME NEW id \in RunIds, NEW claims \in BOOLEAN, NEW now,
         now = [NoGather EXCEPT !.at = "done", !.id = id, !.journal = claims]
  PROVE  GatherFits(now) /\ now.at = "done" /\ now.journal = claims /\ now.id = id
  BY DEF NoGather, GatherFits

\* A gather that has ended.
LEMMA EndFits ==
  ASSUME GathersHold, NEW g \in Gathers, NEW claims \in BOOLEAN
  PROVE  /\ GatherFits(Ended(g, claims)) /\ Ended(g, claims).at = "done"
         /\ Ended(g, claims).id = gather[g].id /\ Ended(g, claims).journal = claims
  <1>1. gather[g].id \in RunIds
    BY DEF GathersHold, GatherFits
  <1>2. Ended(g, claims) = [NoGather EXCEPT !.at = "done", !.id = gather[g].id, !.journal = claims]
    BY Zenon DEF Ended
  <1>3. \A now : now = [NoGather EXCEPT !.at = "done", !.id = gather[g].id, !.journal = claims] =>
                  GatherFits(now) /\ now.at = "done" /\ now.journal = claims /\ now.id = gather[g].id
    <2> DEFINE id == gather[g].id
    <2>1. id \in RunIds
      BY <1>1
    <2> HIDE DEF id
    <2>2. \A now : now = [NoGather EXCEPT !.at = "done", !.id = id, !.journal = claims] =>
                    GatherFits(now) /\ now.at = "done" /\ now.journal = claims /\ now.id = id
      <3> HIDE DEF NoGather
      <3> QED BY <2>1, EndedFits, Zenon
    <2> QED BY <2>2 DEF id
  <1> HIDE DEF Ended
  <1> QED BY <1>2, <1>3, Zenon

\* The steps of a gather that write nothing.
LEMMA GatherOnlyKeeps ==
  ASSUME JournalInv, NEW g \in Gathers,
         StartGather(g) \/ TakeSnapshot(g) \/ EmitTrace(g) \/ AggregateIdentity(g) \/ GatherDies(g)
  PROVE  JournalInv'
  <1>1. UNCHANGED <<world, journals, runfiles, rewritten, replay, moved>>
    BY DEF StartGather, TakeSnapshot, EmitTrace, AggregateIdentity, GatherDies
  <1>2. JournalsHold' /\ WorldHolds' /\ ReplayHolds'
    <2>1. JournalsHold'
      BY <1>1 DEF JournalInv, JournalsHold, JournalShape, IsEvent
    <2>2. WorldHolds'
      BY <1>1 DEF JournalInv, WorldHolds
    <2>3. ReplayHolds'
      BY <1>1, ReplayStays DEF JournalInv
    <2> QED BY <2>1, <2>2, <2>3
  <1>3. GathersHold /\ GatherFits(gather[g])
    BY DEF JournalInv, GathersHold
  <1>4. \A h \in Gathers \ {g} : gather[h].at = "persisting" => runfiles'[gather[h].id] = "partial"
    <2>1. \A h \in Gathers : gather[h].at = "persisting" => runfiles[gather[h].id] = "partial"
      BY <1>3, Zenon DEF GathersHold
    <2> QED BY <1>1, <2>1
  <1>5. ASSUME NEW now, GatherFits(now), gather' = [gather EXCEPT ![g] = now], now.at # "persisting",
               now.journal = TRUE => journals[now.id] # <<>>
        PROVE  GathersHold'
    BY <1>1, <1>3, <1>4, <1>5, GatherMoves
  <1>6. \A claims \in BOOLEAN : claims = FALSE /\ gather' = [gather EXCEPT ![g] = Ended(g, claims)] => GathersHold'
    BY <1>3, <1>5, EndFits
  <1>7. gather[g].journal = TRUE => journals[gather[g].id] # <<>>
    BY <1>3, Zenon DEF GathersHold
  <1>8. CASE StartGather(g)
    <2>1. PICK id \in RunIds : gather' = [gather EXCEPT ![g] =
                [NoGather EXCEPT !.at = "selected", !.id = id, !.identity["config"] = Identity("config")]]
      BY <1>8 DEF StartGather
    <2> DEFINE now == [NoGather EXCEPT !.at = "selected", !.id = id, !.identity["config"] = Identity("config")]
    <2>2. GatherFits(now) /\ now.at = "selected" /\ now.journal = FALSE
      BY StartedFits, Zenon
    <2> HIDE DEF now
    <2> QED BY <1>5, <2>1, <2>2, <1>2 DEF now, JournalInv
  <1>9. CASE TakeSnapshot(g)
    <2> DEFINE stage == IF g \in Tracers THEN "trace" ELSE "persist"
               held == [gather[g].identity EXCEPT !["workspace"] = Identity("workspace"),
                                                  !["graph"] = Identity("graph")]
               now == [gather[g] EXCEPT !.identity = held, !.at = stage]
    <2>1. gather' = [gather EXCEPT ![g] = now]
      <3> HIDE DEF Identity
      <3> QED BY <1>3, <1>9 DEF TakeSnapshot, GathersHold
    <2>2. GatherFits(now) /\ now.at \in {"trace", "persist"} /\ now.journal = gather[g].journal /\ now.id = gather[g].id
      <3>1. stage \in {"trace", "persist"}
        OBVIOUS
      <3>2. gather[g].identity = [f \in Fields |-> gather[g].identity[f]]
        BY <1>3 DEF GatherFits
      <3>3. held = [f \in Fields |-> held[f]]
        <4> HIDE DEF Identity
        <4> QED BY <3>2
      <3> HIDE DEF stage, held
      <3>4. GatherFits(now) /\ now.at = stage /\ now.journal = gather[g].journal /\ now.id = gather[g].id
        <4> DEFINE q == gather[g]
        <4>1. GatherFits(q)
          BY <1>3
        <4> HIDE DEF q
        <4>2. \A r : r = [q EXCEPT !.identity = held, !.at = stage] =>
                GatherFits(r) /\ r.at = stage /\ r.journal = q.journal /\ r.id = q.id
          BY <4>1, <3>1, <3>3 DEF GatherFits
        <4> QED BY <4>2 DEF q
      <3> QED BY <3>1, <3>4
    <2> HIDE DEF now
    <2> QED BY <1>5, <1>7, <2>1, <2>2, <1>2 DEF JournalInv
  <1>10. CASE EmitTrace(g)
    <2>1. PICK traced \in BOOLEAN :
            gather' = [gather EXCEPT ![g] = IF traced THEN [@ EXCEPT !.at = "aggregate"] ELSE Ended(g, FALSE)]
      BY <1>10 DEF EmitTrace
    <2>2. CASE traced = TRUE
      <3> DEFINE now == [gather[g] EXCEPT !.at = "aggregate"]
      <3>1. gather' = [gather EXCEPT ![g] = now]
        BY <2>1, <2>2
      <3>2. GatherFits(now) /\ now.at = "aggregate" /\ now.journal = gather[g].journal /\ now.id = gather[g].id
        BY <1>3, GatherRecord
      <3> HIDE DEF now
      <3> QED BY <1>5, <1>7, <3>1, <3>2, <1>2 DEF JournalInv
    <2>3. CASE traced = FALSE
      <3>1. gather' = [gather EXCEPT ![g] = Ended(g, FALSE)]
        BY <2>1, <2>3
      <3> QED BY <3>1, <1>6, <1>2 DEF JournalInv
    <2> QED BY <2>2, <2>3
  <1>11. CASE AggregateIdentity(g)
    <2>1. PICK built \in BOOLEAN :
            gather' = [gather EXCEPT ![g] =
               IF built THEN [@ EXCEPT !.identity["repository"] = Identity("repository"), !.at = "write"]
                  ELSE Ended(g, FALSE)]
      BY <1>11 DEF AggregateIdentity
    <2>2. CASE built = TRUE
      <3> DEFINE now == [gather[g] EXCEPT !.identity["repository"] = Identity("repository"), !.at = "write"]
      <3>1. gather' = [gather EXCEPT ![g] = now]
        BY <2>1, <2>2
      <3>2. Identity("repository") # <<>>
        BY DEF Identity, RepositoryIdentity, WorktreeState
      <3>3. GatherFits(now) /\ now.at = "write" /\ now.journal = gather[g].journal /\ now.id = gather[g].id
        BY <1>3, <3>2, IdentifiedFits, Zenon
      <3> HIDE DEF now
      <3> QED BY <1>5, <1>7, <3>1, <3>3, <1>2 DEF JournalInv
    <2>3. CASE built = FALSE
      <3>1. gather' = [gather EXCEPT ![g] = Ended(g, FALSE)]
        BY <2>1, <2>3
      <3> QED BY <3>1, <1>6, <1>2 DEF JournalInv
    <2> QED BY <2>2, <2>3
  <1>12. CASE GatherDies(g)
    <2>1. gather' = [gather EXCEPT ![g] = Ended(g, FALSE)]
      BY <1>12 DEF GatherDies
    <2> QED BY <2>1, <1>6, <1>2 DEF JournalInv
  <1> QED BY <1>8, <1>9, <1>10, <1>11, <1>12

\* What is built looks like a journal and is as long as the contract.
LEMMA BuiltFits ==
  ASSUME NEW id, NEW identity, identity = [f \in Fields |-> identity[f]], identity["repository"] # <<>>,
         NEW payloads \in [1..Len(EventKinds) -> 0..1], NEW b, b = BuildJournal(id, identity, payloads)
  PROVE  JournalShape(b) /\ Len(b.events) = Len(EventKinds)
  <1> DEFINE n == Len(EventKinds)
             c == Chained(payloads)
  <1>1. n \in Nat
    BY SomeKinds
  <1>2. payloads = [i \in 1..n |-> payloads[i]] /\ \A i \in 1..n : payloads[i] \in 0..1
    OBVIOUS
  <1> HIDE DEF n, c
  <1>3. /\ Len(c) = n /\ c = [i \in 1..n |-> c[i]]
        /\ \A i \in 1..n :
              c[i] = [sequence |-> i, kind |-> EventKinds[i],
                      previous |-> IF i = 1 THEN <<>> ELSE c[i - 1].digest,
                      payload |-> payloads[i], digest |-> <<Body(c[i])>>]
    <2>1. payloads = [i \in 1..n |-> payloads[i]]
      BY <1>2
    <2>2. /\ Len(Chained(payloads)) = n
          /\ Chained(payloads) = [i \in 1..n |-> Chained(payloads)[i]]
          /\ \A i \in 1..n :
                Chained(payloads)[i] =
                  [sequence |-> i, kind |-> EventKinds[i],
                   previous |-> IF i = 1 THEN <<>> ELSE Chained(payloads)[i - 1].digest,
                   payload |-> payloads[i], digest |-> <<Body(Chained(payloads)[i])>>]
      BY <1>1, <2>1, ChainIs
    <2> QED BY <2>2 DEF c
  <1>4. ASSUME NEW i \in 1..n PROVE IsEvent(c[i])
    <2> DEFINE prior == IF i = 1 THEN <<>> ELSE c[i - 1].digest
               body == <<Body(c[i])>>
    <2>1. c[i] = [sequence |-> i, kind |-> EventKinds[i], previous |-> prior,
                  payload |-> payloads[i], digest |-> body]
      BY <1>3
    <2> HIDE DEF prior, body
    <2> QED BY <1>2, <2>1 DEF IsEvent
  <1>5. EventsShape(c)
    BY <1>1, <1>3, <1>4 DEF EventsShape
  <1>6. /\ b = [schema |-> "v2", id |-> id, identity |-> identity, retrieval |-> b.retrieval,
                selected |-> b.selected, events |-> b.events, count |-> b.count, head |-> b.head,
                digest |-> JournalDigest(b)]
        /\ b.events = c
    BY BuiltIs DEF c
  <1>7. b.identity = identity
    BY <1>6
  <1>8. b \in [schema : {b.schema}, id : {b.id}, identity : {b.identity}, retrieval : {b.retrieval},
            selected : {b.selected}, events : {b.events}, count : {b.count}, head : {b.head},
            digest : {b.digest}]
    BY <1>6
  <1> QED BY <1>3, <1>5, <1>6, <1>7, <1>8 DEF JournalShape, n

\* A journal or the same as it was is written.
LEMMA WriteKeeps ==
  ASSUME JournalInv, NEW g \in Gathers, WriteRunJournal(g) PROVE JournalInv'
  <1> DEFINE id == gather[g].id
  <1>1. GathersHold /\ GatherFits(gather[g]) /\ id \in RunIds
    BY DEF JournalInv, GathersHold, GatherFits
  <1>2. PICK created \in BOOLEAN :
          /\ created => journals[gather[g].id] = <<>>
          /\ gather' = [gather EXCEPT ![g] = Ended(g, created)]
          /\ journals' = IF created THEN [journals EXCEPT ![gather[g].id] = <<BuiltBy(g)>>] ELSE journals
    BY DEF WriteRunJournal
  <1>3. gather[g].at = "write" /\ UNCHANGED <<world, runfiles, rewritten, replay, moved>>
    BY DEF WriteRunJournal
  <1>4. journals = [k \in RunIds |-> journals[k]]
    BY DEF JournalInv, JournalsHold
  <1>5. created = TRUE => \A k \in RunIds : journals'[k] = IF k = id THEN <<BuiltBy(g)>> ELSE journals[k]
    BY <1>1, <1>2, <1>4
  <1>6. journals' = [k \in RunIds |-> journals'[k]]
    <2>1. CASE created = TRUE
      BY <2>1, <1>2, <1>4
    <2>2. CASE created = FALSE
      BY <2>2, <1>2, <1>4
    <2> QED BY <2>1, <2>2
  <1>7. JournalShape(BuiltBy(g)) /\ Len(BuiltBy(g).events) = Len(EventKinds)
    <2> DEFINE identity == gather[g].identity
               payloads == [i \in 1..Len(EventKinds) |-> 0]
    <2>1. identity = [f \in Fields |-> identity[f]] /\ identity["repository"] # <<>>
      BY <1>1, <1>3 DEF GatherFits
    <2>2. payloads \in [1..Len(EventKinds) -> 0..1]
      OBVIOUS
    <2>3. BuiltBy(g) = BuildJournal(id, identity, payloads)
      BY DEF BuiltBy
    <2> HIDE DEF identity, payloads, id
    <2> QED BY <2>1, <2>2, <2>3, BuiltFits
  <1>8. \A k \in RunIds : journals'[k] # <<>> =>
           \/ journals[k] # <<>> /\ journals'[k] = journals[k]
           \/ journals'[k] = <<BuiltBy(g)>>
    BY <1>2, <1>5
  <1>9. JournalsHold'
    <2>1. rewritten' \subseteq RunIds
      BY <1>3 DEF JournalInv, JournalsHold
    <2>2. ASSUME NEW k \in RunIds, journals'[k] # <<>>
          PROVE  /\ JournalShape(journals'[k][1])
                 /\ k \notin rewritten' => Len(journals'[k][1].events) = Len(EventKinds)
      <3>1. CASE journals[k] # <<>> /\ journals'[k] = journals[k]
        <4>1. JournalShape(journals[k][1]) /\ (k \notin rewritten => Len(journals[k][1].events) = Len(EventKinds))
          BY <3>1, Zenon DEF JournalInv, JournalsHold
        <4>2. rewritten' = rewritten
          BY <1>3
        <4> QED BY <3>1, <4>1, <4>2, Zenon
      <3>2. CASE journals'[k] = <<BuiltBy(g)>>
        <4>1. journals'[k][1] = BuiltBy(g)
          BY <3>2
        <4> QED BY <4>1, <1>7, Zenon
      <3> QED BY <3>1, <3>2, <2>2, <1>8
    <2> QED BY <1>6, <2>1, <2>2, Zenon DEF JournalsHold, JournalShape, EventsShape, IsEvent
  <1>10. \A k \in RunIds : journals[k] # <<>> => journals'[k] # <<>>
    <2>1. <<BuiltBy(g)>> # <<>>
      OBVIOUS
    <2> HIDE DEF id
    <2> QED BY <2>1, <1>2, <1>5
  <1>11. created = TRUE => journals'[id] # <<>>
    <2>1. <<BuiltBy(g)>> # <<>>
      OBVIOUS
    <2>2. created = TRUE => journals'[id] = <<BuiltBy(g)>>
      BY <1>1, <1>5
    <2> HIDE DEF id
    <2> QED BY <2>1, <2>2
  <1>12. GathersHold'
    <2> DEFINE now == Ended(g, created)
    <2>1. GatherFits(now) /\ now.at = "done" /\ now.id = id /\ now.journal = created
      BY <1>1, EndFits
    <2>2. \A h \in Gathers \ {g} : gather[h].at = "persisting" => runfiles'[gather[h].id] = "partial"
      <3>1. \A h \in Gathers : gather[h].at = "persisting" => runfiles[gather[h].id] = "partial"
        BY <1>1, Zenon DEF GathersHold
      <3> QED BY <3>1, <1>3
    <2> HIDE DEF now, id
    <2> QED BY <1>1, <1>2, <1>10, <1>11, <2>1, <2>2, GatherMoves DEF now
  <1>13. WorldHolds' /\ ReplayHolds'
    BY <1>3, ReplayStays DEF JournalInv, WorldHolds
  <1> QED BY <1>9, <1>12, <1>13 DEF JournalInv

\* A run file is opened by one gather and written by it.
LEMMA PersistKeeps ==
  ASSUME JournalInv, NEW g \in Gathers, OpenRunFile(g) \/ WriteRunFile(g) PROVE JournalInv'
  <1> DEFINE id == gather[g].id
  <1>1. GathersHold /\ GatherFits(gather[g]) /\ id \in RunIds
    BY DEF JournalInv, GathersHold, GatherFits
  <1>2. UNCHANGED <<world, journals, rewritten, replay>> /\ gather[g].at \in {"persist", "persisting"}
    BY DEF OpenRunFile, WriteRunFile
  <1>3. runfiles \in [RunIds -> {"none", "partial", "whole"}]
    BY DEF JournalInv, WorldHolds
  <1>4. JournalsHold'
    BY <1>2 DEF JournalInv, JournalsHold, JournalShape, EventsShape, IsEvent
  <1>5. gather[g].journal = TRUE => journals[gather[g].id] # <<>>
    BY <1>1, Zenon DEF GathersHold
  <1>6. \A h \in Gathers : gather[h].at = "persisting" => runfiles[gather[h].id] = "partial"
    BY <1>1, Zenon DEF GathersHold
  <1>7. \A h \in Gathers : gather[h].id \in RunIds
    BY <1>1 DEF GathersHold, GatherFits
  <1>8. CASE OpenRunFile(g) /\ runfiles[id] = "none"
    <2> DEFINE now == [gather[g] EXCEPT !.at = "persisting"]
    <2>1. gather' = [gather EXCEPT ![g] = now] /\ runfiles' = [runfiles EXCEPT ![id] = "partial"] /\ moved' = TRUE
      BY <1>8 DEF OpenRunFile
    <2>2. GatherFits(now) /\ now.at = "persisting" /\ now.journal = gather[g].journal /\ now.id = id
      BY <1>1, GatherRecord
    <2>3. runfiles' \in [RunIds -> {"none", "partial", "whole"}] /\ runfiles'[id] = "partial"
      BY <1>1, <1>3, <2>1
    <2>4. \A h \in Gathers \ {g} : gather[h].at = "persisting" => gather[h].id # id /\ runfiles'[gather[h].id] = "partial"
      BY <1>6, <1>7, <1>8, <1>3, <2>1
    <2> HIDE DEF now, id
    <2>5. GathersHold'
      <3>1. runfiles'[now.id] = "partial" /\ \A h \in Gathers \ {g} : gather[h].at = "persisting" => gather[h].id # now.id
        BY <2>2, <2>3, <2>4
      <3>2. now.journal = TRUE => journals'[now.id] # <<>>
        BY <1>2, <1>5, <2>2 DEF id
      <3>3. \A k \in RunIds : journals[k] # <<>> => journals'[k] # <<>>
        BY <1>2
      <3>4. \A h \in Gathers \ {g} : gather[h].at = "persisting" => runfiles'[gather[h].id] = "partial"
        BY <2>4
      <3> QED BY <1>1, <2>1, <2>2, <3>1, <3>2, <3>3, <3>4, GatherMoves
    <2>6. WorldHolds' /\ ReplayHolds'
      BY <1>2, <2>1, <2>3, ReplayStays DEF JournalInv, WorldHolds
    <2> QED BY <1>4, <2>5, <2>6 DEF JournalInv
  <1>9. CASE OpenRunFile(g) /\ runfiles[id] # "none"
    <2> DEFINE now == Ended(g, FALSE)
    <2>1. gather' = [gather EXCEPT ![g] = now] /\ UNCHANGED <<runfiles, moved>>
      BY <1>9 DEF OpenRunFile
    <2>2. GatherFits(now) /\ now.at = "done" /\ now.journal = FALSE /\ now.id = id
      BY <1>1, EndFits
    <2>3. \A h \in Gathers \ {g} : gather[h].at = "persisting" => runfiles'[gather[h].id] = "partial"
      BY <1>6, <2>1
    <2> HIDE DEF now, id
    <2>4. GathersHold'
      BY <1>1, <1>2, <2>1, <2>2, <2>3, GatherMoves
    <2>5. WorldHolds' /\ ReplayHolds'
      BY <1>2, <2>1, ReplayStays DEF JournalInv, WorldHolds
    <2> QED BY <1>4, <2>4, <2>5 DEF JournalInv
  <1>10. CASE WriteRunFile(g)
    <2> DEFINE now == Ended(g, FALSE)
    <2>1. /\ gather' = [gather EXCEPT ![g] = now] /\ runfiles' = [runfiles EXCEPT ![id] = "whole"] /\ moved' = TRUE
          /\ gather[g].at = "persisting"
      BY <1>10 DEF WriteRunFile
    <2>2. GatherFits(now) /\ now.at = "done" /\ now.journal = FALSE /\ now.id = id
      BY <1>1, EndFits
    <2>3. runfiles' \in [RunIds -> {"none", "partial", "whole"}]
      BY <1>1, <1>3, <2>1
    <2>4. \A h \in Gathers \ {g} : gather[h].at = "persisting" => gather[h].id # id
      BY <1>1, <2>1, Zenon DEF GathersHold
    <2>5. \A h \in Gathers \ {g} : gather[h].at = "persisting" => runfiles'[gather[h].id] = "partial"
      BY <1>6, <1>7, <1>3, <2>1, <2>4
    <2> HIDE DEF now, id
    <2>6. GathersHold'
      BY <1>1, <1>2, <2>1, <2>2, <2>5, GatherMoves
    <2>7. WorldHolds' /\ ReplayHolds'
      BY <1>2, <2>1, <2>3, ReplayStays DEF JournalInv, WorldHolds
    <2> QED BY <1>4, <2>6, <2>7 DEF JournalInv
  <1> QED BY <1>8, <1>9, <1>10

\* An event with another payload, another digest or no kind is still one.
LEMMA EventEdited ==
  ASSUME NEW e, IsEvent(e)
  PROVE  /\ IsEvent([e EXCEPT !.payload = 1 - @]) /\ IsEvent(Junk(e)) /\ IsEvent(Forged(e))
  <1>1. e.payload \in 0..1 /\ 1 - e.payload \in 0..1
    BY DEF IsEvent
  <1>2. \A r : r = [e EXCEPT !.payload = 1 - @] => IsEvent(r)
    BY <1>1 DEF IsEvent
  <1>3. \A r : r = Junk(e) => IsEvent(r)
    BY <1>1 DEF IsEvent, Junk
  <1>4. ASSUME NEW x, IsEvent(x), NEW d, NEW r, r = [x EXCEPT !.digest = d] PROVE IsEvent(r)
    BY <1>4 DEF IsEvent
  <1>5. IsEvent(Forged(e))
    <2> DEFINE x == [e EXCEPT !.payload = 1 - @]
    <2>1. IsEvent(x)
      BY <1>2, Zenon
    <2>2. Forged(e) = [x EXCEPT !.digest = <<Body(x)>>]
      BY Zenon DEF Forged
    <2> HIDE DEF x
    <2> QED BY <1>4, <2>1, <2>2, Zenon
  <1> QED BY <1>2, <1>3, <1>5, Zenon

\* Events of which one was replaced are events.
LEMMA OneEventReplaced ==
  ASSUME NEW events, EventsShape(events), NEW i \in 1..Len(events), NEW e, IsEvent(e)
  PROVE  EventsShape([events EXCEPT ![i] = e])
  <1> DEFINE n == Len(events)
             now == [events EXCEPT ![i] = e]
  <1>1. n \in Nat /\ events = [k \in 1..n |-> events[k]] /\ \A k \in 1..n : IsEvent(events[k])
    BY DEF EventsShape
  <1>2. now = [k \in 1..n |-> now[k]] /\ \A k \in 1..n : now[k] = IF k = i THEN e ELSE events[k]
    <2> HIDE DEF n
    <2> QED BY <1>1
  <1> HIDE DEF now, n
  <1>3. Len(now) = n
    BY <1>1, <1>2, LenIs
  <1>4. \A k \in 1..n : IsEvent(now[k])
    BY <1>1, <1>2
  <1> QED BY <1>1, <1>2, <1>3, <1>4 DEF EventsShape, now

\* The edits of events leave events.
LEMMA EventsEdited ==
  ASSUME NEW events, EventsShape(events), NEW edited \in EventEdits(events)
  PROVE  EventsShape(edited)
  <1>1. /\ Len(events) \in Nat /\ events = [k \in 1..Len(events) |-> events[k]]
        /\ \A k \in 1..Len(events) : IsEvent(events[k])
    BY DEF EventsShape
  <1>2. \/ \E i \in 1..Len(events) :
             \/ edited = [events EXCEPT ![i].payload = 1 - @]
             \/ edited = [events EXCEPT ![i] = Junk(@)]
             \/ edited = [events EXCEPT ![i] = Forged(@)]
             \/ edited = Without(events, i)
        \/ \E i \in 1..(Len(events) - 1) : edited = Swapped(events, i)
    <2>1. \/ \E i \in 1..Len(events) : edited \in EditsAt(events, i)
          \/ \E i \in 1..(Len(events) - 1) : edited = Swapped(events, i)
      BY DEF EventEdits
    <2>2. \A i \in 1..Len(events) : edited \in EditsAt(events, i) =>
             \/ edited = [events EXCEPT ![i].payload = 1 - @]
             \/ edited = [events EXCEPT ![i] = Junk(@)]
             \/ edited = [events EXCEPT ![i] = Forged(@)]
             \/ edited = Without(events, i)
      BY Zenon DEF EditsAt
    <2> QED BY <2>1, <2>2, Zenon
  <1>3. ASSUME NEW i \in 1..Len(events), edited = [events EXCEPT ![i].payload = 1 - @]
        PROVE  EventsShape(edited)
    <2> DEFINE e == [events[i] EXCEPT !.payload = 1 - @]
    <2>1. IsEvent(e)
      BY <1>1, EventEdited
    <2>2. edited = [events EXCEPT ![i] = e]
      BY <1>3
    <2> HIDE DEF e
    <2> QED BY <2>1, <2>2, OneEventReplaced
  <1>4. ASSUME NEW i \in 1..Len(events), edited = [events EXCEPT ![i] = Junk(@)]
        PROVE  EventsShape(edited)
    <2> DEFINE e == Junk(events[i])
    <2>1. IsEvent(e)
      BY <1>1, EventEdited
    <2>2. edited = [events EXCEPT ![i] = e]
      BY <1>4
    <2> HIDE DEF e
    <2> QED BY <2>1, <2>2, OneEventReplaced
  <1>5. ASSUME NEW i \in 1..Len(events), edited = [events EXCEPT ![i] = Forged(@)]
        PROVE  EventsShape(edited)
    <2> DEFINE e == Forged(events[i])
    <2>1. IsEvent(e)
      BY <1>1, EventEdited
    <2>2. edited = [events EXCEPT ![i] = e]
      BY <1>5
    <2> HIDE DEF e
    <2> QED BY <2>1, <2>2, OneEventReplaced
  <1>6. ASSUME NEW i \in 1..Len(events), edited = Without(events, i)
        PROVE  EventsShape(edited)
    <2> DEFINE n == Len(events) - 1
    <2>1. n \in Nat
      BY <1>1
    <2>2. edited = [k \in 1..n |-> IF k < i THEN events[k] ELSE events[k + 1]]
      BY <1>6 DEF Without
    <2>3. \A k \in 1..n : k \in 1..Len(events) /\ k + 1 \in 1..Len(events)
      BY <1>1
    <2> HIDE DEF n
    <2>4. edited = [k \in 1..n |-> edited[k]] /\ \A k \in 1..n : IsEvent(edited[k])
      <3>1. edited = [k \in 1..n |-> edited[k]]
        BY <2>2
      <3>2. ASSUME NEW k \in 1..n PROVE IsEvent(edited[k])
        <4>1. edited[k] = events[k] \/ edited[k] = events[k + 1]
          BY <2>2
        <4> QED BY <1>1, <2>3, <4>1
      <3> QED BY <3>1, <3>2
    <2>5. Len(edited) = n
      BY <2>1, <2>4, LenIs
    <2> QED BY <2>1, <2>4, <2>5 DEF EventsShape
  <1>7. ASSUME NEW i \in 1..(Len(events) - 1), edited = Swapped(events, i)
        PROVE  EventsShape(edited)
    <2>1. i \in 1..Len(events) /\ i + 1 \in 1..Len(events)
      BY <1>1
    <2> DEFINE first == [events EXCEPT ![i] = events[i + 1]]
               last == events[i]
    <2>2. EventsShape(first) /\ Len(first) = Len(events)
      <3>1. EventsShape(first)
        BY <1>1, <2>1, OneEventReplaced
      <3>2. first = [k \in 1..Len(events) |-> first[k]]
        BY <1>1
      <3> HIDE DEF first
      <3> QED BY <1>1, <3>1, <3>2, LenIs
    <2>3. edited = [first EXCEPT ![i + 1] = last]
      BY <1>7 DEF Swapped
    <2>4. IsEvent(last)
      BY <1>1, <2>1
    <2> HIDE DEF first, last
    <2> QED BY <2>1, <2>2, <2>3, <2>4, OneEventReplaced
  <1> QED BY <1>2, <1>3, <1>4, <1>5, <1>6, <1>7

\* A journal with one field replaced is a journal.
LEMMA FieldReplaced ==
  ASSUME NEW j, JournalShape(j), NEW v, NEW now
  PROVE  /\ now = [j EXCEPT !.schema = v] => JournalShape(now)
         /\ now = [j EXCEPT !.id = v] => JournalShape(now)
         /\ now = [j EXCEPT !.retrieval = v] => JournalShape(now)
         /\ now = [j EXCEPT !.selected = v] => JournalShape(now)
         /\ now = [j EXCEPT !.head = v] => JournalShape(now)
         /\ now = [j EXCEPT !.digest = v] => JournalShape(now)
         /\ now = [j EXCEPT !.events = v] /\ EventsShape(v) => JournalShape(now)
         /\ now = [j EXCEPT !.identity["workspace"] = v] => JournalShape(now)
  <1>1. now = [j EXCEPT !.schema = v] => JournalShape(now)
    BY DEF JournalShape, EventsShape, IsEvent
  <1>2. now = [j EXCEPT !.id = v] => JournalShape(now)
    BY DEF JournalShape, EventsShape, IsEvent
  <1>3. now = [j EXCEPT !.retrieval = v] => JournalShape(now)
    BY DEF JournalShape, EventsShape, IsEvent
  <1>4. now = [j EXCEPT !.selected = v] => JournalShape(now)
    BY DEF JournalShape, EventsShape, IsEvent
  <1>5. now = [j EXCEPT !.head = v] => JournalShape(now)
    BY DEF JournalShape, EventsShape, IsEvent
  <1>6. now = [j EXCEPT !.digest = v] => JournalShape(now)
    BY DEF JournalShape, EventsShape, IsEvent
  <1>7. now = [j EXCEPT !.events = v] /\ EventsShape(v) => JournalShape(now)
    BY DEF JournalShape, EventsShape, IsEvent
  <1>8. now = [j EXCEPT !.identity["workspace"] = v] => JournalShape(now)
    BY DEF JournalShape, EventsShape, IsEvent, Fields
  <1> QED BY <1>1, <1>2, <1>3, <1>4, <1>5, <1>6, <1>7, <1>8

\* Whatever is done to a stored journal, it looks like one.
LEMMA JournalEdited ==
  ASSUME NEW j, JournalShape(j), NEW edited \in Edits(j)
  PROVE  JournalShape(edited) /\ JournalShape(Resealed(edited))
  <1>1. JournalShape(edited)
    <2>1. \/ edited \in {[j EXCEPT !.events = events] : events \in EventEdits(j.events)}
          \/ edited \in {[j EXCEPT !.retrieval = 1 - @], [j EXCEPT !.selected = 1 - @], [j EXCEPT !.schema = "v1"],
                         [j EXCEPT !.head = <<>>], [j EXCEPT !.identity["workspace"] = Identity("workspace")]}
          \/ edited \in {[j EXCEPT !.id = id] : id \in RunIds}
      BY Zenon DEF Edits
    <2>2. ASSUME NEW events \in EventEdits(j.events), edited = [j EXCEPT !.events = events]
          PROVE  JournalShape(edited)
      <3>1. EventsShape(j.events)
        BY Zenon DEF JournalShape
      <3>2. EventsShape(events)
        BY <3>1, EventsEdited
      <3> QED BY <2>2, <3>2, FieldReplaced, Zenon
    <2>3. ASSUME \/ edited = [j EXCEPT !.retrieval = 1 - j.retrieval] \/ edited = [j EXCEPT !.selected = 1 - j.selected]
                 \/ edited = [j EXCEPT !.schema = "v1"] \/ edited = [j EXCEPT !.head = <<>>]
                 \/ edited = [j EXCEPT !.identity["workspace"] = Identity("workspace")]
          PROVE  JournalShape(edited)
      BY <2>3, FieldReplaced, Zenon
    <2>4. ASSUME NEW id \in RunIds, edited = [j EXCEPT !.id = id] PROVE JournalShape(edited)
      BY <2>4, FieldReplaced, Zenon
    <2> QED BY <2>1, <2>2, <2>3, <2>4, Zenon
  <1>2. JournalShape(Resealed(edited))
    <2>1. Resealed(edited) = [edited EXCEPT !.digest = JournalDigest(edited)]
      BY Zenon DEF Resealed
    <2> QED BY <1>1, <2>1, FieldReplaced, Zenon
  <1> QED BY <1>1, <1>2

\* An edit leaves a journal behind.
LEMMA EditKeeps ==
  ASSUME JournalInv, NEW id \in RunIds, EditJournal(id) PROVE JournalInv'
  <1> DEFINE j == journals[id][1]
             identity == [j.identity EXCEPT !["workspace"] = Identity("workspace")]
             payloads == [i \in 1..Len(EventKinds) |-> 1 - j.events[1].payload]
  <1>1. /\ journals[id] # <<>> /\ id \notin rewritten
        /\ \A g \in Gathers : gather[g].at \in {"idle", "done"}
        /\ rewritten' = rewritten \cup {id} /\ UNCHANGED <<world, gather, runfiles, replay, moved>>
    BY DEF EditJournal
  <1>2. PICK edited \in Edits(j) \cup {Resealed(e) : e \in Edits(j)} \cup {BuildJournal(j.id, identity, payloads)} :
          journals' = [journals EXCEPT ![id] = <<edited>>]
    BY Zenon DEF EditJournal
  <1>3. JournalsHold /\ GathersHold
    BY DEF JournalInv
  <1>4. JournalShape(j) /\ Len(j.events) = Len(EventKinds)
    BY <1>1, <1>3, Zenon DEF JournalsHold
  <1>5. JournalShape(edited)
    <2>1. CASE edited \in Edits(j)
      BY <1>4, <2>1, JournalEdited, Zenon
    <2>2. CASE edited \in {Resealed(e) : e \in Edits(j)}
      BY <1>4, <2>2, JournalEdited, Zenon
    <2>3. CASE edited = BuildJournal(j.id, identity, payloads)
      <3>1. j.identity = [f \in Fields |-> j.identity[f]] /\ j.identity["repository"] # <<>>
        BY <1>4 DEF JournalShape
      <3>2. identity = [f \in Fields |-> identity[f]] /\ identity["repository"] # <<>>
        <4> HIDE DEF Identity
        <4> QED BY <3>1 DEF Fields
      <3>3. j.events[1].payload \in 0..1
        <4>1. 1 \in 1..Len(j.events)
          BY <1>4, SomeKinds
        <4>2. IsEvent(j.events[1])
          BY <1>4, <4>1, Zenon DEF JournalShape, EventsShape
        <4> QED BY <4>2 DEF IsEvent
      <3>4. payloads \in [1..Len(EventKinds) -> 0..1]
        BY <3>3
      <3> HIDE DEF identity, payloads, j
      <3> QED BY <2>3, <3>2, <3>4, BuiltFits
    <2> QED BY <1>2, <2>1, <2>2, <2>3, Zenon
  <1> HIDE DEF j, identity, payloads
  <1>6. journals' = [k \in RunIds |-> journals'[k]] /\ \A k \in RunIds : journals'[k] = IF k = id THEN <<edited>> ELSE journals[k]
    <2>1. journals = [k \in RunIds |-> journals[k]]
      BY <1>3 DEF JournalsHold
    <2> QED BY <1>2, <2>1
  <1>7. JournalsHold'
    <2>1. rewritten' \subseteq RunIds
      BY <1>1, <1>3 DEF JournalsHold
    <2>2. ASSUME NEW k \in RunIds, journals'[k] # <<>>
          PROVE  /\ JournalShape(journals'[k][1])
                 /\ k \notin rewritten' => Len(journals'[k][1].events) = Len(EventKinds)
      <3>1. CASE k = id
        <4>1. journals'[k][1] = edited /\ k \in rewritten'
          BY <3>1, <1>1, <1>6
        <4> QED BY <4>1, <1>5, Zenon
      <3>2. CASE k # id
        <4>1. journals'[k] = journals[k] /\ (k \in rewritten' <=> k \in rewritten)
          BY <3>2, <1>1, <1>6
        <4>2. journals[k] # <<>>
          BY <2>2, <4>1
        <4>3. JournalShape(journals[k][1]) /\ (k \notin rewritten => Len(journals[k][1].events) = Len(EventKinds))
          BY <1>3, <4>2, Zenon DEF JournalsHold
        <4> QED BY <4>1, <4>3, Zenon
      <3> QED BY <3>1, <3>2
    <2> QED BY <1>6, <2>1, <2>2, Zenon DEF JournalsHold, JournalShape, EventsShape, IsEvent
  <1>8. GathersHold'
    <2>1. \A k \in RunIds : journals[k] # <<>> => journals'[k] # <<>>
      <3>1. <<edited>> # <<>>
        OBVIOUS
      <3> QED BY <3>1, <1>6
    <2>2. gather = [g \in Gathers |-> gather[g]] /\ \A g \in Gathers : GatherFits(gather[g])
      BY <1>3, Zenon DEF GathersHold
    <2>3. \A g \in Gathers : gather[g].id \in RunIds
      BY <2>2 DEF GatherFits
    <2>4. \A g \in Gathers : gather[g].at # "persisting"
      BY <1>1
    <2>5. \A g \in Gathers : gather[g].journal = TRUE => journals[gather[g].id] # <<>>
      BY <1>3, Zenon DEF GathersHold
    <2>6. gather' = gather
      BY <1>1
    <2>7. \A g \in Gathers : gather'[g].journal = TRUE => journals'[gather'[g].id] # <<>>
      BY <2>1, <2>3, <2>5, <2>6
    <2>8. gather' = [g \in Gathers |-> gather'[g]] /\ \A g \in Gathers : GatherFits(gather'[g]) /\ gather'[g].at # "persisting"
      BY <2>2, <2>4, <2>6, Zenon
    <2> QED BY <2>7, <2>8, Zenon DEF GathersHold, GatherFits
  <1>9. WorldHolds' /\ ReplayHolds'
    BY <1>1, ReplayStays DEF JournalInv, WorldHolds
  <1> QED BY <1>7, <1>8, <1>9 DEF JournalInv

\* The workspace changes.
LEMMA WorldKeeps ==
  ASSUME JournalInv, ChangeWorld PROVE JournalInv'
  <1>1. moved' = TRUE /\ UNCHANGED <<gather, journals, runfiles, rewritten, replay>>
    BY DEF ChangeWorld
  <1>2. GathersHold' /\ JournalsHold'
    BY <1>1 DEF JournalInv, GathersHold, GatherFits, JournalsHold, JournalShape, EventsShape, IsEvent
  <1>3. WorldHolds'
    BY <1>1 DEF JournalInv, WorldHolds, ChangeWorld
  <1>4. ReplayHolds'
    BY <1>1, ReplayStays DEF JournalInv
  <1> QED BY <1>2, <1>3, <1>4 DEF JournalInv

\* A command reads a stored journal.
LEMMA ReadKeeps ==
  ASSUME JournalInv, ReadRunJournal PROVE ReplayHolds'
  <1>1. PICK id \in RunIds, releases \in BOOLEAN :
          LET found == journals[id] # <<>>
              goesOn == found /\ (Releasable(id) \/ (~releases /\ journals[id][1].schema # "v2"))
              recorded == journals[id][1].identity
          IN  replay' = IF ~goesOn THEN [NoReplay EXCEPT !.at = "done", !.id = id]
                        ELSE [NoReplay EXCEPT !.at = "workspace", !.id = id, !.events = releases,
                                !.recorded = recorded,
                                !.drift = {f \in {"config"} : Drifted(f, recorded)}]
    BY Zenon DEF ReadRunJournal
  <1> DEFINE recorded == journals[id][1].identity
             drift == {f \in {"config"} : Drifted(f, recorded)}
             goesOn == journals[id] # <<>> /\ (Releasable(id) \/ (~releases /\ journals[id][1].schema # "v2"))
  <1>2. \A f \in Fields : Identity(f)' = Identity(f)
    BY DEF ReadRunJournal, Identity, ConfigIdentity, WorkspaceIdentity, GraphIdentity, WorktreeState, RepositoryIdentity
  <1>3. CASE ~goesOn
    <2>1. replay' = [NoReplay EXCEPT !.at = "done", !.id = id]
      BY <1>1, <1>3, Zenon
    <2>2. /\ replay' \in [at : {"done"}, id : {replay'.id}, events : BOOLEAN, compatible : {FALSE},
                          recorded : {replay'.recorded}, drift : {replay'.drift}]
      BY <2>1 DEF NoReplay
    <2>3. replay'.at = "done" /\ replay'.compatible = FALSE
      BY <2>2
    <2> QED BY <2>2, <2>3 DEF ReplayHolds
  <1>4. CASE goesOn
    <2>1. replay' = [NoReplay EXCEPT !.at = "workspace", !.id = id, !.events = releases,
                                !.recorded = recorded, !.drift = drift]
      BY <1>1, <1>4, Zenon
    <2>2. recorded["repository"] # <<>>
      <3>1. JournalShape(journals[id][1])
        BY <1>4, Zenon DEF JournalInv, JournalsHold
      <3> QED BY <3>1, Zenon DEF JournalShape
    <2>3. "config" \in drift \/ recorded["config"] = Identity("config")
      <3> HIDE DEF Identity
      <3> QED BY DEF Drifted
    <2> HIDE DEF recorded, drift, goesOn
    <2>4. /\ replay' \in [at : {"workspace"}, id : {replay'.id}, events : BOOLEAN, compatible : {FALSE},
                          recorded : {replay'.recorded}, drift : {replay'.drift}]
          /\ replay'.recorded = recorded /\ replay'.drift = drift
      BY <2>1 DEF NoReplay
    <2>5. replay'.at = "workspace" /\ ReadBefore("workspace") = {"config"} /\ "config" \in Fields
      BY <2>4 DEF ReadBefore, Fields
    <2> HIDE DEF Identity, ReadBefore
    <2>6. replay'.at \in {"workspace", "graph", "repository"} =>
       /\ replay'.recorded["repository"] # <<>>
       /\ moved' = FALSE => \A f \in ReadBefore(replay'.at) :
                             f \in replay'.drift \/ replay'.recorded[f] = Identity(f)'
      BY <1>2, <2>2, <2>3, <2>4, <2>5
    <2> QED BY <2>4, <2>5, <2>6 DEF ReplayHolds
  <1> QED BY <1>3, <1>4

\* The order in which the fields are compared after the first.
FieldOrder == {<<"workspace", "graph">>, <<"graph", "repository">>, <<"repository", "done">>}

\* A command compares one field.
LEMMA FieldKeeps ==
  ASSUME JournalInv, NEW f, NEW next,
         <<f, next>> \in FieldOrder, ReadField(f, next)
  PROVE  ReplayHolds'
  <1>0. \/ (f = "workspace" /\ next = "graph") \/ (f = "graph" /\ next = "repository")
        \/ (f = "repository" /\ next = "done")
    BY DEF FieldOrder
  <1> DEFINE drift == replay.drift \cup {x \in {f} : Drifted(x, replay.recorded)}
             same == next = "done" /\ drift = {}
  <1>1. replay.at = f /\ replay' = [replay EXCEPT !.drift = drift, !.at = next, !.compatible = same] /\ moved' = moved
    BY Zenon DEF ReadField
  <1>2. \A x \in Fields : Identity(x)' = Identity(x)
    BY DEF ReadField, Identity, ConfigIdentity, WorkspaceIdentity, GraphIdentity, WorktreeState, RepositoryIdentity
  <1> HIDE DEF Identity
  <1>3. replay \in [at : {"idle", "workspace", "graph", "repository", "done"}, id : {replay.id},
                    events : BOOLEAN, compatible : BOOLEAN, recorded : {replay.recorded}, drift : {replay.drift}]
    BY DEF JournalInv, ReplayHolds
  <1>4. replay.recorded["repository"] # <<>>
    BY <1>0, <1>1 DEF JournalInv, ReplayHolds
  <1>5. moved = FALSE => \A x \in ReadBefore(f) : x \in replay.drift \/ replay.recorded[x] = Identity(x)
    BY <1>0, <1>1 DEF JournalInv, ReplayHolds
  <1>6. f \in drift \/ replay.recorded[f] = Identity(f)
    BY <1>0, <1>4 DEF Drifted
  <1>7. replay.drift \subseteq drift
    OBVIOUS
  <1>8. same \in BOOLEAN /\ (same = TRUE => drift = {}) /\ (next # "done" => same = FALSE)
    OBVIOUS
  <1> HIDE DEF drift, same
  <1>9. /\ replay' \in [at : {next}, id : {replay'.id}, events : BOOLEAN, compatible : BOOLEAN,
                        recorded : {replay'.recorded}, drift : {replay'.drift}]
        /\ replay'.recorded = replay.recorded /\ replay'.drift = drift /\ replay'.at = next
        /\ replay'.compatible = same
    BY <1>1, <1>3, <1>8
  <1>10. moved = FALSE => \A x \in ReadBefore(f) \cup {f} : x \in drift \/ replay.recorded[x] = Identity(x)
    BY <1>5, <1>6, <1>7
  <1>11. ReadBefore(f) \cup {f} = (IF next = "done" THEN Fields ELSE ReadBefore(next))
    BY <1>0 DEF ReadBefore, Fields
  <1>12. next # "done" => ReadBefore(next) \subseteq Fields
    BY <1>0 DEF ReadBefore, Fields
  <1> HIDE DEF ReadBefore
  <1>13. replay'.at \in {"workspace", "graph", "repository"} =>
           /\ replay'.recorded["repository"] # <<>>
           /\ moved' = FALSE => \A x \in ReadBefore(replay'.at) :
                                  x \in replay'.drift \/ replay'.recorded[x] = Identity(x)'
    BY <1>1, <1>2, <1>4, <1>9, <1>10, <1>11, <1>12
  <1>14. replay'.at = "done" /\ replay'.compatible = TRUE /\ moved' = FALSE =>
           \A x \in Fields : replay'.recorded[x] = Identity(x)'
    BY <1>1, <1>2, <1>8, <1>9, <1>10, <1>11
  <1>15. next \in {"idle", "workspace", "graph", "repository", "done"}
    BY <1>0
  <1>16. ReadBefore(replay.at)' = ReadBefore(replay'.at)
    BY DEF ReadBefore
  <1> QED BY <1>9, <1>13, <1>14, <1>15, <1>16 DEF ReplayHolds

\* Every step preserves the invariant.
LEMMA JournalNextKeeps == JournalInv /\ [JournalNext]_journalVars => JournalInv'
  <1> SUFFICES ASSUME JournalInv, [JournalNext]_journalVars PROVE JournalInv'
    OBVIOUS
  <1>1. ASSUME UNCHANGED <<world, gather, journals, runfiles, rewritten>>, ReplayHolds' PROVE JournalInv'
    <2>1. GathersHold'
      BY <1>1 DEF JournalInv, GathersHold, GatherFits
    <2>2. JournalsHold'
      BY <1>1 DEF JournalInv, JournalsHold, JournalShape, EventsShape, IsEvent
    <2>3. WorldHolds'
      BY <1>1 DEF JournalInv, WorldHolds
    <2> QED BY <1>1, <2>1, <2>2, <2>3 DEF JournalInv
  <1>2. CASE UNCHANGED journalVars
    BY <1>1, <1>2, ReplayStays DEF JournalInv, journalVars
  <1>3. CASE ReplayNext
    <2>1. UNCHANGED <<world, gather, journals, runfiles, rewritten>>
      BY <1>3 DEF ReplayNext, ReadRunJournal, ReadField
    <2>2. ReplayHolds'
      <3>1. \/ ReadRunJournal
            \/ \E f, next \in {"workspace", "graph", "repository", "done"} :
                 <<f, next>> \in FieldOrder /\ ReadField(f, next)
        BY <1>3, Zenon DEF ReplayNext, FieldOrder
      <3> QED BY <3>1, ReadKeeps, FieldKeeps
    <2> QED BY <1>1, <2>1, <2>2
  <1>4. ASSUME NEW g \in Gathers, GatherNext(g) PROVE JournalInv'
    BY <1>4, GatherOnlyKeeps, WriteKeeps, PersistKeeps DEF GatherNext
  <1>5. ASSUME NEW id \in RunIds, EditJournal(id) PROVE JournalInv'
    BY <1>5, EditKeeps
  <1> QED BY <1>2, <1>3, <1>4, <1>5, WorldKeeps DEF JournalNext

\* Replay releases the events only of what was built.
LEMMA ReleasesBuilt ==
  ASSUME JournalInv, ReadRunJournal, replay'.at = "workspace", replay'.events = TRUE
  PROVE  \E payloads \in [1..Len(EventKinds) -> 0..1] :
           LET j == journals[replay'.id][1] IN j = BuildJournal(replay'.id, j.identity, payloads)
  <1>1. PICK id \in RunIds, releases \in BOOLEAN :
          LET found == journals[id] # <<>>
              goesOn == found /\ (Releasable(id) \/ (~releases /\ journals[id][1].schema # "v2"))
              recorded == journals[id][1].identity
          IN  replay' = IF ~goesOn THEN [NoReplay EXCEPT !.at = "done", !.id = id]
                        ELSE [NoReplay EXCEPT !.at = "workspace", !.id = id, !.events = releases,
                                !.recorded = recorded,
                                !.drift = {f \in {"config"} : Drifted(f, recorded)}]
    BY Zenon DEF ReadRunJournal
  <1> DEFINE j == journals[id][1]
             drift == {f \in {"config"} : Drifted(f, j.identity)}
             payloads == [i \in 1..Len(j.events) |-> j.events[i].payload]
             goesOn == journals[id] # <<>> /\ (Releasable(id) \/ (~releases /\ j.schema # "v2"))
  <1>2. CASE ~goesOn
    <2>1. replay' = [NoReplay EXCEPT !.at = "done", !.id = id]
      BY <1>1, <1>2, Zenon
    <2>2. replay'.at = "done"
      BY <2>1 DEF NoReplay
    <2> QED BY <2>2
  <1>3. CASE goesOn
    <2>1. replay' = [NoReplay EXCEPT !.at = "workspace", !.id = id, !.events = releases,
                                !.recorded = j.identity, !.drift = drift]
      BY <1>1, <1>3, Zenon
    <2>2. replay'.id = id /\ replay'.events = releases
      <3> HIDE DEF j, drift
      <3> QED BY <2>1 DEF NoReplay
    <2>3. releases = TRUE
      BY <2>2
    <2>4. VerifyReplayJournal(j, id)
      BY <1>3, <2>3, Zenon DEF Releasable
    <2>5. JournalShape(j)
      BY <1>3, Zenon DEF JournalInv, JournalsHold
    <2>6. Len(j.events) = Len(EventKinds) /\ j = BuildJournal(id, j.identity, payloads)
      BY <2>4, <2>5, VerifiedIsBuilt
    <2>7. payloads \in [1..Len(EventKinds) -> 0..1]
      <3>1. \A i \in 1..Len(j.events) : IsEvent(j.events[i])
        BY <2>5, Zenon DEF JournalShape, EventsShape
      <3>2. \A i \in 1..Len(EventKinds) : j.events[i].payload \in 0..1
        BY <2>6, <3>1 DEF IsEvent
      <3> QED BY <2>6, <3>2
    <2> HIDE DEF payloads
    <2> QED BY <2>2, <2>6, <2>7, Zenon
  <1> QED BY <1>2, <1>3

\* Journals and run files are created once, an edited journal does not verify,
\* replay releases only what was built, and a journal is called compatible only in
\* the workspace it was recorded in, for any gathers, runs, edits and contracts of
\* events (run_journal.py, provenance.py).
THEOREM JournalIsSafe == JournalSpec => JournalSafety
  <1>1. JournalInv => JournalTypeOK /\ TamperEvident /\ CompatibleMeansSame
    <2> SUFFICES ASSUME JournalInv PROVE JournalTypeOK /\ TamperEvident /\ CompatibleMeansSame
      OBVIOUS
    <2>1. JournalTypeOK
      <3>1. \A g \in Gathers : GatherFits(gather[g])
        BY Zenon DEF JournalInv, GathersHold
      <3>2. \A g \in Gathers : /\ gather[g].at = "persisting" => runfiles[gather[g].id] = "partial"
                               /\ gather[g].journal = TRUE => journals[gather[g].id] # <<>>
        BY Zenon DEF JournalInv, GathersHold
      <3>3. \A g \in Gathers : gather[g].journal \in BOOLEAN /\
              gather[g].at \in {"idle", "selected", "trace", "aggregate", "write", "persist", "persisting", "done"}
        BY <3>1 DEF GatherFits
      <3>4. \A g \in Gathers : gather[g].journal => journals[gather[g].id] # <<>>
        BY <3>2, <3>3
      <3>5. replay.at \in {"idle", "workspace", "graph", "repository", "done"}
        BY DEF JournalInv, ReplayHolds
      <3> QED BY <3>2, <3>3, <3>4, <3>5 DEF JournalTypeOK, JournalInv, WorldHolds
    <2>2. TamperEvident
      <3>1. \A id \in RunIds : journals[id] # <<>> => JournalShape(journals[id][1])
        BY Zenon DEF JournalInv, JournalsHold
      <3> QED BY <3>1, VerifiedIsBuilt, Zenon DEF TamperEvident
    <2>3. CompatibleMeansSame
      <3>1. replay.compatible \in BOOLEAN
        BY DEF JournalInv, ReplayHolds
      <3> QED BY <3>1 DEF JournalInv, ReplayHolds, CompatibleMeansSame
    <2> QED BY <2>1, <2>2, <2>3
  <1>2. ASSUME JournalInv, [JournalNext]_journalVars
        PROVE  /\ ~(UNCHANGED journalVars) /\ replay.at # "workspace" /\ replay'.at = "workspace" /\ replay'.events =>
                    \E payloads \in [1..Len(EventKinds) -> 0..1] :
                      LET j == journals[replay'.id][1] IN j = BuildJournal(replay'.id, j.identity, payloads)
               /\ \A id \in RunIds :
                    /\ journals[id] # <<>> /\ id \notin rewritten' => journals'[id] = journals[id]
                    /\ runfiles[id] = "whole" => runfiles'[id] = "whole"
    <2>1. ASSUME ~(UNCHANGED journalVars), replay.at # "workspace", replay'.at = "workspace", replay'.events
          PROVE  ReadRunJournal /\ replay'.events = TRUE
      <3>1. JournalInv'
        BY <1>2, JournalNextKeeps
      <3>2. replay'.events = TRUE
        BY <3>1, <2>1 DEF JournalInv, ReplayHolds
      <3>3. ~UNCHANGED replay
        BY <2>1
      <3>4. ReplayNext
        BY <1>2, <2>1, <3>3 DEF JournalNext, GatherNext, StartGather, TakeSnapshot, EmitTrace, AggregateIdentity,
             WriteRunJournal, OpenRunFile, WriteRunFile, GatherDies, EditJournal, ChangeWorld
      <3>5. ASSUME NEW f, NEW next \in {"graph", "repository", "done"}, ReadField(f, next) PROVE FALSE
        <4>1. replay'.at = next
          BY <3>5 DEF ReadField, JournalInv, ReplayHolds
        <4> QED BY <4>1, <2>1
      <3> QED BY <3>2, <3>4, <3>5 DEF ReplayNext
    <2>2. ASSUME NEW id \in RunIds
          PROVE  /\ journals[id] # <<>> /\ id \notin rewritten' => journals'[id] = journals[id]
                 /\ runfiles[id] = "whole" => runfiles'[id] = "whole"
      <3>1. /\ journals = [k \in RunIds |-> journals[k]] /\ runfiles \in [RunIds -> {"none", "partial", "whole"}]
            /\ rewritten \subseteq RunIds
        BY <1>2 DEF JournalInv, JournalsHold, WorldHolds
      <3>2. \A g \in Gathers : gather[g].id \in RunIds
        <4>1. \A g \in Gathers : GatherFits(gather[g])
          BY <1>2, Zenon DEF JournalInv, GathersHold
        <4> QED BY <4>1 DEF GatherFits
      <3>3. CASE UNCHANGED <<journals, runfiles>>
        BY <3>3
      <3>4. ASSUME NEW g \in Gathers, WriteRunJournal(g)
            PROVE  UNCHANGED runfiles /\ (journals[id] # <<>> => journals'[id] = journals[id])
        <4>1. PICK created \in BOOLEAN :
                /\ created => journals[gather[g].id] = <<>>
                /\ journals' = IF created THEN [journals EXCEPT ![gather[g].id] = <<BuiltBy(g)>>] ELSE journals
          BY <3>4 DEF WriteRunJournal
        <4>2. UNCHANGED runfiles
          BY <3>4 DEF WriteRunJournal
        <4> QED BY <3>1, <3>2, <4>1, <4>2
      <3>5. ASSUME NEW g \in Gathers, OpenRunFile(g)
            PROVE  UNCHANGED journals /\ (runfiles[id] = "whole" => runfiles'[id] = "whole")
        BY <3>1, <3>2, <3>5 DEF OpenRunFile
      <3>6. ASSUME NEW g \in Gathers, WriteRunFile(g)
            PROVE  UNCHANGED journals /\ (runfiles[id] = "whole" => runfiles'[id] = "whole")
        BY <3>1, <3>2, <3>6 DEF WriteRunFile
      <3>7. ASSUME NEW k \in RunIds, EditJournal(k)
            PROVE  UNCHANGED runfiles /\ (id \notin rewritten' => journals'[id] = journals[id])
        <4>1. /\ rewritten' = rewritten \cup {k} /\ UNCHANGED runfiles
              /\ \E edited : journals' = [journals EXCEPT ![k] = <<edited>>]
          BY <3>7, Zenon DEF EditJournal
        <4> QED BY <3>1, <4>1
      <3>8. \/ UNCHANGED <<journals, runfiles>>
            \/ \E g \in Gathers : WriteRunJournal(g) \/ OpenRunFile(g) \/ WriteRunFile(g)
            \/ \E k \in RunIds : EditJournal(k)
        BY <1>2 DEF journalVars, JournalNext, GatherNext, StartGather, TakeSnapshot, EmitTrace, AggregateIdentity,
             GatherDies, ChangeWorld, ReplayNext, ReadRunJournal, ReadField
      <3> QED BY <3>3, <3>4, <3>5, <3>6, <3>7, <3>8
    <2> QED BY <2>1, <2>2, <1>2, ReleasesBuilt
  <1> QED BY <1>1, <1>2, JournalInitFits, JournalNextKeeps, PTL
         DEF JournalSpec, JournalSafety, ReleasedIntact, CreateOnce
=============================================================================
