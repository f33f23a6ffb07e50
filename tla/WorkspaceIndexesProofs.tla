----------------------- MODULE WorkspaceIndexesProofs -----------------------
(***************************************************************************)
(* Proofs about the indexes of the workspace (WorkspaceIndexes): for any   *)
(* number of indexers, syncs, repositories and contents, whatever they     *)
(* interleave with and wherever they die.                                  *)
(***************************************************************************)
EXTENDS WorkspaceIndexes, FiniteSetTheorems, TLAPS

-----------------------------------------------------------------------------
(* WorkspaceIndex *)

IndexerAts == {"idle", "read", "check", "restat", "hash", "stat", "parse", "symbols", "endpoints", "state"}
IndexRows == [sha : Contents, parsed : Contents]
IndexEntries == [sha : Contents, stamp : Nat]
IndexRuns == [at : IndexerAts, mode : Modes, old : IndexEntries, rows : IndexRows, entry : IndexEntries, row : IndexRows]

\* A row is empty or not as a whole, and what was parsed under a digest is what
\* the digest is of, unless some parse was torn.
GoodRow(row, t) ==
  /\ row.sha = 0 <=> row.parsed = 0
  /\ ~t => row.sha = row.parsed

IndexShape ==
  /\ file \in [content : Contents, stamp : Nat] /\ edits \in 0..MaxEdits
  /\ symbols \in IndexRows /\ endpoints \in IndexRows /\ state \in IndexEntries
  /\ indexer \in [Indexers -> IndexRuns]
  /\ torn \in BOOLEAN /\ disturbed \subseteq Indexers

GoodRun(held, t) ==
  /\ GoodRow(held.rows, t) /\ GoodRow(held.row, t)
  /\ held.at \in {"stat", "parse"} => held.entry.sha # 0

RowsAreGood ==
  /\ GoodRow(symbols, torn) /\ GoodRow(endpoints, torn)
  /\ \A i \in Indexers : GoodRun(indexer[i], torn)

\* A run whose verdict on the old rows can be relied on.
Trusted(held) ==
  \/ held.mode = "full"
  \/ held.mode = "strict" /\ held.rows.sha = held.old.sha /\ held.rows.parsed = held.rows.sha

\* What a run that nothing disturbed has in hand, step by step.
Current(held, content, sym, ends) ==
  held.mode # "fast" /\ content # 0 =>
    /\ held.at # "restat"
    /\ held.at \in {"stat", "parse"} => held.entry.sha = content
    /\ Trusted(held) /\ held.at \in {"symbols", "endpoints", "state"} =>
         held.entry.sha = content /\ held.row.sha = content /\ held.row.parsed = content
    /\ Trusted(held) /\ held.at \in {"endpoints", "state"} => sym = held.row
    /\ Trusted(held) /\ held.at = "state" => ends = held.row

UndisturbedAreCurrent ==
  \A i \in Indexers : i \in disturbed \/ Current(indexer[i], file.content, symbols, endpoints)

IndexInv == IndexShape /\ RowsAreGood /\ UndisturbedAreCurrent

IndexStep(i) ==
  \/ StartIndex(i) \/ ReadOldRows(i) \/ CheckFile(i) \/ RestatFile(i) \/ HashFile(i) \/ StatFile(i)
  \/ ParseFile(i) \/ WriteSymbols(i) \/ WriteEndpoints(i) \/ WriteState(i) \/ IndexerDies(i)

LEMMA IdleIsGood ==
  /\ IdleIndexer \in IndexRuns /\ GoodRun(IdleIndexer, torn) /\ GoodRun(IdleIndexer, FALSE)
  /\ \A c, y, e : Current(IdleIndexer, c, y, e)
  /\ NoRow \in IndexRows /\ NoEntry \in IndexEntries
  /\ IdleIndexer.at = "idle" /\ IdleIndexer.row = NoRow
<1>1. 0 \in Contents
  BY IndexAssumption DEF Contents
<1>2. NoRow \in IndexRows /\ NoEntry \in IndexEntries /\ NoRow.sha = 0 /\ NoRow.parsed = 0
  BY <1>1 DEF NoRow, NoEntry, IndexRows, IndexEntries
<1>3. /\ IdleIndexer \in IndexRuns /\ IdleIndexer.at = "idle" /\ IdleIndexer.row = NoRow
      /\ IdleIndexer.rows = NoRow
  BY <1>2 DEF IdleIndexer, IndexRuns, IndexerAts, Modes
<1> QED BY <1>2, <1>3 DEF GoodRun, GoodRow, Current

\* The rest of a step: one indexer goes on and holds something well formed.
LEMMA OneIndexerAdvances ==
  ASSUME IndexInv, NEW i \in Indexers, NEW held \in IndexRuns, Advance(i, held),
         symbols' \in IndexRows, endpoints' \in IndexRows, state' \in IndexEntries,
         file' = file, edits' = edits, torn' \in BOOLEAN, torn => torn',
         disturbed' \subseteq Indexers,
         GoodRow(symbols', torn'), GoodRow(endpoints', torn'), GoodRun(held, torn'),
         i \in disturbed' \/ Current(held, file.content, symbols', endpoints'),
         \/ symbols' = symbols /\ endpoints' = endpoints /\ \A j \in disturbed \ {i} : j \in disturbed'
         \/ \A j \in Others(i) \cup (disturbed \ {i}) : j \in disturbed'
  PROVE  IndexInv'
<1> USE DEF IndexInv
<1>1. indexer' \in [Indexers -> IndexRuns] /\ indexer'[i] = held
      /\ \A j \in Indexers \ {i} : indexer'[j] = indexer[j]
  BY DEF Advance, IndexShape
<1>2. IndexShape'
  BY <1>1 DEF IndexShape
<1>3. RowsAreGood'
  <2> SUFFICES ASSUME NEW j \in Indexers PROVE GoodRun(indexer'[j], torn')
    BY DEF RowsAreGood, GoodRow
  <2>1. CASE j = i
    BY <2>1, <1>1
  <2>2. CASE j # i
    BY <2>2, <1>1 DEF RowsAreGood, GoodRun, GoodRow
  <2> QED BY <2>1, <2>2
<1>4. UndisturbedAreCurrent'
  <2> SUFFICES ASSUME NEW j \in Indexers, j \notin disturbed'
               PROVE  Current(indexer'[j], file.content, symbols', endpoints')
    BY DEF UndisturbedAreCurrent
  <2>1. CASE j = i
    BY <2>1, <1>1
  <2>2. CASE j # i /\ indexer[j].at = "idle"
    BY <2>2, <1>1 DEF Current
  <2>3. CASE j # i /\ indexer[j].at # "idle"
    <3>1. symbols' = symbols /\ endpoints' = endpoints /\ j \notin disturbed
      BY <2>3 DEF Others
    <3> QED BY <2>3, <3>1, <1>1 DEF UndisturbedAreCurrent
  <2> QED BY <2>1, <2>2, <2>3
<1> QED BY <1>2, <1>3, <1>4

LEMMA IndexStepsKeepInv ==
  ASSUME IndexInv, NEW i \in Indexers, IndexStep(i)
  PROVE  IndexInv'
<1> USE DEF IndexInv
<1> DEFINE was == indexer[i]
           stays == UNCHANGED <<symbols, endpoints, state, file, edits>>
<1>0. /\ was \in IndexRuns /\ GoodRun(was, torn) /\ (i \in disturbed \/ Current(was, file.content, symbols, endpoints))
      /\ file.content \in Contents /\ file.stamp \in Nat
      /\ GoodRow(symbols, torn) /\ GoodRow(endpoints, torn)
      /\ symbols \in IndexRows /\ endpoints \in IndexRows /\ state \in IndexEntries
      /\ torn \in BOOLEAN /\ disturbed \subseteq Indexers /\ 0 \in Contents
  BY IndexAssumption DEF IndexShape, RowsAreGood, UndisturbedAreCurrent, Contents
<1>1. CASE StartIndex(i)
  <2>1. PICK mode \in Modes :
          Advance(i, [IdleIndexer EXCEPT !.at = IF mode = "full" THEN "check" ELSE "read",
                                         !.mode = mode, !.old = IF mode = "full" THEN NoEntry ELSE state])
    BY <1>1 DEF StartIndex
  <2> DEFINE held == [IdleIndexer EXCEPT !.at = IF mode = "full" THEN "check" ELSE "read",
                                         !.mode = mode, !.old = IF mode = "full" THEN NoEntry ELSE state]
  <2>2. held \in IndexRuns /\ held.at \in {"check", "read"} /\ held.rows = NoRow /\ held.row = NoRow
    BY <1>0, IdleIsGood DEF IdleIndexer, IndexRuns, IndexerAts, IndexEntries, Modes
  <2>3. GoodRun(held, torn) /\ Current(held, file.content, symbols, endpoints)
    BY <2>2 DEF GoodRun, GoodRow, NoRow, Current
  <2>4. Advance(i, held)
    BY <2>1
  <2> HIDE DEF held
  <2> QED BY <2>2, <2>3, <2>4, <1>0, <1>1, OneIndexerAdvances DEF StartIndex, IndexFilesUnchanged, Untorn
<1>2. CASE ReadOldRows(i)
  <2> DEFINE held == [was EXCEPT !.rows = symbols, !.at = "check"]
  <2>1. held \in IndexRuns /\ GoodRun(held, torn) /\ Current(held, file.content, symbols, endpoints)
    BY <1>0, <1>2 DEF ReadOldRows, IndexRuns, IndexerAts, GoodRun, GoodRow, Current
  <2>2. Advance(i, held)
    BY <1>2 DEF ReadOldRows
  <2> HIDE DEF held, was
  <2> QED BY <2>1, <2>2, <1>0, <1>2, OneIndexerAdvances DEF ReadOldRows, IndexFilesUnchanged, Untorn
<1>3. CASE CheckFile(i)
  <2> DEFINE held == IF file.content = 0 THEN [was EXCEPT !.at = "symbols"]
                     ELSE IF StatMatches(was) THEN [was EXCEPT !.at = "restat", !.entry.sha = was.old.sha]
                     ELSE [was EXCEPT !.at = "hash"]
  <2>1. held \in IndexRuns /\ GoodRun(held, torn) /\ Current(held, file.content, symbols, endpoints)
    BY <1>0, <1>3 DEF CheckFile, IndexRuns, IndexerAts, IndexEntries, GoodRun, GoodRow, Current, StatMatches
  <2>2. Advance(i, held)
    BY <1>3 DEF CheckFile
  <2> HIDE DEF held, was
  <2> QED BY <2>1, <2>2, <1>0, <1>3, OneIndexerAdvances DEF CheckFile, IndexFilesUnchanged, Untorn
<1>4. CASE RestatFile(i)
  <2> DEFINE held == IF file.content = 0 THEN [was EXCEPT !.at = "symbols", !.entry = NoEntry]
                     ELSE [was EXCEPT !.at = "symbols", !.entry.stamp = file.stamp, !.row = was.rows]
  <2>1. held \in IndexRuns /\ GoodRun(held, torn)
    BY <1>0, <1>4, IdleIsGood DEF RestatFile, IndexRuns, IndexerAts, IndexEntries, GoodRun
  <2>2. i \in disturbed \/ Current(held, file.content, symbols, endpoints)
    BY <1>0, <1>4 DEF RestatFile, Current, IndexRuns
  <2>3. Advance(i, held)
    BY <1>4 DEF RestatFile
  <2> HIDE DEF held, was
  <2> QED BY <2>1, <2>2, <2>3, <1>0, <1>4, OneIndexerAdvances DEF RestatFile, IndexFilesUnchanged, Untorn
<1>5. CASE HashFile(i)
  <2> DEFINE held == IF file.content # 0 THEN [was EXCEPT !.at = "stat", !.entry.sha = file.content]
                     ELSE IF was.mode = "full" THEN IdleIndexer
                     ELSE [was EXCEPT !.at = "symbols"]
  <2>1. held \in IndexRuns /\ GoodRun(held, torn) /\ Current(held, file.content, symbols, endpoints)
    BY <1>0, <1>5, IdleIsGood DEF HashFile, IndexRuns, IndexerAts, IndexEntries, GoodRun, Current
  <2>2. Advance(i, held)
    BY <1>5 DEF HashFile
  <2> HIDE DEF held, was
  <2> QED BY <2>1, <2>2, <1>0, <1>5, OneIndexerAdvances DEF HashFile, IndexFilesUnchanged, Untorn
<1>6. CASE StatFile(i)
  <2> DEFINE held == IF file.content = 0 THEN [was EXCEPT !.at = "symbols", !.entry = NoEntry]
                     ELSE IF Unchanged(was, was.entry.sha)
                       THEN [was EXCEPT !.at = "symbols", !.entry.stamp = file.stamp, !.row = was.rows]
                     ELSE [was EXCEPT !.at = "parse", !.entry.stamp = file.stamp]
  <2>1. held \in IndexRuns /\ GoodRun(held, torn)
    BY <1>0, <1>6, IdleIsGood DEF StatFile, IndexRuns, IndexerAts, IndexEntries, GoodRun
  <2>2. i \in disturbed \/ Current(held, file.content, symbols, endpoints)
    BY <1>0, <1>6 DEF StatFile, Current, IndexRuns, IndexEntries, Unchanged, Trusted
  <2>3. Advance(i, held)
    BY <1>6 DEF StatFile
  <2> HIDE DEF held, was
  <2> QED BY <2>1, <2>2, <2>3, <1>0, <1>6, OneIndexerAdvances DEF StatFile, IndexFilesUnchanged, Untorn
<1>7. CASE ParseFile(i)
  <2> DEFINE row == IF file.content = 0 THEN NoRow ELSE [sha |-> was.entry.sha, parsed |-> file.content]
             held == [was EXCEPT !.at = "symbols", !.row = row]
  <2>1. torn' \in BOOLEAN /\ (torn => torn') /\ (~torn' => file.content = was.entry.sha)
    BY <1>7, <1>0 DEF ParseFile
  <2>2. /\ row \in IndexRows /\ GoodRow(row, torn')
        /\ file.content # 0 => row.sha = was.entry.sha /\ row.parsed = file.content
    BY <1>0, <1>7, <2>1 DEF ParseFile, IndexRuns, IndexEntries, IndexRows, GoodRow, GoodRun, NoRow
  <2>3. GoodRow(was.rows, torn') /\ GoodRow(symbols, torn') /\ GoodRow(endpoints, torn')
    BY <2>1, <1>0 DEF GoodRun, GoodRow
  <2> HIDE DEF row
  <2>4. held \in IndexRuns /\ GoodRun(held, torn')
    BY <1>0, <2>2, <2>3 DEF IndexRuns, IndexerAts, GoodRun
  <2>5. i \in disturbed \/ Current(held, file.content, symbols, endpoints)
    BY <1>0, <1>7, <2>2 DEF ParseFile, Current, IndexRuns, Trusted
  <2>6. Advance(i, held)
    BY <1>7 DEF ParseFile, row
  <2> HIDE DEF held, was
  <2> QED BY <2>1, <2>3, <2>4, <2>5, <2>6, <1>0, <1>7, OneIndexerAdvances DEF ParseFile, IndexFilesUnchanged
<1>8. CASE WriteSymbols(i)
  <2> DEFINE held == [was EXCEPT !.at = "endpoints"]
  <2>1. held \in IndexRuns /\ GoodRun(held, torn) /\ GoodRow(symbols', torn) /\ symbols' \in IndexRows
    BY <1>0, <1>8 DEF WriteSymbols, IndexRuns, IndexerAts, GoodRun
  <2>2. i \in disturbed \/ Current(held, file.content, symbols', endpoints)
    BY <1>0, <1>8 DEF WriteSymbols, Current, IndexRuns, Trusted
  <2>3. Advance(i, held) /\ Others(i) \subseteq Indexers
    BY <1>8 DEF WriteSymbols, Others
  <2> HIDE DEF held, was
  <2> QED BY <2>1, <2>2, <2>3, <1>0, <1>8, OneIndexerAdvances DEF WriteSymbols, Untorn
<1>9. CASE WriteEndpoints(i)
  <2> DEFINE held == [was EXCEPT !.at = "state"]
  <2>1. held \in IndexRuns /\ GoodRun(held, torn) /\ GoodRow(endpoints', torn) /\ endpoints' \in IndexRows
    BY <1>0, <1>9 DEF WriteEndpoints, IndexRuns, IndexerAts, GoodRun
  <2>2. i \in disturbed \/ Current(held, file.content, symbols, endpoints')
    BY <1>0, <1>9 DEF WriteEndpoints, Current, IndexRuns, Trusted
  <2>3. Advance(i, held) /\ Others(i) \subseteq Indexers
    BY <1>9 DEF WriteEndpoints, Others
  <2> HIDE DEF held, was
  <2> QED BY <2>1, <2>2, <2>3, <1>0, <1>9, OneIndexerAdvances DEF WriteEndpoints, Untorn
<1>10. CASE WriteState(i)
  <2>1. state' \in IndexEntries
    BY <1>0, <1>10 DEF WriteState, IndexRuns
  <2>2. Advance(i, IdleIndexer) /\ Others(i) \subseteq Indexers
    BY <1>10 DEF WriteState, Others
  <2> HIDE DEF was
  <2> QED BY <2>1, <2>2, <1>0, <1>10, IdleIsGood, OneIndexerAdvances DEF WriteState, Untorn
<1>11. CASE IndexerDies(i)
  <2> HIDE DEF was
  <2> QED BY <1>0, <1>11, IdleIsGood, OneIndexerAdvances DEF IndexerDies, IndexFilesUnchanged, Untorn
<1> QED BY <1>1, <1>2, <1>3, <1>4, <1>5, <1>6, <1>7, <1>8, <1>9, <1>10, <1>11 DEF IndexStep

LEMMA IndexInvHolds == IndexSpec => []IndexInv
<1>1. ASSUME IndexInit PROVE IndexInv
  <2>1. file = [content |-> 1, stamp |-> 0] /\ edits = 0 /\ symbols = NoRow /\ endpoints = NoRow
        /\ state = NoEntry /\ indexer = [i \in Indexers |-> IdleIndexer] /\ disturbed = {} /\ torn = FALSE
    BY <1>1 DEF IndexInit
  <2>2. torn \in BOOLEAN
    BY <2>1, Zenon
  <2>3. IndexShape
    BY <2>1, <2>2, IdleIsGood, IndexAssumption DEF IndexShape, Contents
  <2>4. GoodRow(NoRow, torn)
    BY DEF GoodRow, NoRow
  <2>5. RowsAreGood /\ UndisturbedAreCurrent
    BY <2>1, <2>4, IdleIsGood DEF RowsAreGood, UndisturbedAreCurrent
  <2> QED BY <2>3, <2>5 DEF IndexInv
<1>2. ASSUME IndexInv, [IndexNext]_indexVars PROVE IndexInv'
  <2>1. CASE EditSourceFile
    <3>1. PICK c \in Contents \ {file.content}, keeps \in BOOLEAN :
            file' = [content |-> c, stamp |-> IF keeps THEN file.stamp ELSE edits + 1]
      BY <2>1 DEF EditSourceFile
    <3>2. IndexShape'
      BY <1>2, <2>1, <3>1, IndexAssumption DEF EditSourceFile, IndexInv, IndexShape, Running
    <3>3. RowsAreGood'
      BY <1>2, <2>1 DEF EditSourceFile, IndexInv, RowsAreGood
    <3>4. UndisturbedAreCurrent'
      BY <2>1 DEF EditSourceFile, UndisturbedAreCurrent, Running, Current
    <3> QED BY <3>2, <3>3, <3>4 DEF IndexInv
  <2>2. CASE UNCHANGED indexVars
    BY <1>2, <2>2 DEF indexVars, IndexInv, IndexShape, RowsAreGood, UndisturbedAreCurrent
  <2> QED BY <1>2, <2>1, <2>2, IndexStepsKeepInv DEF IndexNext, IndexStep
<1> QED BY <1>1, <1>2, PTL DEF IndexSpec

LEMMA IndexIsSafe == IndexSpec => IndexSafety
<1>1. ASSUME IndexInv PROVE IndexTypeOK /\ FreshRowIsCurrent
  <2> USE <1>1 DEF IndexInv
  <2>1. ASSUME NEW row \in {symbols, endpoints} \cup {indexer[i].row : i \in Indexers}
        PROVE  {row.sha, row.parsed} \subseteq Contents /\ (row.sha = 0 <=> row.parsed = 0)
    <3>1. row \in IndexRows /\ (row.sha = 0 <=> row.parsed = 0)
      BY DEF IndexShape, IndexRuns, RowsAreGood, GoodRun, GoodRow
    <3> QED BY <3>1 DEF IndexRows
  <2>2. IndexTypeOK
    BY <2>1 DEF IndexTypeOK, IndexShape, IndexRuns, IndexerAts
  <2>3. FreshRowIsCurrent
    BY DEF FreshRowIsCurrent, RowFresh, RowsAreGood, GoodRow
  <2> QED BY <2>2, <2>3
<1>2. ASSUME IndexInv, NEW i \in Indexers, NEW mode \in {"full", "strict"}, Ends(i, mode), Trusted(indexer[i])
      PROVE  Repaired
  <2>1. Current(indexer[i], file.content, symbols, endpoints) /\ indexer[i].mode # "fast" /\ indexer[i].at = "state"
        /\ indexer[i].row \in IndexRows /\ file.content \in Contents
    BY <1>2 DEF Ends, IndexInv, UndisturbedAreCurrent, IndexShape, IndexRuns
  <2>2. state' = indexer[i].entry
    BY <1>2 DEF Ends
  <2> QED BY <2>1, <2>2, <1>2 DEF Current, Repaired, IndexRows
<1>3. IndexInv /\ [IndexNext]_indexVars => [\A i \in Indexers : Ends(i, "full") => Repaired]_indexVars
  BY <1>2 DEF Trusted, Ends
<1>4. IndexInv /\ [IndexNext]_indexVars =>
        [\A i \in Indexers :
           Ends(i, "strict") /\ indexer[i].rows.sha = indexer[i].old.sha
             /\ indexer[i].rows.parsed = indexer[i].rows.sha => Repaired]_indexVars
  BY <1>2 DEF Trusted, Ends
<1> QED BY <1>1, <1>3, <1>4, IndexInvHolds, PTL
        DEF IndexSpec, IndexSafety, FullRunRepairs, StrictRunFollowsEdits

-----------------------------------------------------------------------------
(* CodeGraph *)

\* ToSet and injectivity as the steps of a list need them.
LEMMA HeadAndTail ==
  ASSUME NEW S, NEW q \in Seq(S), q # <<>>
  PROVE  /\ Head(q) \in S /\ Tail(q) \in Seq(S)
         /\ ToSet(q) = {Head(q)} \cup ToSet(Tail(q))
         /\ IsInjective(q) => IsInjective(Tail(q)) /\ Head(q) \notin ToSet(Tail(q))
<1>1. /\ Len(q) \in Nat /\ Len(q) # 0 /\ DOMAIN q = 1..Len(q) /\ Head(q) = q[1]
      /\ Tail(q) \in Seq(S) /\ Len(Tail(q)) = Len(q) - 1
      /\ \A k \in 1..Len(q) : q[k] \in S
      /\ \A k \in 1..(Len(q) - 1) : Tail(q)[k] = q[k + 1]
      /\ DOMAIN Tail(q) = 1..(Len(q) - 1)
  OBVIOUS
<1>2. Head(q) \in S
  BY <1>1
<1>3. ASSUME NEW x \in ToSet(q) PROVE x \in {Head(q)} \cup ToSet(Tail(q))
  <2>1. PICK k \in 1..Len(q) : x = q[k]
    BY <1>1, <1>3 DEF ToSet
  <2>2. CASE k = 1
    BY <1>1, <2>1, <2>2
  <2>3. CASE k # 1
    <3>1. k - 1 \in 1..(Len(q) - 1) /\ q[(k - 1) + 1] = x
      BY <1>1, <2>1, <2>3
    <3>2. Tail(q)[k - 1] = x
      BY <1>1, <3>1
    <3> QED BY <3>1, <3>2, <1>1 DEF ToSet
  <2> QED BY <2>2, <2>3
<1>4. ASSUME NEW x \in {Head(q)} \cup ToSet(Tail(q)) PROVE x \in ToSet(q)
  <2>1. CASE x = Head(q)
    BY <1>1, <2>1 DEF ToSet
  <2>2. CASE x \in ToSet(Tail(q))
    <3>1. PICK k \in 1..(Len(q) - 1) : x = Tail(q)[k]
      BY <1>1, <2>2 DEF ToSet
    <3>2. k + 1 \in 1..Len(q) /\ x = q[k + 1]
      BY <1>1, <3>1
    <3> QED BY <3>2, <1>1 DEF ToSet
  <2> QED BY <2>1, <2>2, <1>4
<1>5. ToSet(q) = {Head(q)} \cup ToSet(Tail(q))
  BY <1>3, <1>4
<1>6. ASSUME IsInjective(q) PROVE IsInjective(Tail(q)) /\ Head(q) \notin ToSet(Tail(q))
  <2>0. \A a, b \in 1..Len(q) : q[a] = q[b] => a = b
    BY <1>1, <1>6 DEF IsInjective
  <2>1. ASSUME NEW a \in 1..(Len(q) - 1), NEW b \in 1..(Len(q) - 1), Tail(q)[a] = Tail(q)[b] PROVE a = b
    <3>1. a + 1 \in 1..Len(q) /\ b + 1 \in 1..Len(q) /\ q[a + 1] = q[b + 1]
      BY <1>1, <2>1
    <3>2. a + 1 = b + 1
      BY <2>0, <3>1
    <3> QED BY <3>2
  <2>2. ASSUME NEW k \in 1..(Len(q) - 1), Tail(q)[k] = Head(q) PROVE FALSE
    <3>1. k + 1 \in 1..Len(q) /\ 1 \in 1..Len(q) /\ q[k + 1] = q[1]
      BY <1>1, <2>2
    <3>2. k + 1 = 1
      BY <2>0, <3>1
    <3> QED BY <3>2
  <2> QED BY <2>1, <2>2, <1>1 DEF IsInjective, ToSet
<1> QED BY <1>1, <1>2, <1>5, <1>6

LEMMA ListElements == ASSUME NEW S, NEW q \in Seq(S) PROVE ToSet(q) \subseteq S
  BY DEF ToSet

SyncAts == {"idle", "next", "crg", "validate", "fingerprint", "manifest"}
Graphs == [of : 0..MaxTree, whole : BOOLEAN]
Bindings == [tree : 0..MaxTree, graph : Graphs]
SyncRuns == [at : SyncAts, todo : Seq(Trees), repo : SUBSET Trees, read : 0..MaxTree, clean : BOOLEAN,
             quiet : BOOLEAN, rows : SUBSET Trees, ok : SUBSET Trees, failed : SUBSET Trees]

GraphShape ==
  /\ tree \in [Trees -> Versions] /\ sound \in [Trees -> BOOLEAN]
  /\ graph \in [Trees -> Graphs] /\ binding \in [Trees -> Bindings]
  /\ syncer \in [Syncs -> SyncRuns]

\* A manifest names a database that was there, and a sound one the tree it is of.
BindingsHold ==
  \A r \in Trees :
    /\ graph[r].of = 0 => ~graph[r].whole
    /\ binding[r].tree # 0 => binding[r].graph.of # 0
    /\ binding[r].tree # 0 /\ sound[r] => binding[r].graph.of = binding[r].tree

\* The rows of a sync are those it has left, the one it is at, and the two
\* kinds it reports; none is of two kinds.
RowsPartition(held) ==
  /\ held.rows = ToSet(held.todo) \cup held.repo \cup held.ok \cup held.failed
  /\ IsInjective(held.todo)
  /\ ToSet(held.todo) \cap held.repo = {}
  /\ (ToSet(held.todo) \cup held.repo) \cap (held.ok \cup held.failed) = {}
  /\ held.ok \cap held.failed = {}
  /\ held.at = "idle" => held.ok = {}
  /\ IF held.at \in {"idle", "next"} THEN held.repo = {} ELSE \E r \in Trees : held.repo = {r}

\* What a sync knows of the repository r it is at, t and g being its tree and
\* its database.
KnowsRepo(held, t, g) ==
  /\ held.at \in {"fingerprint", "manifest"} => g.of # 0
  /\ held.quiet /\ held.at \in {"fingerprint", "manifest"} => g.whole
  /\ held.quiet /\ held.at = "manifest" => held.read = t
  /\ held.clean /\ held.at = "crg" /\ held.read # 0 => held.read = t
  /\ held.clean /\ held.at \in {"validate", "fingerprint", "manifest"} => g.of = t
  /\ held.clean /\ held.at = "manifest" => held.read = t

Ready(t, g, b) == g.of # 0 /\ g.whole /\ b.tree # 0 /\ b.graph = g /\ b.tree = t

SyncFits(held, trees, graphs, bindings) ==
  /\ RowsPartition(held)
  /\ held.at = "next" => held.read = 0
  /\ \A r \in held.repo : KnowsRepo(held, trees[r], graphs[r])
  /\ held.quiet => \A r \in held.ok : Ready(trees[r], graphs[r], bindings[r])

SyncHolds(held) == SyncFits(held, tree, graph, binding)

GraphInv == GraphShape /\ BindingsHold /\ \A s \in Syncs : SyncHolds(syncer[s])

LEMMA IdleSyncHolds == IdleSync \in SyncRuns /\ SyncHolds(IdleSync) /\ IdleSync.at = "idle"
<1>1. 0 \in 0..MaxTree
  BY GraphAssumption
<1>2. TRUE \in BOOLEAN /\ FALSE \in BOOLEAN
  BY Zenon
<1>3. /\ IdleSync \in SyncRuns /\ IdleSync.at = "idle" /\ IdleSync.todo = <<>> /\ IdleSync.repo = {}
      /\ IdleSync.rows = {} /\ IdleSync.ok = {} /\ IdleSync.failed = {}
  BY <1>1, <1>2 DEF IdleSync, SyncRuns, SyncAts
<1>4. ToSet(<<>>) = {} /\ IsInjective(<<>>)
  BY DEF ToSet, IsInjective
<1> QED BY <1>3, <1>4 DEF SyncHolds, SyncFits, RowsPartition

\* A step that only moves one sync.
LEMMA OneSyncMoves ==
  ASSUME GraphInv, NEW s \in Syncs, NEW held \in SyncRuns, Sync(s, held), SyncHolds(held),
         UNCHANGED <<tree, graph, binding, sound>>
  PROVE  GraphInv'
<1>1. syncer' \in [Syncs -> SyncRuns] /\ syncer'[s] = held /\ \A o \in Syncs \ {s} : syncer'[o] = syncer[o]
  BY DEF Sync, GraphInv, GraphShape
<1>2. ASSUME NEW o \in Syncs PROVE SyncHolds(syncer'[o])
  BY <1>1 DEF GraphInv
<1>3. \A o \in Syncs : SyncHolds(syncer[o])'
  BY <1>2 DEF SyncHolds, SyncFits
<1>4. GraphShape' /\ BindingsHold'
  BY <1>1 DEF GraphInv, GraphShape, BindingsHold
<1> QED BY <1>3, <1>4 DEF GraphInv

\* The repository a sync is at.
LEMMA RepoOf ==
  ASSUME GraphInv, NEW s \in Syncs, syncer[s].at \notin {"idle", "next"}
  PROVE  Repo(s) \in Trees /\ syncer[s].repo = {Repo(s)}
<1>1. \E r \in Trees : syncer[s].repo = {r}
  BY DEF GraphInv, SyncHolds, SyncFits, RowsPartition
<1> QED BY <1>1 DEF Repo

LEMMA RowFailsHolds ==
  ASSUME NEW held \in SyncRuns, SyncHolds(held), NEW r \in Trees, held.repo = {r}
  PROVE  RowFails(held, r) \in SyncRuns /\ SyncHolds(RowFails(held, r))
<1> DEFINE new == RowFails(held, r)
<1>0. 0 \in 0..MaxTree
  BY GraphAssumption
<1>1. /\ new \in SyncRuns /\ new.at = "next" /\ new.repo = {} /\ new.failed = held.failed \cup {r}
      /\ new.todo = held.todo /\ new.rows = held.rows /\ new.ok = held.ok /\ new.quiet = held.quiet
      /\ new.read = 0
  BY <1>0 DEF RowFails, SyncRuns, SyncAts
<1> HIDE DEF new
<1>2. /\ held.rows = ToSet(held.todo) \cup {r} \cup held.ok \cup held.failed
      /\ IsInjective(held.todo) /\ r \notin ToSet(held.todo)
      /\ (ToSet(held.todo) \cup {r}) \cap (held.ok \cup held.failed) = {}
      /\ held.ok \cap held.failed = {}
  BY DEF SyncHolds, SyncFits, RowsPartition
<1>3. /\ new.rows = ToSet(new.todo) \cup new.repo \cup new.ok \cup new.failed
      /\ IsInjective(new.todo) /\ ToSet(new.todo) \cap new.repo = {}
      /\ (ToSet(new.todo) \cup new.repo) \cap (new.ok \cup new.failed) = {}
      /\ new.ok \cap new.failed = {}
  BY <1>1, <1>2
<1>4. RowsPartition(new)
  BY <1>1, <1>3 DEF RowsPartition
<1>5. SyncHolds(new)
  BY <1>1, <1>4 DEF SyncHolds, SyncFits
<1> QED BY <1>1, <1>5 DEF new

\* What a disturbance does to a sync: it forgets that nothing happened.
LEMMA DisturbedSync ==
  ASSUME GraphInv, NEW r \in Trees, NEW but, NEW o \in Syncs, NEW d, d = Disturb(r, but)[o]
  PROVE  /\ d \in SyncRuns /\ d.at = syncer[o].at /\ d.todo = syncer[o].todo /\ d.repo = syncer[o].repo
         /\ d.read = syncer[o].read /\ d.rows = syncer[o].rows /\ d.ok = syncer[o].ok
         /\ d.failed = syncer[o].failed
         /\ d.clean => syncer[o].clean
         /\ d.quiet => syncer[o].quiet
         /\ o \in but => d = syncer[o]
         /\ o \notin but => \/ syncer[o].at = "idle"
                            \/ (d.clean => r \notin d.repo) /\ (d.quiet => r \notin d.rows)
<1> DEFINE was == syncer[o]
           marked == [was EXCEPT !.clean = @ /\ r \notin was.repo, !.quiet = @ /\ r \notin was.rows]
<1>1. was \in SyncRuns
  BY DEF GraphInv, GraphShape
<1>2. d = IF o \in but \/ was.at = "idle" THEN was ELSE marked
  BY DEF Disturb
<1>3. (was.clean /\ r \notin was.repo) \in BOOLEAN /\ (was.quiet /\ r \notin was.rows) \in BOOLEAN
  BY Zenon
<1>4. /\ marked \in SyncRuns /\ marked.at = was.at /\ marked.todo = was.todo /\ marked.repo = was.repo
      /\ marked.read = was.read /\ marked.rows = was.rows /\ marked.ok = was.ok
      /\ marked.failed = was.failed
      /\ marked.clean = (was.clean /\ r \notin was.repo) /\ marked.quiet = (was.quiet /\ r \notin was.rows)
  BY <1>1, <1>3 DEF SyncRuns
<1> HIDE DEF marked
<1> QED BY <1>1, <1>2, <1>4

\* ... and what it still holds when the repository r changes under it.
LEMMA DisturbedHolds ==
  ASSUME GraphInv, NEW r \in Trees, NEW but, NEW o \in Syncs, o \notin but, NEW d, d = Disturb(r, but)[o],
         \A q \in Trees \ {r} : tree'[q] = tree[q] /\ graph'[q] = graph[q] /\ binding'[q] = binding[q],
         graph'[r] = graph[r] \/ graph'[r].of # 0
  PROVE  SyncFits(d, tree', graph', binding')
<1> DEFINE was == syncer[o]
<1>1. was \in SyncRuns /\ SyncHolds(was)
  BY DEF GraphInv, GraphShape
<1>2. /\ d \in SyncRuns /\ d.at = was.at /\ d.todo = was.todo /\ d.repo = was.repo
      /\ d.read = was.read /\ d.rows = was.rows /\ d.ok = was.ok /\ d.failed = was.failed
      /\ d.clean => was.clean
      /\ d.quiet => was.quiet
      /\ \/ was.at = "idle"
         \/ (d.clean => r \notin d.repo) /\ (d.quiet => r \notin d.rows)
  BY DisturbedSync
<1> HIDE DEF was
<1>3. RowsPartition(d) /\ (d.at = "next" => d.read = 0)
  BY <1>1, <1>2 DEF SyncHolds, SyncFits, RowsPartition
<1>4. d.repo \subseteq d.rows /\ d.ok \subseteq d.rows /\ (was.at = "idle" => d.repo = {} /\ d.ok = {})
  BY <1>2, <1>3 DEF RowsPartition
<1>5. ASSUME NEW q \in d.repo PROVE KnowsRepo(d, tree'[q], graph'[q])
  <2>1. q \in Trees /\ KnowsRepo(was, tree[q], graph[q]) /\ was.at # "idle"
    BY <1>1, <1>2, <1>4, <1>5 DEF SyncHolds, SyncFits, SyncRuns
  <2>2. CASE q = r
    BY <1>2, <1>4, <1>5, <2>1, <2>2 DEF KnowsRepo
  <2>3. CASE q # r
    BY <1>2, <2>1, <2>3 DEF KnowsRepo
  <2> QED BY <2>2, <2>3
<1>6. ASSUME d.quiet, NEW q \in d.ok PROVE Ready(tree'[q], graph'[q], binding'[q])
  <2>1. q \in Trees \ {r} /\ Ready(tree[q], graph[q], binding[q])
    BY <1>1, <1>2, <1>4, <1>6 DEF SyncHolds, SyncFits, SyncRuns
  <2> QED BY <2>1
<1> QED BY <1>3, <1>5, <1>6 DEF SyncHolds, SyncFits

SyncStep(s) ==
  \/ StartSync(s) \/ NextRepository(s) \/ CrgReads(s) \/ CrgFails(s) \/ ValidateGraph(s)
  \/ TakeFingerprint(s) \/ WriteGraphManifest(s) \/ EndSync(s) \/ SyncDies(s)
  \/ \E whole \in BOOLEAN : CrgWrites(s, whole)

LEMMA StartKeepsInv ==
  ASSUME GraphInv, NEW s \in Syncs, StartSync(s) PROVE GraphInv'
<1> DEFINE held == [IdleSync EXCEPT !.at = "next", !.todo = Managed[s], !.rows = ToSet(Managed[s])]
<1>1. Managed[s] \in Seq(Trees) /\ IsInjective(Managed[s]) /\ ToSet(Managed[s]) \subseteq Trees
  BY GraphAssumption, ListElements
<1>2. IdleSync \in SyncRuns /\ IdleSync.repo = {} /\ IdleSync.ok = {} /\ IdleSync.failed = {}
      /\ IdleSync.read = 0
  BY IdleSyncHolds DEF IdleSync
<1>3. /\ held \in SyncRuns /\ held.at = "next" /\ held.todo = Managed[s] /\ held.rows = ToSet(Managed[s]) /\ held.read = 0
      /\ held.repo = {} /\ held.ok = {} /\ held.failed = {}
  BY <1>1, <1>2 DEF SyncRuns, SyncAts
<1>4. Sync(s, held) /\ UNCHANGED <<tree, graph, binding, sound>>
  BY DEF StartSync
<1> HIDE DEF held
<1>5. RowsPartition(held)
  BY <1>1, <1>3 DEF RowsPartition
<1>6. SyncHolds(held)
  BY <1>3, <1>5 DEF SyncHolds, SyncFits
<1> QED BY <1>3, <1>4, <1>6, OneSyncMoves

LEMMA NextKeepsInv ==
  ASSUME GraphInv, NEW s \in Syncs, NextRepository(s) PROVE GraphInv'
<1> DEFINE was == syncer[s]
           r == Head(was.todo)
           held == [was EXCEPT !.at = "crg", !.repo = {Head(was.todo)}, !.todo = Tail(was.todo), !.clean = TRUE]
<1>1. was \in SyncRuns /\ SyncHolds(was) /\ was.at = "next" /\ was.todo # <<>> /\ was.todo \in Seq(Trees)
  BY DEF GraphInv, GraphShape, NextRepository, SyncRuns
<1>2. /\ r \in Trees /\ Tail(was.todo) \in Seq(Trees)
      /\ ToSet(was.todo) = {r} \cup ToSet(Tail(was.todo))
      /\ IsInjective(was.todo) => IsInjective(Tail(was.todo)) /\ r \notin ToSet(Tail(was.todo))
  BY <1>1, HeadAndTail
<1>3. TRUE \in BOOLEAN
  BY Zenon
<1>4. Sync(s, held) /\ UNCHANGED <<tree, graph, binding, sound>>
  BY DEF NextRepository
<1> HIDE DEF was
<1>5. {r} \in SUBSET Trees
  BY <1>2
<1>6. /\ held \in SyncRuns /\ held.at = "crg" /\ held.todo = Tail(was.todo) /\ held.rows = was.rows
      /\ held.repo = {r} /\ held.ok = was.ok /\ held.failed = was.failed /\ held.quiet = was.quiet
      /\ held.read = was.read
  BY <1>1, <1>2, <1>3, <1>5 DEF SyncRuns, SyncAts
<1> HIDE DEF held
<1>7. RowsPartition(held) /\ held.read = 0
  BY <1>1, <1>2, <1>6 DEF SyncHolds, SyncFits, RowsPartition
<1>8. KnowsRepo(held, tree[r], graph[r])
  BY <1>6, <1>7 DEF KnowsRepo
<1>9. SyncHolds(held)
  BY <1>1, <1>6, <1>7, <1>8 DEF SyncHolds, SyncFits
<1> QED BY <1>4, <1>6, <1>9, OneSyncMoves

\* The steps in which a sync stays at its repository and changes nothing else.
LEMMA StayingHolds ==
  ASSUME NEW was \in SyncRuns, SyncHolds(was), NEW r \in Trees, was.repo = {r},
         NEW held \in SyncRuns, was.at \notin {"idle", "next"}, held.at \notin {"idle", "next"},
         held.todo = was.todo, held.repo = was.repo, held.rows = was.rows, held.ok = was.ok,
         held.failed = was.failed, held.quiet = was.quiet,
         KnowsRepo(held, tree[r], graph[r])
  PROVE  SyncHolds(held)
<1>1. RowsPartition(held)
  BY DEF SyncHolds, SyncFits, RowsPartition
<1> QED BY <1>1 DEF SyncHolds, SyncFits

LEMMA SyncStaysKeepsInv ==
  ASSUME GraphInv, NEW s \in Syncs, CrgReads(s) \/ ValidateGraph(s) \/ TakeFingerprint(s)
  PROVE  GraphInv'
<1> DEFINE was == syncer[s]
           r == Repo(s)
<1>1. was \in SyncRuns /\ SyncHolds(was) /\ was.at \notin {"idle", "next"}
  BY DEF GraphInv, GraphShape, CrgReads, ValidateGraph, TakeFingerprint
<1>2. /\ r \in Trees /\ was.repo = {r} /\ KnowsRepo(was, tree[r], graph[r])
      /\ tree[r] \in 1..MaxTree /\ graph[r] \in Graphs
  BY <1>1, RepoOf DEF SyncHolds, SyncFits, GraphInv, GraphShape, Versions
<1>3. tree[r] \in 0..MaxTree /\ TRUE \in BOOLEAN /\ MaxTree \in Nat
  BY <1>2, GraphAssumption
<1>4. CASE CrgReads(s)
  <2> DEFINE held == [was EXCEPT !.read = tree[r], !.clean = TRUE]
  <2>1. Sync(s, held) /\ UNCHANGED <<tree, graph, binding, sound>> /\ was.at = "crg"
    BY <1>4 DEF CrgReads
  <2> HIDE DEF was, r
  <2>2. /\ held \in SyncRuns /\ held.at = was.at /\ held.todo = was.todo /\ held.repo = was.repo
        /\ held.rows = was.rows /\ held.ok = was.ok /\ held.failed = was.failed
        /\ held.quiet = was.quiet /\ held.read = tree[r]
    BY <1>1, <1>3 DEF SyncRuns
  <2> HIDE DEF held
  <2>3. KnowsRepo(held, tree[r], graph[r])
    BY <2>1, <2>2 DEF KnowsRepo
  <2>4. SyncHolds(held)
    BY <1>1, <1>2, <2>1, <2>2, <2>3, StayingHolds
  <2> QED BY <2>1, <2>2, <2>4, OneSyncMoves
<1>5. CASE ValidateGraph(s) /\ ValidGraph(r)
  <2> DEFINE held == [was EXCEPT !.at = "fingerprint"]
  <2>1. Sync(s, held) /\ UNCHANGED <<tree, graph, binding, sound>> /\ was.at = "validate"
    BY <1>5 DEF ValidateGraph
  <2>2. graph[r].of # 0 /\ graph[r].whole
    BY <1>5 DEF ValidGraph
  <2> HIDE DEF was, r
  <2>3. /\ held \in SyncRuns /\ held.at = "fingerprint" /\ held.todo = was.todo /\ held.repo = was.repo
        /\ held.rows = was.rows /\ held.ok = was.ok /\ held.failed = was.failed
        /\ held.quiet = was.quiet /\ held.clean = was.clean
    BY <1>1, <1>3 DEF SyncRuns, SyncAts
  <2> HIDE DEF held
  <2>4. KnowsRepo(held, tree[r], graph[r])
    BY <1>2, <2>1, <2>2, <2>3 DEF KnowsRepo
  <2>5. SyncHolds(held)
    BY <1>1, <1>2, <2>3, <2>4, StayingHolds
  <2> QED BY <2>1, <2>3, <2>5, OneSyncMoves
<1>6. CASE ValidateGraph(s) /\ ~ValidGraph(r)
  <2>1. Sync(s, RowFails(was, r)) /\ UNCHANGED <<tree, graph, binding, sound>>
    BY <1>6 DEF ValidateGraph
  <2> HIDE DEF was, r
  <2>2. RowFails(was, r) \in SyncRuns /\ SyncHolds(RowFails(was, r))
    BY <1>1, <1>2, RowFailsHolds
  <2> QED BY <2>1, <2>2, OneSyncMoves
<1>7. CASE TakeFingerprint(s)
  <2> DEFINE held == [was EXCEPT !.at = "manifest", !.read = tree[r]]
  <2>1. Sync(s, held) /\ UNCHANGED <<tree, graph, binding, sound>> /\ was.at = "fingerprint"
    BY <1>7 DEF TakeFingerprint
  <2> HIDE DEF was, r
  <2>2. /\ held \in SyncRuns /\ held.at = "manifest" /\ held.todo = was.todo /\ held.repo = was.repo
        /\ held.rows = was.rows /\ held.ok = was.ok /\ held.failed = was.failed
        /\ held.quiet = was.quiet /\ held.clean = was.clean /\ held.read = tree[r]
    BY <1>1, <1>3 DEF SyncRuns, SyncAts
  <2> HIDE DEF held
  <2>3. KnowsRepo(held, tree[r], graph[r])
    BY <1>2, <2>1, <2>2 DEF KnowsRepo
  <2>4. SyncHolds(held)
    BY <1>1, <1>2, <2>2, <2>3, StayingHolds
  <2> QED BY <2>1, <2>2, <2>4, OneSyncMoves
<1> QED BY <1>4, <1>5, <1>6, <1>7

LEMMA CrgFailsKeepsInv ==
  ASSUME GraphInv, NEW s \in Syncs, CrgFails(s) PROVE GraphInv'
<1>1. syncer[s] \in SyncRuns /\ SyncHolds(syncer[s]) /\ syncer[s].at = "crg"
  BY DEF GraphInv, GraphShape, CrgFails
<1>2. Repo(s) \in Trees /\ syncer[s].repo = {Repo(s)}
  BY <1>1, RepoOf
<1>3. RowFails(syncer[s], Repo(s)) \in SyncRuns /\ SyncHolds(RowFails(syncer[s], Repo(s)))
  BY <1>1, <1>2, RowFailsHolds
<1> QED BY <1>3, OneSyncMoves DEF CrgFails

LEMMA EndKeepsInv ==
  ASSUME GraphInv, NEW s \in Syncs, EndSync(s) \/ SyncDies(s) PROVE GraphInv'
<1> QED BY IdleSyncHolds, OneSyncMoves DEF EndSync, SyncDies

\* A sync that writes a repository's database or manifest: the others are
\* disturbed, it goes on.
LEMMA OneSyncWrites ==
  ASSUME GraphInv, NEW s \in Syncs, NEW r \in Trees, NEW held \in SyncRuns,
         syncer' = [Disturb(r, {s}) EXCEPT ![s] = held],
         tree' = tree,
         NEW g \in Graphs, graph' = [graph EXCEPT ![r] = g], g = graph[r] \/ g.of # 0,
         NEW b \in Bindings, binding' = [binding EXCEPT ![r] = b],
         NEW c \in BOOLEAN, sound' = [sound EXCEPT ![r] = c],
         /\ b.tree # 0 => b.graph.of # 0
         /\ b.tree # 0 /\ c => b.graph.of = b.tree,
         SyncFits(held, tree', graph', binding')
  PROVE  GraphInv'
<1>1. \A o \in Syncs : Disturb(r, {s})[o] \in SyncRuns
  BY DisturbedSync
<1>2. Disturb(r, {s}) \in [Syncs -> SyncRuns]
  BY <1>1 DEF Disturb
<1>3. /\ syncer' \in [Syncs -> SyncRuns] /\ syncer'[s] = held
      /\ \A o \in Syncs \ {s} : syncer'[o] = Disturb(r, {s})[o]
  BY <1>2
<1>4. /\ graph' \in [Trees -> Graphs] /\ graph'[r] = g /\ \A q \in Trees \ {r} : graph'[q] = graph[q]
      /\ binding' \in [Trees -> Bindings] /\ binding'[r] = b
      /\ \A q \in Trees \ {r} : binding'[q] = binding[q]
      /\ sound' \in [Trees -> BOOLEAN] /\ sound'[r] = c /\ \A q \in Trees \ {r} : sound'[q] = sound[q]
      /\ \A q \in Trees \ {r} : tree'[q] = tree[q]
  BY DEF GraphInv, GraphShape
<1>5. GraphShape'
  BY <1>3, <1>4 DEF GraphInv, GraphShape
<1>6. BindingsHold'
  <2> SUFFICES ASSUME NEW q \in Trees
               PROVE  /\ graph'[q].of = 0 => ~graph'[q].whole
                      /\ binding'[q].tree # 0 => binding'[q].graph.of # 0
                      /\ binding'[q].tree # 0 /\ sound'[q] => binding'[q].graph.of = binding'[q].tree
    BY DEF BindingsHold
  <2>1. CASE q = r
    BY <1>4, <2>1 DEF GraphInv, BindingsHold
  <2>2. CASE q # r
    BY <1>4, <2>2 DEF GraphInv, BindingsHold
  <2> QED BY <2>1, <2>2
<1>7. ASSUME NEW o \in Syncs PROVE SyncFits(syncer'[o], tree', graph', binding')
  <2>1. CASE o = s
    BY <1>3, <2>1
  <2>2. CASE o # s
    <3> DEFINE d == Disturb(r, {s})[o]
    <3>1. \A q \in Trees \ {r} : tree'[q] = tree[q] /\ graph'[q] = graph[q] /\ binding'[q] = binding[q]
      BY <1>4
    <3>2. graph'[r] = graph[r] \/ graph'[r].of # 0
      BY <1>4
    <3>3. SyncFits(d, tree', graph', binding')
      BY <2>2, <3>1, <3>2, DisturbedHolds
    <3>4. syncer'[o] = d
      BY <1>3, <2>2
    <3> QED BY <3>3, <3>4
  <2> QED BY <2>1, <2>2
<1> QED BY <1>5, <1>6, <1>7 DEF GraphInv, SyncHolds

\* What a sync reports as ready keeps being so when it writes about another
\* repository.
LEMMA ReportStays ==
  ASSUME GraphInv, NEW was \in SyncRuns, SyncHolds(was), NEW r \in Trees, was.repo = {r},
         tree' = tree,
         \A q \in Trees \ {r} : graph'[q] = graph[q] /\ binding'[q] = binding[q]
  PROVE  /\ r \notin was.ok
         /\ was.quiet => \A q \in was.ok : Ready(tree'[q], graph'[q], binding'[q])
<1>1. r \notin was.ok
  BY DEF SyncHolds, SyncFits, RowsPartition
<1> QED BY <1>1 DEF SyncHolds, SyncFits, SyncRuns

LEMMA CrgWritesKeepsInv ==
  ASSUME GraphInv, NEW s \in Syncs, NEW whole \in BOOLEAN, CrgWrites(s, whole) PROVE GraphInv'
<1> DEFINE was == syncer[s]
           r == Repo(s)
           g == [of |-> was.read, whole |-> whole]
           held == IF whole THEN [was EXCEPT !.at = "validate", !.read = 0] ELSE RowFails(was, r)
<1>1. was \in SyncRuns /\ SyncHolds(was) /\ was.at = "crg" /\ was.read # 0
  BY DEF GraphInv, GraphShape, CrgWrites
<1>2. /\ r \in Trees /\ was.repo = {r} /\ KnowsRepo(was, tree[r], graph[r])
  BY <1>1, RepoOf DEF SyncHolds, SyncFits
<1>3. Disturb(r, {s})[s] = was
  BY <1>2, DisturbedSync
<1>4. graph' = [graph EXCEPT ![r] = g] /\ syncer' = [Disturb(r, {s}) EXCEPT ![s] = held]
      /\ tree' = tree /\ binding' = binding /\ sound' = sound
  BY <1>3 DEF CrgWrites
<1>5. /\ binding \in [Trees -> Bindings] /\ sound \in [Trees -> BOOLEAN] /\ graph \in [Trees -> Graphs]
      /\ binding[r].tree # 0 => binding[r].graph.of # 0
      /\ binding[r].tree # 0 /\ sound[r] => binding[r].graph.of = binding[r].tree
  BY <1>2 DEF GraphInv, GraphShape, BindingsHold
<1> HIDE DEF was, r
<1>6. /\ binding[r] \in Bindings /\ sound[r] \in BOOLEAN
      /\ binding' = [binding EXCEPT ![r] = binding[r]] /\ sound' = [sound EXCEPT ![r] = sound[r]]
  BY <1>2, <1>4, <1>5
<1>7. g \in Graphs /\ g.of = was.read /\ g.of # 0
  BY <1>1 DEF Graphs, SyncRuns
<1>8. graph'[r] = g /\ \A q \in Trees \ {r} : graph'[q] = graph[q]
  BY <1>2, <1>4, <1>5
<1>9. /\ r \notin was.ok
      /\ was.quiet => \A q \in was.ok : Ready(tree'[q], graph'[q], binding'[q])
  BY <1>1, <1>2, <1>4, <1>8, ReportStays
<1>10. held \in SyncRuns /\ SyncFits(held, tree', graph', binding')
  <2>1. CASE whole
    <3>1. 0 \in 0..MaxTree
      BY GraphAssumption
    <3>2. /\ held \in SyncRuns /\ held.at = "validate" /\ held.todo = was.todo /\ held.repo = was.repo
          /\ held.rows = was.rows /\ held.ok = was.ok /\ held.failed = was.failed
          /\ held.quiet = was.quiet /\ held.clean = was.clean
      BY <1>1, <2>1, <3>1 DEF SyncRuns, SyncAts
    <3> HIDE DEF held
    <3>3. RowsPartition(held)
      BY <1>1, <1>2, <3>2 DEF SyncHolds, SyncFits, RowsPartition
    <3>4. KnowsRepo(held, tree'[r], graph'[r])
      BY <1>1, <1>2, <1>4, <1>7, <1>8, <3>2 DEF KnowsRepo
    <3> QED BY <1>2, <1>9, <3>2, <3>3, <3>4 DEF SyncFits
  <2>2. CASE ~whole
    <3>1. held = RowFails(was, r)
      BY <2>2
    <3> HIDE DEF held
    <3>2. held \in SyncRuns /\ SyncHolds(held)
      BY <1>1, <1>2, <3>1, RowFailsHolds
    <3>3. held.repo = {} /\ held.at = "next" /\ held.ok = was.ok /\ held.quiet = was.quiet
      BY <1>1, <3>1 DEF RowFails, SyncRuns
    <3> QED BY <1>9, <3>2, <3>3 DEF SyncHolds, SyncFits
  <2> QED BY <2>1, <2>2
<1> HIDE DEF g, held
<1> DEFINE b == binding[r]
           c == sound[r]
<1>11. /\ b \in Bindings /\ binding' = [binding EXCEPT ![r] = b]
       /\ c \in BOOLEAN /\ sound' = [sound EXCEPT ![r] = c]
       /\ b.tree # 0 => b.graph.of # 0
       /\ b.tree # 0 /\ c => b.graph.of = b.tree
  BY <1>5, <1>6
<1> HIDE DEF b, c
<1> QED BY <1>2, <1>4, <1>7, <1>10, <1>11, OneSyncWrites

LEMMA ManifestKeepsInv ==
  ASSUME GraphInv, NEW s \in Syncs, WriteGraphManifest(s) PROVE GraphInv'
<1> DEFINE was == syncer[s]
           r == Repo(s)
           b == [tree |-> was.read, graph |-> graph[r]]
           held == [was EXCEPT !.at = "next", !.read = 0, !.repo = {}, !.ok = was.ok \cup {r}]
<1>1. was \in SyncRuns /\ SyncHolds(was) /\ was.at = "manifest"
  BY DEF GraphInv, GraphShape, WriteGraphManifest
<1>2. /\ r \in Trees /\ was.repo = {r} /\ KnowsRepo(was, tree[r], graph[r])
  BY <1>1, RepoOf DEF SyncHolds, SyncFits
<1>3. binding' = [binding EXCEPT ![r] = b] /\ syncer' = [Disturb(r, {s}) EXCEPT ![s] = held]
      /\ tree' = tree /\ graph' = graph /\ sound' = [sound EXCEPT ![r] = was.clean]
  BY DEF WriteGraphManifest
<1>4. /\ binding \in [Trees -> Bindings] /\ graph \in [Trees -> Graphs] /\ tree[r] \in 1..MaxTree
      /\ graph[r] \in Graphs
  BY <1>2 DEF GraphInv, GraphShape, Versions
<1> HIDE DEF was, r
<1>5. graph' = [graph EXCEPT ![r] = graph[r]]
  BY <1>3, <1>4
<1>6. /\ b \in Bindings /\ b.tree = was.read /\ b.graph = graph[r] /\ was.clean \in BOOLEAN
  BY <1>1, <1>4 DEF Bindings, SyncRuns
<1>7. /\ graph[r].of # 0
      /\ was.clean => graph[r].of = was.read
      /\ was.quiet => graph[r].whole /\ was.read = tree[r]
  BY <1>1, <1>2 DEF KnowsRepo
<1>8. binding'[r] = b /\ \A q \in Trees \ {r} : binding'[q] = binding[q]
  BY <1>2, <1>3, <1>4
<1>9. /\ r \notin was.ok
      /\ was.quiet => \A q \in was.ok : Ready(tree'[q], graph'[q], binding'[q])
  BY <1>1, <1>2, <1>3, <1>8, ReportStays
<1>10. was.quiet => Ready(tree'[r], graph'[r], binding'[r])
  BY <1>3, <1>4, <1>6, <1>7, <1>8 DEF Ready
<1>11. 0 \in 0..MaxTree /\ was.ok \cup {r} \in SUBSET Trees
  BY <1>1, <1>2, GraphAssumption DEF SyncRuns
<1>12. /\ held \in SyncRuns /\ held.at = "next" /\ held.todo = was.todo /\ held.repo = {}
       /\ held.rows = was.rows /\ held.ok = was.ok \cup {r} /\ held.failed = was.failed
       /\ held.quiet = was.quiet /\ held.read = 0
  BY <1>1, <1>11 DEF SyncRuns, SyncAts
<1> HIDE DEF held, b
<1>13. RowsPartition(held)
  <2>1. /\ was.rows = ToSet(was.todo) \cup {r} \cup was.ok \cup was.failed
        /\ IsInjective(was.todo) /\ r \notin ToSet(was.todo)
        /\ (ToSet(was.todo) \cup {r}) \cap (was.ok \cup was.failed) = {}
        /\ was.ok \cap was.failed = {}
    BY <1>1, <1>2 DEF SyncHolds, SyncFits, RowsPartition
  <2>2. /\ held.rows = ToSet(held.todo) \cup held.repo \cup held.ok \cup held.failed
        /\ IsInjective(held.todo)
        /\ ToSet(held.todo) \cap held.repo = {}
        /\ (ToSet(held.todo) \cup held.repo) \cap (held.ok \cup held.failed) = {}
        /\ held.ok \cap held.failed = {}
    BY <2>1, <1>12
  <2> QED BY <2>2, <1>12 DEF RowsPartition
<1>14. SyncFits(held, tree', graph', binding')
  BY <1>9, <1>10, <1>12, <1>13 DEF SyncFits
<1>15. /\ b.tree # 0 => b.graph.of # 0
       /\ b.tree # 0 /\ was.clean => b.graph.of = b.tree
  BY <1>6, <1>7
<1> QED BY <1>2, <1>3, <1>4, <1>5, <1>6, <1>12, <1>14, <1>15, OneSyncWrites

LEMMA EditKeepsInv ==
  ASSUME GraphInv, NEW r \in Trees, EditTree(r) PROVE GraphInv'
<1>1. PICK v \in Versions : tree' = [tree EXCEPT ![r] = v]
  BY DEF EditTree
<1>2. syncer' = Disturb(r, {}) /\ graph' = graph /\ binding' = binding /\ sound' = sound
  BY DEF EditTree
<1>3. \A q \in Trees \ {r} : tree'[q] = tree[q] /\ graph'[q] = graph[q] /\ binding'[q] = binding[q]
  BY <1>1, <1>2 DEF GraphInv, GraphShape
<1>4. \A o \in Syncs : Disturb(r, {})[o] \in SyncRuns
  BY DisturbedSync
<1>5. syncer' \in [Syncs -> SyncRuns]
  BY <1>2, <1>4 DEF Disturb
<1>6. GraphShape' /\ BindingsHold'
  BY <1>1, <1>2, <1>5 DEF GraphInv, GraphShape, BindingsHold
<1>7. ASSUME NEW o \in Syncs PROVE SyncFits(syncer'[o], tree', graph', binding')
  BY <1>2, <1>3, DisturbedHolds
<1> QED BY <1>6, <1>7 DEF GraphInv, SyncHolds

LEMMA GraphInvHolds == GraphSpec => []GraphInv
<1>1. ASSUME GraphInit PROVE GraphInv
  <2>1. TRUE \in BOOLEAN /\ FALSE \in BOOLEAN
    BY Zenon
  <2>2. /\ NoGraph \in Graphs /\ NoBinding \in Bindings /\ NoGraph.whole = FALSE /\ NoBinding.tree = 0
        /\ 1 \in Versions
    BY <2>1, GraphAssumption DEF NoGraph, NoBinding, Graphs, Bindings, Versions
  <2>3. /\ tree = [r \in Trees |-> 1] /\ graph = [r \in Trees |-> NoGraph]
        /\ binding = [r \in Trees |-> NoBinding] /\ syncer = [s \in Syncs |-> IdleSync]
        /\ sound = [r \in Trees |-> TRUE]
    BY <1>1 DEF GraphInit
  <2>4. GraphShape
    BY <2>1, <2>2, <2>3, IdleSyncHolds DEF GraphShape
  <2>5. BindingsHold
    BY <2>2, <2>3 DEF BindingsHold
  <2>6. \A s \in Syncs : SyncHolds(syncer[s])
    BY <2>3, IdleSyncHolds
  <2> QED BY <2>4, <2>5, <2>6 DEF GraphInv
<1>2. ASSUME GraphInv, [GraphNext]_graphVars PROVE GraphInv'
  <2>1. ASSUME NEW r \in Edited, EditTree(r) PROVE GraphInv'
    BY <1>2, <2>1, GraphAssumption, EditKeepsInv
  <2>2. ASSUME NEW s \in Syncs, SyncStep(s) PROVE GraphInv'
    <3>1. CASE StartSync(s)
      BY <1>2, <3>1, StartKeepsInv
    <3>2. CASE NextRepository(s)
      BY <1>2, <3>2, NextKeepsInv
    <3>3. CASE CrgReads(s) \/ ValidateGraph(s) \/ TakeFingerprint(s)
      BY <1>2, <3>3, SyncStaysKeepsInv
    <3>4. CASE CrgFails(s)
      BY <1>2, <3>4, CrgFailsKeepsInv
    <3>5. CASE WriteGraphManifest(s)
      BY <1>2, <3>5, ManifestKeepsInv
    <3>6. CASE EndSync(s) \/ SyncDies(s)
      BY <1>2, <3>6, EndKeepsInv
    <3>7. CASE \E whole \in BOOLEAN : CrgWrites(s, whole)
      BY <1>2, <3>7, CrgWritesKeepsInv
    <3> QED BY <2>2, <3>1, <3>2, <3>3, <3>4, <3>5, <3>6, <3>7 DEF SyncStep
  <2>3. CASE UNCHANGED graphVars
    BY <1>2, <2>3 DEF graphVars, GraphInv, GraphShape, BindingsHold, SyncHolds
  <2> QED BY <1>2, <2>1, <2>2, <2>3 DEF GraphNext, SyncStep
<1> QED BY <1>1, <1>2, PTL DEF GraphSpec

\* What a sync that ends has reported.
ReportsTruth(held) ==
  /\ held.ok \cup held.failed = held.rows /\ held.ok \cap held.failed = {}
  /\ held.quiet => /\ \A r \in held.ok : RepositoryReady(r)
                   /\ held.ok # {} => /\ AnyGraphReady(held.rows)
                                      /\ held.failed = {} => WorkspaceReady(held.rows)

LEMMA GraphIsSafe == GraphSpec => GraphSafety
<1>1. ASSUME GraphInv PROVE GraphTypeOK /\ ReadyGraphIsCurrent
  <2> USE <1>1 DEF GraphInv
  <2>1. ASSUME NEW s \in Syncs
        PROVE  /\ syncer[s].at \in SyncAts
               /\ Cardinality(syncer[s].repo) = (IF syncer[s].at \in {"idle", "next"} THEN 0 ELSE 1)
               /\ syncer[s].rows = ToSet(syncer[s].todo) \cup syncer[s].repo \cup syncer[s].ok \cup syncer[s].failed
    <3>1. RowsPartition(syncer[s]) /\ syncer[s] \in SyncRuns
      BY DEF SyncHolds, SyncFits, GraphShape
    <3>2. CASE syncer[s].at \in {"idle", "next"}
      BY <3>1, <3>2, FS_EmptySet DEF RowsPartition, SyncRuns
    <3>3. CASE syncer[s].at \notin {"idle", "next"}
      <4>1. PICK r \in Trees : syncer[s].repo = {r}
        BY <3>1, <3>3 DEF RowsPartition
      <4>2. Cardinality({r}) = 1
        BY FS_Singleton
      <4> QED BY <3>1, <3>3, <4>1, <4>2 DEF RowsPartition, SyncRuns
    <3> QED BY <3>2, <3>3
  <2>2. GraphTypeOK
    BY <2>1 DEF GraphTypeOK, GraphShape, BindingsHold, Graphs, Bindings, SyncAts
  <2>3. ReadyGraphIsCurrent
    BY DEF ReadyGraphIsCurrent, BindingsHold, RepositoryReady, GraphFresh, ValidGraph
  <2> QED BY <2>2, <2>3
<1>2. ASSUME GraphInv, NEW s \in Syncs, syncer[s].at = "next", syncer[s].todo = <<>>
      PROVE  ReportsTruth(syncer[s])
  <2> DEFINE held == syncer[s]
  <2>1. /\ RowsPartition(held) /\ held \in SyncRuns /\ held.at = "next" /\ held.todo = <<>>
        /\ held.quiet => \A r \in held.ok : Ready(tree[r], graph[r], binding[r])
    BY <1>2 DEF GraphInv, GraphShape, SyncHolds, SyncFits
  <2> HIDE DEF held
  <2>2. ToSet(<<>>) = {}
    BY DEF ToSet
  <2>3. held.rows = held.ok \cup held.failed /\ held.ok \cap held.failed = {}
    BY <2>1, <2>2 DEF RowsPartition
  <2>4. ReportsTruth(held)
    BY <2>1, <2>3 DEF ReportsTruth, Ready, RepositoryReady, ValidGraph, GraphFresh, AnyGraphReady, WorkspaceReady
  <2> QED BY <2>4 DEF held
<1>3. GraphInv /\ [GraphNext]_graphVars =>
        [\A s \in Syncs :
           LET held == syncer[s] IN
           held.at = "next" /\ held.todo = <<>> /\ syncer'[s].at = "idle" =>
             /\ held.ok \cup held.failed = held.rows /\ held.ok \cap held.failed = {}
             /\ held.quiet => /\ \A r \in held.ok : RepositoryReady(r)
                              /\ held.ok # {} => /\ AnyGraphReady(held.rows)
                                                 /\ held.failed = {} => WorkspaceReady(held.rows)]_graphVars
  BY <1>2 DEF ReportsTruth
<1> QED BY <1>1, <1>3, GraphInvHolds, PTL DEF GraphSpec, GraphSafety, SyncReportsTruth

-----------------------------------------------------------------------------
(* ScipIndex *)

SyncPlaces == {"start", "run", "indexing", "publish", "print", "json", "bind", "hashIndex", "hashJson",
               "manifest", "done"}
OpenNames == {"none", "tmp", "central", "nameless"}
ScipRuns == [at : SyncPlaces, writes : OpenNames, saw : 0..MaxSource, printed : Files, index : Files,
             json : Files, bound : 0..MaxSource, sound : BOOLEAN]
ScipBindings == [index : Files, json : Files, source : 0..MaxSource, sound : BOOLEAN, there : BOOLEAN]
ScipCalls == [at : {"idle", "vetted", "answered"}, got : Files, tree : 0..MaxSource, sound : BOOLEAN,
              disturbed : BOOLEAN]

\* The complete index of one content of the tree.
WholeOf(f, content) == f.there /\ f.whole /\ f.from = content

ScipShape ==
  /\ source \in 0..MaxSource /\ changes \in 0..MaxChanges
  /\ scipTmp \in Files /\ scipIndex \in Files /\ scipJson \in Files
  /\ scipBinding \in ScipBindings /\ reading \in ScipCalls
  /\ syncs \in [ScipSyncs -> ScipRuns]

\* Only a running indexer has a file open.
OpenFiles ==
  \A s \in ScipSyncs :
    /\ syncs[s].writes # "none" => syncs[s].at = "indexing"
    /\ syncs[s].writes = "tmp" => scipTmp.there

Flies(held) == held.at \notin {"start", "done"}

\* A sync that is still sound is the only one in flight.
SoundRunsAlone ==
  \A s, o \in ScipSyncs : s # o /\ Flies(syncs[s]) /\ syncs[s].sound => ~Flies(syncs[o])

\* What a sound sync has made of the content c so far.
Made(held, c, tmp, idx, js) ==
  Flies(held) /\ held.sound =>
    /\ held.at = "indexing" => held.writes = "tmp" /\ held.saw = c
    /\ held.at = "publish" => WholeOf(tmp, c)
    /\ held.at = "print" => WholeOf(idx, c)
    /\ held.at = "json" => WholeOf(held.printed, c)
    /\ held.at = "bind" => WholeOf(js, c)
    /\ held.at \in {"hashIndex", "hashJson", "manifest"} => WholeOf(js, held.bound)
    /\ held.at = "manifest" => WholeOf(held.json, held.bound)

SoundSyncsMade ==
  \A s \in ScipSyncs : Made(syncs[s], source, scipTmp, scipIndex, scipJson)

ManifestIsWhole == scipBinding.there /\ scipBinding.sound => WholeOf(scipBinding.json, scipBinding.source)

ReadingHolds ==
  /\ reading.at = "idle" => ~reading.got.there
  /\ reading.sound /\ ~reading.disturbed =>
       /\ reading.at = "vetted" => WholeOf(scipJson, reading.tree)
       /\ reading.at = "answered" /\ reading.got.there => WholeOf(reading.got, reading.tree)

ScipInv ==
  ScipShape /\ OpenFiles /\ SoundRunsAlone /\ SoundSyncsMade /\ ManifestIsWhole /\ ReadingHolds

LEMMA BuiltIsFile ==
  /\ \A c \in 0..MaxSource : \A w \in BOOLEAN :
       /\ Built(c, w) \in Files /\ Built(c, w).there
       /\ Built(c, w).from = c /\ Built(c, w).whole = w
  /\ NoFile \in Files /\ ~NoFile.there
<1>1. ASSUME NEW c \in 0..MaxSource, NEW w \in BOOLEAN
      PROVE  Built(c, w) \in [from : 0..MaxSource, whole : BOOLEAN, there : {TRUE}]
  BY DEF Built
<1>2. \A c \in 0..MaxSource : \A w \in BOOLEAN : Built(c, w) \in Files
  BY <1>1 DEF Files
<1>3. NoFile \in Files
  BY DEF Files
<1> QED BY <1>2, <1>3 DEF Built, NoFile

LEMMA FollowKeeps ==
  ASSUME NEW states \in [ScipSyncs -> ScipRuns], NEW was \in OpenNames, NEW now \in OpenNames
  PROVE  /\ Follow(states, was, now) \in [ScipSyncs -> ScipRuns]
         /\ \A o \in ScipSyncs :
              /\ Follow(states, was, now)[o].at = states[o].at
              /\ Follow(states, was, now)[o].sound = states[o].sound
              /\ Follow(states, was, now)[o].writes = IF states[o].writes = was THEN now ELSE states[o].writes
<1>1. ASSUME NEW o \in ScipSyncs
      PROVE  /\ [states[o] EXCEPT !.writes = now] \in ScipRuns
             /\ [states[o] EXCEPT !.writes = now].at = states[o].at
             /\ [states[o] EXCEPT !.writes = now].sound = states[o].sound
             /\ [states[o] EXCEPT !.writes = now].writes = now
  BY DEF ScipRuns
<1> QED BY <1>1 DEF Follow

\* A step of the sync s, as far as the invariant is concerned.
LEMMA OneScipSyncSteps ==
  ASSUME ScipInv, NEW s \in ScipSyncs, syncs' \in [ScipSyncs -> ScipRuns],
         source' = source, changes' = changes, scipTmp' \in Files, scipIndex' \in Files, scipJson' \in Files,
         scipBinding' \in ScipBindings, ManifestIsWhole', reading' \in ScipCalls, ReadingHolds',
         \A o \in ScipSyncs \ {s} :
           /\ syncs'[o].at = syncs[o].at
           /\ syncs'[o].sound => syncs[o].sound /\ (Flies(syncs[s]) \/ ~Flies(syncs[o]))
           /\ syncs'[o].writes # "none" => syncs[o].writes # "none"
           /\ syncs'[o].writes = "tmp" => scipTmp'.there,
         syncs'[s].writes # "none" => syncs'[s].at = "indexing",
         syncs'[s].writes = "tmp" => scipTmp'.there,
         \/ Flies(syncs[s]) /\ (syncs'[s].sound => syncs[s].sound)
         \/ ~Flies(syncs'[s])
         \/ syncs'[s].sound => \A o \in ScipSyncs \ {s} : ~Flies(syncs[o]),
         Made(syncs'[s], source, scipTmp', scipIndex', scipJson')
  PROVE  ScipInv'
<1> USE DEF ScipInv
<1>1. ScipShape'
  BY DEF ScipShape
<1>2. OpenFiles'
  BY DEF OpenFiles
<1>3. ASSUME NEW o \in ScipSyncs \ {s} PROVE ~(Flies(syncs'[o]) /\ syncs'[o].sound)
  BY DEF SoundRunsAlone, Flies
<1>4. SoundRunsAlone'
  <2> SUFFICES ASSUME NEW a \in ScipSyncs, NEW o \in ScipSyncs, a # o, Flies(syncs'[a]), syncs'[a].sound
               PROVE  ~Flies(syncs'[o])
    BY DEF SoundRunsAlone
  <2>1. a = s
    BY <1>3
  <2> QED BY <2>1 DEF SoundRunsAlone, Flies
<1>5. SoundSyncsMade'
  BY <1>3 DEF SoundSyncsMade, Made
<1> QED BY <1>1, <1>2, <1>4, <1>5

LEMMA PrepareKeepsInv ==
  ASSUME ScipInv, NEW s \in ScipSyncs, PrepareOutput(s) PROVE ScipInv'
<1> DEFINE next == Follow(syncs, "tmp", "nameless")
           alone == \A o \in ScipSyncs \ {s}: ~InFlight(o)
<1>0. /\ syncs' = [o \in ScipSyncs |->
             IF o = s THEN [next[o] EXCEPT !.at = "run", !.sound = alone]
             ELSE IF InFlight(o) THEN [next[o] EXCEPT !.sound = FALSE] ELSE next[o]]
      /\ scipTmp' = NoFile /\ syncs[s].at = "start"
      /\ UNCHANGED <<source, changes, scipIndex, scipJson, scipBinding, reading>>
  BY DEF PrepareOutput
<1>1. syncs \in [ScipSyncs -> ScipRuns] /\ "tmp" \in OpenNames /\ "nameless" \in OpenNames
  BY DEF ScipInv, ScipShape, OpenNames
<1>2. /\ next \in [ScipSyncs -> ScipRuns]
      /\ \A o \in ScipSyncs :
           /\ next[o].at = syncs[o].at /\ next[o].sound = syncs[o].sound
           /\ next[o].writes = IF syncs[o].writes = "tmp" THEN "nameless" ELSE syncs[o].writes
  BY <1>1, FollowKeeps
<1>3. alone \in BOOLEAN /\ FALSE \in BOOLEAN
  BY Zenon
<1>4. \A o \in ScipSyncs : InFlight(o) <=> Flies(syncs[o])
  BY DEF InFlight, Flies
<1>5. alone <=> \A o \in ScipSyncs \ {s} : ~Flies(syncs[o])
  BY <1>4
<1> HIDE DEF next, alone
<1>6. ASSUME NEW o \in ScipSyncs
      PROVE  /\ [next[o] EXCEPT !.at = "run", !.sound = alone] \in ScipRuns
             /\ [next[o] EXCEPT !.at = "run", !.sound = alone].at = "run"
             /\ [next[o] EXCEPT !.at = "run", !.sound = alone].sound = alone
             /\ [next[o] EXCEPT !.at = "run", !.sound = alone].writes = next[o].writes
             /\ [next[o] EXCEPT !.sound = FALSE] \in ScipRuns
             /\ [next[o] EXCEPT !.sound = FALSE].at = next[o].at
             /\ [next[o] EXCEPT !.sound = FALSE].sound = FALSE
             /\ [next[o] EXCEPT !.sound = FALSE].writes = next[o].writes
  BY <1>2, <1>3 DEF ScipRuns, SyncPlaces
<1>7. syncs' \in [ScipSyncs -> ScipRuns]
  BY <1>0, <1>2, <1>6
<1>8. /\ syncs'[s].at = "run" /\ syncs'[s].sound = alone /\ syncs'[s].writes = next[s].writes
      /\ \A o \in ScipSyncs \ {s} :
           /\ syncs'[o].at = syncs[o].at /\ syncs'[o].writes = next[o].writes
           /\ syncs'[o].sound => syncs[o].sound /\ ~Flies(syncs[o])
  BY <1>0, <1>2, <1>4, <1>6
<1>9. \A o \in ScipSyncs : syncs'[o].writes # "tmp" /\ (syncs'[o].writes # "none" => syncs[o].writes # "none")
  BY <1>2, <1>8
<1>10. syncs[s].writes = "none"
  BY <1>0 DEF ScipInv, OpenFiles
<1>11. Made(syncs'[s], source, scipTmp', scipIndex', scipJson')
  BY <1>8 DEF Made
<1>12. /\ ManifestIsWhole' /\ ReadingHolds' /\ scipTmp' \in Files /\ scipIndex' \in Files /\ scipJson' \in Files
       /\ scipBinding' \in ScipBindings /\ reading' \in ScipCalls
  BY <1>0, BuiltIsFile DEF ScipInv, ScipShape, ManifestIsWhole, ReadingHolds
<1>13. \A o \in ScipSyncs \ {s} :
         /\ syncs'[o].at = syncs[o].at
         /\ syncs'[o].sound => syncs[o].sound /\ (Flies(syncs[s]) \/ ~Flies(syncs[o]))
         /\ syncs'[o].writes # "none" => syncs[o].writes # "none"
         /\ syncs'[o].writes = "tmp" => scipTmp'.there
  BY <1>8, <1>9
<1>14. /\ syncs'[s].writes # "none" => syncs'[s].at = "indexing"
       /\ syncs'[s].writes = "tmp" => scipTmp'.there
  BY <1>9, <1>10
<1>15. syncs'[s].sound => \A o \in ScipSyncs \ {s} : ~Flies(syncs[o])
  BY <1>5, <1>8
<1> QED BY <1>0, <1>7, <1>11, <1>12, <1>13, <1>14, <1>15, OneScipSyncSteps

\* The steps that move only the sync itself.
LEMMA OneScipSyncMoves ==
  ASSUME ScipInv, NEW s \in ScipSyncs, NEW held \in ScipRuns, syncs' = [syncs EXCEPT ![s] = held],
         source' = source, changes' = changes, scipTmp' \in Files, scipIndex' \in Files, scipJson' \in Files,
         scipTmp.there => scipTmp'.there,
         scipBinding' \in ScipBindings, ManifestIsWhole', reading' \in ScipCalls, ReadingHolds',
         held.writes # "none" => held.at = "indexing",
         held.writes = "tmp" => scipTmp'.there,
         Flies(syncs[s]), held.sound => syncs[s].sound,
         Made(held, source, scipTmp', scipIndex', scipJson')
  PROVE  ScipInv'
<1>1. /\ syncs' \in [ScipSyncs -> ScipRuns] /\ syncs'[s] = held
      /\ \A o \in ScipSyncs \ {s} : syncs'[o] = syncs[o]
  BY DEF ScipInv, ScipShape
<1>2. \A o \in ScipSyncs \ {s} : syncs'[o].writes = "tmp" => scipTmp'.there
  BY <1>1 DEF ScipInv, OpenFiles
<1> QED BY <1>1, <1>2, OneScipSyncSteps

LEMMA StartIndexerKeepsInv ==
  ASSUME ScipInv, NEW s \in ScipSyncs, StartIndexer(s) PROVE ScipInv'
<1> DEFINE was == syncs[s]
           held == [was EXCEPT !.at = "indexing", !.writes = "tmp", !.saw = source]
<1>1. /\ was \in ScipRuns /\ was.at = "run" /\ source \in 0..MaxSource /\ scipTmp' = Built(source, FALSE)
      /\ syncs \in [ScipSyncs -> ScipRuns]
  BY DEF StartIndexer, ScipInv, ScipShape
<1>2. syncs' = [syncs EXCEPT ![s] = held]
  BY <1>1 DEF StartIndexer
<1> HIDE DEF was
<1>3. /\ held \in ScipRuns /\ held.at = "indexing" /\ held.writes = "tmp" /\ held.saw = source
      /\ held.sound = was.sound
  BY <1>1 DEF ScipRuns, SyncPlaces, OpenNames
<1> HIDE DEF held
<1>4. FALSE \in BOOLEAN
  BY Zenon
<1>5. scipTmp' \in Files /\ scipTmp'.there
  BY <1>1, <1>4, BuiltIsFile
<1>6. Made(held, source, scipTmp', scipIndex', scipJson') /\ Flies(was)
  BY <1>1, <1>3 DEF Made, Flies
<1>7. /\ ManifestIsWhole' /\ ReadingHolds' /\ scipIndex' \in Files /\ scipJson' \in Files
      /\ scipBinding' \in ScipBindings /\ reading' \in ScipCalls /\ source' = source /\ changes' = changes
  BY DEF StartIndexer, ScipInv, ScipShape, ManifestIsWhole, ReadingHolds
<1> QED BY <1>2, <1>3, <1>5, <1>6, <1>7, OneScipSyncMoves DEF was

LEMMA IndexerEndsKeepsInv ==
  ASSUME ScipInv, NEW s \in ScipSyncs, IndexerEnds(s) PROVE ScipInv'
<1> DEFINE was == syncs[s]
           held == [was EXCEPT !.at = "publish", !.writes = "none"]
           shared == \E o \in ScipSyncs \ {s}: syncs[o].writes = syncs[s].writes
           whole == ~shared
           made == Built(was.saw, whole)
<1>1. /\ was \in ScipRuns /\ was.at = "indexing" /\ source \in 0..MaxSource
      /\ syncs \in [ScipSyncs -> ScipRuns]
      /\ scipTmp' = (IF was.writes = "tmp" THEN made ELSE scipTmp)
      /\ scipIndex' = (IF was.writes = "central" THEN made ELSE scipIndex)
  BY DEF IndexerEnds, ScipInv, ScipShape
<1>2. syncs' = [syncs EXCEPT ![s] = held]
  BY <1>1 DEF IndexerEnds
<1>3. Made(was, source, scipTmp, scipIndex, scipJson)
  BY DEF ScipInv, SoundSyncsMade
<1>4. was.sound => whole
  <2> SUFFICES ASSUME was.sound, NEW o \in ScipSyncs \ {s}, syncs[o].writes = was.writes PROVE FALSE
    OBVIOUS
  <2>1. was.writes = "tmp" /\ Flies(was)
    BY <1>1, <1>3 DEF Made, Flies
  <2>2. ~Flies(syncs[o])
    BY <2>1 DEF ScipInv, SoundRunsAlone
  <2> QED BY <2>1, <2>2 DEF ScipInv, OpenFiles, Flies
<1>5. whole \in BOOLEAN
  BY Zenon
<1> HIDE DEF was, whole
<1>6. /\ held \in ScipRuns /\ held.at = "publish" /\ held.writes = "none" /\ held.sound = was.sound
  BY <1>1 DEF ScipRuns, SyncPlaces, OpenNames
<1> HIDE DEF held
<1>7. made \in Files /\ made.there /\ made.from = was.saw /\ made.whole = whole
  BY <1>1, <1>5, BuiltIsFile DEF ScipRuns
<1> HIDE DEF made
<1>8. Made(held, source, scipTmp', scipIndex', scipJson') /\ Flies(was)
  BY <1>1, <1>3, <1>4, <1>6, <1>7 DEF Made, Flies, WholeOf
<1>9. scipTmp' \in Files /\ scipIndex' \in Files /\ (scipTmp.there => scipTmp'.there)
  BY <1>1, <1>7 DEF ScipInv, ScipShape
<1>10. /\ ManifestIsWhole' /\ ReadingHolds' /\ scipJson' \in Files
       /\ scipBinding' \in ScipBindings /\ reading' \in ScipCalls /\ source' = source /\ changes' = changes
  BY DEF IndexerEnds, ScipInv, ScipShape, ManifestIsWhole, ReadingHolds
<1> QED BY <1>2, <1>6, <1>8, <1>9, <1>10, OneScipSyncMoves DEF was

LEMMA IndexerFailsKeepsInv ==
  ASSUME ScipInv, NEW s \in ScipSyncs, IndexerFails(s) PROVE ScipInv'
<1> DEFINE others == IF scipTmp'.there THEN syncs ELSE Follow(syncs, "tmp", "nameless")
           held == [others[s] EXCEPT !.at = "done", !.writes = "none"]
<1>1. /\ syncs \in [ScipSyncs -> ScipRuns] /\ "tmp" \in OpenNames /\ "nameless" \in OpenNames
      /\ syncs[s].at = "indexing"
      /\ scipTmp' = scipTmp \/ scipTmp' = NoFile
      /\ syncs' = [others EXCEPT ![s].at = "done", ![s].writes = "none"]
  BY DEF IndexerFails, ScipInv, ScipShape, OpenNames
<1>2. /\ others \in [ScipSyncs -> ScipRuns]
      /\ \A o \in ScipSyncs :
           /\ others[o].at = syncs[o].at /\ others[o].sound = syncs[o].sound
           /\ others[o].writes # "none" => syncs[o].writes # "none"
           /\ others[o].writes = "tmp" => scipTmp'.there
  <2>1. CASE scipTmp'.there
    BY <1>1, <2>1 DEF ScipInv, OpenFiles
  <2>2. CASE ~scipTmp'.there
    <3> DEFINE next == Follow(syncs, "tmp", "nameless")
    <3>1. /\ next \in [ScipSyncs -> ScipRuns]
          /\ \A o \in ScipSyncs :
               /\ next[o].at = syncs[o].at /\ next[o].sound = syncs[o].sound
               /\ next[o].writes = IF syncs[o].writes = "tmp" THEN "nameless" ELSE syncs[o].writes
      BY <1>1, FollowKeeps
    <3>2. others = next
      BY <2>2
    <3> HIDE DEF next, others
    <3> QED BY <3>1, <3>2
  <2> QED BY <2>1, <2>2
<1>3. syncs' = [others EXCEPT ![s] = held]
  BY <1>1, <1>2
<1> HIDE DEF others
<1>4. held \in ScipRuns /\ held.at = "done" /\ held.writes = "none"
  BY <1>2 DEF ScipRuns, SyncPlaces, OpenNames
<1> HIDE DEF held
<1>5. /\ syncs' \in [ScipSyncs -> ScipRuns] /\ syncs'[s] = held
      /\ \A o \in ScipSyncs \ {s} : syncs'[o] = others[o]
  BY <1>2, <1>3, <1>4
<1>6. Made(held, source, scipTmp', scipIndex', scipJson') /\ ~Flies(held) /\ Flies(syncs[s])
  BY <1>1, <1>4 DEF Made, Flies
<1>7. /\ ManifestIsWhole' /\ ReadingHolds' /\ scipTmp' \in Files /\ scipIndex' \in Files /\ scipJson' \in Files
      /\ scipBinding' \in ScipBindings /\ reading' \in ScipCalls /\ source' = source /\ changes' = changes
  BY <1>1, BuiltIsFile DEF IndexerFails, ScipInv, ScipShape, ManifestIsWhole, ReadingHolds
<1> QED BY <1>2, <1>4, <1>5, <1>6, <1>7, OneScipSyncSteps

LEMMA PublishKeepsInv ==
  ASSUME ScipInv, NEW s \in ScipSyncs, PublishIndex(s) PROVE ScipInv'
<1>0. /\ syncs \in [ScipSyncs -> ScipRuns] /\ syncs[s].at = "publish" /\ syncs[s].writes = "none"
      /\ syncs[s] \in ScipRuns /\ Made(syncs[s], source, scipTmp, scipIndex, scipJson) /\ Flies(syncs[s])
  BY DEF PublishIndex, ScipInv, ScipShape, OpenFiles, SoundSyncsMade, Flies
<1>1. /\ ManifestIsWhole' /\ ReadingHolds' /\ scipTmp' \in Files /\ scipIndex' \in Files /\ scipJson' \in Files
      /\ scipBinding' \in ScipBindings /\ reading' \in ScipCalls /\ source' = source /\ changes' = changes
  BY BuiltIsFile DEF PublishIndex, ScipInv, ScipShape, ManifestIsWhole, ReadingHolds
<1>2. CASE ~scipTmp.there /\ Goes(s, "done") /\ UNCHANGED <<scipTmp, scipIndex>>
  <2> DEFINE held == [syncs[s] EXCEPT !.at = "done"]
  <2>1. syncs' = [syncs EXCEPT ![s] = held]
    BY <1>0, <1>2 DEF Goes
  <2>2. held \in ScipRuns /\ held.at = "done" /\ held.writes = "none" /\ held.sound = syncs[s].sound
    BY <1>0 DEF ScipRuns, SyncPlaces
  <2> HIDE DEF held
  <2>3. Made(held, source, scipTmp', scipIndex', scipJson')
    BY <2>2 DEF Made, Flies
  <2> QED BY <1>0, <1>1, <1>2, <2>1, <2>2, <2>3, OneScipSyncMoves
<1>3. CASE /\ scipTmp.there /\ scipIndex' = scipTmp /\ scipTmp' = NoFile
           /\ syncs' = [Follow(Follow(syncs, "central", "nameless"), "tmp", "central") EXCEPT ![s].at = "print"]
  <2> DEFINE next == Follow(syncs, "central", "nameless")
             last == Follow(next, "tmp", "central")
             held == [last[s] EXCEPT !.at = "print"]
  <2>1. "tmp" \in OpenNames /\ "nameless" \in OpenNames /\ "central" \in OpenNames
    BY DEF OpenNames
  <2>2. /\ next \in [ScipSyncs -> ScipRuns]
        /\ \A o \in ScipSyncs : /\ next[o].at = syncs[o].at /\ next[o].sound = syncs[o].sound
                                /\ next[o].writes # "none" => syncs[o].writes # "none"
    BY <1>0, <2>1, FollowKeeps
  <2> HIDE DEF next
  <2>2a. /\ last \in [ScipSyncs -> ScipRuns]
        /\ \A o \in ScipSyncs :
             /\ last[o].at = next[o].at /\ last[o].sound = next[o].sound
             /\ last[o].writes = IF next[o].writes = "tmp" THEN "central" ELSE next[o].writes
    BY <2>1, <2>2, FollowKeeps
  <2> HIDE DEF last
  <2>3. \A o \in ScipSyncs : /\ last[o].at = syncs[o].at /\ last[o].sound = syncs[o].sound
                             /\ last[o].writes # "none" => syncs[o].writes # "none"
                             /\ last[o].writes # "tmp"
    BY <2>2, <2>2a
  <2>4. syncs' = [last EXCEPT ![s].at = "print"]
    BY <1>3 DEF next, last
  <2>5. syncs' = [last EXCEPT ![s] = held]
    BY <2>2a, <2>4
  <2>6. /\ held \in ScipRuns /\ held.at = "print" /\ held.writes = last[s].writes
        /\ held.sound = syncs[s].sound
    BY <2>3, <2>2a DEF ScipRuns, SyncPlaces
  <2> HIDE DEF held
  <2>7. /\ syncs' \in [ScipSyncs -> ScipRuns] /\ syncs'[s] = held
        /\ \A o \in ScipSyncs \ {s} : syncs'[o] = last[o]
    BY <2>2a, <2>5, <2>6
  <2>8. held.writes = "none"
    BY <1>0, <2>3, <2>6
  <2>9. Made(held, source, scipTmp', scipIndex', scipJson')
    BY <1>0, <1>3, <2>6 DEF Made, Flies
  <2> QED BY <1>0, <1>1, <2>3, <2>6, <2>7, <2>8, <2>9, OneScipSyncSteps
<1> QED BY <1>2, <1>3 DEF PublishIndex

LEMMA PrintKeepsInv ==
  ASSUME ScipInv, NEW s \in ScipSyncs, PrintIndex(s) PROVE ScipInv'
<1> DEFINE was == syncs[s]
           gone == [was EXCEPT !.at = "done"]
           held == [was EXCEPT !.at = "json", !.printed = scipIndex]
<1>1. /\ was \in ScipRuns /\ was.at = "print" /\ was.writes = "none"
      /\ syncs \in [ScipSyncs -> ScipRuns] /\ scipIndex \in Files
      /\ Made(was, source, scipTmp, scipIndex, scipJson) /\ Flies(was)
  BY DEF PrintIndex, ScipInv, ScipShape, OpenFiles, SoundSyncsMade, Flies
<1>2. syncs' = [syncs EXCEPT ![s] = gone] \/ syncs' = [syncs EXCEPT ![s] = held]
  BY <1>1 DEF PrintIndex, Goes
<1>3. UNCHANGED <<source, changes, scipTmp, scipIndex, scipJson, scipBinding, reading>>
  BY DEF PrintIndex
<1> HIDE DEF was
<1>4. /\ held \in ScipRuns /\ held.at = "json" /\ held.writes = "none" /\ held.sound = was.sound
      /\ held.printed = scipIndex
      /\ gone \in ScipRuns /\ gone.at = "done" /\ gone.writes = "none" /\ gone.sound = was.sound
  BY <1>1 DEF ScipRuns, SyncPlaces
<1> HIDE DEF held, gone
<1>5. /\ Made(held, source, scipTmp', scipIndex', scipJson')
      /\ Made(gone, source, scipTmp', scipIndex', scipJson')
  BY <1>1, <1>3, <1>4 DEF Made, Flies
<1>6. /\ ManifestIsWhole' /\ ReadingHolds' /\ scipTmp' \in Files /\ scipIndex' \in Files /\ scipJson' \in Files
      /\ scipBinding' \in ScipBindings /\ reading' \in ScipCalls
  BY <1>3 DEF ScipInv, ScipShape, ManifestIsWhole, ReadingHolds
<1> QED BY <1>1, <1>2, <1>3, <1>4, <1>5, <1>6, OneScipSyncMoves DEF was

LEMMA FingerprintKeepsInv ==
  ASSUME ScipInv, NEW s \in ScipSyncs, FingerprintSource(s) PROVE ScipInv'
<1> DEFINE was == syncs[s]
           held == [was EXCEPT !.at = "hashIndex", !.bound = source]
<1>1. /\ was \in ScipRuns /\ was.at = "bind" /\ was.writes = "none"
      /\ syncs \in [ScipSyncs -> ScipRuns] /\ source \in 0..MaxSource
      /\ scipIndex \in Files /\ scipJson \in Files
      /\ Made(was, source, scipTmp, scipIndex, scipJson) /\ Flies(was)
  BY DEF FingerprintSource, ScipInv, ScipShape, OpenFiles, SoundSyncsMade, Flies
<1>2. syncs' = [syncs EXCEPT ![s] = held] /\ scipJson' = scipJson /\ scipBinding' = scipBinding /\ reading' = reading
  BY <1>1 DEF FingerprintSource, Goes
<1>3. /\ source' = source /\ changes' = changes /\ scipTmp' = scipTmp /\ scipIndex' = scipIndex
  BY DEF FingerprintSource
<1> HIDE DEF was
<1>4. /\ held \in ScipRuns /\ held.at = "hashIndex" /\ held.writes = "none" /\ held.sound = was.sound
      /\ held.bound = source
  BY <1>1 DEF ScipRuns, SyncPlaces
<1> HIDE DEF held
<1>5. Made(held, source, scipTmp', scipIndex', scipJson')
  BY <1>1, <1>2, <1>3, <1>4 DEF Made, Flies
<1>6. /\ ManifestIsWhole' /\ ReadingHolds' /\ scipTmp' \in Files /\ scipIndex' \in Files /\ scipJson' \in Files
      /\ scipBinding' \in ScipBindings /\ reading' \in ScipCalls
  BY <1>2, <1>3 DEF ScipInv, ScipShape, ManifestIsWhole, ReadingHolds
<1> QED BY <1>1, <1>2, <1>3, <1>4, <1>5, <1>6, OneScipSyncMoves DEF was

LEMMA HashIndexKeepsInv ==
  ASSUME ScipInv, NEW s \in ScipSyncs, HashScipIndex(s) PROVE ScipInv'
<1> DEFINE was == syncs[s]
           held == [was EXCEPT !.at = "hashJson", !.index = scipIndex]
<1>1. /\ was \in ScipRuns /\ was.at = "hashIndex" /\ was.writes = "none"
      /\ syncs \in [ScipSyncs -> ScipRuns] /\ source \in 0..MaxSource
      /\ scipIndex \in Files /\ scipJson \in Files
      /\ Made(was, source, scipTmp, scipIndex, scipJson) /\ Flies(was)
  BY DEF HashScipIndex, ScipInv, ScipShape, OpenFiles, SoundSyncsMade, Flies
<1>2. syncs' = [syncs EXCEPT ![s] = held] /\ scipJson' = scipJson /\ scipBinding' = scipBinding /\ reading' = reading
  BY <1>1 DEF HashScipIndex, Goes
<1>3. /\ source' = source /\ changes' = changes /\ scipTmp' = scipTmp /\ scipIndex' = scipIndex
  BY DEF HashScipIndex
<1> HIDE DEF was
<1>4. /\ held \in ScipRuns /\ held.at = "hashJson" /\ held.writes = "none" /\ held.sound = was.sound
      /\ held.bound = was.bound
  BY <1>1 DEF ScipRuns, SyncPlaces
<1> HIDE DEF held
<1>5. Made(held, source, scipTmp', scipIndex', scipJson')
  BY <1>1, <1>2, <1>3, <1>4 DEF Made, Flies
<1>6. /\ ManifestIsWhole' /\ ReadingHolds' /\ scipTmp' \in Files /\ scipIndex' \in Files /\ scipJson' \in Files
      /\ scipBinding' \in ScipBindings /\ reading' \in ScipCalls
  BY <1>2, <1>3 DEF ScipInv, ScipShape, ManifestIsWhole, ReadingHolds
<1> QED BY <1>1, <1>2, <1>3, <1>4, <1>5, <1>6, OneScipSyncMoves DEF was

LEMMA HashJsonKeepsInv ==
  ASSUME ScipInv, NEW s \in ScipSyncs, HashScipJson(s) PROVE ScipInv'
<1> DEFINE was == syncs[s]
           held == [was EXCEPT !.at = "manifest", !.json = scipJson]
<1>1. /\ was \in ScipRuns /\ was.at = "hashJson" /\ was.writes = "none"
      /\ syncs \in [ScipSyncs -> ScipRuns] /\ source \in 0..MaxSource
      /\ scipIndex \in Files /\ scipJson \in Files
      /\ Made(was, source, scipTmp, scipIndex, scipJson) /\ Flies(was)
  BY DEF HashScipJson, ScipInv, ScipShape, OpenFiles, SoundSyncsMade, Flies
<1>2. syncs' = [syncs EXCEPT ![s] = held] /\ scipJson' = scipJson /\ scipBinding' = scipBinding /\ reading' = reading
  BY <1>1 DEF HashScipJson, Goes
<1>3. /\ source' = source /\ changes' = changes /\ scipTmp' = scipTmp /\ scipIndex' = scipIndex
  BY DEF HashScipJson
<1> HIDE DEF was
<1>4. /\ held \in ScipRuns /\ held.at = "manifest" /\ held.writes = "none" /\ held.sound = was.sound
      /\ held.bound = was.bound /\ held.json = scipJson
  BY <1>1 DEF ScipRuns, SyncPlaces
<1> HIDE DEF held
<1>5. Made(held, source, scipTmp', scipIndex', scipJson')
  BY <1>1, <1>2, <1>3, <1>4 DEF Made, Flies
<1>6. /\ ManifestIsWhole' /\ ReadingHolds' /\ scipTmp' \in Files /\ scipIndex' \in Files /\ scipJson' \in Files
      /\ scipBinding' \in ScipBindings /\ reading' \in ScipCalls
  BY <1>2, <1>3 DEF ScipInv, ScipShape, ManifestIsWhole, ReadingHolds
<1> QED BY <1>1, <1>2, <1>3, <1>4, <1>5, <1>6, OneScipSyncMoves DEF was

LEMMA WriteJsonKeepsInv ==
  ASSUME ScipInv, NEW s \in ScipSyncs, WriteScipJson(s) PROVE ScipInv'
<1> DEFINE was == syncs[s]
           held == [was EXCEPT !.at = "bind"]
<1>1. /\ was \in ScipRuns /\ was.at = "json" /\ was.writes = "none"
      /\ syncs \in [ScipSyncs -> ScipRuns] /\ source \in 0..MaxSource
      /\ scipIndex \in Files /\ scipJson \in Files
      /\ Made(was, source, scipTmp, scipIndex, scipJson) /\ Flies(was)
  BY DEF WriteScipJson, ScipInv, ScipShape, OpenFiles, SoundSyncsMade, Flies
<1>2. syncs' = [syncs EXCEPT ![s] = held] /\ scipJson' = was.printed /\ scipBinding' = scipBinding
      /\ reading' = [reading EXCEPT !.disturbed = TRUE]
  BY <1>1 DEF WriteScipJson, Goes
<1>3. /\ source' = source /\ changes' = changes /\ scipTmp' = scipTmp /\ scipIndex' = scipIndex
  BY DEF WriteScipJson
<1> HIDE DEF was
<1>4. /\ held \in ScipRuns /\ held.at = "bind" /\ held.writes = "none" /\ held.sound = was.sound
      /\ held.sound = was.sound
  BY <1>1 DEF ScipRuns, SyncPlaces
<1> HIDE DEF held
<1>5. Made(held, source, scipTmp', scipIndex', scipJson')
  BY <1>1, <1>2, <1>3, <1>4 DEF Made, Flies
<1>6. TRUE \in BOOLEAN
  BY Zenon
<1>7. /\ reading' \in ScipCalls /\ reading'.disturbed /\ reading'.at = reading.at /\ reading'.got = reading.got
  BY <1>2, <1>6 DEF ScipInv, ScipShape, ScipCalls
<1>8. ReadingHolds'
  BY <1>7 DEF ScipInv, ReadingHolds
<1>9. /\ ManifestIsWhole' /\ scipTmp' \in Files /\ scipIndex' \in Files /\ scipJson' \in Files
      /\ scipBinding' \in ScipBindings
  BY <1>1, <1>2, <1>3 DEF ScipInv, ScipShape, ManifestIsWhole, ScipRuns
<1> QED BY <1>1, <1>2, <1>3, <1>4, <1>5, <1>7, <1>8, <1>9, OneScipSyncMoves DEF was

LEMMA WriteManifestKeepsInv ==
  ASSUME ScipInv, NEW s \in ScipSyncs, WriteScipManifest(s) PROVE ScipInv'
<1> DEFINE was == syncs[s]
           held == [was EXCEPT !.at = "done"]
<1>1. /\ was \in ScipRuns /\ was.at = "manifest" /\ was.writes = "none"
      /\ syncs \in [ScipSyncs -> ScipRuns] /\ source \in 0..MaxSource
      /\ scipIndex \in Files /\ scipJson \in Files
      /\ Made(was, source, scipTmp, scipIndex, scipJson) /\ Flies(was)
  BY DEF WriteScipManifest, ScipInv, ScipShape, OpenFiles, SoundSyncsMade, Flies
<1>2. syncs' = [syncs EXCEPT ![s] = held] /\ scipJson' = scipJson /\ reading' = reading
      /\ scipBinding' = [index |-> was.index, json |-> was.json, source |-> was.bound,
                         sound |-> was.sound, there |-> TRUE]
  BY <1>1 DEF WriteScipManifest, Goes
<1>3. /\ source' = source /\ changes' = changes /\ scipTmp' = scipTmp /\ scipIndex' = scipIndex
  BY DEF WriteScipManifest
<1> HIDE DEF was
<1>4. /\ held \in ScipRuns /\ held.at = "done" /\ held.writes = "none" /\ held.sound = was.sound
      /\ held.bound = was.bound
  BY <1>1 DEF ScipRuns, SyncPlaces
<1> HIDE DEF held
<1>5. Made(held, source, scipTmp', scipIndex', scipJson')
  BY <1>1, <1>2, <1>3, <1>4 DEF Made, Flies
<1>6. TRUE \in BOOLEAN
  BY Zenon
<1>7. /\ scipBinding' \in ScipBindings /\ scipBinding'.sound = was.sound /\ scipBinding'.json = was.json
      /\ scipBinding'.source = was.bound
  BY <1>1, <1>2, <1>6 DEF ScipRuns, ScipBindings
<1>8. ManifestIsWhole'
  BY <1>1, <1>7 DEF ManifestIsWhole, Made, Flies
<1>9. /\ ReadingHolds' /\ scipTmp' \in Files /\ scipIndex' \in Files /\ scipJson' \in Files
      /\ reading' \in ScipCalls
  BY <1>2, <1>3 DEF ScipInv, ScipShape, ReadingHolds
<1> QED BY <1>1, <1>2, <1>3, <1>4, <1>5, <1>7, <1>8, <1>9, OneScipSyncMoves DEF was

LEMMA ReaderAndEditorKeepInv ==
  ASSUME ScipInv, AskStatus \/ ReadPayload \/ NextCall \/ ChangeSource PROVE ScipInv'
<1> USE DEF ScipInv
<1>1. /\ reading \in ScipCalls /\ scipBinding \in ScipBindings /\ scipJson \in Files /\ source \in 0..MaxSource
      /\ syncs \in [ScipSyncs -> ScipRuns] /\ changes \in 0..MaxChanges
  BY DEF ScipShape
<1>2. TRUE \in BOOLEAN /\ FALSE \in BOOLEAN
  BY Zenon
<1>3. CASE AskStatus \/ ReadPayload \/ NextCall
  <2>1. reading' \in ScipCalls /\ ReadingHolds'
    <3>1. CASE AskStatus /\ ScipReady
      <4>1. /\ reading' = [at |-> "vetted", got |-> NoFile, tree |-> source, sound |-> scipBinding.sound,
                           disturbed |-> FALSE]
            /\ scipJson' = scipJson
        BY <3>1 DEF AskStatus
      <4>2. scipBinding.sound => WholeOf(scipJson, source)
        BY <3>1 DEF ScipReady, HashesMatch, ManifestIsWhole
      <4>3. /\ reading' \in ScipCalls /\ reading'.at = "vetted" /\ reading'.tree = source
            /\ reading'.sound = scipBinding.sound
        BY <1>1, <1>2, <4>1, BuiltIsFile DEF ScipCalls, ScipBindings
      <4> QED BY <4>1, <4>2, <4>3 DEF ReadingHolds
    <3>2. CASE AskStatus /\ ~ScipReady
      <4>1. reading' = [reading EXCEPT !.at = "answered"] /\ reading.at = "idle"
        BY <3>2 DEF AskStatus
      <4>2. /\ reading' \in ScipCalls /\ reading'.at = "answered" /\ reading'.got = reading.got
        BY <1>1, <4>1 DEF ScipCalls
      <4> QED BY <4>1, <4>2 DEF ReadingHolds
    <3>3. CASE ReadPayload
      <4>1. reading' = [reading EXCEPT !.at = "answered", !.got = scipJson] /\ reading.at = "vetted"
        BY <3>3 DEF ReadPayload
      <4>2. /\ reading' \in ScipCalls /\ reading'.at = "answered" /\ reading'.got = scipJson
            /\ reading'.tree = reading.tree /\ reading'.sound = reading.sound
            /\ reading'.disturbed = reading.disturbed
        BY <1>1, <4>1 DEF ScipCalls
      <4> QED BY <4>1, <4>2 DEF ReadingHolds
    <3>4. CASE NextCall
      <4>1. reading' = NoCall /\ NoCall.at = "idle" /\ ~NoCall.got.there
        BY <3>4, BuiltIsFile DEF NextCall, NoCall
      <4>2. NoCall \in ScipCalls
        BY <1>1, <1>2, BuiltIsFile, ScipAssumption DEF NoCall, ScipCalls
      <4> QED BY <4>1, <4>2 DEF ReadingHolds
    <3> QED BY <1>3, <3>1, <3>2, <3>3, <3>4
  <2>2. UNCHANGED <<source, changes, scipTmp, scipIndex, scipJson, scipBinding, syncs>>
    BY <1>3 DEF AskStatus, ReadPayload, NextCall
  <2> QED BY <2>1, <2>2 DEF ScipShape, OpenFiles, SoundRunsAlone, SoundSyncsMade, ManifestIsWhole
<1>4. CASE ChangeSource
  <2>1. /\ source' \in 0..MaxSource /\ changes' \in 0..MaxChanges
        /\ UNCHANGED <<scipTmp, scipIndex, scipJson, scipBinding, reading>>
    BY <1>1, <1>4, ScipAssumption DEF ChangeSource
  <2>2. ASSUME NEW o \in ScipSyncs
        PROVE  /\ [syncs[o] EXCEPT !.sound = FALSE] \in ScipRuns
               /\ [syncs[o] EXCEPT !.sound = FALSE].at = syncs[o].at
               /\ [syncs[o] EXCEPT !.sound = FALSE].writes = syncs[o].writes
               /\ [syncs[o] EXCEPT !.sound = FALSE].sound = FALSE
    BY <1>1, <1>2 DEF ScipRuns
  <2>3. syncs' = [s \in ScipSyncs |->
           IF syncs[s].at \in {"indexing", "publish", "print", "json", "bind"}
             THEN [syncs[s] EXCEPT !.sound = FALSE] ELSE syncs[s]]
    BY <1>4 DEF ChangeSource
  <2>4. syncs' \in [ScipSyncs -> ScipRuns]
    BY <1>1, <2>2, <2>3
  <2>5. \A o \in ScipSyncs :
          /\ syncs'[o].at = syncs[o].at /\ syncs'[o].writes = syncs[o].writes
          /\ syncs'[o].sound => /\ syncs'[o] = syncs[o]
                                /\ syncs[o].at \notin {"indexing", "publish", "print", "json", "bind"}
    BY <2>2, <2>3
  <2>6. ScipShape'
    BY <2>1, <2>4 DEF ScipShape
  <2>7. OpenFiles' /\ SoundRunsAlone'
    BY <2>1, <2>5 DEF OpenFiles, SoundRunsAlone, Flies
  <2>8. SoundSyncsMade'
    <3> SUFFICES ASSUME NEW o \in ScipSyncs
                 PROVE  Made(syncs'[o], source', scipTmp', scipIndex', scipJson')
      BY DEF SoundSyncsMade
    <3>1. CASE ~syncs'[o].sound
      BY <3>1 DEF Made
    <3>2. CASE syncs'[o].sound
      BY <2>1, <2>5, <3>2 DEF SoundSyncsMade, Made, Flies
    <3> QED BY <3>1, <3>2
  <2> QED BY <2>1, <2>6, <2>7, <2>8 DEF ManifestIsWhole, ReadingHolds
<1> QED BY <1>3, <1>4

LEMMA ScipInvHolds == ScipSpec => []ScipInv
<1>1. ASSUME ScipInit PROVE ScipInv
  <2>1. TRUE \in BOOLEAN /\ FALSE \in BOOLEAN /\ 0 \in 0..MaxSource /\ 0 \in 0..MaxChanges
    <3>1. TRUE \in BOOLEAN /\ FALSE \in BOOLEAN
      BY Zenon
    <3> QED BY <3>1, ScipAssumption
  <2>2. /\ NoScipBinding \in ScipBindings /\ NoScipBinding.there = FALSE
        /\ NoCall \in ScipCalls /\ NoCall.at = "idle" /\ ~NoCall.got.there /\ NoCall.sound = FALSE
        /\ IdleScipSync \in ScipRuns /\ IdleScipSync.at = "start" /\ IdleScipSync.writes = "none"
    BY <2>1, BuiltIsFile
       DEF NoScipBinding, ScipBindings, NoCall, ScipCalls, IdleScipSync, ScipRuns, SyncPlaces, OpenNames
  <2>3. ScipShape
    BY <1>1, <2>1, <2>2, BuiltIsFile DEF ScipInit, ScipShape
  <2>4. OpenFiles /\ SoundRunsAlone /\ SoundSyncsMade
    BY <1>1, <2>2 DEF ScipInit, OpenFiles, SoundRunsAlone, SoundSyncsMade, Made, Flies
  <2>5. ManifestIsWhole /\ ReadingHolds
    BY <1>1, <2>2 DEF ScipInit, ManifestIsWhole, ReadingHolds
  <2> QED BY <2>3, <2>4, <2>5 DEF ScipInv
<1>2. ASSUME ScipInv, [ScipNext]_scipVars PROVE ScipInv'
  <2>1. CASE \E s \in ScipSyncs : SyncScipIndex(s)
    BY <1>2, <2>1, PrepareKeepsInv, StartIndexerKeepsInv, IndexerEndsKeepsInv, IndexerFailsKeepsInv,
       PublishKeepsInv, PrintKeepsInv, WriteJsonKeepsInv, FingerprintKeepsInv, HashIndexKeepsInv,
       HashJsonKeepsInv, WriteManifestKeepsInv DEF SyncScipIndex
  <2>2. CASE UNCHANGED scipVars
    BY <1>2, <2>2 DEF scipVars, ScipInv, ScipShape, OpenFiles, SoundRunsAlone, SoundSyncsMade,
                      ManifestIsWhole, ReadingHolds
  <2> QED BY <1>2, <2>1, <2>2, ReaderAndEditorKeepInv DEF ScipNext
<1> QED BY <1>1, <1>2, PTL DEF ScipSpec

\* Up to the rename a sync touches nothing the status looks at, and no other
\* step takes a sync out of those places.
LEMMA EarlyStepsKeepReady ==
  ASSUME ScipInv, [ScipNext]_scipVars, NEW s \in ScipSyncs,
         \/ syncs[s].at \in {"start", "run"} /\ syncs'[s].at # syncs[s].at
         \/ syncs[s].at = "indexing" /\ syncs'[s].at = "done",
         ScipReady
  PROVE  ScipReady'
<1>1. syncs \in [ScipSyncs -> ScipRuns]
  BY DEF ScipInv, ScipShape
<1>2. CASE \E o \in ScipSyncs : PrepareOutput(o) \/ StartIndexer(o) \/ IndexerFails(o)
  BY <1>2 DEF PrepareOutput, StartIndexer, IndexerFails, ScipReady, HashesMatch
<1>3. CASE UNCHANGED <<scipIndex, scipBinding, scipJson, source>>
  BY <1>3 DEF ScipReady, HashesMatch
<1>4. ASSUME NEW o \in ScipSyncs,
             IndexerEnds(o) \/ PublishIndex(o) \/ WriteScipJson(o) \/ WriteScipManifest(o)
      PROVE  FALSE
  <2>1. CASE o = s
    <3>1. CASE IndexerEnds(o)
      BY <1>1, <2>1, <3>1 DEF IndexerEnds
    <3>2. CASE PublishIndex(o) \/ WriteScipJson(o) \/ WriteScipManifest(o)
      BY <2>1, <3>2 DEF PublishIndex, WriteScipJson, WriteScipManifest
    <3> QED BY <1>4, <3>1, <3>2
  <2>2. CASE o # s
    <3>1. CASE IndexerEnds(o) \/ WriteScipJson(o) \/ WriteScipManifest(o)
      BY <1>1, <2>2, <3>1 DEF IndexerEnds, WriteScipJson, WriteScipManifest, Goes
    <3>2. CASE PublishIndex(o) /\ Goes(o, "done")
      BY <1>1, <2>2, <3>2 DEF Goes
    <3>3. CASE syncs' = [Follow(Follow(syncs, "central", "nameless"), "tmp", "central") EXCEPT ![o].at = "print"]
      <4> DEFINE next == Follow(syncs, "central", "nameless")
                 last == Follow(next, "tmp", "central")
      <4>1. "tmp" \in OpenNames /\ "nameless" \in OpenNames /\ "central" \in OpenNames
        BY DEF OpenNames
      <4>2. next \in [ScipSyncs -> ScipRuns] /\ next[s].at = syncs[s].at
        BY <1>1, <4>1, FollowKeeps
      <4>3. last \in [ScipSyncs -> ScipRuns] /\ last[s].at = next[s].at
        <5> HIDE DEF next
        <5> QED BY <4>1, <4>2, FollowKeeps
      <4> HIDE DEF last
      <4>4. syncs' = [last EXCEPT ![o].at = "print"]
        BY <3>3 DEF last
      <4>5. syncs'[s] = last[s]
        BY <2>2, <4>3, <4>4
      <4> QED BY <4>2, <4>3, <4>5
    <3> QED BY <1>4, <3>1, <3>2, <3>3 DEF PublishIndex
  <2> QED BY <2>1, <2>2
<1>5. CASE ChangeSource
  <2>1. syncs'[s].at = syncs[s].at
    BY <1>1, <1>5 DEF ChangeSource, ScipRuns
  <2> QED BY <2>1
<1>6. CASE AskStatus \/ ReadPayload \/ NextCall \/ UNCHANGED scipVars
  BY <1>3, <1>6 DEF AskStatus, ReadPayload, NextCall, scipVars
<1>7. CASE \E o \in ScipSyncs : PrintIndex(o) \/ FingerprintSource(o) \/ HashScipIndex(o) \/ HashScipJson(o)
  BY <1>3, <1>7 DEF PrintIndex, FingerprintSource, HashScipIndex, HashScipJson
<1> QED BY <1>2, <1>4, <1>5, <1>6, <1>7 DEF ScipNext, SyncScipIndex

LEMMA ScipIsSafe == ScipSpec => ScipSafety
<1>1. ASSUME ScipInv PROVE ScipTypeOK /\ ReadyIndexIsWhole /\ AnswerIsOfCheckedTree
  <2> USE <1>1 DEF ScipInv
  <2>1. ScipTypeOK
    BY DEF ScipTypeOK, ScipShape, OpenFiles, ScipRuns, OpenNames, ScipBindings, ScipCalls
  <2>2. ReadyIndexIsWhole /\ AnswerIsOfCheckedTree
    BY DEF ReadyIndexIsWhole, AnswerIsOfCheckedTree, ScipReady, HashesMatch, ManifestIsWhole, ReadingHolds, WholeOf
  <2> QED BY <2>1, <2>2
<1>2. ScipInv /\ [ScipNext]_scipVars =>
        [(\E s \in ScipSyncs: \/ syncs[s].at \in {"start", "run"} /\ syncs'[s].at # syncs[s].at
                              \/ syncs[s].at = "indexing" /\ syncs'[s].at = "done")
           => (ScipReady => ScipReady')]_scipVars
  BY EarlyStepsKeepReady
<1> QED BY <1>1, <1>2, ScipInvHolds, PTL DEF ScipSpec, ScipSafety, FailedSyncKeepsReady

-----------------------------------------------------------------------------
(* The three together. *)

\* No index, graph or SCIP file vouches for a tree it is not of, and a sync or
\* an indexer that ends well has made it so (indexer.py, code_review_graph.py,
\* scip.py).
THEOREM IndexesVouch == IndexSpec /\ GraphSpec /\ ScipSpec => IndexesSafety
  BY IndexIsSafe, GraphIsSafe, ScipIsSafe DEF IndexesSafety
=============================================================================
