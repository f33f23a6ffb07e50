---------------------- MODULE RepositoryRegistryProofs ----------------------
(***************************************************************************)
(* Proofs about the registry of repositories: what an operator decided     *)
(* stays in repositories.json as long as its row does, and a search keeps  *)
(* to what was included, reached and reviewed, for any number of           *)
(* processes, commands, checkouts, remotes and edges and any limits.       *)
(***************************************************************************)
EXTENDS RepositoryRegistry, FiniteSetTheorems, SequenceTheorems, TLAPS

-----------------------------------------------------------------------------
(* Sorted lists *)

\* The pairs are those of a strict total order of S.
Orders(before, S) ==
  /\ \A x \in S : <<x, x>> \notin before
  /\ \A x, y, z \in S : <<x, y>> \in before /\ <<y, z>> \in before => <<x, z>> \in before
  /\ \A x, y \in S : x # y => <<x, y>> \in before \/ <<y, x>> \in before

\* A finite set that is strictly ordered is listed once each.
LEMMA ListedIs ==
  ASSUME NEW S, IsFiniteSet(S), NEW before, Orders(before, S)
  PROVE  /\ Listed(S, before) \in Seq(S) /\ Len(Listed(S, before)) = Cardinality(S)
         /\ Members(Listed(S, before)) = S
         /\ \A i, j \in 1..Cardinality(S) : i # j => Listed(S, before)[i] # Listed(S, before)[j]
<1> DEFINE n == Cardinality(S)
           below(c) == {d \in S : <<d, c>> \in before}
           rank == [c \in S |-> Cardinality(below(c))]
           T == 0..(n - 1)
           list == Listed(S, before)
<1>1. n \in Nat
  BY FS_CardinalityType
<1>2. ASSUME NEW c \in S
      PROVE  /\ IsFiniteSet(below(c)) /\ Cardinality(below(c)) \in Nat /\ Cardinality(below(c)) < n
  <2>1. below(c) \in SUBSET S /\ c \notin below(c)
    BY DEF Orders
  <2>2. IsFiniteSet(below(c)) /\ Cardinality(below(c)) <= n /\ (n = Cardinality(below(c)) => S = below(c))
    BY <2>1, FS_Subset
  <2>3. Cardinality(below(c)) \in Nat
    BY <2>2, FS_CardinalityType
  <2> HIDE DEF below
  <2> QED BY <1>1, <2>1, <2>2, <2>3
<1>3. ASSUME NEW c \in S, NEW d \in S, <<c, d>> \in before PROVE Cardinality(below(c)) < Cardinality(below(d))
  <2>1. below(c) \in SUBSET below(d) /\ c \in below(d) /\ c \notin below(c)
    BY <1>3, Zenon DEF Orders
  <2>2. IsFiniteSet(below(d))
    BY <1>2
  <2> HIDE DEF below
  <2>3. Cardinality(below(c)) <= Cardinality(below(d)) /\ Cardinality(below(d)) # Cardinality(below(c))
    BY <2>1, <2>2, FS_Subset
  <2> QED BY <1>2, <2>3
<1>4. \A c \in S : rank[c] = Cardinality(below(c)) /\ rank[c] \in T
  BY <1>1, <1>2
<1>5. \A c, d \in S : <<c, d>> \in before => rank[c] < rank[d]
  BY <1>3
<1>6. rank \in [S -> T]
  <2> HIDE DEF below, T
  <2> QED BY <1>4
<1>7. list = [i \in 1..n |-> CHOOSE c \in S : Cardinality(below(c)) = i - 1]
  BY DEF Listed
<1> HIDE DEF rank, below
<1>8. rank \in Injection(S, T)
  <2>1. \A c, d \in S : c # d => rank[c] # rank[d]
    <3> SUFFICES ASSUME NEW c \in S, NEW d \in S, c # d PROVE rank[c] # rank[d]
      OBVIOUS
    <3>1. rank[c] \in Int /\ rank[d] \in Int
      BY <1>1, <1>4
    <3>2. <<c, d>> \in before \/ <<d, c>> \in before
      BY DEF Orders
    <3> QED BY <1>5, <3>1, <3>2
  <2> QED BY <1>6, <2>1 DEF Injection, IsInjective
<1>9. IsFiniteSet(T) /\ Cardinality(T) = n
  <2>1. 0 \in Int /\ n - 1 \in Int
    BY <1>1
  <2>2. IsFiniteSet(T) /\ Cardinality(T) = IF 0 > n - 1 THEN 0 ELSE (n - 1) - 0 + 1
    BY <2>1, FS_Interval
  <2> QED BY <1>1, <2>2
<1>10. rank \in Surjection(S, T)
  BY <1>8, <1>9, FS_Injection
<1> HIDE DEF T, n
<1>11. \A t \in T : \E c \in S : rank[c] = t
  BY <1>10 DEF Surjection
<1>12. ASSUME NEW i \in 1..n PROVE list[i] \in S /\ rank[list[i]] = i - 1
  <2>1. i - 1 \in T
    BY <1>1 DEF T
  <2>2. PICK c \in S : rank[c] = i - 1
    BY <1>11, <2>1
  <2>3. Cardinality(below(c)) = i - 1
    BY <1>4, <2>2
  <2>4. list[i] \in S /\ Cardinality(below(list[i])) = i - 1
    BY <1>7, <2>3
  <2> QED BY <1>4, <2>4
<1> HIDE DEF list
<1>13. list \in Seq(S) /\ Len(list) = n /\ DOMAIN list = 1..n
  BY <1>1, <1>7, <1>12
<1>14. \A i, j \in 1..n : i # j => list[i] # list[j]
  BY <1>1, <1>12
<1>15. Members(list) = S
  <2>1. Members(list) \subseteq S
    BY <1>12, <1>13 DEF Members
  <2>2. ASSUME NEW c \in S PROVE c \in Members(list)
    <3>1. rank[c] \in T /\ rank[c] + 1 \in 1..n
      BY <1>1, <1>4 DEF T
    <3> DEFINE e == list[rank[c] + 1]
    <3>2. e \in S /\ rank[e] = rank[c]
      BY <1>1, <1>12, <3>1 DEF T
    <3>3. e = c
      BY <1>8, <3>2 DEF Injection, IsInjective
    <3> QED BY <1>13, <3>1, <3>3 DEF Members
  <2> QED BY <2>1, <2>2
<1> QED BY <1>13, <1>14, <1>15 DEF list, n

\* Numbers are listed in ascending order.
LEMMA AscendingIs ==
  ASSUME NEW S \in SUBSET Nat, IsFiniteSet(S)
  PROVE  Ascending(S) \in Seq(S) /\ Members(Ascending(S)) = S
<1> DEFINE before == {p \in S \X S : p[1] < p[2]}
<1>1. \A x, y \in S : x \in Nat /\ y \in Nat /\ (<<x, y>> \in before <=> x < y)
  OBVIOUS
<1> HIDE DEF before
<1>2. Orders(before, S)
  BY <1>1 DEF Orders
<1>3. Ascending(S) = Listed(S, before)
  BY DEF Ascending, before
<1> QED BY <1>2, <1>3, ListedIs

\* The first n of a list.
LEMMA FirstOfIs ==
  ASSUME NEW S, NEW s \in Seq(S), NEW n \in Nat
  PROVE  /\ FirstOf(n, s) \in Seq(S) /\ Members(FirstOf(n, s)) \subseteq Members(s)
         /\ Len(FirstOf(n, s)) <= n /\ DOMAIN FirstOf(n, s) = 1..Len(FirstOf(n, s))
         /\ \A i \in DOMAIN FirstOf(n, s) : FirstOf(n, s)[i] \in Members(s)
<1> DEFINE m == IF Len(s) < n THEN Len(s) ELSE n
<1>1. Len(s) \in Nat /\ DOMAIN s = 1..Len(s) /\ m \in Nat /\ m <= Len(s) /\ m <= n /\ FirstOf(n, s) = SubSeq(s, 1, m)
  BY DEF FirstOf
<1> HIDE DEF m
<1>2. /\ SubSeq(s, 1, m) \in Seq(S) /\ Len(SubSeq(s, 1, m)) = m
      /\ \A i \in 1..m : SubSeq(s, 1, m)[i] = s[i]
  <2>1. \A i \in 1..m : s[i] \in S
    BY <1>1
  <2>2. SubSeq(s, 1, m) = [i \in 1..m |-> s[i]]
    BY <1>1
  <2> QED BY <1>1, <2>1, <2>2
<1>3. DOMAIN SubSeq(s, 1, m) = 1..m
  BY <1>1, <1>2
<1>4. \A i \in 1..m : i \in 1..Len(s)
  BY <1>1
<1> QED BY <1>1, <1>2, <1>3, <1>4 DEF Members

-----------------------------------------------------------------------------
(* The rows of the registry *)

\* Well formed rows, one per path.
GoodRows(rows) ==
  /\ rows \subseteq RegistryRow /\ \A r \in rows : r.sound = TRUE
  /\ \A r, s \in rows : r.path = s.path => r = s

\* What the limits and counts are.
LEMMA RegistryNumbers ==
  /\ NPaths \in Nat /\ NRemotes \in Nat \ {0} /\ MaxRoots \in Nat \ {0} /\ MaxPrimary \in Nat \ {0}
  /\ MaxExpansions \in Nat /\ RepoPaths = 0..NPaths /\ RepoPaths \in SUBSET Nat /\ IsFiniteSet(RepoPaths)
  /\ Gone = NRemotes + 1 /\ "free" \notin RegistryWriters
<1>1. NPaths \in Nat /\ 0 \in Int
  BY RegistryAssumption
<1>2. IsFiniteSet(0..NPaths)
  BY <1>1, FS_Interval
<1> QED BY <1>2, RegistryAssumption DEF RepoPaths, Gone

\* A row per path is no more rows than paths.
LEMMA GoodRowsFinite ==
  ASSUME NEW rows, GoodRows(rows) PROVE IsFiniteSet(rows)
<1> DEFINE path == [r \in rows |-> r.path]
<1>1. \A r \in rows : r.path \in RepoPaths
  BY DEF GoodRows, RegistryRow
<1>2. path \in [rows -> RepoPaths]
  BY <1>1
<1>3. \A r, s \in rows : path[r] = path[s] => r = s
  BY DEF GoodRows
<1> HIDE DEF path
<1>4. path \in Injection(rows, RepoPaths)
  BY <1>2, <1>3 DEF Injection, IsInjective
<1> QED BY <1>4, RegistryNumbers, FS_Injection

\* What the file may hold, apart from being absent.
Files == [version : 0..2, review : BOOLEAN, rows : Seq(RegistryRow)]

\* What registry_payload writes, load_registry reads back.
LEMMA PayloadLoads ==
  ASSUME NEW rows, GoodRows(rows)
  PROVE  RegistryPayload(rows) \in Files /\ LoadRegistry(RegistryPayload(rows)) = rows
<1> DEFINE before == {p \in rows \X rows : RowBefore(p[1], p[2])}
           list == Listed(rows, before)
           file == RegistryPayload(rows)
<1>1. \A r \in rows : r \in RegistryRow /\ r.path \in Nat /\ r.remote \in Nat /\ r.sound = TRUE
  BY RegistryNumbers DEF GoodRows, RegistryRow
<1>2. Orders(before, rows)
  <2>1. \A x, y \in rows : <<x, y>> \in before <=> RowBefore(x, y)
    OBVIOUS
  <2>2. \A x, y \in rows : x # y => x.path # y.path
    BY DEF GoodRows
  <2>3. \A x, y \in rows : RowBefore(x, y) <=> x.path < y.path
    BY <1>1, <2>2 DEF RowBefore
  <2> HIDE DEF before
  <2> QED BY <1>1, <2>1, <2>2, <2>3 DEF Orders
<1>3. file = [version |-> 1, review |-> TRUE, rows |-> list]
  BY DEF RegistryPayload
<1> HIDE DEF before
<1>4. IsFiniteSet(rows) /\ Cardinality(rows) \in Nat
  BY GoodRowsFinite, FS_CardinalityType
<1>5. /\ list \in Seq(rows) /\ Len(list) = Cardinality(rows) /\ Members(list) = rows
      /\ \A i, j \in 1..Cardinality(rows) : i # j => list[i] # list[j]
  BY <1>2, <1>4, ListedIs
<1> HIDE DEF list
<1>6. DOMAIN list = 1..Cardinality(rows) /\ \A i \in DOMAIN list : list[i] \in rows
  BY <1>4, <1>5
<1>7. list \in Seq(RegistryRow)
  BY <1>1, <1>4, <1>5, <1>6
<1>8. file \in Files
  BY <1>3, <1>7 DEF Files
<1>9. file.version = 1 /\ file.review = TRUE /\ file.rows = list
  BY <1>3
<1> HIDE DEF file
<1>10. \A i \in DOMAIN list : EntryToSpec(list[i]) = {list[i]}
  BY <1>1, <1>6 DEF EntryToSpec
<1>11. \A i, j \in DOMAIN list : i # j => KeyOf(list[i]) # KeyOf(list[j])
  <2> SUFFICES ASSUME NEW i \in DOMAIN list, NEW j \in DOMAIN list, i # j PROVE KeyOf(list[i]) # KeyOf(list[j])
    OBVIOUS
  <2>1. list[i] \in rows /\ list[j] \in rows /\ list[i] # list[j]
    BY <1>5, <1>6
  <2>2. list[i].path # list[j].path
    BY <2>1 DEF GoodRows
  <2>3. KeyOf(list[i]).path = list[i].path /\ KeyOf(list[j]).path = list[j].path
    BY DEF KeyOf
  <2> QED BY <2>2, <2>3
<1>12. LoadRegistry(file) = UNION {EntryToSpec(list[i]) : i \in DOMAIN list}
  <2>1. ~ \/ file.version # 1
          \/ file.review # TRUE
          \/ \E i \in DOMAIN file.rows : EntryToSpec(file.rows[i]) = {}
          \/ \E i, j \in DOMAIN file.rows : i # j /\ KeyOf(file.rows[i]) = KeyOf(file.rows[j])
    BY <1>9, <1>10, <1>11
  <2> QED BY <1>9, <2>1, Zenon DEF LoadRegistry
<1>13. UNION {EntryToSpec(list[i]) : i \in DOMAIN list} = Members(list)
  BY <1>10, Zenon DEF Members
<1> QED BY <1>5, <1>8, <1>12, <1>13 DEF file

\* After an edit by hand the file says nothing.
LEMMA EditsEmpty ==
  ASSUME registry \in Files, EditFile
  PROVE  registry' \in Files /\ LoadRegistry(registry') = {}
<1> DEFINE file == registry'
<1>1. registry = [version |-> registry.version, review |-> registry.review, rows |-> registry.rows]
      /\ registry.version \in 0..2 /\ registry.review \in BOOLEAN /\ registry.rows \in Seq(RegistryRow)
  BY DEF Files
<1>2. /\ Len(registry.rows) \in Nat /\ DOMAIN registry.rows = 1..Len(registry.rows)
      /\ \A i \in DOMAIN registry.rows : registry.rows[i] \in RegistryRow
  BY <1>1
<1>3. CASE registry' = [registry EXCEPT !.version = 2]
  <2>1. registry'.version = 2 /\ registry' \in Files
    BY <1>1, <1>3 DEF Files
  <2> QED BY <2>1 DEF LoadRegistry
<1>4. CASE registry' = [registry EXCEPT !.review = FALSE]
  <2>1. registry'.review = FALSE /\ registry' \in Files
    BY <1>1, <1>4 DEF Files
  <2> QED BY <2>1 DEF LoadRegistry
<1>5. CASE \E i \in DOMAIN registry.rows : registry' = [registry EXCEPT !.rows[i].sound = FALSE]
  <2>1. PICK i \in DOMAIN registry.rows : registry' = [registry EXCEPT !.rows[i].sound = FALSE]
    BY <1>5
  <2> DEFINE row == [registry.rows[i] EXCEPT !.sound = FALSE]
             list == [registry.rows EXCEPT ![i] = row]
  <2>2. row \in RegistryRow /\ row.sound = FALSE
    BY <1>2 DEF RegistryRow
  <2>3. registry' = [registry EXCEPT !.rows = list]
    BY <2>1
  <2> HIDE DEF row
  <2>4. list \in Seq(RegistryRow) /\ i \in DOMAIN list /\ list[i] = row
    BY <1>1, <1>2, <2>2
  <2> HIDE DEF list
  <2>5. registry' \in Files /\ registry'.rows = list
    BY <1>1, <2>3, <2>4 DEF Files
  <2>6. i \in DOMAIN registry'.rows /\ EntryToSpec(registry'.rows[i]) = {}
    BY <2>2, <2>4, <2>5 DEF EntryToSpec
  <2> QED BY <2>5, <2>6 DEF LoadRegistry
<1>6. CASE \E i \in DOMAIN registry.rows : registry' = [registry EXCEPT !.rows = Append(@, @[i])]
  <2>1. PICK i \in DOMAIN registry.rows : registry' = [registry EXCEPT !.rows = Append(@, @[i])]
    BY <1>6
  <2> DEFINE list == Append(registry.rows, registry.rows[i])
             n == Len(registry.rows)
  <2>2. registry' = [registry EXCEPT !.rows = list]
    BY <2>1
  <2>3. /\ list \in Seq(RegistryRow) /\ DOMAIN list = 1..(n + 1) /\ i \in 1..n
        /\ list[n + 1] = registry.rows[i] /\ list[i] = registry.rows[i]
    BY <1>1, <1>2, AppendProperties
  <2>4. n \in Nat /\ i \in DOMAIN list /\ n + 1 \in DOMAIN list /\ i # n + 1
    BY <1>2, <2>3
  <2> HIDE DEF list, n
  <2>5. registry' \in Files /\ registry'.rows = list
    BY <1>1, <2>2, <2>3 DEF Files
  <2>6. KeyOf(registry'.rows[i]) = KeyOf(registry'.rows[n + 1])
    BY <2>3, <2>5
  <2>7. \E k, l \in DOMAIN registry'.rows : k # l /\ KeyOf(registry'.rows[k]) = KeyOf(registry'.rows[l])
    BY <2>4, <2>5, <2>6
  <2> QED BY <2>5, <2>7, Zenon DEF LoadRegistry
<1> QED BY <1>3, <1>4, <1>5, <1>6 DEF EditFile

\* Commands write well formed rows, one per path, when they have read such.
LEMMA MergeIsGood ==
  ASSUME NEW old, GoodRows(old), NEW shallow, checkout \in [RepoPaths -> 0..Gone],
         NEW found \in Discoveries(shallow), NEW new \in BOOLEAN
  PROVE  /\ GoodRows(MergedRows(found, old, new))
         /\ \A k \in KeysOf(MergedRows(found, old, new)) : \A e \in old :
              KeyOf(e) = k => \E r \in MergedRows(found, old, new) :
                                KeyOf(r) = k /\ (e.reason # "discovered" => r = e)
<1> DEFINE seen == {p \in RepoPaths : checkout[p] # Gone /\ ~(shallow /\ p \in DeepPaths)}
           spec(p, r) == [path |-> p, remote |-> r, included |-> FALSE, reason |-> "discovered", sound |-> TRUE]
<1>1. /\ found \subseteq UNION {SpecsFor(p) : p \in seen}
      /\ \A p \in seen : Cardinality({d \in found : d.path = p}) = 1
  BY DEF Discoveries
<1>2. ASSUME NEW p \in seen, NEW d \in SpecsFor(p)
      PROVE  d = spec(p, checkout[p]) \/ d = spec(p, 0)
  BY <1>2 DEF SpecsFor
<1>3. \A p \in seen : p \in RepoPaths /\ checkout[p] \in 0..NRemotes /\ 0 \in 0..NRemotes
  BY RegistryNumbers
<1>4. ASSUME NEW d \in found
      PROVE  d.path \in seen /\ (d = spec(d.path, checkout[d.path]) \/ d = spec(d.path, 0))
  <2>1. PICK p \in seen : d \in SpecsFor(p)
    BY <1>1
  <2>2. d = spec(p, checkout[p]) \/ d = spec(p, 0)
    BY <1>2, <2>1
  <2>3. d.path = p
    BY <2>2
  <2> QED BY <2>2, <2>3
<1>5. \A d \in found : d \in RegistryRow /\ d.sound = TRUE
  <2> SUFFICES ASSUME NEW d \in found PROVE d \in RegistryRow /\ d.sound = TRUE
    OBVIOUS
  <2>1. d.path \in RepoPaths /\ checkout[d.path] \in 0..NRemotes /\ 0 \in 0..NRemotes /\ FALSE \in BOOLEAN
    BY <1>3, <1>4
  <2>3. ASSUME NEW r \in 0..NRemotes PROVE spec(d.path, r) \in RegistryRow /\ spec(d.path, r).sound = TRUE
    BY <2>1 DEF RegistryRow
  <2> HIDE DEF spec
  <2> QED BY <1>4, <2>1, <2>3
<1>6. \A d, e \in found : d.path = e.path => d = e
  <2> SUFFICES ASSUME NEW d \in found, NEW e \in found, d.path = e.path PROVE d = e
    OBVIOUS
  <2> DEFINE p == d.path
             D == {x \in found : x.path = p}
  <2>1. p \in seen /\ Cardinality(D) = 1
    BY <1>1, <1>4
  <2>2. D \subseteq {spec(p, checkout[p]), spec(p, 0)}
    BY <1>4
  <2>3. IsFiniteSet({spec(p, checkout[p]), spec(p, 0)})
    <3> DEFINE a == spec(p, checkout[p])
               b == spec(p, 0)
    <3> HIDE DEF a, b
    <3>1. {a, b} = {a} \cup {b} /\ IsFiniteSet({a})
      BY FS_Singleton
    <3>2. IsFiniteSet({a} \cup {b})
      BY <3>1, FS_AddElement
    <3>3. IsFiniteSet({a, b})
      BY <3>1, <3>2
    <3> QED BY <3>3 DEF a, b
  <2>4. IsFiniteSet(D)
    BY <2>2, <2>3, FS_Subset
  <2>5. d \in D /\ e \in D
    OBVIOUS
  <2> HIDE DEF D
  <2> QED BY <2>1, <2>4, <2>5, FS_Singleton
<1> HIDE DEF seen, spec
<1> DEFINE merged(d) == MergedRow(d, old, new)
<1>7. ASSUME NEW d \in found
      PROVE  /\ merged(d) \in RegistryRow /\ merged(d).sound = TRUE /\ KeyOf(merged(d)) = KeyOf(d)
             /\ merged(d).path = d.path
             /\ \A e \in old : KeyOf(e) = KeyOf(d) /\ e.reason # "discovered" => merged(d) = e
  <2> DEFINE previous == {e \in old : KeyOf(e) = KeyOf(d)}
  <2>0. d \in RegistryRow /\ d.sound = TRUE
    BY <1>5
  <2>1. CASE previous = {}
    <3>1. merged(d) = [d EXCEPT !.included = new, !.reason = IF new THEN "auto" ELSE @]
      BY <2>1 DEF MergedRow
    <3>2. merged(d) \in RegistryRow /\ merged(d).sound = TRUE /\ merged(d).path = d.path /\ merged(d).remote = d.remote
      BY <2>0, <3>1 DEF RegistryRow
    <3> QED BY <2>1, <3>2 DEF KeyOf
  <2>2. CASE previous # {}
    <3> DEFINE e == CHOOSE e \in previous : TRUE
    <3>1. e \in previous
      BY <2>2
    <3>2. merged(d) = IF new /\ ~e.included /\ e.reason = "discovered"
                      THEN [e EXCEPT !.included = TRUE, !.reason = "auto"] ELSE e
      BY <2>2 DEF MergedRow
    <3> HIDE DEF e
    <3>3. e \in RegistryRow /\ e.sound = TRUE /\ KeyOf(e) = KeyOf(d) /\ e \in old
      BY <3>1 DEF GoodRows
    <3>4. e.path = d.path /\ e.remote = d.remote
      BY <3>3 DEF KeyOf
    <3>5. /\ merged(d) \in RegistryRow /\ merged(d).sound = TRUE
          /\ merged(d).path = e.path /\ merged(d).remote = e.remote
          /\ e.reason # "discovered" => merged(d) = e
      BY <3>2, <3>3 DEF RegistryRow
    <3>6. \A f \in old : KeyOf(f) = KeyOf(d) => f = e
      BY <3>3, <3>4 DEF GoodRows, KeyOf
    <3> HIDE DEF merged
    <3> QED BY <3>4, <3>5, <3>6 DEF KeyOf
  <2> QED BY <2>1, <2>2
<1>8. MergedRows(found, old, new) = {merged(d) : d \in found}
  BY DEF MergedRows
<1> HIDE DEF merged
<1>9. GoodRows(MergedRows(found, old, new))
  <2>1. \A r \in MergedRows(found, old, new) : \E d \in found : r = merged(d)
    BY <1>8
  <2>2. \A r \in MergedRows(found, old, new) : r \in RegistryRow /\ r.sound = TRUE
    BY <1>7, <2>1
  <2>3. ASSUME NEW r \in MergedRows(found, old, new), NEW t \in MergedRows(found, old, new), r.path = t.path
        PROVE  r = t
    <3>1. PICK d \in found : r = merged(d)
      BY <2>1
    <3>2. PICK e \in found : t = merged(e)
      BY <2>1
    <3>3. d.path = e.path
      BY <1>7, <2>3, <3>1, <3>2
    <3> QED BY <1>6, <3>1, <3>2, <3>3
  <2> QED BY <2>2, <2>3 DEF GoodRows
<1>10. ASSUME NEW k \in KeysOf(MergedRows(found, old, new)), NEW e \in old, KeyOf(e) = k
       PROVE  \E r \in MergedRows(found, old, new) : KeyOf(r) = k /\ (e.reason # "discovered" => r = e)
  <2>1. PICK d \in found : k = KeyOf(merged(d))
    BY <1>8 DEF KeysOf
  <2> QED BY <1>7, <1>8, <1>10, <2>1
<1> QED BY <1>9, <1>10

-----------------------------------------------------------------------------
(* The reader *)

\* Edges are strictly ordered by rank, source and target.
LEMMA EdgesAreOrdered ==
  ASSUME NEW S \in SUBSET ReviewedEdges
  PROVE  Orders({p \in S \X S : StrongerEdge(p[1], p[2])}, S)
<1> DEFINE before == {p \in S \X S : StrongerEdge(p[1], p[2])}
           Behind(a, b) == a.path < b.path \/ (a.path = b.path /\ a.remote < b.remote)
<1>1. \A x, y \in S : <<x, y>> \in before <=> StrongerEdge(x, y)
  OBVIOUS
<1>2. \A e \in S : /\ e = [from |-> e.from, to |-> e.to, prior |-> e.prior]
                    /\ e.from \in RepoKey /\ e.to \in RepoKey /\ e.prior \in Nat
  BY RegistryAssumption
<1>3. \A k \in RepoKey : k = [path |-> k.path, remote |-> k.remote] /\ k.path \in Nat /\ k.remote \in Nat
  BY RegistryNumbers DEF RepoKey
<1> HIDE DEF before
<1>4. \A k \in RepoKey : ~RowBefore(k, k)
  BY <1>3 DEF RowBefore
<1>5. \A k, l, m \in RepoKey : RowBefore(k, l) /\ RowBefore(l, m) => RowBefore(k, m)
  BY <1>3 DEF RowBefore
<1>6. \A k, l \in RepoKey : k # l => RowBefore(k, l) \/ RowBefore(l, k)
  BY <1>3 DEF RowBefore
<1>7. \A x \in S : ~StrongerEdge(x, x)
  BY <1>2, <1>4 DEF StrongerEdge
<1>8. ASSUME NEW x \in S, NEW y \in S, NEW z \in S, StrongerEdge(x, y), StrongerEdge(y, z)
      PROVE  StrongerEdge(x, z)
  <2>1. /\ x.prior \in Nat /\ y.prior \in Nat /\ z.prior \in Nat
        /\ x.from \in RepoKey /\ y.from \in RepoKey /\ z.from \in RepoKey
        /\ x.to \in RepoKey /\ y.to \in RepoKey /\ z.to \in RepoKey
    BY <1>2
  <2>2. RowBefore(x.from, y.from) /\ RowBefore(y.from, z.from) => RowBefore(x.from, z.from)
    BY <1>5, <2>1
  <2>3. RowBefore(x.to, y.to) /\ RowBefore(y.to, z.to) => RowBefore(x.to, z.to)
    BY <1>5, <2>1
  <2>4. \/ x.prior > y.prior
        \/ x.prior = y.prior /\ RowBefore(x.from, y.from)
        \/ x.prior = y.prior /\ x.from = y.from /\ RowBefore(x.to, y.to)
    BY <1>8 DEF StrongerEdge
  <2>5. \/ y.prior > z.prior
        \/ y.prior = z.prior /\ RowBefore(y.from, z.from)
        \/ y.prior = z.prior /\ y.from = z.from /\ RowBefore(y.to, z.to)
    BY <1>8 DEF StrongerEdge
  <2> QED BY <2>1, <2>2, <2>3, <2>4, <2>5 DEF StrongerEdge
<1>9. ASSUME NEW x \in S, NEW y \in S, x # y PROVE StrongerEdge(x, y) \/ StrongerEdge(y, x)
  <2>1. x.prior # y.prior \/ x.from # y.from \/ x.to # y.to
    BY <1>2, <1>9
  <2>2. /\ x.from # y.from => RowBefore(x.from, y.from) \/ RowBefore(y.from, x.from)
        /\ x.to # y.to => RowBefore(x.to, y.to) \/ RowBefore(y.to, x.to)
        /\ x.prior \in Nat /\ y.prior \in Nat
    BY <1>2, <1>6
  <2> QED BY <2>1, <2>2 DEF StrongerEdge
<1>10. Orders(before, S)
  BY <1>1, <1>7, <1>8, <1>9 DEF Orders
<1> QED BY <1>10 DEF before

\* An expansion is one of the targets, and there are as many as allowed at most.
LEMMA ExpansionsAreTargets ==
  ASSUME NEW targets \in SUBSET Nat, NEW ids, NEW nodes
  PROVE  LET x == ExpansionsTo(targets, ids, nodes)
         IN  x \in Seq(Nat) /\ Len(x) <= MaxExpansions /\ Members(x) \subseteq targets
<1> DEFINE end(e) == Neighbours(e, ids) \cap targets
           leading == {e \in GraphEdges(nodes) : end(e) # {}}
           best == {e \in leading : \A f \in leading : end(f) = end(e) => ~StrongerEdge(f, e)}
           before == {p \in best \X best : StrongerEdge(p[1], p[2])}
           all == Listed(best, before)
           ranked == FirstOf(MaxExpansions, all)
           x == [i \in DOMAIN ranked |-> CHOOSE p \in end(ranked[i]) : TRUE]
<1>1. ExpansionsTo(targets, ids, nodes) = x
  BY DEF ExpansionsTo
<1>2. best \in SUBSET ReviewedEdges /\ \A e \in best : end(e) # {}
  BY DEF GraphEdges
<1>3. \A e : end(e) \subseteq targets
  OBVIOUS
<1> HIDE DEF best, end
<1>4. IsFiniteSet(best)
  BY <1>2, RegistryAssumption, FS_Subset
<1>5. Orders(before, best)
  BY <1>2, EdgesAreOrdered
<1> HIDE DEF before
<1>6. all \in Seq(best) /\ Members(all) = best
  BY <1>4, <1>5, ListedIs
<1> HIDE DEF all
<1>7. /\ ranked \in Seq(best) /\ Len(ranked) <= MaxExpansions /\ Len(ranked) \in Nat
      /\ DOMAIN ranked = 1..Len(ranked) /\ \A i \in DOMAIN ranked : ranked[i] \in best
  <2>1. MaxExpansions \in Nat
    BY RegistryNumbers
  <2> QED BY <1>6, <2>1, FirstOfIs
<1> HIDE DEF ranked
<1>8. \A i \in DOMAIN ranked : x[i] \in end(ranked[i]) /\ x[i] \in targets
  BY <1>2, <1>3, <1>7
<1>9. DOMAIN x = 1..Len(ranked) /\ x = [i \in 1..Len(ranked) |-> x[i]] /\ \A i \in 1..Len(ranked) : x[i] \in Nat
  <2>1. DOMAIN x = DOMAIN ranked /\ x = [i \in DOMAIN ranked |-> x[i]]
    OBVIOUS
  <2> HIDE DEF x
  <2> QED BY <1>7, <1>8, <2>1
<1> HIDE DEF x
<1>10. x \in Seq(Nat) /\ Len(x) = Len(ranked)
  BY <1>7, <1>9
<1>11. Members(x) \subseteq targets
  BY <1>7, <1>8, <1>9 DEF Members
<1> QED BY <1>1, <1>7, <1>10, <1>11

\* The primaries are roots.
LEMMA PrimariesAreRoots ==
  ASSUME NEW roots \in Seq(Nat), NEW known, NEW changed, NEW mentioned
  PROVE  LET s == Signalled(roots, known, changed, mentioned)
         IN  s \in Seq(Nat) /\ Members(s) \subseteq Members(roots)
<1> DEFINE ids == {k.path : k \in known}
           hit == {p \in Members(roots) \cap ids : OwnsChange(p, known, changed) \/ p \in mentioned}
<1>1. Signalled(roots, known, changed, mentioned) = IF hit = {} THEN FirstOf(1, roots) ELSE Ascending(hit)
  BY DEF Signalled
<1>2. hit \subseteq Members(roots)
  OBVIOUS
<1> HIDE DEF hit
<1>3. DOMAIN roots = 1..Len(roots) /\ Len(roots) \in Nat /\ \A i \in DOMAIN roots : roots[i] \in Nat
  OBVIOUS
<1>4. Members(roots) \in SUBSET Nat
  BY <1>3 DEF Members
<1>5. IsFiniteSet(Members(roots))
  <2>1. roots \in Surjection(DOMAIN roots, Members(roots))
    BY <1>3 DEF Surjection, Members
  <2>2. IsFiniteSet(DOMAIN roots)
    BY <1>3, FS_Interval
  <2> QED BY <2>1, <2>2, FS_Surjection
<1>6. IsFiniteSet(hit) /\ hit \in SUBSET Nat
  BY <1>2, <1>4, <1>5, FS_Subset
<1>7. Ascending(hit) \in Seq(Nat) /\ Members(Ascending(hit)) \subseteq Members(roots)
  <2>1. Ascending(hit) \in Seq(hit) /\ Members(Ascending(hit)) = hit
    BY <1>6, AscendingIs
  <2>2. Ascending(hit) \in Seq(Nat)
    <3> DEFINE list == Ascending(hit)
    <3> HIDE DEF list
    <3>1. list \in Seq(hit) /\ \A p \in hit : p \in Nat
      BY <1>6, <2>1 DEF list
    <3>2. list = [i \in 1..Len(list) |-> list[i]] /\ Len(list) \in Nat /\ \A i \in 1..Len(list) : list[i] \in hit
      BY <3>1
    <3>3. list \in Seq(Nat)
      BY <3>1, <3>2
    <3> QED BY <3>3 DEF list
  <2> QED BY <1>2, <2>1, <2>2
<1>8. FirstOf(1, roots) \in Seq(Nat) /\ Members(FirstOf(1, roots)) \subseteq Members(roots)
  BY FirstOfIs
<1> QED BY <1>1, <1>7, <1>8

\* What two lists hold, the joined list holds.
LEMMA MembersJoined ==
  ASSUME NEW s \in Seq(Nat), NEW t \in Seq(Nat)
  PROVE  /\ s \o t \in Seq(Nat) /\ Len(s \o t) = Len(s) + Len(t)
         /\ Members(s \o t) = Members(s) \cup Members(t)
<1>1. /\ s \o t \in Seq(Nat) /\ Len(s \o t) = Len(s) + Len(t) /\ Len(s) \in Nat /\ Len(t) \in Nat
      /\ \A i \in 1..(Len(s) + Len(t)) : (s \o t)[i] = IF i <= Len(s) THEN s[i] ELSE t[i - Len(s)]
  BY ConcatProperties
<1>2. DOMAIN (s \o t) = 1..(Len(s) + Len(t)) /\ DOMAIN s = 1..Len(s) /\ DOMAIN t = 1..Len(t)
  BY <1>1
<1>3. ASSUME NEW x \in Members(s \o t) PROVE x \in Members(s) \cup Members(t)
  <2>1. PICK i \in 1..(Len(s) + Len(t)) : x = (s \o t)[i]
    BY <1>2 DEF Members
  <2>2. CASE i <= Len(s)
    <3>1. i \in 1..Len(s) /\ x = s[i]
      BY <1>1, <2>1, <2>2
    <3> QED BY <1>2, <3>1 DEF Members
  <2>3. CASE ~(i <= Len(s))
    <3>1. i - Len(s) \in 1..Len(t) /\ x = t[i - Len(s)]
      BY <1>1, <2>1, <2>3
    <3> QED BY <1>2, <3>1 DEF Members
  <2> QED BY <2>2, <2>3
<1>4. ASSUME NEW x \in Members(s) PROVE x \in Members(s \o t)
  <2>1. PICK i \in 1..Len(s) : x = s[i]
    BY <1>2 DEF Members
  <2>2. i \in 1..(Len(s) + Len(t)) /\ i <= Len(s)
    BY <1>1
  <2> QED BY <1>1, <1>2, <2>1, <2>2 DEF Members
<1>5. ASSUME NEW x \in Members(t) PROVE x \in Members(s \o t)
  <2>1. PICK i \in 1..Len(t) : x = t[i]
    BY <1>2 DEF Members
  <2> DEFINE k == Len(s) + i
  <2>2. k \in 1..(Len(s) + Len(t)) /\ ~(k <= Len(s)) /\ k - Len(s) = i
    BY <1>1
  <2> QED BY <1>1, <1>2, <2>1, <2>2 DEF Members
<1> QED BY <1>1, <1>3, <1>4, <1>5

-----------------------------------------------------------------------------
(* The invariant *)

\* A command: where it is, what it does, which rows it has read.
CommandRecords == [at : {"idle", "found_none", "loaded", "crashed"}, op : CommandOps \cup {"none"},
                   read : SUBSET RegistryRow]

\* Everything is well formed, and no path has two rows, in the file or in a command.
RegistryShape ==
  /\ RegistryTypeOK /\ checkout \in [RepoPaths -> 0..Gone]
  /\ command \in [RegistryWriters -> CommandRecords]
  /\ GoodRows(LoadRegistry(registry)) /\ \A w \in RegistryWriters : GoodRows(command[w].read)

\* Rows that show every decision on what has not left the registry, as manual ones.
Shows(rows, decisions, gone) ==
  \A k \in RepoKey \ gone : decisions[k] # "none" =>
    \E row \in rows : /\ KeyOf(row) = k /\ row.included = (decisions[k] = "include")
                       /\ row.reason = "manual"

\* The file shows the decisions, and so does what the holder of the lock has read,
\* whatever setup and an editor have done to the file since.
DecisionsShown ==
  /\ Shows(LoadRegistry(registry), decision, dropped)
  /\ \A w \in RegistryWriters : command[w].at = "loaded" => Shows(command[w].read, decision, dropped)

\* The search keeps to roots that were not excluded when it began.
RootsHold(found) == found.roots \in Seq(Nat) /\ found.excluded \cap Members(found.roots) \subseteq {0}

\* What the two properties of a search say of its plan.
PlanHolds(found) ==
  /\ found.excluded \cap Members(found.plan) \subseteq {0}
  /\ Members(found.plan) \subseteq Members(found.roots)
  /\ Len(found.plan) > MaxPrimary + MaxExpansions =>
       \A k \in found.known : k.path \notin Members(found.roots)
  /\ \A p \in Members(found.plan) \ Members(found.primary) :
       found.legacy \/ \E k \in found.known \cap found.nodes : k.path = p

SearchHolds ==
  /\ search.at \in {"idle", "roots", "identities", "planned"}
  /\ search.at \in {"roots", "identities"} => RootsHold(search)
  /\ search.at = "identities" => search.known \subseteq RepoKey
  /\ search.at = "planned" => PlanHolds(search)

RegistryInv == RegistryShape /\ DecisionsShown /\ SearchHolds

\* The commands that are over: without rows, and as the invariant wants them.
LEMMA IdleCommandFits ==
  /\ IdleCommand \in CommandRecords /\ GoodRows(IdleCommand.read) /\ GoodRows({}) /\ IdleCommand.at = "idle"
  /\ [IdleCommand EXCEPT !.at = "crashed"] \in CommandRecords
  /\ [IdleCommand EXCEPT !.at = "crashed"].read = {} /\ [IdleCommand EXCEPT !.at = "crashed"].at = "crashed"
  BY DEF IdleCommand, CommandRecords, GoodRows

\* The keys of rows are keys.
LEMMA KeysAreKeys ==
  ASSUME NEW r \in RegistryRow
  PROVE  KeyOf(r) \in RepoKey /\ KeyOf(r).path = r.path /\ KeyOf(r).remote = r.remote
  BY DEF RegistryRow, KeyOf, RepoKey

\* The invariant holds before the first command, with and without a file.
LEMMA RegistryInitFits == RegistryInit => RegistryInv
<1> SUFFICES ASSUME RegistryInit PROVE RegistryInv
  OBVIOUS
<1>1. checkout \in [RepoPaths -> 0..Gone]
  <2>1. \A p \in RepoPaths : checkout[p] \in {0, 1, Gone}
    BY DEF RegistryInit
  <2>2. \A x \in {0, 1, Gone} : x \in 0..Gone
    BY RegistryNumbers
  <2> QED BY <2>1, <2>2 DEF RegistryInit
<1>2. registry \in Files /\ GoodRows(LoadRegistry(registry))
  <2>1. CASE registry = NoRegistry
    <3>1. registry \in Files /\ registry.version = 0
      BY <2>1 DEF NoRegistry, Files
    <3>2. LoadRegistry(registry) = {}
      BY <3>1 DEF LoadRegistry
    <3> QED BY <3>1, <3>2, IdleCommandFits
  <2>2. CASE registry # NoRegistry
    <3> DEFINE own(p) == SpecsFor(p) \ {s \in SpecsFor(p) : s.remote # checkout[p]}
               found == UNION {own(p) : p \in RepoPaths}
               spec(p) == [path |-> p, remote |-> checkout[p], included |-> FALSE, reason |-> "discovered", sound |-> TRUE]
               seen == {p \in RepoPaths : checkout[p] # Gone /\ ~(FALSE /\ p \in DeepPaths)}
    <3>1. registry = RegistryPayload(MergedRows(found, {}, TRUE))
      BY <2>2, Zenon DEF RegistryInit
    <3>2. \A p \in RepoPaths : own(p) = IF checkout[p] = Gone THEN {} ELSE {spec(p)}
      BY DEF SpecsFor
    <3>3. found = {spec(p) : p \in seen}
      BY <3>2
    <3>4. found \in Discoveries(FALSE)
      <4>1. found \in SUBSET UNION {SpecsFor(p) : p \in seen}
        <5>1. \A p \in seen : spec(p) \in SpecsFor(p)
          BY DEF SpecsFor
        <5> QED BY <3>3, <5>1
      <4>2. ASSUME NEW p \in seen PROVE Cardinality({d \in found : d.path = p}) = 1
        <5>1. {d \in found : d.path = p} = {spec(p)}
          BY <3>3
        <5> QED BY <5>1, FS_Singleton
      <4> HIDE DEF found, spec
      <4> QED BY <4>1, <4>2, Zenon DEF Discoveries
    <3> HIDE DEF found
    <3>5. GoodRows(MergedRows(found, {}, TRUE))
      BY <1>1, <3>4, IdleCommandFits, MergeIsGood
    <3> QED BY <3>1, <3>5, PayloadLoads
  <2> QED BY <2>1, <2>2
<1>3. \A w \in RegistryWriters : command[w] = IdleCommand /\ command[w].at = "idle"
  BY IdleCommandFits DEF RegistryInit
<1>4. RegistryShape
  <2>1. command \in [RegistryWriters -> CommandRecords]
    BY IdleCommandFits DEF RegistryInit
  <2>2. flock = "free" /\ decision = [k \in RepoKey |-> "none"] /\ dropped = {}
    BY DEF RegistryInit
  <2>3. \A w \in RegistryWriters : command[w].at = "loaded" <=> flock = w
    BY <1>3, <2>2, RegistryNumbers
  <2>4. RegistryTypeOK
    BY <1>2, <1>3, <2>2, <2>3 DEF RegistryTypeOK, Files
  <2> QED BY <1>1, <1>2, <1>3, <2>1, <2>4, IdleCommandFits DEF RegistryShape
<1>5. DecisionsShown
  BY <1>3 DEF DecisionsShown, Shows, RegistryInit
<1>6. SearchHolds
  BY DEF SearchHolds, RegistryInit
<1> QED BY <1>4, <1>5, <1>6 DEF RegistryInv

\* One command moves, the others stay.
LEMMA OneWriterMoves ==
  ASSUME RegistryShape, NEW w \in RegistryWriters, NEW c \in CommandRecords,
         GoodRows(c.read), command' = [command EXCEPT ![w] = c]
  PROVE  /\ command' \in [RegistryWriters -> CommandRecords] /\ command'[w] = c
         /\ \A v \in RegistryWriters \ {w} : command'[v] = command[v]
         /\ \A v \in RegistryWriters : GoodRows(command'[v].read) /\ command'[v].at \in {"idle", "found_none", "loaded", "crashed"}
<1>1. /\ command' \in [RegistryWriters -> CommandRecords] /\ command'[w] = c
      /\ \A v \in RegistryWriters \ {w} : command'[v] = command[v]
  BY DEF RegistryShape
<1>2. \A v \in RegistryWriters : command'[v].at \in {"idle", "found_none", "loaded", "crashed"}
  BY <1>1 DEF CommandRecords
<1>3. \A v \in RegistryWriters : GoodRows(command'[v].read)
  BY <1>1 DEF RegistryShape
<1> QED BY <1>1, <1>2, <1>3

\* Rows that show a decision still do when more has been dropped.
LEMMA ShowsLess ==
  ASSUME NEW rows, NEW d, NEW gone, NEW more, gone \subseteq more, Shows(rows, d, gone)
  PROVE  Shows(rows, d, more)
  BY DEF Shows

\* When all that the file showed has been dropped, nothing need be shown.
LEMMA NothingToShow ==
  ASSUME NEW rows, NEW d, NEW gone, Shows(rows, d, gone), NEW more, gone \cup KeysOf(rows) \subseteq more,
         NEW others
  PROVE  Shows(others, d, more)
  BY DEF Shows, KeysOf

\* The shape after a step, from what the step may disturb.
LEMMA ShapeKept ==
  ASSUME RegistryShape, registry' \in Files, GoodRows(LoadRegistry(registry')),
         flock' \in RegistryWriters \cup {"free"},
         command' \in [RegistryWriters -> CommandRecords],
         \A w \in RegistryWriters : GoodRows(command'[w].read),
         \A w \in RegistryWriters : command'[w].at = "loaded" <=> flock' = w,
         decision' \in [RepoKey -> {"none", "include", "exclude"}], dropped' \subseteq RepoKey,
         checkout' \in [RepoPaths -> 0..Gone]
  PROVE  RegistryShape'
<1>1. \A w \in RegistryWriters : command'[w].at \in {"idle", "found_none", "loaded", "crashed"}
  BY DEF CommandRecords
<1>2. LoadRegistry(registry)' = LoadRegistry(registry')
  BY DEF LoadRegistry
<1> QED BY <1>1, <1>2 DEF RegistryShape, RegistryTypeOK, Files

\* Keys of good rows are keys of the registry.
LEMMA GoodKeys ==
  ASSUME NEW rows, GoodRows(rows) PROVE KeysOf(rows) \subseteq RepoKey
  BY KeysAreKeys DEF GoodRows, KeysOf

\* A command starts and reads the file.
LEMMA CommandStarts ==
  ASSUME RegistryInv, NEW w \in RegistryWriters, LockRegistry(w) \/ FindNoRegistry(w)
  PROVE  RegistryInv'
<1> USE DEF RegistryInv
<1>1. CASE LockRegistry(w)
  <2>1. PICK op \in CommandOps \ {"setup_empty"} :
          command' = [command EXCEPT ![w] = [at |-> "loaded", op |-> op, read |-> LoadRegistry(registry)]]
    BY <1>1 DEF LockRegistry
  <2> DEFINE c == [at |-> "loaded", op |-> op, read |-> LoadRegistry(registry)]
  <2>2. /\ c \in CommandRecords /\ GoodRows(c.read) /\ c.at = "loaded" /\ c.read = LoadRegistry(registry)
    BY DEF CommandRecords, RegistryShape, GoodRows
  <2>3. command' = [command EXCEPT ![w] = c]
    BY <2>1
  <2> HIDE DEF c
  <2>4. /\ command' \in [RegistryWriters -> CommandRecords] /\ command'[w] = c
        /\ \A v \in RegistryWriters \ {w} : command'[v] = command[v]
        /\ \A v \in RegistryWriters : GoodRows(command'[v].read)
    BY <2>2, <2>3, OneWriterMoves
  <2>5. /\ flock = "free" /\ flock' = w
        /\ UNCHANGED <<checkout, registry, outside, decision, dropped, search>>
    BY <1>1 DEF LockRegistry
  <2>6. \A v \in RegistryWriters : command[v].at # "loaded"
    BY <2>5, RegistryNumbers DEF RegistryShape, RegistryTypeOK
  <2>7. \A v \in RegistryWriters : command'[v].at = "loaded" <=> flock' = v
    BY <2>2, <2>4, <2>5, <2>6
  <2>8. RegistryShape'
    BY <2>4, <2>5, <2>7, ShapeKept DEF RegistryShape, RegistryTypeOK, Files
  <2>9. DecisionsShown'
    <3>1. LoadRegistry(registry)' = LoadRegistry(registry)
      BY <2>5
    <3>2. \A v \in RegistryWriters : command'[v].at = "loaded" => v = w
      BY <2>5, <2>7
    <3> QED BY <2>2, <2>4, <2>5, <3>1, <3>2 DEF DecisionsShown
  <2>10. SearchHolds'
    BY <2>5 DEF SearchHolds
  <2> QED BY <2>8, <2>9, <2>10
<1>2. CASE FindNoRegistry(w)
  <2> DEFINE c == [at |-> "found_none", op |-> "setup_empty", read |-> {}]
  <2>1. /\ c \in CommandRecords /\ GoodRows(c.read) /\ c.at = "found_none"
    BY IdleCommandFits DEF CommandRecords, CommandOps
  <2>2. /\ command' = [command EXCEPT ![w] = c] /\ command[w].at = "idle"
        /\ UNCHANGED <<checkout, registry, flock, outside, decision, dropped, search>>
    BY <1>2 DEF FindNoRegistry
  <2> HIDE DEF c
  <2>3. /\ command' \in [RegistryWriters -> CommandRecords] /\ command'[w] = c
        /\ \A v \in RegistryWriters \ {w} : command'[v] = command[v]
        /\ \A v \in RegistryWriters : GoodRows(command'[v].read)
    BY <2>1, <2>2, OneWriterMoves
  <2>4. \A v \in RegistryWriters : command'[v].at = "loaded" <=> command[v].at = "loaded"
    BY <2>1, <2>2, <2>3
  <2>5. RegistryShape'
    BY <2>2, <2>3, <2>4, ShapeKept DEF RegistryShape, RegistryTypeOK, Files
  <2>6. DecisionsShown'
    <3>1. LoadRegistry(registry)' = LoadRegistry(registry)
      BY <2>2
    <3>2. \A v \in RegistryWriters : command'[v].at = "loaded" => command'[v] = command[v]
      BY <2>1, <2>3
    <3> QED BY <2>2, <2>4, <3>1, <3>2 DEF DecisionsShown
  <2>7. SearchHolds'
    BY <2>2 DEF SearchHolds
  <2> QED BY <2>5, <2>6, <2>7
<1> QED BY <1>1, <1>2

\* A command that has written or given up is idle, and the lock is free.
LEMMA CommandEnds ==
  ASSUME RegistryInv, NEW w \in RegistryWriters, command[w].at = "loaded",
         command' = [command EXCEPT ![w] = IdleCommand], flock' = "free", UNCHANGED <<checkout, search>>,
         registry' \in Files, GoodRows(LoadRegistry(registry')),
         Shows(LoadRegistry(registry'), decision', dropped'),
         decision' \in [RepoKey -> {"none", "include", "exclude"}], dropped' \subseteq RepoKey
  PROVE  RegistryInv'
<1> USE DEF RegistryInv
<1>1. /\ command' \in [RegistryWriters -> CommandRecords] /\ command'[w] = IdleCommand
      /\ \A v \in RegistryWriters \ {w} : command'[v] = command[v]
      /\ \A v \in RegistryWriters : GoodRows(command'[v].read)
  BY IdleCommandFits, OneWriterMoves
<1>2. \A v \in RegistryWriters \ {w} : command[v].at # "loaded"
  BY DEF RegistryShape, RegistryTypeOK
<1>3. \A v \in RegistryWriters : command'[v].at # "loaded" /\ flock' # v
  BY <1>1, <1>2, IdleCommandFits, RegistryNumbers
<1>4. RegistryShape'
  BY <1>1, <1>3, ShapeKept DEF RegistryShape
<1>5. DecisionsShown'
  <2>1. LoadRegistry(registry)' = LoadRegistry(registry')
    BY DEF LoadRegistry
  <2> QED BY <1>3, <2>1 DEF DecisionsShown
<1>6. SearchHolds'
  BY DEF SearchHolds
<1> QED BY <1>4, <1>5, <1>6

\* A refresh, or a setup that discovers, keeps the decisions on what it finds.
LEMMA RefreshKeeps ==
  ASSUME RegistryInv, NEW w \in RegistryWriters, RefreshRegistry(w)
  PROVE  RegistryInv'
<1> USE DEF RegistryInv
<1> DEFINE old == command[w].read
           new == command[w].op = "setup"
           Written(found) == MergedRows(found, old, new)
<1>1. PICK found \in Discoveries(command[w].op = "refresh_shallow") : PublishRegistry(Written(found))
  BY DEF RefreshRegistry
<1>2. /\ command[w].at = "loaded" /\ command' = [command EXCEPT ![w] = IdleCommand] /\ flock' = "free"
      /\ UNCHANGED <<checkout, decision, search>>
  BY DEF RefreshRegistry
<1>3. /\ GoodRows(old) /\ checkout \in [RepoPaths -> 0..Gone] /\ Shows(old, decision, dropped)
      /\ Shows(LoadRegistry(registry), decision, dropped) /\ GoodRows(LoadRegistry(registry))
  BY <1>2 DEF RegistryShape, DecisionsShown
<1> DEFINE rows == Written(found)
<1>4. /\ GoodRows(rows)
      /\ \A k \in KeysOf(rows) : \A e \in old :
           KeyOf(e) = k => \E r \in rows : KeyOf(r) = k /\ (e.reason # "discovered" => r = e)
  <2>1. new \in BOOLEAN
    BY Zenon
  <2> HIDE DEF new, old
  <2> QED BY <1>3, <2>1, MergeIsGood
<1>5. registry' = RegistryPayload(rows) /\ dropped' = dropped \cup (KeysOf(LoadRegistry(registry)) \ KeysOf(rows))
  BY <1>1 DEF PublishRegistry
<1> HIDE DEF rows, old
<1>6. registry' \in Files /\ LoadRegistry(registry') = rows
  BY <1>4, <1>5, PayloadLoads
<1>7. Shows(rows, decision, dropped')
  <2> SUFFICES ASSUME NEW k \in RepoKey \ dropped', decision[k] # "none"
               PROVE  \E row \in rows : /\ KeyOf(row) = k /\ row.included = (decision[k] = "include")
                                         /\ row.reason = "manual"
    BY DEF Shows
  <2>1. k \in RepoKey \ dropped
    BY <1>5
  <2>2. PICK row \in LoadRegistry(registry) : KeyOf(row) = k
    BY <1>3, <2>1 DEF Shows
  <2>3. k \in KeysOf(rows)
    BY <1>5, <2>2 DEF KeysOf
  <2>4. PICK e \in old : KeyOf(e) = k /\ e.included = (decision[k] = "include") /\ e.reason = "manual"
    BY <1>3, <2>1 DEF Shows
  <2>5. PICK r \in rows : KeyOf(r) = k /\ r = e
    BY <1>4, <2>3, <2>4
  <2> QED BY <2>4, <2>5
<1>8. dropped' \subseteq RepoKey /\ decision' \in [RepoKey -> {"none", "include", "exclude"}]
  BY <1>2, <1>3, <1>5, GoodKeys DEF RegistryShape, RegistryTypeOK
<1> QED BY <1>2, <1>4, <1>6, <1>7, <1>8, CommandEnds

\* An include or exclude changes the row it matches and no other.
LEMMA IncludeKeeps ==
  ASSUME RegistryInv, NEW w \in RegistryWriters, SetIncluded(w)
  PROVE  RegistryInv'
<1> USE DEF RegistryInv
<1> DEFINE old == command[w].read
           loaded == LoadRegistry(registry)
           op == command[w].op
<1>1. /\ command[w].at = "loaded" /\ command' = [command EXCEPT ![w] = IdleCommand] /\ flock' = "free"
      /\ op \in {"include", "exclude"} /\ UNCHANGED <<checkout, search>>
  BY DEF SetIncluded
<1>2. /\ GoodRows(old) /\ Shows(old, decision, dropped) /\ Shows(loaded, decision, dropped) /\ GoodRows(loaded)
      /\ registry \in Files /\ dropped \subseteq RepoKey /\ decision \in [RepoKey -> {"none", "include", "exclude"}]
  BY <1>1 DEF RegistryShape, DecisionsShown, RegistryTypeOK, Files
<1>3. CASE UNCHANGED <<registry, decision, dropped>>
  BY <1>1, <1>2, <1>3, CommandEnds
<1>4. CASE \E target \in old :
             LET new == [target EXCEPT !.included = op = "include", !.reason = "manual"]
             IN  /\ registry' = RegistryPayload((old \ {target}) \cup {new})
                 /\ dropped' = (dropped \cup (KeysOf(loaded) \ KeysOf(old))) \ {KeyOf(target)}
                 /\ decision' = [decision EXCEPT ![KeyOf(target)] = op]
  <2>1. PICK target \in old :
             LET new == [target EXCEPT !.included = op = "include", !.reason = "manual"]
             IN  /\ registry' = RegistryPayload((old \ {target}) \cup {new})
                 /\ dropped' = (dropped \cup (KeysOf(loaded) \ KeysOf(old))) \ {KeyOf(target)}
                 /\ decision' = [decision EXCEPT ![KeyOf(target)] = op]
    BY <1>4
  <2> DEFINE new == [target EXCEPT !.included = op = "include", !.reason = "manual"]
             rows == (old \ {target}) \cup {new}
             key == KeyOf(target)
  <2>2. target \in RegistryRow /\ target.sound = TRUE /\ \A r \in old : r.path = target.path => r = target
    BY <1>2 DEF GoodRows
  <2>3. (op = "include") \in BOOLEAN
    BY Zenon
  <2>4. /\ new \in RegistryRow /\ new.sound = TRUE /\ new.path = target.path /\ new.remote = target.remote
        /\ new.included = (op = "include") /\ new.reason = "manual"
    BY <2>2, <2>3 DEF RegistryRow
  <2>5. /\ registry' = RegistryPayload(rows) /\ decision' = [decision EXCEPT ![key] = op]
        /\ dropped' = (dropped \cup (KeysOf(loaded) \ KeysOf(old))) \ {key}
    BY <2>1
  <2>6. KeyOf(new) = key /\ key \in RepoKey
    BY <2>2, <2>4, KeysAreKeys DEF KeyOf
  <2> HIDE DEF new, old, loaded, op
  <2>7. GoodRows(rows)
    BY <1>2, <2>2, <2>4 DEF GoodRows
  <2>8. /\ decision' \in [RepoKey -> {"none", "include", "exclude"}] /\ decision'[key] = op
        /\ \A k \in RepoKey \ {key} : decision'[k] = decision[k]
    BY <1>1, <1>2, <2>5, <2>6
  <2>9. dropped' \subseteq RepoKey
    BY <1>2, <2>5, GoodKeys
  <2>10. new \in rows /\ \A r \in old : r # target => r \in rows
    OBVIOUS
  <2>11. \A r \in old : KeyOf(r) # key => r # target
    OBVIOUS
  <2> HIDE DEF rows, key
  <2>12. registry' \in Files /\ LoadRegistry(registry') = rows
    BY <2>5, <2>7, PayloadLoads
  <2>13. Shows(rows, decision', dropped')
    <3> SUFFICES ASSUME NEW k \in RepoKey \ dropped', decision'[k] # "none"
                 PROVE  \E row \in rows : /\ KeyOf(row) = k /\ row.included = (decision'[k] = "include")
                                           /\ row.reason = "manual"
      BY DEF Shows
    <3>1. CASE k = key
      <4>1. KeyOf(new) = k /\ new.included = (decision'[k] = "include") /\ new.reason = "manual"
        BY <2>4, <2>6, <2>8, <3>1
      <4> QED BY <2>10, <4>1
    <3>2. CASE k # key
      <4>1. k \in RepoKey \ dropped /\ decision'[k] = decision[k]
        BY <2>5, <2>8, <3>2
      <4>2. PICK e \in old : KeyOf(e) = k /\ e.included = (decision[k] = "include") /\ e.reason = "manual"
        BY <1>2, <4>1 DEF Shows
      <4> QED BY <2>10, <2>11, <3>2, <4>1, <4>2
    <3> QED BY <3>1, <3>2
  <2> QED BY <1>1, <2>7, <2>8, <2>9, <2>12, <2>13, CommandEnds
<1>5. PICK selector \in Selectors :
        LET matches == Matching(old, selector)
        IN  IF Cardinality(matches) # 1
            THEN UNCHANGED <<registry, decision, dropped>>
            ELSE LET target == CHOOSE t \in matches : TRUE
                     new == [target EXCEPT !.included = op = "include", !.reason = "manual"]
                 IN  /\ registry' = RegistryPayload((old \ {target}) \cup {new})
                     /\ dropped' = (dropped \cup (KeysOf(loaded) \ KeysOf(old))) \ {KeyOf(target)}
                     /\ decision' = [decision EXCEPT ![KeyOf(target)] = op]
  BY DEF SetIncluded
<1>6. CASE Cardinality(Matching(old, selector)) = 1
  <2> DEFINE matches == Matching(old, selector)
             target == CHOOSE t \in matches : TRUE
  <2>1. matches # {}
    BY <1>6, FS_EmptySet
  <2>2. target \in old
    BY <2>1 DEF Matching
  <2> QED BY <1>4, <1>5, <1>6, <2>2
<1>7. CASE Cardinality(Matching(old, selector)) # 1
  BY <1>3, <1>5, <1>7
<1> QED BY <1>6, <1>7

\* Setup without discovery takes every row, and with them every decision.
LEMMA EmptyKeeps ==
  ASSUME RegistryInv, NEW w \in RegistryWriters, CreateEmpty(w)
  PROVE  RegistryInv'
<1> USE DEF RegistryInv
<1>1. /\ command[w].at = "found_none" /\ command' = [command EXCEPT ![w] = IdleCommand]
      /\ registry' = RegistryPayload({}) /\ dropped' = dropped \cup (KeysOf(LoadRegistry(registry)) \ KeysOf({}))
      /\ UNCHANGED <<checkout, flock, decision, search>>
  BY DEF CreateEmpty, PublishRegistry
<1>2. registry' \in Files /\ LoadRegistry(registry') = {}
  BY <1>1, IdleCommandFits, PayloadLoads
<1>3. /\ command' \in [RegistryWriters -> CommandRecords] /\ command'[w] = IdleCommand
      /\ \A v \in RegistryWriters \ {w} : command'[v] = command[v]
      /\ \A v \in RegistryWriters : GoodRows(command'[v].read)
  BY <1>1, IdleCommandFits, OneWriterMoves
<1>4. \A v \in RegistryWriters : command'[v].at = "loaded" <=> command[v].at = "loaded"
  BY <1>1, <1>3, IdleCommandFits
<1>5. KeysOf(LoadRegistry(registry)) \subseteq RepoKey /\ KeysOf({}) = {}
  BY GoodKeys DEF RegistryShape, KeysOf
<1>6. RegistryShape'
  BY <1>1, <1>2, <1>3, <1>4, <1>5, IdleCommandFits, ShapeKept DEF RegistryShape, RegistryTypeOK
<1>7. \A rows : Shows(rows, decision, dropped')
  BY <1>1, <1>5, NothingToShow DEF DecisionsShown
<1>8. DecisionsShown'
  BY <1>1, <1>7 DEF DecisionsShown
<1>9. SearchHolds'
  BY <1>1 DEF SearchHolds
<1> QED BY <1>6, <1>8, <1>9

\* A crash leaves the file and frees the lock.
LEMMA CrashKeeps ==
  ASSUME RegistryInv, NEW w \in RegistryWriters, CommandCrash(w)
  PROVE  RegistryInv'
<1> USE DEF RegistryInv
<1> DEFINE c == [IdleCommand EXCEPT !.at = "crashed"]
<1>1. /\ command' = [command EXCEPT ![w] = c] /\ flock' = IF flock = w THEN "free" ELSE flock
      /\ UNCHANGED <<checkout, registry, decision, dropped, search>>
  BY DEF CommandCrash
<1>2. c \in CommandRecords /\ GoodRows(c.read) /\ c.at = "crashed"
  BY IdleCommandFits
<1> HIDE DEF c
<1>3. /\ command' \in [RegistryWriters -> CommandRecords] /\ command'[w] = c
      /\ \A v \in RegistryWriters \ {w} : command'[v] = command[v]
      /\ \A v \in RegistryWriters : GoodRows(command'[v].read)
  BY <1>1, <1>2, OneWriterMoves
<1>4. flock' \in RegistryWriters \cup {"free"} /\ \A v \in RegistryWriters : command[v].at = "loaded" <=> flock = v
  BY <1>1 DEF RegistryShape, RegistryTypeOK
<1>5. \A v \in RegistryWriters : command'[v].at = "loaded" <=> flock' = v
  BY <1>1, <1>2, <1>3, <1>4, RegistryNumbers
<1>6. RegistryShape'
  BY <1>1, <1>3, <1>4, <1>5, ShapeKept DEF RegistryShape, RegistryTypeOK, Files
<1>7. \A v \in RegistryWriters : command'[v].at = "loaded" => command'[v] = command[v]
  BY <1>2, <1>3
<1>8. DecisionsShown'
  <2>1. LoadRegistry(registry)' = LoadRegistry(registry)
    BY <1>1
  <2> QED BY <1>1, <1>7, <2>1 DEF DecisionsShown
<1>9. SearchHolds'
  BY <1>1 DEF SearchHolds
<1> QED BY <1>6, <1>8, <1>9

\* Neither checkouts that move nor an editor disturb the decisions.
LEMMA OutsideKeeps ==
  ASSUME RegistryInv, MoveCheckout \/ EditFile
  PROVE  RegistryInv'
<1> USE DEF RegistryInv
<1>1. CASE MoveCheckout
  <2>1. /\ UNCHANGED <<registry, flock, command, decision, dropped, search>>
        /\ \E p \in 1..NPaths, r \in 1..Gone : checkout' = [checkout EXCEPT ![p] = r]
    BY <1>1 DEF MoveCheckout
  <2>2. checkout' \in [RepoPaths -> 0..Gone]
    <3>1. PICK p \in 1..NPaths, r \in 1..Gone : checkout' = [checkout EXCEPT ![p] = r]
      BY <2>1
    <3>2. r \in 0..Gone
      BY RegistryNumbers
    <3> QED BY <3>1, <3>2 DEF RegistryShape
  <2>3. RegistryShape'
    BY <2>1, <2>2, ShapeKept DEF RegistryShape, RegistryTypeOK, Files
  <2>4. DecisionsShown' /\ SearchHolds'
    BY <2>1 DEF DecisionsShown, SearchHolds
  <2> QED BY <2>3, <2>4
<1>2. CASE EditFile
  <2>1. /\ UNCHANGED <<checkout, flock, command, decision, search>>
        /\ dropped' = dropped \cup KeysOf(LoadRegistry(registry))
    BY <1>2 DEF EditFile
  <2>2. registry' \in Files /\ LoadRegistry(registry') = {}
    BY <1>2, EditsEmpty DEF RegistryShape, RegistryTypeOK, Files
  <2>3. KeysOf(LoadRegistry(registry)) \subseteq RepoKey
    BY GoodKeys DEF RegistryShape
  <2>4. RegistryShape'
    BY <2>1, <2>2, <2>3, IdleCommandFits, ShapeKept DEF RegistryShape, RegistryTypeOK
  <2>5. \A rows : Shows(rows, decision, dropped')
    BY <2>1, NothingToShow DEF DecisionsShown
  <2>6. DecisionsShown' /\ SearchHolds'
    BY <2>1, <2>5 DEF DecisionsShown, SearchHolds
  <2> QED BY <2>4, <2>6
<1> QED BY <1>1, <1>2

\* The roots of a search hold no repository that stands excluded.
LEMMA RootsAreAccepted ==
  ASSUME RegistryInv
  PROVE  /\ WorkspaceRoots \in Seq(Nat)
         /\ \A k \in RepoKey \ dropped : decision[k] = "exclude" /\ k.path # 0 => k.path \notin Members(WorkspaceRoots)
<1> USE DEF RegistryInv
<1> DEFINE rows == LoadRegistry(registry)
           control == IF checkout[0] # Gone \/ RegistryRoots = {} THEN {0} ELSE {}
           all == control \cup RegistryRoots \cup LegacyRoots
<1>1. GoodRows(rows) /\ Shows(rows, decision, dropped)
  BY DEF RegistryShape, DecisionsShown
<1>2. WorkspaceRoots = FirstOf(MaxRoots, Ascending(all))
  BY DEF WorkspaceRoots
<1>3. \A p \in RegistryRoots : p \in RepoPaths /\ \E r \in rows : r.path = p /\ r.included
  BY <1>1 DEF RegistryRoots, AcceptedRows, GoodRows, RegistryRow
<1>4. control \subseteq {0} /\ 0 \in RepoPaths
  BY RegistryNumbers
<1> HIDE DEF control, rows
<1>5. IsFiniteSet(all) /\ all \in SUBSET Nat
  <2>1. control \cup RegistryRoots \in SUBSET RepoPaths
    BY <1>3, <1>4
  <2>2. IsFiniteSet(control \cup RegistryRoots)
    BY <2>1, RegistryNumbers, FS_Subset
  <2>3. IsFiniteSet(LegacyRoots) /\ \A r \in LegacyRoots : r \in Nat /\ r > NPaths
    BY RegistryAssumption
  <2>4. all = (control \cup RegistryRoots) \cup LegacyRoots
    OBVIOUS
  <2>5. IsFiniteSet((control \cup RegistryRoots) \cup LegacyRoots)
    BY <2>2, <2>3, FS_Union
  <2> QED BY <2>1, <2>3, <2>4, <2>5, RegistryNumbers
<1>6. \A k \in RepoKey \ dropped : decision[k] = "exclude" /\ k.path # 0 => k.path \notin all
  <2> SUFFICES ASSUME NEW k \in RepoKey \ dropped, decision[k] = "exclude", k.path # 0, k.path \in all
               PROVE  FALSE
    OBVIOUS
  <2>1. k.path \in RepoPaths
    BY DEF RepoKey
  <2>2. k.path \notin LegacyRoots
    BY <2>1, RegistryAssumption, RegistryNumbers
  <2>3. PICK r \in rows : r.path = k.path /\ r.included
    BY <1>3, <1>4, <2>2
  <2>4. PICK e \in rows : KeyOf(e) = k /\ e.included = (decision[k] = "include")
    BY <1>1 DEF Shows
  <2>5. e.path = k.path /\ ~e.included
    BY <2>4 DEF KeyOf
  <2> QED BY <1>1, <2>3, <2>5 DEF GoodRows
<1> HIDE DEF all
<1>7. Ascending(all) \in Seq(all) /\ Members(Ascending(all)) = all
  BY <1>5, AscendingIs
<1> DEFINE list == Ascending(all)
<1> HIDE DEF list
<1>8. list \in Seq(Nat) /\ Members(list) = all
  <2>1. list \in Seq(all) /\ Members(list) = all /\ \A p \in all : p \in Nat
    BY <1>5, <1>7 DEF list
  <2>2. list = [i \in 1..Len(list) |-> list[i]] /\ Len(list) \in Nat /\ \A i \in 1..Len(list) : list[i] \in all
    BY <2>1
  <2> QED BY <2>1, <2>2
<1>9. FirstOf(MaxRoots, list) \in Seq(Nat) /\ Members(FirstOf(MaxRoots, list)) \subseteq Members(list)
  <2>1. MaxRoots \in Nat
    BY RegistryNumbers
  <2> QED BY <1>8, <2>1, FirstOfIs
<1> QED BY <1>2, <1>6, <1>8, <1>9 DEF list

\* The search keeps to the roots it began with.
LEMMA PlanFits ==
  ASSUME RegistryInv, PlanSearch
  PROVE  search'.at = "planned" /\ PlanHolds(search')
<1> USE DEF RegistryInv
<1>1. PICK changed \in SUBSET RepoPaths, mentioned \in SUBSET (1..NPaths) :
       LET roots == search.roots
           known == search.known
           nodes == KeysOf(AcceptedRows(registry))
           legacy == {k.path : k \in known} \cap Members(roots) = {}
           primary == FirstOf(MaxPrimary, Signalled(roots, known, changed, mentioned))
           all == IF legacy THEN roots ELSE primary \o Expansions(roots, primary, known, nodes)
           plan == FirstOf(MaxRoots, all)
       IN  search' = [at |-> "planned", roots |-> roots, excluded |-> search.excluded,
                      known |-> known, nodes |-> nodes, legacy |-> legacy, primary |-> primary,
                      plan |-> plan]
  BY DEF PlanSearch
<1> DEFINE roots == search.roots
           known == search.known
           nodes == KeysOf(AcceptedRows(registry))
           legacy == {k.path : k \in known} \cap Members(roots) = {}
           signalled == Signalled(roots, known, changed, mentioned)
           primary == FirstOf(MaxPrimary, signalled)
           targets == ({k.path : k \in known \cap nodes} \cap Members(roots)) \ Members(primary)
           expanded == Expansions(roots, primary, known, nodes)
           all == IF legacy THEN roots ELSE primary \o expanded
           plan == FirstOf(MaxRoots, all)
<1>2. search.at = "identities" /\ roots \in Seq(Nat) /\ search.excluded \cap Members(roots) \subseteq {0} /\ known \subseteq RepoKey
  BY DEF PlanSearch, SearchHolds, RootsHold
<1>3. /\ search'.at = "planned" /\ search'.roots = roots /\ search'.excluded = search.excluded
      /\ search'.known = known /\ search'.nodes = nodes /\ search'.legacy = legacy
      /\ search'.primary = primary /\ search'.plan = plan
  BY <1>1
<1>4. \A k \in RepoKey : k.path \in Nat
  BY RegistryNumbers DEF RepoKey
<1>5. targets \in SUBSET Nat /\ targets \subseteq Members(roots) /\ \A p \in targets : \E k \in known \cap nodes : k.path = p
  BY <1>2, <1>4
<1>6. expanded = ExpansionsTo(targets, {k \in known : k.path \in Members(primary)}, nodes)
  BY DEF Expansions
<1>7. legacy <=> \A k \in known : k.path \notin Members(roots)
  BY Zenon
<1>8. legacy \in BOOLEAN
  BY Zenon
<1> HIDE DEF roots, known, nodes, legacy, targets
<1>9. signalled \in Seq(Nat) /\ Members(signalled) \subseteq Members(roots)
  BY <1>2, PrimariesAreRoots
<1> HIDE DEF signalled
<1>10. primary \in Seq(Nat) /\ Members(primary) \subseteq Members(roots) /\ Len(primary) <= MaxPrimary /\ Len(primary) \in Nat
  <2>1. MaxPrimary \in Nat
    BY RegistryNumbers
  <2>2. primary \in Seq(Nat) /\ Members(primary) \subseteq Members(signalled) /\ Len(primary) <= MaxPrimary
    BY <1>9, <2>1, FirstOfIs
  <2> HIDE DEF primary
  <2> QED BY <1>9, <2>2
<1> DEFINE ids == {k \in known : k.path \in Members(primary)}
<1> HIDE DEF ids
<1>11. expanded \in Seq(Nat) /\ Len(expanded) <= MaxExpansions /\ Members(expanded) \subseteq targets /\ Len(expanded) \in Nat
  <2>1. expanded = ExpansionsTo(targets, ids, nodes)
    BY <1>6 DEF ids
  <2>2. LET x == ExpansionsTo(targets, ids, nodes)
        IN  x \in Seq(Nat) /\ Len(x) <= MaxExpansions /\ Members(x) \subseteq targets
    BY <1>5, ExpansionsAreTargets
  <2> HIDE DEF expanded
  <2> QED BY <2>1, <2>2
<1> HIDE DEF primary, expanded
<1>12. /\ all \in Seq(Nat) /\ Members(all) \subseteq Members(roots)
       /\ ~legacy => Members(all) \subseteq Members(primary) \cup targets /\ Len(all) <= MaxPrimary + MaxExpansions
  <2>1. /\ primary \o expanded \in Seq(Nat) /\ Len(primary \o expanded) = Len(primary) + Len(expanded)
        /\ Members(primary \o expanded) = Members(primary) \cup Members(expanded)
    BY <1>10, <1>11, MembersJoined
  <2>2. CASE legacy
    BY <1>2, <2>2
  <2>3. CASE ~legacy
    <3> DEFINE joined == primary \o expanded
    <3>1. all = joined
      BY <2>3
    <3>2. Members(joined) \subseteq Members(primary) \cup targets /\ Members(joined) \subseteq Members(roots)
      BY <1>5, <1>10, <1>11, <2>1
    <3>3. Len(joined) <= MaxPrimary + MaxExpansions
      BY <1>10, <1>11, <2>1, RegistryNumbers
    <3> HIDE DEF joined, all
    <3> QED BY <2>1, <3>1, <3>2, <3>3 DEF joined
  <2> QED BY <2>2, <2>3
<1> HIDE DEF all
<1>13. /\ plan \in Seq(Nat) /\ Members(plan) \subseteq Members(all) /\ Len(plan) <= Len(all)
       /\ Len(plan) \in Nat /\ Len(all) \in Nat
  <2>1. MaxRoots \in Nat
    BY RegistryNumbers
  <2>2. plan \in Seq(Nat) /\ Members(plan) \subseteq Members(all)
    BY <1>12, <2>1, FirstOfIs
  <2>3. Len(plan) <= Len(all)
    BY <1>12, <2>1 DEF FirstOf
  <2> HIDE DEF plan
  <2> QED BY <1>12, <2>2, <2>3
<1> HIDE DEF plan
<1>14. search'.excluded \cap Members(search'.plan) \subseteq {0} /\ Members(search'.plan) \subseteq Members(search'.roots)
  BY <1>2, <1>3, <1>12, <1>13
<1>15. Len(search'.plan) > MaxPrimary + MaxExpansions => \A k \in search'.known : k.path \notin Members(search'.roots)
  <2>1. Len(plan) > MaxPrimary + MaxExpansions => legacy
    BY <1>12, <1>13, RegistryNumbers
  <2> QED BY <1>3, <1>7, <2>1
<1>16. \A p \in Members(search'.plan) \ Members(search'.primary) :
         search'.legacy \/ \E k \in search'.known \cap search'.nodes : k.path = p
  <2> SUFFICES ASSUME NEW p \in Members(plan) \ Members(primary), ~legacy
               PROVE  \E k \in known \cap nodes : k.path = p
    BY <1>3
  <2>1. p \in targets
    BY <1>12, <1>13
  <2> QED BY <1>5, <2>1
<1> QED BY <1>3, <1>14, <1>15, <1>16 DEF PlanHolds

\* The reads of a search change nothing but the search.
LEMMA SearchKeeps ==
  ASSUME RegistryInv, StartSearch \/ ReadIdentities \/ PlanSearch
  PROVE  RegistryInv'
<1>1. UNCHANGED <<checkout, registry, flock, command, decision, dropped>>
  BY DEF StartSearch, ReadIdentities, PlanSearch
<1>2. RegistryShape'
  BY <1>1, ShapeKept DEF RegistryInv, RegistryShape, RegistryTypeOK, Files
<1>3. DecisionsShown'
  BY <1>1 DEF RegistryInv, DecisionsShown
<1>4. CASE StartSearch
  <2> DEFINE excluded == {k.path : k \in {d \in RepoKey : decision[d] = "exclude"} \ dropped}
  <2>1. search' = [at |-> "roots", roots |-> WorkspaceRoots, excluded |-> excluded]
    BY <1>4 DEF StartSearch
  <2>2. WorkspaceRoots \in Seq(Nat) /\ excluded \cap Members(WorkspaceRoots) \subseteq {0}
    BY RootsAreAccepted
  <2> HIDE DEF excluded
  <2>3. search'.at = "roots" /\ search'.roots = WorkspaceRoots /\ search'.excluded = excluded
    BY <2>1
  <2>4. SearchHolds'
    BY <2>2, <2>3 DEF SearchHolds, RootsHold
  <2> QED BY <1>2, <1>3, <2>4 DEF RegistryInv
<1>5. CASE ReadIdentities
  <2>1. /\ search.at = "roots"
        /\ search' = [at |-> "identities", roots |-> search.roots, excluded |-> search.excluded,
                      known |-> KeysOf(AcceptedRows(registry))]
    BY <1>5 DEF ReadIdentities
  <2>2. KeysOf(AcceptedRows(registry)) \subseteq RepoKey
    <3>1. GoodRows(AcceptedRows(registry))
      BY DEF RegistryInv, RegistryShape, GoodRows, AcceptedRows
    <3> QED BY <3>1, GoodKeys
  <2>3. SearchHolds'
    BY <2>1, <2>2 DEF RegistryInv, SearchHolds, RootsHold
  <2> QED BY <1>2, <1>3, <2>3 DEF RegistryInv
<1>6. CASE PlanSearch
  <2>1. search'.at = "planned" /\ PlanHolds(search')
    BY <1>6, PlanFits
  <2>2. SearchHolds'
    BY <2>1 DEF SearchHolds, PlanHolds
  <2> QED BY <1>2, <1>3, <2>2 DEF RegistryInv
<1> QED BY <1>4, <1>5, <1>6

\* Every step of a command, of the environment and of a search preserves it.
LEMMA RegistryNextKeeps == RegistryInv /\ [RegistryNext]_registryVars => RegistryInv'
<1> SUFFICES ASSUME RegistryInv, [RegistryNext]_registryVars PROVE RegistryInv'
  OBVIOUS
<1>1. CASE UNCHANGED registryVars
  <2>1. UNCHANGED <<checkout, registry, flock, command, decision, dropped, search>>
    BY <1>1 DEF registryVars
  <2>2. RegistryShape'
    BY <2>1, ShapeKept DEF RegistryInv, RegistryShape, RegistryTypeOK, Files
  <2>3. DecisionsShown' /\ SearchHolds'
    BY <2>1 DEF RegistryInv, DecisionsShown, SearchHolds
  <2> QED BY <2>2, <2>3 DEF RegistryInv
<1>2. ASSUME NEW w \in RegistryWriters,
             \/ LockRegistry(w) \/ FindNoRegistry(w) \/ RefreshRegistry(w) \/ SetIncluded(w)
             \/ CreateEmpty(w) \/ CommandCrash(w)
      PROVE  RegistryInv'
  BY <1>2, CommandStarts, RefreshKeeps, IncludeKeeps, EmptyKeeps, CrashKeeps
<1>3. CASE MoveCheckout \/ EditFile
  BY <1>3, OutsideKeeps
<1>4. CASE StartSearch \/ ReadIdentities \/ PlanSearch
  BY <1>4, SearchKeeps
<1> QED BY <1>1, <1>2, <1>3, <1>4 DEF RegistryNext

\* An acknowledged include or exclude stands while its repository stays in the
\* registry; a search never visits what was excluded when it began, nor leaves the
\* roots and reviewed expansions it read: for any number of processes, commands,
\* checkouts and edits by hand (refresh_registry, set_repository_included,
\* plan_repository_retrieval).
THEOREM RegistryIsSafe == RegistrySpec => []RegistrySafety
<1>1. RegistryInv => RegistrySafety
  <2> SUFFICES ASSUME RegistryInv PROVE RegistrySafety
    OBVIOUS
  <2>1. RegistryTypeOK
    BY DEF RegistryInv, RegistryShape
  <2>2. DecisionsKept
    BY DEF RegistryInv, DecisionsShown, Shows, DecisionsKept
  <2>3. ExcludedIsNotSearched /\ PlanStaysReviewed
    BY DEF RegistryInv, SearchHolds, PlanHolds, ExcludedIsNotSearched, PlanStaysReviewed
  <2> QED BY <2>1, <2>2, <2>3 DEF RegistrySafety
<1> QED BY <1>1, RegistryInitFits, RegistryNextKeeps, PTL DEF RegistrySpec
=============================================================================
