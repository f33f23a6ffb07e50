------------------------- MODULE StructuralEvidence -------------------------
(***************************************************************************)
(* One crg_context call (context_broker.py): the Code Review Graph is      *)
(* asked for an anchor and for each structural pattern of the query, and   *)
(* what it answers is validated against the source files and the SCIP      *)
(* index (structural_validation.py).  While the call runs the tree is      *)
(* edited and `graph sync` and `scip sync` commands rebuild both indexes.  *)
(***************************************************************************)
EXTENDS Naturals, Sequences, FiniteSets

CONSTANTS
    Related,     \* tree -> the rows a graph built from it returns; its domain is the trees
    Named,       \* tree -> the rows whose symbol occurs in their source file
    Limits,      \* values of context.max_results_per_source
    MaxTreeEdits \* bound on edits during the call

Trees == DOMAIN Related

ASSUME EvidenceAssumption ==
    /\ DOMAIN Named = Trees
    /\ Limits \subseteq Nat \ {0}
    /\ MaxTreeEdits \in Nat

VARIABLES
    treeNow,   \* the source tree
    treesSeen, \* the trees there have been since the call began
    graphOf,   \* the tree the graph was built from
    scipOf,    \* the tree the SCIP index was built from
    ask        \* the crg_context call

evidenceVars == <<treeNow, treesSeen, graphOf, scipOf, ask>>

(* What structural_requirements finds in a query; references_to is SCIP's  *)
(* only.                                                                   *)
Patterns == {"impact", "tests_for", "callers_of", "architecture"}
RelationPatterns == {"tests_for", "callers_of"}

(* No pattern in the query: impact when files changed, callers of a symbol *)
(* when there is one, the architecture otherwise.                          *)
Requested(wanted, files, symbol) ==
    IF wanted # {} THEN wanted
    ELSE IF files THEN {"impact"} ELSE IF symbol THEN {"callers_of"} ELSE {"architecture"}

NeedsAnchor(req, files) == req \cap RelationPatterns # {} \/ ("impact" \in req /\ ~files)

Asked(step, wanted) == IF wanted THEN <<step>> ELSE <<>>

(* The order in which the graph is asked; "locate" searches the file of a  *)
(* symbol that came without one.                                           *)
Script(req, files, symbol) ==
    Asked("search", NeedsAnchor(req, files) /\ ~symbol)
      \o (IF "impact" \in req THEN <<"locate", "impact">> ELSE <<>>)
      \o Asked("tests_for", "tests_for" \in req)
      \o Asked("callers_of", "callers_of" \in req)
      \o Asked("architecture", "architecture" \in req)

GraphCalls ==
    {[at |-> "ask", script |-> Script(Requested(w, f, s), f, s), limit |-> l,
      anchor |-> s, files |-> f, nested |-> n, items |-> <<>>, next |-> 1, hits |-> {}] :
        w \in SUBSET Patterns, f \in BOOLEAN, s \in BOOLEAN, l \in Limits, n \in BOOLEAN}

EvidenceStart(now, graphed, indexed, call) ==
    /\ treeNow = now /\ graphOf = graphed /\ scipOf = indexed
    /\ treesSeen = {now}
    /\ ask = call
EvidenceInit ==
    \E now, graphed, indexed \in Trees, call \in GraphCalls:
        EvidenceStart(now, graphed, indexed, call)

Item(pattern, rows) ==
    [pattern |-> pattern, rows |-> rows,
     \* the graph says "real absence" of a relation; a summary is never empty
     absent |-> rows = {} /\ pattern # "architecture",
     structural |-> TRUE, level |-> "unset", inScip |-> {}]

(* What _crg_item makes of an answer.  Architecture answers carry a        *)
(* summary and no result rows.                                             *)
CrgItem(pattern, tree) ==
    Item(pattern, IF pattern = "architecture" THEN {} ELSE Related[tree])

Step == Head(ask.script)

\* Mutant: the architecture is asked for however many results there are.
Worthwhile_AnyNumber ==
    CASE Step \in {"search", "architecture"} -> TRUE
      [] Step = "locate" -> ~ask.files /\ ask.anchor
      [] Step = "impact" -> ask.files
      [] OTHER -> ask.anchor

(* The guards crg_context puts before it asks.                             *)
Worthwhile ==
    CASE Step = "search" -> TRUE
      [] Step = "locate" -> ~ask.files /\ ask.anchor
      [] Step = "impact" -> ask.files
      [] Step = "architecture" -> Len(ask.items) < ask.limit
      [] OTHER -> ask.anchor

(* After a relation pattern: enough results end the call at once.          *)
Full(items) == Step \in RelationPatterns /\ Len(items) >= ask.limit

(* The rest of the call, once this step has brought `items`.               *)
Continue(items, anchor, files) ==
    ask' = [ask EXCEPT !.script = Tail(@), !.items = IF Full(items) THEN SubSeq(items, 1, ask.limit) ELSE items,
              !.anchor = anchor, !.files = files,
              !.at = IF Full(items) THEN "returned"
                     ELSE IF Len(ask.script) = 1 THEN "validate" ELSE "ask"]

SkipStep ==
    /\ ask.at = "ask" /\ ~Worthwhile
    /\ IF Step \in RelationPatterns     \* `continue`: the limit is not looked at
         THEN ask' = [ask EXCEPT !.script = Tail(@),
                        !.at = IF Len(ask.script) = 1 THEN "validate" ELSE "ask"]
         ELSE Continue(ask.items, ask.anchor, ask.files)
    /\ UNCHANGED <<treeNow, treesSeen, graphOf, scipOf>>

\* Mutant: the graph is asked whether or not it is fresh.
GraphFreshNow_Any == TRUE

GraphFreshNow == graphOf = treeNow

(* _run_crg: the graph's fingerprint is compared first...                  *)
CheckGraph ==
    /\ ask.at = "ask" /\ Worthwhile
    /\ IF GraphFreshNow THEN ask' = [ask EXCEPT !.at = "run"]
                        ELSE Continue(ask.items, ask.anchor, ask.files)
    /\ UNCHANGED <<treeNow, treesSeen, graphOf, scipOf>>

(* ... and then the command runs, which may fail, time out or return what  *)
(* the graph holds by then.  A search finds an anchor only if it finds rows.*)
RunGraph ==
    /\ ask.at = "run"
    /\ \/ Continue(ask.items, ask.anchor, ask.files)
       \/ /\ Step = "search"
          /\ LET found == Related[graphOf] # {}
             IN  \E path \in BOOLEAN: Continue(ask.items, found, ask.files \/ (found /\ path))
       \/ /\ Step = "locate"
          /\ Continue(ask.items, ask.anchor, Related[graphOf] # {})
       \/ /\ Step \in Patterns
          /\ Continue(Append(ask.items, CrgItem(Step, graphOf)), ask.anchor, ask.files)
    /\ UNCHANGED <<treeNow, treesSeen, graphOf, scipOf>>

(***************************************************************************)
(* validate_crg_items                                                      *)
(***************************************************************************)
\* Mutant: the SCIP index is used whether or not it is of this tree.
ScipNames_Any == IF ask.nested THEN {} ELSE Named[scipOf]

(* scip_ready(root, root) looks for the index under the repository itself: *)
(* that of a nested repository is under the workspace and is not found.    *)
ScipNames == IF ask.nested \/ scipOf # treeNow THEN {} ELSE Named[scipOf]

Current == ask.items[ask.next]

Judge(item) == ask' = [ask EXCEPT !.items[ask.next] = item, !.next = @ + 1, !.hits = {},
                         !.at = "validate"]

(* Without rows only a verified absence stands.                            *)
ValidateEmpty ==
    /\ ask.at = "validate" /\ ask.next <= Len(ask.items) /\ Current.rows = {}
    /\ Judge([Current EXCEPT !.structural = Current.absent,
                !.level = IF Current.absent THEN "corroborated" ELSE "candidate"])
    /\ UNCHANGED <<treeNow, treesSeen, graphOf, scipOf>>

(* The rows of this model share one path, and source_hits holds paths: one *)
(* row found in its file stands for every row of the file.                 *)
SourceOracle ==
    /\ ask.at = "validate" /\ ask.next <= Len(ask.items) /\ Current.rows # {}
    /\ ask' = [ask EXCEPT !.at = "scip", !.hits = Current.rows \cap Named[treeNow]]
    /\ UNCHANGED <<treeNow, treesSeen, graphOf, scipOf>>

\* Mutant: a row the graph returned needs no oracle.
Level_Graph(inSource, inScip) ==
    IF inSource /\ inScip # {} THEN "verified" ELSE "corroborated"

Level(inSource, inScip) ==
    IF inSource /\ inScip # {} THEN "verified"
    ELSE IF inSource \/ inScip # {} THEN "corroborated" ELSE "candidate"

ScipOracle ==
    /\ ask.at = "scip"
    /\ LET inScip == Current.rows \cap ScipNames
           level  == Level(ask.hits # {}, inScip)
       IN  Judge([Current EXCEPT !.level = level, !.structural = level # "candidate", !.inScip = inScip])
    /\ UNCHANGED <<treeNow, treesSeen, graphOf, scipOf>>

ReturnValidated ==
    /\ ask.at = "validate" /\ ask.next > Len(ask.items)
    /\ ask' = [ask EXCEPT !.at = "returned"]
    /\ UNCHANGED <<treeNow, treesSeen, graphOf, scipOf>>

CrgContext ==
    \/ SkipStep \/ CheckGraph \/ RunGraph
    \/ ValidateEmpty \/ SourceOracle \/ ScipOracle \/ ReturnValidated

EditTree ==
    /\ ask.at # "returned"
    /\ Cardinality(treesSeen) <= MaxTreeEdits
    /\ \E tree \in Trees \ treesSeen: treeNow' = tree /\ treesSeen' = treesSeen \cup {tree}
    /\ UNCHANGED <<graphOf, scipOf, ask>>

SyncGraph ==
    /\ ask.at # "returned" /\ graphOf # treeNow /\ graphOf' = treeNow
    /\ UNCHANGED <<treeNow, treesSeen, scipOf, ask>>

SyncScip ==
    /\ ask.at # "returned" /\ scipOf # treeNow /\ scipOf' = treeNow
    /\ UNCHANGED <<treeNow, treesSeen, graphOf, ask>>

EvidenceNext == CrgContext \/ EditTree \/ SyncGraph \/ SyncScip

EvidenceSpec == EvidenceInit /\ [][EvidenceNext]_evidenceVars

-----------------------------------------------------------------------------
(* The type of the state.  The call never returns more than the limit, and *)
(* what it returns without a level is what a full list cut short.          *)
EvidenceTypeOK ==
    /\ {treeNow, graphOf, scipOf} \subseteq Trees /\ treeNow \in treesSeen
    /\ ask.at \in {"ask", "run", "validate", "scip", "returned"}
    /\ Len(ask.items) <= ask.limit
    /\ \A i \in DOMAIN ask.items:
         /\ ask.items[i].level \in {"unset", "candidate", "corroborated", "verified"}
         /\ ask.at = "returned" /\ ask.items[i].level = "unset" => Len(ask.items) = ask.limit

Returned == {ask.items[i] : i \in DOMAIN ask.items}

(* What the call reports as related, or as verified to be absent, is what  *)
(* a graph of a tree that was there during the call says: an edit or a     *)
(* rebuild between the freshness check and the command makes it no older.  *)
RowsAreOfTheCall ==
    ask.at = "returned" =>
        \A item \in Returned:
            item.pattern # "architecture" => item.rows \in {Related[tree] : tree \in treesSeen}

NamedInCall(rows) == \E tree \in treesSeen: rows \cap Named[tree] # {}

(* A relation the call hands over as structurally valid is not the graph's *)
(* word alone: a source file of the call names one of its rows.  The early *)
(* return of crg_context breaks this (no run checks it; see the README).   *)
StructuralHadWitness ==
    ask.at = "returned" =>
        \A item \in Returned: item.structural /\ item.rows # {} => NamedInCall(item.rows)

(* So it is, at least, for all that went through the validation.           *)
ValidatedHadWitness ==
    ask.at = "returned" =>
        \A item \in Returned:
            item.structural /\ item.rows # {} /\ item.level # "unset" => NamedInCall(item.rows)

(* The SCIP entries a verified item rests on are of one tree of the call,  *)
(* not of the older tree an index may have been built from.                *)
VerifiedIsOfTheCall ==
    ask.at = "returned" =>
        \A item \in Returned:
            item.level = "verified" => \E tree \in treesSeen: item.inScip \subseteq Named[tree]

\* However the tree is edited and the indexes rebuilt during crg_context, the rows
\* it returns are of a tree of the call, what was validated had a source that
\* names it, and what is verified rests on entries of one tree of the call.
EvidenceSafety ==
  EvidenceTypeOK /\ RowsAreOfTheCall /\ ValidatedHadWitness /\ VerifiedIsOfTheCall
=============================================================================
