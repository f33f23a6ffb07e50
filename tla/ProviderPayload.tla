-------------------------- MODULE ProviderPayload --------------------------
(***************************************************************************)
(* The answer of a command provider: the complete output of a process that *)
(* ended well, read as JSON or JSONL, checked record by record and turned  *)
(* into context items.  Whatever the records claim, the items are labelled *)
(* by this code; one invalid record refuses the whole answer.              *)
(*                                                                         *)
(* A record is what the checks tell apart: whether it is an object, the    *)
(* levels nested in it, its text, whether its other fields are valid, its  *)
(* score (0 where it has none, -1 where it is no number within bounds),    *)
(* the path it names and what its metadata says.                           *)
(***************************************************************************)
EXTENDS Integers, Sequences, FiniteSets, SequencesExt

CONSTANTS
  RecordPool,     \* the records a provider may send
  MaxRecords,     \* MAX_PROVIDER_RECORDS
  MaxNest,        \* MAX_PROVIDER_NESTING_DEPTH
  PayloadLimits,  \* the limits of the request
  ProviderTrust   \* executable_trust of the specification

Keys == {"path", "provider", "provider_trust", "trust", "retriever"}
Texts == {"said", "blank", "notString"}
PathForms == {"none", "inside", "outside"}

\* A path that metadata names leads into the workspace or out of it; what the
\* other keys say is only carried along.
RecordShape(record) ==
  /\ record.object \in BOOLEAN /\ record.nest \in Nat /\ record.text \in Texts
  /\ record.fine \in BOOLEAN /\ record.score \in Int /\ record.path \in PathForms
  /\ DOMAIN record.metadata \subseteq Keys
  /\ "path" \in DOMAIN record.metadata => record.metadata["path"] \in PathForms \ {"none"}

ASSUME PayloadAssumption ==
  /\ \A record \in RecordPool : RecordShape(record)
  /\ MaxRecords \in Nat \ {0} /\ MaxNest \in Nat
  /\ PayloadLimits \subseteq Nat

VARIABLE payload \* the answer, where its reading is, and the result

payloadVars == payload

Forms == {"array", "object", "jsonl"}
NotJson == {"empty", "mapping", "broken"}

(* A text is one of the three forms with its records; nothing at all; an   *)
(* object without an items array, or another value; or no JSON of ours: a  *)
(* duplicate key, a non-standard constant, a line that does not parse.     *)
ProviderTexts ==
  [form : NotJson, records : {<<>>}]
    \cup [form : {"array", "object"}, records : BoundedSeq(RecordPool, MaxRecords + 1)]
    \cup [form : {"jsonl"}, records : BoundedSeq(RecordPool, MaxRecords + 1) \ {<<>>}]

PayloadStart(answer, limit) ==
  payload = [at |-> "received", form |-> answer.form, records |-> answer.records,
             limit |-> limit, next |-> 1, items |-> <<>>, error |-> "none"]

PayloadInit == \E answer \in ProviderTexts, limit \in PayloadLimits : PayloadStart(answer, limit)

\* A refusal that keeps the items converted before it.
Refuse_KeepsItems(kind) == payload' = [payload EXCEPT !.at = "returned", !.error = kind]

Refuse(kind) == payload' = [payload EXCEPT !.at = "returned", !.items = <<>>, !.error = kind]

-----------------------------------------------------------------------------
(* _parse_records *)

ValidJson(record, depth) == depth + record.nest <= MaxNest

\* A document is validated as a whole, its rows below the containers they are in.
DocumentRead(form, records) ==
  /\ Len(records) <= MaxRecords
  /\ \A i \in DOMAIN records :
        records[i].object /\ ValidJson(records[i], IF form = "array" THEN 1 ELSE 2)

\* Reads one line too many.
LinesRead_OneMore(records) ==
  \A i \in DOMAIN records : i - 1 <= MaxRecords /\ ValidJson(records[i], 0) /\ records[i].object

\* Each line is a document of its own; the count is checked before a line is read.
LinesRead(records) ==
  \A i \in DOMAIN records : i - 1 < MaxRecords /\ ValidJson(records[i], 0) /\ records[i].object

\* A single line is one document, an object without an items array.
ParseRecords(form, records) ==
  \/ form \in {"array", "object"} /\ DocumentRead(form, records)
  \/ form = "jsonl" /\ Len(records) > 1 /\ LinesRead(records)

ReadAnswer ==
  /\ payload.at = "received"
  /\ \/ payload.form = "empty" /\ Refuse("empty_output")
     \/ /\ payload.form # "empty"
        /\ IF ParseRecords(payload.form, payload.records)
           THEN payload' = [payload EXCEPT !.at = "records"]
           ELSE Refuse("invalid_payload")

-----------------------------------------------------------------------------
(* _context_items *)

Record == payload.records[payload.next]

Invalid(record) ==
  \/ ~ValidJson(record, 0) \/ record.text = "notString"
  \/ record.text = "said" /\ (~record.fine \/ record.score < 0)

\* The record's own path goes over its metadata, the defaults of the caller over
\* both, and the labels of this code over everything.
Updated(old, new) ==
  [key \in DOMAIN old \cup DOMAIN new |-> IF key \in DOMAIN new THEN new[key] ELSE old[key]]

NamedPath(record) ==
  IF record.path = "none" THEN [key \in {} |-> "none"] ELSE [path |-> record.path]
Defaults == [retriever |-> "spec.name"]
Labels == [provider |-> "spec.name", provider_trust |-> ProviderTrust,
           trust |-> "untrusted_repository_content"]
Labelled(metadata) == Updated(Updated(metadata, Defaults), Labels)
Merged(record) == Labelled(Updated(record.metadata, NamedPath(record)))

\* confine_metadata_paths: a path that leaves the workspace is dropped.
Confined(metadata) ==
  IF "path" \in DOMAIN metadata /\ metadata["path"] = "outside"
  THEN [key \in DOMAIN metadata \ {"path"} |-> metadata[key]] ELSE metadata

\* Confines what the metadata names before the record's own path is merged in.
ItemOf_ConfinedEarly(record) ==
  [record |-> payload.next, score |-> record.score,
   metadata |-> Labelled(Updated(Confined(record.metadata), NamedPath(record)))]

ItemOf(record) ==
  [record |-> payload.next, score |-> record.score, metadata |-> Confined(Merged(record))]

SkipBlank ==
  /\ payload.at = "records" /\ payload.next <= Len(payload.records)
  /\ Record.text = "blank" /\ ~Invalid(Record)
  /\ payload' = [payload EXCEPT !.next = @ + 1]

ConvertRecord ==
  /\ payload.at = "records" /\ payload.next <= Len(payload.records)
  /\ Record.text # "blank" /\ ~Invalid(Record)
  /\ payload' = [payload EXCEPT !.next = @ + 1, !.items = Append(@, ItemOf(Record))]

RefuseRecord ==
  /\ payload.at = "records" /\ payload.next <= Len(payload.records)
  /\ Invalid(Record)
  /\ Refuse("invalid_payload")

\* A stable sort by falling score puts the positions in one of these orders --
\* there is just one.
Above(a, b) == a.score > b.score \/ (a.score = b.score /\ a.record < b.record)
SortedOrders(items) ==
  {order \in [DOMAIN items -> DOMAIN items] :
     \A k, l \in DOMAIN items : k < l => Above(items[order[k]], items[order[l]])}

\* The limit of the request cuts what was sorted.
Cut(n) == IF payload.limit < n THEN payload.limit ELSE n

\* Cuts without sorting.
BestOf_Unsorted(items, order) == [k \in 1..Cut(Len(items)) |-> items[k]]

BestOf(items, order) == [k \in 1..Cut(Len(items)) |-> items[order[k]]]

ReturnItems ==
  /\ payload.at = "records" /\ payload.next > Len(payload.records)
  /\ \E order \in SortedOrders(payload.items) :
       payload' = [payload EXCEPT !.at = "returned", !.items = BestOf(@, order)]

PayloadNext == ReadAnswer \/ SkipBlank \/ ConvertRecord \/ RefuseRecord \/ ReturnItems

PayloadSpec == PayloadInit /\ [][PayloadNext]_payloadVars
-----------------------------------------------------------------------------
(* Correctness *)

\* What the reading of an answer holds is well formed.
PayloadTypeOK ==
  /\ payload.at \in {"received", "records", "returned"}
  /\ payload.form \in Forms \cup NotJson
  /\ payload.records \in Seq(RecordPool) /\ payload.limit \in PayloadLimits
  /\ payload.next \in 1..(Len(payload.records) + 1)
  /\ \A i \in DOMAIN payload.items : payload.items[i].record < payload.next
  /\ payload.error \in {"none", "empty_output", "invalid_payload"}
  /\ payload.error # "none" => payload.at = "returned" /\ payload.items = <<>>

\* What a record says of itself never becomes a label: every item is of this
\* provider, with the trust the specification gives it and the trust of
\* repository content, and names no path that leaves the workspace, whether the
\* record or its metadata named it.
LabelsAreOurs ==
  \A i \in DOMAIN payload.items :
    LET metadata == payload.items[i].metadata
    IN  /\ metadata["provider"] = "spec.name" /\ metadata["retriever"] = "spec.name"
        /\ metadata["provider_trust"] = ProviderTrust
        /\ metadata["trust"] = "untrusted_repository_content"
        /\ "path" \in DOMAIN metadata => metadata["path"] = "inside"

Shallow == \A i \in DOMAIN payload.records : payload.records[i].nest + 2 <= MaxNest
Usable(record) ==
  record.object /\ record.text # "notString" /\ (record.text = "said" => record.fine /\ record.score >= 0)

\* All or nothing, and the same in every form: an answer is used exactly when
\* it has no more records than allowed and each of them is usable -- a blank one
\* whatever else it says -- as an array, as an object with items or as lines,
\* unless a single line or records nested to the limit make the difference.
WholeAnswerOrNone ==
  payload.at = "returned" /\ payload.form \in Forms /\ Shallow
      /\ (payload.form = "jsonl" => Len(payload.records) > 1)
    => (payload.error = "none" <=>
          /\ Len(payload.records) <= MaxRecords
          /\ \A i \in DOMAIN payload.records : Usable(payload.records[i]))

WithText == {i \in DOMAIN payload.records : payload.records[i].text = "said"}
KeptRecords == [k \in DOMAIN payload.items |-> payload.items[k].record]
Better(i, j) ==
  \/ payload.records[i].score > payload.records[j].score
  \/ payload.records[i].score = payload.records[j].score /\ i < j

\* The request gets the best records: as many as it asked for, no record with
\* text left out for a lower score or, at the same score, for a later one.
BestFirst ==
  payload.at = "returned" /\ payload.error = "none" =>
    /\ Len(KeptRecords) = Cut(Cardinality(WithText))
    /\ \A k \in DOMAIN KeptRecords : KeptRecords[k] \in WithText
    /\ \A k \in DOMAIN KeptRecords : \A i \in WithText :
          i \in {KeptRecords[l] : l \in 1..k} \/ Better(KeptRecords[k], i)

\* An answer is used as a whole or not at all, in every form alike; its items
\* carry the labels of this code, and the request gets the best of them
\* (_result_from_bytes).
PayloadSafety ==
  PayloadTypeOK /\ LabelsAreOurs /\ WholeAnswerOrNone /\ BestFirst
=============================================================================
