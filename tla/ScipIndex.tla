----------------------------- MODULE ScipIndex -----------------------------
(***************************************************************************)
(* The SCIP index of one repository (scip.py): sync_scip_index runs a      *)
(* language indexer into index.scip.tmp, renames it over index.scip,       *)
(* prints it as index.json and binds both to the repository with           *)
(* manifest.json; scip_status and scip_context read the three files back.  *)
(* Nothing is locked: several syncs, a reader and an editor of the source  *)
(* tree interleave between any two of these steps.                         *)
(***************************************************************************)
EXTENDS Naturals, FiniteSets

CONSTANTS
    ScipSyncs,       \* concurrent `scip sync` commands, each run once
    MaxSource,   \* contents of the source tree are 0..MaxSource
    MaxChanges   \* bound on edits of the tree

ASSUME ScipAssumption == MaxSource \in Nat /\ MaxChanges \in Nat

VARIABLES
    source,      \* content of the source tree (its fingerprint and Git HEAD)
    changes,     \* edits made so far
    scipTmp,     \* index.scip.tmp
    scipIndex,   \* index.scip
    scipJson,    \* index.json
    scipBinding, \* manifest.json
    syncs,       \* local state of each sync
    reading      \* the scip_context call of the retrieval

scipVars == <<source, changes, scipTmp, scipIndex, scipJson, scipBinding, syncs, reading>>

NoFile == [from |-> 0, whole |-> FALSE, there |-> FALSE]
Built(content, whole) == [from |-> content, whole |-> whole, there |-> TRUE]
Files == {NoFile} \cup [from: 0..MaxSource, whole: BOOLEAN, there: {TRUE}]

NoScipBinding == [index |-> NoFile, json |-> NoFile, source |-> 0, sound |-> FALSE, there |-> FALSE]

(* `writes` says where the file the indexer has open now lives: the rename *)
(* of another sync moves it under index.scip, an unlink leaves it nameless.*)
IdleScipSync == [at |-> "start", writes |-> "none", saw |-> 0, printed |-> NoFile,
             index |-> NoFile, json |-> NoFile, bound |-> 0, sound |-> TRUE]

(* `tree`, `sound` and `disturbed` record what the properties speak of.    *)
NoCall == [at |-> "idle", got |-> NoFile, tree |-> 0, sound |-> FALSE, disturbed |-> FALSE]

ScipInit ==
    /\ source = 0
    /\ changes = 0
    /\ scipTmp = NoFile
    /\ scipIndex = NoFile
    /\ scipJson = NoFile
    /\ scipBinding = NoScipBinding
    /\ syncs = [s \in ScipSyncs |-> IdleScipSync]
    /\ reading = NoCall

Goes(s, to) == syncs' = [syncs EXCEPT ![s].at = to]

(* Every open indexer whose file has the name `was` follows it to `now`.   *)
Follow(states, was, now) ==
    [s \in ScipSyncs |-> IF states[s].writes = was THEN [states[s] EXCEPT !.writes = now]
                                               ELSE states[s]]

InFlight(s) == syncs[s].at \notin {"start", "done"}

(***************************************************************************)
(* sync_scip_index, step by step.                                          *)
(***************************************************************************)
\* Mutant: the published index is unlinked with the leftover.
PrepareOutput_UnlinksIndex(s) ==
    /\ syncs[s].at = "start"
    /\ scipTmp' = NoFile
    /\ scipIndex' = NoFile
    /\ syncs' = [Follow(syncs, "tmp", "nameless") EXCEPT ![s].at = "run"]
    /\ UNCHANGED <<source, changes, scipJson, scipBinding, reading>>

(* A leftover temporary index is unlinked.  A sync that finds another in   *)
(* flight takes away, for both, the guarantee of having run alone.         *)
PrepareOutput(s) ==
    /\ syncs[s].at = "start"
    /\ scipTmp' = NoFile
    /\ LET alone == \A o \in ScipSyncs \ {s}: ~InFlight(o)
           next  == Follow(syncs, "tmp", "nameless")
       IN  syncs' = [o \in ScipSyncs |->
             IF o = s THEN [next[o] EXCEPT !.at = "run", !.sound = alone]
             ELSE IF InFlight(o) THEN [next[o] EXCEPT !.sound = FALSE] ELSE next[o]]
    /\ UNCHANGED <<source, changes, scipIndex, scipJson, scipBinding, reading>>

StartIndexer(s) ==
    /\ syncs[s].at = "run"
    /\ scipTmp' = Built(source, FALSE)
    /\ syncs' = [syncs EXCEPT ![s].at = "indexing", ![s].writes = "tmp", ![s].saw = source]
    /\ UNCHANGED <<source, changes, scipIndex, scipJson, scipBinding, reading>>

(* The indexer completes the file it has open, under whatever name it has  *)
(* by then; two indexers that share a file leave it damaged.               *)
IndexerEnds(s) ==
    /\ syncs[s].at = "indexing"
    /\ LET shared == \E o \in ScipSyncs \ {s}: syncs[o].writes = syncs[s].writes
           file   == Built(syncs[s].saw, ~shared)
       IN  /\ scipTmp' = IF syncs[s].writes = "tmp" THEN file ELSE scipTmp
           /\ scipIndex' = IF syncs[s].writes = "central" THEN file ELSE scipIndex
    /\ syncs' = [syncs EXCEPT ![s].at = "publish", ![s].writes = "none"]
    /\ UNCHANGED <<source, changes, scipJson, scipBinding, reading>>

(* A non-zero exit removes the temporary file, a timeout leaves it.        *)
IndexerFails(s) ==
    /\ syncs[s].at = "indexing"
    /\ \/ scipTmp' = scipTmp
       \/ scipTmp' = NoFile
    /\ LET others == IF scipTmp'.there THEN syncs ELSE Follow(syncs, "tmp", "nameless")
       IN  syncs' = [others EXCEPT ![s].at = "done", ![s].writes = "none"]
    /\ UNCHANGED <<source, changes, scipIndex, scipJson, scipBinding, reading>>

\* Mutant: an indexer is taken to keep the name it opened.
PublishIndex_KeepsNames(s) ==
    /\ syncs[s].at = "publish"
    /\ \/ ~scipTmp.there /\ Goes(s, "done") /\ UNCHANGED <<scipTmp, scipIndex>>
       \/ scipTmp.there /\ Goes(s, "print") /\ scipIndex' = scipTmp /\ scipTmp' = NoFile
    /\ UNCHANGED <<source, changes, scipJson, scipBinding, reading>>

PublishIndex(s) ==
    /\ syncs[s].at = "publish"
    /\ \/ /\ ~scipTmp.there                    \* another sync took the file
          /\ Goes(s, "done")
          /\ UNCHANGED <<scipTmp, scipIndex>>
       \/ /\ scipTmp.there
          /\ scipIndex' = scipTmp
          /\ scipTmp' = NoFile
          /\ syncs' = [Follow(Follow(syncs, "central", "nameless"), "tmp", "central")
                         EXCEPT ![s].at = "print"]
    /\ UNCHANGED <<source, changes, scipJson, scipBinding, reading>>

(* `scip print` fails, or prints what index.scip holds: a file that is not *)
(* whole is either rejected or printed as far as it goes.                  *)
PrintIndex(s) ==
    /\ syncs[s].at = "print"
    /\ \/ Goes(s, "done")
       \/ syncs' = [syncs EXCEPT ![s].at = "json", ![s].printed = scipIndex]
    /\ UNCHANGED <<source, changes, scipTmp, scipIndex, scipJson, scipBinding, reading>>

WriteScipJson(s) ==
    /\ syncs[s].at = "json"
    /\ scipJson' = syncs[s].printed
    /\ reading' = [reading EXCEPT !.disturbed = TRUE]
    /\ Goes(s, "bind")
    /\ UNCHANGED <<source, changes, scipTmp, scipIndex, scipBinding>>

(* The fingerprint is taken after the indexer has run.                     *)
FingerprintSource(s) ==
    /\ syncs[s].at = "bind"
    /\ syncs' = [syncs EXCEPT ![s].at = "hashIndex", ![s].bound = source]
    /\ UNCHANGED <<source, changes, scipTmp, scipIndex, scipJson, scipBinding, reading>>

HashScipIndex(s) ==
    /\ syncs[s].at = "hashIndex"
    /\ syncs' = [syncs EXCEPT ![s].at = "hashJson", ![s].index = scipIndex]
    /\ UNCHANGED <<source, changes, scipTmp, scipIndex, scipJson, scipBinding, reading>>

HashScipJson(s) ==
    /\ syncs[s].at = "hashJson"
    /\ syncs' = [syncs EXCEPT ![s].at = "manifest", ![s].json = scipJson]
    /\ UNCHANGED <<source, changes, scipTmp, scipIndex, scipJson, scipBinding, reading>>

WriteScipManifest(s) ==
    /\ syncs[s].at = "manifest"
    /\ scipBinding' = [index |-> syncs[s].index, json |-> syncs[s].json,
                       source |-> syncs[s].bound, sound |-> syncs[s].sound, there |-> TRUE]
    /\ Goes(s, "done")
    /\ UNCHANGED <<source, changes, scipTmp, scipIndex, scipJson, reading>>

SyncScipIndex(s) ==
    \/ PrepareOutput(s) \/ StartIndexer(s) \/ IndexerEnds(s) \/ IndexerFails(s)
    \/ PublishIndex(s) \/ PrintIndex(s) \/ WriteScipJson(s) \/ FingerprintSource(s)
    \/ HashScipIndex(s) \/ HashScipJson(s) \/ WriteScipManifest(s)

(***************************************************************************)
(* scip_status and scip_context.                                           *)
(***************************************************************************)
HashesMatch ==
    /\ scipBinding.index = scipIndex
    /\ scipBinding.json = scipJson

\* Mutant: the repository's fingerprint is not compared.
ScipReady_AnyTree ==
    /\ scipIndex.there /\ scipBinding.there /\ scipJson.there
    /\ HashesMatch

ScipReady ==
    /\ scipIndex.there /\ scipBinding.there /\ scipJson.there
    /\ HashesMatch
    /\ scipBinding.source = source

\* Mutant: the retrieval answers whenever a manifest is there.
AskStatus_AnyManifest ==
    /\ reading.at = "idle"
    /\ reading' = IF scipBinding.there
                    THEN [at |-> "vetted", got |-> NoFile, tree |-> source,
                          sound |-> scipBinding.sound, disturbed |-> FALSE]
                    ELSE [reading EXCEPT !.at = "answered"]
    /\ UNCHANGED <<source, changes, scipTmp, scipIndex, scipJson, scipBinding, syncs>>

(* scip_context asks for the status...                                     *)
AskStatus ==
    /\ reading.at = "idle"
    /\ reading' = IF ScipReady
                    THEN [at |-> "vetted", got |-> NoFile, tree |-> source,
                          sound |-> scipBinding.sound, disturbed |-> FALSE]
                    ELSE [reading EXCEPT !.at = "answered"]
    /\ UNCHANGED <<source, changes, scipTmp, scipIndex, scipJson, scipBinding, syncs>>

(* ... and then opens index.json a second time.                            *)
ReadPayload ==
    /\ reading.at = "vetted"
    /\ reading' = [reading EXCEPT !.at = "answered", !.got = scipJson]
    /\ UNCHANGED <<source, changes, scipTmp, scipIndex, scipJson, scipBinding, syncs>>

NextCall ==
    /\ reading.at = "answered"
    /\ reading' = NoCall
    /\ UNCHANGED <<source, changes, scipTmp, scipIndex, scipJson, scipBinding, syncs>>

(* An edit or a checkout; a sync that has its indexer running or has not   *)
(* yet taken the fingerprint no longer describes one tree.                 *)
ChangeSource ==
    /\ changes < MaxChanges
    /\ \E content \in 0..MaxSource \ {source}: source' = content
    /\ changes' = changes + 1
    /\ syncs' = [s \in ScipSyncs |->
         IF syncs[s].at \in {"indexing", "publish", "print", "json", "bind"}
           THEN [syncs[s] EXCEPT !.sound = FALSE] ELSE syncs[s]]
    /\ UNCHANGED <<scipTmp, scipIndex, scipJson, scipBinding, reading>>

ScipNext ==
    \/ \E s \in ScipSyncs: SyncScipIndex(s)
    \/ AskStatus \/ ReadPayload \/ NextCall
    \/ ChangeSource

ScipSpec == ScipInit /\ [][ScipNext]_scipVars

-----------------------------------------------------------------------------
(* The type of the state; an indexer writes to the temporary name only     *)
(* while a file has that name.                                             *)
ScipTypeOK ==
    /\ source \in 0..MaxSource /\ changes \in 0..MaxChanges
    /\ {scipTmp, scipIndex, scipJson} \subseteq Files
    /\ scipBinding.index \in Files /\ scipBinding.json \in Files
    /\ \A s \in ScipSyncs: /\ syncs[s].writes \in {"none", "tmp", "central", "nameless"}
                       /\ syncs[s].writes = "tmp" => scipTmp.there
    /\ reading.at \in {"idle", "vetted", "answered"}

(* An index that scip_status calls ready, and that was bound by a sync     *)
(* which ran alone over a tree that stood still, is the complete index of  *)
(* the tree as it is now, whatever later syncs and edits have begun.       *)
ReadyIndexIsWhole ==
    ScipReady /\ scipBinding.sound => scipJson.whole /\ scipJson.from = source

(* A retrieval that answers from SCIP, bound by such a sync, answers from  *)
(* the complete index of the tree that was there when the status was       *)
(* checked, unless a sync published another JSON between the two reads.    *)
AnswerIsOfCheckedTree ==
    reading.at = "answered" /\ reading.got.there /\ reading.sound /\ ~reading.disturbed
        => reading.got.whole /\ reading.got.from = reading.tree

(* Starting a sync, running its indexer and seeing it fail or time out     *)
(* never makes a ready index unready: until the rename the sync works on a *)
(* file of its own.                                                        *)
FailedSyncKeepsReady ==
    [][(\E s \in ScipSyncs: \/ syncs[s].at \in {"start", "run"} /\ syncs'[s].at # syncs[s].at
                            \/ syncs[s].at = "indexing" /\ syncs'[s].at = "done")
         => (ScipReady => ScipReady')]_scipVars

\* An index that is called ready is whole and of the source, an answer is of the
\* tree its status was checked for, and a sync that fails before it publishes
\* keeps what was ready (sync_scip_index, scip_context).
ScipSafety ==
  /\ [](ScipTypeOK /\ ReadyIndexIsWhole /\ AnswerIsOfCheckedTree)
  /\ FailedSyncKeepsReady
=============================================================================
