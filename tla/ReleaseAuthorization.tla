------------------------ MODULE ReleaseAuthorization ------------------------
(***************************************************************************)
(* The release gate: scripts/verify_release_authorization.py, run by       *)
(* .github/workflows/release.yml once before the protected environment and *)
(* once more after its approval.  The remote -- the tag, the release       *)
(* branch, its protection and the workflow runs -- is fetched piece by     *)
(* piece and goes on changing between the fetches.                         *)
(***************************************************************************)
EXTENDS Naturals, Sequences, FiniteSets, SequencesExt

CONSTANTS
    Expected,       \* GITHUB_SHA, the commit of the tag event
    Other,          \* another commit, not an ancestor of Expected
    Workflows,      \* the required workflows, in the order they are asked for
    MaxRemoteMoves  \* bound on changes of the remote

Commits == {Expected, Other}

ASSUME ReleaseAssumption ==
    /\ Expected # Other /\ MaxRemoteMoves \in Nat
    /\ Workflows \in Seq(ToSet(Workflows))

VARIABLES
    remote,   \* tag, release branch, protection and workflow runs
    moves,    \* changes of the remote so far
    release,  \* where the release workflow is and what it has read
    sinceThen \* the facts that have held since the verification began

releaseVars == <<remote, moves, release, sinceThen>>

(* The branch holds a set of commits; a force push can drop one.  A run is *)
(* listed with its latest attempt only: a re-run hides the earlier result. *)
RunStates == {"absent", "running", "success", "failure"}
RunKinds == Commits \X {"push", "dispatch"}

NothingRead == [tag |-> Other, reachable |-> FALSE, branch |-> {}, protected |-> FALSE,
                listed |-> <<>>]

ReleaseInit ==
    /\ remote = [tag |-> Expected, branch |-> {Expected}, protected |-> TRUE,
                 runs |-> [w \in ToSet(Workflows) |-> [k \in RunKinds |-> "absent"]]]
    /\ moves = 0
    /\ release = [at |-> "branch", round |-> 1, read |-> NothingRead]
    /\ sinceThen = {}

(* What the gate vouches for, as it stands on the remote.                  *)
Tested(w) == remote.runs[w][<<Expected, "push">>] = "success"
Facts == (IF remote.tag = Expected THEN {"tag"} ELSE {})
           \cup (IF Expected \in remote.branch THEN {"reachable"} ELSE {})
           \cup (IF remote.protected THEN {"protected"} ELSE {})
           \cup {w \in ToSet(Workflows) : Tested(w)}
AllFacts == {"tag", "reachable", "protected"} \cup ToSet(Workflows)

(***************************************************************************)
(* verify_release_authorization                                            *)
(***************************************************************************)
Reads(to, read) ==
    /\ release' = [release EXCEPT !.at = to, !.read = read]
    /\ UNCHANGED <<remote, moves>>
    /\ sinceThen' = sinceThen \cup Facts

Denied == release' = [release EXCEPT !.at = "denied"]

(* Any git command or API request may fail; every failure denies.          *)
RequestFails ==
    /\ release.at \in {"branch", "tag", "protection", "runs"}
    /\ Denied
    /\ UNCHANGED <<remote, moves, sinceThen>>

FetchBranch ==
    /\ release.at = "branch"
    /\ Reads("tag", [release.read EXCEPT !.branch = remote.branch])

(* The ancestry is computed from the branch as it was fetched before.      *)
FetchTag ==
    /\ release.at = "tag"
    /\ Reads("protection", [release.read EXCEPT !.tag = remote.tag,
                              !.reachable = remote.tag \in release.read.branch])

AskProtection ==
    /\ release.at = "protection"
    /\ Reads("runs", [release.read EXCEPT !.protected = remote.protected])

NextWorkflow == Workflows[Len(release.read.listed) + 1]

\* Mutant: the runs of the branch are listed whatever commit they ran for.
Listing_AnySha(w) ==
    {k \in RunKinds : remote.runs[w][k] # "absent"}

(* The query names the branch, the event and the commit; the selection     *)
(* checks them again and wants a completed success.                        *)
Listing(w) ==
    {k \in RunKinds : k = <<Expected, "push">> /\ remote.runs[w][k] = "success"}

ListRuns ==
    /\ release.at = "runs" /\ Len(release.read.listed) < Len(Workflows)
    /\ Reads("runs", [release.read EXCEPT !.listed = Append(@, Listing(NextWorkflow))])

(* evaluate_release_authorization *)
Authorized ==
    /\ release.read.tag = Expected
    /\ release.read.protected
    /\ release.read.reachable
    /\ \A i \in DOMAIN Workflows: release.read.listed[i] # {}

\* Mutant: an authorization is enough, before the approval too.
Evaluate_First ==
    /\ release.at = "runs" /\ Len(release.read.listed) = Len(Workflows)
    /\ release' = [release EXCEPT !.at = IF Authorized THEN "draft" ELSE "denied"]
    /\ UNCHANGED <<remote, moves, sinceThen>>

Evaluate ==
    /\ release.at = "runs" /\ Len(release.read.listed) = Len(Workflows)
    /\ IF Authorized
         THEN release' = [release EXCEPT !.at = IF release.round = 1 THEN "approval" ELSE "draft"]
         ELSE Denied
    /\ UNCHANGED <<remote, moves, sinceThen>>

(* The environment's approval; the verification starts over from nothing.  *)
Approve ==
    /\ release.at = "approval"
    /\ release' = [at |-> "branch", round |-> 2, read |-> NothingRead]
    /\ sinceThen' = {}
    /\ UNCHANGED <<remote, moves>>

(* gh release create --verify-tag: the tag must exist, and it always does. *)
CreateDraft ==
    /\ release.at = "draft"
    /\ release' = [release EXCEPT !.at = "created"]
    /\ UNCHANGED <<remote, moves, sinceThen>>

(***************************************************************************)
(* The remote.                                                             *)
(***************************************************************************)
Moves(to) ==
    /\ moves < MaxRemoteMoves /\ release.at \notin {"created", "denied"}
    /\ remote' = to /\ remote' # remote
    /\ moves' = moves + 1
    /\ UNCHANGED <<release, sinceThen>>

MoveTag == \E c \in Commits: Moves([remote EXCEPT !.tag = c])
PushBranch == \E c \in SUBSET Commits \ {{}}: Moves([remote EXCEPT !.branch = c])
Protect == \E p \in BOOLEAN: Moves([remote EXCEPT !.protected = p])

RunWorkflow ==
    \E w \in ToSet(Workflows), k \in RunKinds:
        /\ k[2] = "push" => k[1] \in remote.branch \/ remote.runs[w][k] # "absent"
        /\ Moves([remote EXCEPT !.runs[w][k] = "running"])

(* A run completes; until then it is no change somebody makes.             *)
CompleteRun ==
    \E w \in ToSet(Workflows), k \in RunKinds, s \in {"success", "failure"}:
        /\ remote.runs[w][k] = "running" /\ release.at \notin {"created", "denied"}
        /\ remote' = [remote EXCEPT !.runs[w][k] = s]
        /\ UNCHANGED <<moves, release, sinceThen>>

ReleaseNext ==
    \/ FetchBranch \/ FetchTag \/ AskProtection \/ ListRuns \/ Evaluate \/ RequestFails
    \/ Approve \/ CreateDraft
    \/ MoveTag \/ PushBranch \/ Protect \/ RunWorkflow \/ CompleteRun

ReleaseSpec == ReleaseInit /\ [][ReleaseNext]_releaseVars

-----------------------------------------------------------------------------
(* The type of the state; a draft belongs to the second verification.      *)
ReleaseTypeOK ==
    /\ remote.tag \in Commits /\ remote.branch \subseteq Commits
    /\ \A w \in ToSet(Workflows), k \in RunKinds: remote.runs[w][k] \in RunStates
    /\ release.at \in {"branch", "tag", "protection", "runs", "approval", "draft",
                       "created", "denied"}
    /\ Len(release.read.listed) <= Len(Workflows)
    /\ sinceThen \subseteq AllFacts
    /\ release.at = "approval" => release.round = 1
    /\ release.at \in {"draft", "created"} => release.round = 2

(* A draft release is created only if every fact the gate vouches for --   *)
(* the tag at the exact commit, the commit on the branch, the branch       *)
(* protected, and a successful push run of every required workflow for the *)
(* commit -- has held since the approval, however the remote moved while   *)
(* the gate read it.                                                       *)
DraftWasAuthorized ==
    release.at \in {"draft", "created"} => sinceThen = AllFacts

\* A draft release is of a commit for which everything the gate asks held at some
\* time of the last verification (verify_release_authorization).
ReleaseSafety ==
  ReleaseTypeOK /\ DraftWasAuthorized
=============================================================================
