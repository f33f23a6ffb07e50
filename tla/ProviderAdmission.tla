------------------------- MODULE ProviderAdmission -------------------------
(***************************************************************************)
(* What a command provider may run with.  A project names a provider and   *)
(* may tighten its limits; the registry of the user says which executable, *)
(* digest, environment and sandbox that is.  The entry is resolved first   *)
(* and the executable verified again when it is launched, and the sandbox  *)
(* is built on a backend that was probed once per process.  Meanwhile the  *)
(* executable is replaced and the backend comes and goes.                  *)
(*                                                                         *)
(* A digest is the content it is of; 0 is no digest, and a cap of 0 one    *)
(* that is missing or no positive number.                                  *)
(***************************************************************************)
EXTENDS Integers

CONSTANTS
  MaxCap,      \* resource caps
  MaxContent   \* contents of the executable

ASSUME AdmissionAssumption == MaxCap \in Nat \ {0} /\ MaxContent \in Nat \ {0}

VARIABLES
  executable, \* [content, place]
  backend,    \* whether bubblewrap works
  probed,     \* what this process remembers of it
  call        \* the call under way

admissionVars == <<executable, backend, probed, call>>

Builds == 1..MaxContent
Places == {"outside", "inside", "symlink", "missing"}
Modes == {"off", "preferred", "required"}
Policies == [mode : Modes, network : {"host", "deny"}, limits : BOOLEAN]
OffPolicy == [mode |-> "off", network |-> "host", limits |-> FALSE]

\* A registry entry: its cap, digest and sandbox, and whether its environment
\* allowlist names a variable that a restricted provider must not override.
RegistryEntries == [cap : 1..MaxCap, pin : 0..MaxContent, sandbox : Policies,
                    profile : {"restricted", "compatibility"}, reserved : BOOLEAN]

\* What a project says of a provider: a registered identity or a command of its
\* own, a cap, and possibly fields that are the registry's to set.
ProjectSpecs == [id : BOOLEAN, cap : 0..MaxCap, trustedFields : BOOLEAN]

NoSpec == [trust |-> "none", cap |-> 0, pin |-> 0, sandbox |-> OffPolicy]
NoPlan == [sandboxed |-> FALSE, netless |-> FALSE, limited |-> FALSE]
NoRun == [content |-> 0, plan |-> NoPlan]
IdleCall == [at |-> "idle", entry |-> {}, project |-> {}, spec |-> NoSpec, plan |-> NoPlan,
             dirs |-> FALSE, swapped |-> FALSE, ran |-> NoRun, result |-> "none"]

AdmissionInit ==
  /\ executable \in [content : {1}, place : {"outside"}]
  /\ backend \in BOOLEAN /\ probed = "unknown"
  /\ call = IdleCall

\* Installed anew, linked, moved or removed: a call that has verified it does
\* not see this any more.
ReplaceExecutable ==
  /\ executable' \in [content : Builds, place : Places]
  /\ call' = [call EXCEPT !.swapped = @ \/ call.at \in {"plan", "start"}]
  /\ UNCHANGED <<backend, probed>>

BackendChanges ==
  /\ backend' = ~backend
  /\ UNCHANGED <<executable, probed, call>>

-----------------------------------------------------------------------------
(* Resolution: resolve_project_provider. *)

ValidPolicy(policy) == policy.mode = "off" => policy = OffPolicy

ValidSpec(entry) == ~(entry.profile = "restricted" /\ entry.reserved)

\* _validated_executable.
ValidExecutable(pin) ==
  executable.place = "outside" /\ pin # 0 /\ executable.content = pin

\* Mutant: the project's cap wins.
TightenedCap_ProjectWins(cap, requested) == IF requested = 0 THEN cap ELSE requested

\* A cap that is no positive number is ignored.
TightenedCap(cap, requested) ==
  IF requested = 0 \/ requested > cap THEN cap ELSE requested

TrustedSpec(entry, project) ==
  [trust |-> "registry", cap |-> TightenedCap(entry.cap, project.cap), pin |-> entry.pin,
   sandbox |-> entry.sandbox]

\* Mutant: the runtime directories stay.
Ends_KeepsRuntime(result) == call' = [call EXCEPT !.at = "done", !.result = result]

Ends(result) == call' = [call EXCEPT !.at = "done", !.dirs = FALSE, !.result = result]

\* resolve_trusted_provider.  A refusal becomes a result of kind configuration.
ResolveRegistered ==
  /\ call.at = "idle"
  /\ \E entry \in RegistryEntries, project \in ProjectSpecs :
       /\ project.id /\ ~project.trustedFields
       /\ ValidExecutable(entry.pin) /\ ValidPolicy(entry.sandbox) /\ ValidSpec(entry)
       /\ call' = [IdleCall EXCEPT !.at = "runtime", !.entry = {entry}, !.project = {project},
                                   !.spec = TrustedSpec(entry, project)]
  /\ UNCHANGED <<executable, backend, probed>>

\* A command of the project's own: only where the user has allowed it.
ResolveCommand ==
  /\ call.at = "idle"
  /\ \E cap \in 1..MaxCap, policy \in Policies :
       /\ ValidPolicy(policy)
       /\ call' = [IdleCall EXCEPT !.at = "runtime",
                     !.spec = [trust |-> "local", cap |-> cap, pin |-> 0, sandbox |-> policy]]
  /\ UNCHANGED <<executable, backend, probed>>

RefuseConfiguration ==
  /\ call.at = "idle"
  /\ \/ \E entry \in RegistryEntries :
          ~(ValidExecutable(entry.pin) /\ ValidPolicy(entry.sandbox) /\ ValidSpec(entry))
     \/ \E project \in ProjectSpecs : ~project.id \/ project.trustedFields
  /\ call' = [IdleCall EXCEPT !.at = "done", !.result = "configuration"]
  /\ UNCHANGED <<executable, backend, probed>>

-----------------------------------------------------------------------------
(* Launch: the beginning of run_command_provider. *)

\* _provider_runtime: temporary directories that live as long as the call.
MakeRuntime ==
  /\ call.at = "runtime"
  /\ \/ call' = [call EXCEPT !.at = "verify", !.dirs = TRUE]
     \/ Ends("launch")
  /\ UNCHANGED <<executable, backend, probed>>

\* Mutant: what was verified when the entry was resolved is not verified again.
Verified_Remembered == TRUE

\* verify_provider_executable.
Verified == call.spec.trust = "registry" => ValidExecutable(call.spec.pin)

VerifyCommand ==
  /\ call.at = "verify"
  /\ IF Verified THEN call' = [call EXCEPT !.at = "plan", !.swapped = FALSE]
     ELSE Ends("provider_trust")
  /\ UNCHANGED <<executable, backend, probed>>

\* Mutant: resource limits are best effort.
MustEnforce_BestEffortLimits(policy) == policy.mode = "required" \/ policy.network = "deny"

\* SandboxPolicy.must_enforce.
MustEnforce(policy) == policy.mode = "required" \/ policy.network = "deny" \/ policy.limits

\* _bubblewrap_probe keeps its first answer.
Probe == IF probed # "unknown" THEN probed ELSE IF backend THEN "works" ELSE "fails"

SandboxedPlan(policy) ==
  [sandboxed |-> TRUE, netless |-> policy.network = "deny", limited |-> policy.limits]

\* build_sandbox_plan.
BuildSandboxPlan ==
  /\ call.at = "plan"
  /\ LET policy == call.spec.sandbox
         planned(plan) == call' = [call EXCEPT !.at = "start", !.plan = plan]
     IN IF policy.mode = "off" THEN planned(NoPlan) /\ UNCHANGED probed
        ELSE /\ probed' = Probe
             /\ IF Probe = "works" THEN planned(SandboxedPlan(policy))
                ELSE IF MustEnforce(policy) THEN Ends("sandbox_unavailable")
                ELSE planned(NoPlan)
  /\ UNCHANGED <<executable, backend>>

\* Popen.  A backend that has gone fails the launch or the command; either way
\* the provider does not run.
StartProvider ==
  /\ call.at = "start"
  /\ IF executable.place = "missing" THEN Ends("launch")
     ELSE IF call.plan.sandboxed /\ ~backend THEN Ends("launch") \/ Ends("exit")
     ELSE \/ Ends("launch")
          \/ call' = [call EXCEPT !.at = "done", !.dirs = FALSE, !.result = "ran",
                                  !.ran = [content |-> executable.content, plan |-> call.plan]]
  /\ UNCHANGED <<executable, backend, probed>>

NextCall ==
  /\ call.at = "done"
  /\ call' = IdleCall
  /\ UNCHANGED <<executable, backend, probed>>

ProcessEnds ==
  /\ call' = IdleCall /\ probed' = "unknown"
  /\ UNCHANGED <<executable, backend>>

AdmissionNext ==
  \/ ReplaceExecutable \/ BackendChanges
  \/ ResolveRegistered \/ ResolveCommand \/ RefuseConfiguration
  \/ MakeRuntime \/ VerifyCommand \/ BuildSandboxPlan \/ StartProvider
  \/ NextCall \/ ProcessEnds

AdmissionSpec == AdmissionInit /\ [][AdmissionNext]_admissionVars

-----------------------------------------------------------------------------
(* Properties. *)

AdmissionTypeOK ==
  /\ executable \in [content : Builds, place : Places]
  /\ backend \in BOOLEAN /\ probed \in {"unknown", "works", "fails"}
  /\ call.at \in {"idle", "runtime", "verify", "plan", "start", "done"}
  /\ call.entry \subseteq RegistryEntries /\ call.project \subseteq ProjectSpecs
  /\ call.spec.sandbox \in Policies /\ call.spec.cap \in 0..MaxCap
  /\ call.dirs <=> call.at \in {"verify", "plan", "start"}
  /\ call.result = "none" <=> call.at # "done"

Ran == call.result = "ran"

\* A project can tighten a registered provider and nothing else: what runs has
\* the digest and the sandbox of the registry and no more of a resource than
\* the registry and the project both grant.
ProjectOnlyTightens ==
  Ran => \A entry \in call.entry, project \in call.project :
    /\ call.spec.pin = entry.pin /\ call.spec.sandbox = entry.sandbox
    /\ call.spec.cap <= entry.cap
    /\ project.cap # 0 => call.spec.cap <= project.cap

\* The executable that runs is the one the registry pins, however long ago the
\* entry was resolved, unless it was replaced after the launch had verified it.
RunsWhatIsPinned ==
  Ran /\ call.spec.trust = "registry" /\ ~call.swapped =>
    \A entry \in call.entry : call.ran.content = entry.pin

\* A policy that must be enforced is enforced or nothing runs, even if the
\* backend has gone since it was probed.
PolicyIsEnforced ==
  Ran => LET policy == call.spec.sandbox IN
    /\ policy.mode = "required" => call.ran.plan.sandboxed
    /\ policy.network = "deny" => call.ran.plan.netless
    /\ policy.limits => call.ran.plan.limited
    /\ call.ran.plan.sandboxed => policy.mode # "off"

\* A project only tightens what the registry allows, what runs is the pinned
\* executable, and it runs under the sandbox policy its entry requires, although
\* the executable and the backend change between the steps of the call.
AdmissionSafety ==
  AdmissionTypeOK /\ ProjectOnlyTightens /\ RunsWhatIsPinned /\ PolicyIsEnforced
=============================================================================
