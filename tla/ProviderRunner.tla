--------------------------- MODULE ProviderRunner ---------------------------
(***************************************************************************)
(* run_command_provider of provider_runner.py: one call that launches a    *)
(* command provider, sends the request, waits with a timeout, drains both  *)
(* pipes with two reader threads, and turns what happened into one result. *)
(* The provider may fork a descendant that stays in its process group and  *)
(* keeps some of its pipes open.                                           *)
(*                                                                         *)
(* stdout is counted in units of data, stderr carries none: its reader     *)
(* waits for the end of the stream.  Signals to the group succeed (POSIX). *)
(* A stream that a thread is reading holds the lock of its buffer, so that *)
(* close has to wait for the read to return.                               *)
(***************************************************************************)
EXTENDS Integers, FiniteSets

CONSTANTS
  Limit,        \* max_output_bytes
  Chunk,        \* the most one read asks for
  MaxWritten,   \* bound: data the provider and its descendant write
  SmallRequest  \* does the request fit into the buffer of the stdin pipe?

ASSUME RunnerAssumption ==
  /\ Limit \in Nat /\ Chunk \in Nat \ {0} /\ MaxWritten \in Nat
  /\ SmallRequest \in BOOLEAN

VARIABLES
  pc,          \* the calling thread
  proc,        \* the provider process
  status,      \* its exit status
  returncode,  \* proc.returncode: set once wait has reaped the process
  descendant,  \* a process the provider forked
  holds,       \* the pipes of the provider that it keeps open
  stdin,       \* has the provider read the request?
  written,     \* data written to stdout so far
  pipe,        \* ... and not yet read
  reader,      \* the stdout reader thread
  inHand,      \* what its last read returned
  output,      \* the shared buffer
  errReader,   \* the stderr reader thread
  exceeded, timedOut, closed,
  result,      \* the ProviderResult
  gaveUp       \* history variable: both joins of a reader timed out

provider == <<proc, status, descendant, holds, stdin, written>>
readers == <<pipe, reader, inHand, output, errReader, exceeded>>
caller == <<pc, returncode, timedOut, closed, result, gaveUp>>
vars == <<provider, readers, caller>>

Results == {"none", "provider_trust", "sandbox_unavailable", "launch",
            "output_limit", "timeout", "exit", "parsed"}

TypeOK ==
  /\ pc \in {"launch", "write", "wait", "kill", "reap", "join", "rejoin", "close",
             "decide", "done"}
  /\ proc \in {"none", "running", "exited", "killed"}
  /\ status \in {"none", "zero", "nonzero"}
  /\ returncode \in {"none", "zero", "nonzero"}
  /\ descendant \in {"none", "alive", "dead"}
  /\ holds \subseteq {"stdin", "stdout", "stderr"}
  /\ stdin \in {"unread", "read"}
  /\ written \in 0..MaxWritten /\ pipe \in 0..written
  /\ reader \in {"none", "loop", "reading", "extend", "kill", "ended"}
  /\ inHand \in 0..Chunk
  /\ output \in 0..Limit
  /\ errReader \in {"none", "reading", "ended"}
  /\ exceeded \in BOOLEAN /\ timedOut \in BOOLEAN /\ closed \in BOOLEAN
  /\ result \in Results
  /\ gaveUp \in BOOLEAN

Init ==
  /\ pc = "launch" /\ proc = "none" /\ status = "none" /\ returncode = "none"
  /\ descendant = "none" /\ holds = {} /\ stdin = "unread" /\ written = 0 /\ pipe = 0
  /\ reader = "none" /\ inHand = 0 /\ output = 0 /\ errReader = "none"
  /\ exceeded = FALSE /\ timedOut = FALSE /\ closed = FALSE
  /\ result = "none" /\ gaveUp = FALSE
-----------------------------------------------------------------------------
(* The provider and its descendant. *)

\* Does anyone hold the other end of the pipe p?
Open(p) == proc = "running" \/ (descendant = "alive" /\ p \in holds)

Writes ==
  /\ Open("stdout")
  /\ written < MaxWritten
  /\ written' = written + 1 /\ pipe' = pipe + 1
  /\ UNCHANGED <<proc, status, descendant, holds, stdin, reader, inHand, output,
                 errReader, exceeded, caller>>

Forks ==
  /\ proc = "running" /\ descendant = "none"
  /\ descendant' = "alive" /\ holds' \in SUBSET {"stdin", "stdout", "stderr"}
  /\ UNCHANGED <<proc, status, stdin, written, readers, caller>>

ReadsRequest ==
  /\ Open("stdin")
  /\ stdin' = "read"
  /\ UNCHANGED <<proc, status, descendant, holds, written, readers, caller>>

Exits ==
  /\ proc = "running"
  /\ proc' = "exited" /\ status' \in {"zero", "nonzero"}
  /\ UNCHANGED <<descendant, holds, stdin, written, readers, caller>>

DescendantExits ==
  /\ descendant = "alive"
  /\ descendant' = "dead"
  /\ UNCHANGED <<proc, status, holds, stdin, written, readers, caller>>

\* Mutant: only the provider itself is killed.
TerminateTree_ProviderOnly ==
  /\ IF returncode = "none" /\ proc = "running"
       THEN proc' = "killed" /\ status' = "nonzero"
       ELSE UNCHANGED <<proc, status>>
  /\ UNCHANGED descendant

\* _terminate_provider_tree: nothing is done once the process has been reaped.
TerminateTree ==
  IF returncode = "none"
    THEN /\ proc' = IF proc = "running" THEN "killed" ELSE proc
         /\ status' = IF proc = "running" THEN "nonzero" ELSE status
         /\ descendant' = IF descendant = "alive" THEN "dead" ELSE descendant
    ELSE UNCHANGED <<proc, status, descendant>>
-----------------------------------------------------------------------------
(* _bounded_reader and the reader of stderr. *)

Remaining == Limit - output
Least(a, b) == IF a <= b THEN a ELSE b
Wanted == Least(Chunk, Remaining + 1)

\* proc.stdout.read is entered; on a closed stream it raises ValueError.
EnterRead ==
  /\ reader = "loop"
  /\ reader' = IF closed THEN "ended" ELSE "reading"
  /\ UNCHANGED <<pipe, inHand, output, errReader, exceeded, provider, caller>>

\* A read returns what it wanted, or what there is at the end of the stream.
ReadReturns ==
  /\ reader = "reading"
  /\ pipe >= Wanted \/ ~Open("stdout")
  /\ inHand' = Least(pipe, Wanted)
  /\ pipe' = pipe - Least(pipe, Wanted)
  /\ reader' = IF pipe = 0 THEN "ended" ELSE "extend"
  /\ UNCHANGED <<output, errReader, exceeded, provider, caller>>

\* Mutant: the last chunk is kept although it does not fit.
Extend_Unbounded ==
  /\ reader = "extend"
  /\ output' = output + inHand
  /\ exceeded' = (inHand > Remaining)
  /\ reader' = IF inHand > Remaining THEN "kill" ELSE "loop"
  /\ UNCHANGED <<pipe, inHand, errReader, provider, caller>>

Extend ==
  /\ reader = "extend"
  /\ IF inHand > Remaining
       THEN output' = Limit /\ exceeded' = TRUE /\ reader' = "kill"
       ELSE output' = output + inHand /\ reader' = "loop" /\ UNCHANGED exceeded
  /\ UNCHANGED <<pipe, inHand, errReader, provider, caller>>

ReaderKills ==
  /\ reader = "kill"
  /\ TerminateTree
  /\ reader' = "ended"
  /\ UNCHANGED <<pipe, inHand, output, errReader, exceeded, holds, stdin, written,
                 caller>>

ErrReaderEnds ==
  /\ errReader = "reading" /\ ~Open("stderr")
  /\ errReader' = "ended"
  /\ UNCHANGED <<pipe, reader, inHand, output, exceeded, provider, caller>>
-----------------------------------------------------------------------------
(* run_command_provider *)

\* Launch trust, sandbox plan and Popen; the two reader threads start.
Launch ==
  /\ pc = "launch"
  /\ \/ /\ pc' = "write" /\ proc' = "running"
        /\ reader' = "loop" /\ errReader' = "reading"
        /\ UNCHANGED result
     \/ /\ pc' = "done"
        /\ result' \in {"provider_trust", "sandbox_unavailable", "launch"}
        /\ UNCHANGED <<proc, reader, errReader>>
  /\ UNCHANGED <<status, returncode, descendant, holds, stdin, written, pipe, inHand,
                 output, exceeded, timedOut, closed, gaveUp>>

\* The write blocks while the pipe is full; a broken pipe is ignored.
CanWrite == SmallRequest \/ stdin = "read" \/ ~Open("stdin")
WriteRequest ==
  /\ pc = "write" /\ CanWrite
  /\ pc' = "wait"
  /\ UNCHANGED <<provider, readers, returncode, timedOut, closed, result, gaveUp>>

\* proc.wait returns.
Reap ==
  /\ pc \in {"wait", "reap"} /\ proc # "running"
  /\ returncode' = status
  /\ pc' = "join"
  /\ UNCHANGED <<provider, readers, timedOut, closed, result, gaveUp>>

TimesOut ==
  /\ pc = "wait"
  /\ timedOut' = TRUE
  /\ pc' = "kill"
  /\ UNCHANGED <<provider, readers, returncode, closed, result, gaveUp>>

\* Mutant: the process is waited for without having been killed.
KillTree_Forgotten ==
  /\ pc = "kill"
  /\ pc' = "reap"
  /\ UNCHANGED <<provider, readers, returncode, timedOut, closed, result, gaveUp>>

KillTree ==
  /\ pc = "kill"
  /\ TerminateTree
  /\ pc' = "reap"
  /\ UNCHANGED <<holds, stdin, written, readers, returncode, timedOut, closed, result, gaveUp>>

ReadersEnded == reader = "ended" /\ errReader = "ended"

\* Both readers ended, or a join timed out: then the tree is terminated again
\* and the readers are joined once more.
JoinReaders ==
  /\ pc = "join"
  /\ \/ ReadersEnded /\ pc' = "close" /\ UNCHANGED <<proc, status, descendant>>
     \/ ~ReadersEnded /\ pc' = "rejoin" /\ TerminateTree
  /\ UNCHANGED <<holds, stdin, written, readers, returncode, timedOut, closed, result, gaveUp>>

RejoinReaders ==
  /\ pc = "rejoin"
  /\ pc' = "close"
  /\ gaveUp' = ~ReadersEnded
  /\ UNCHANGED <<provider, readers, returncode, timedOut, closed, result>>

\* stream.close waits for a read that is going on.
CloseStreams ==
  /\ pc = "close" /\ reader # "reading" /\ errReader # "reading"
  /\ closed' = TRUE
  /\ pc' = "decide"
  /\ UNCHANGED <<provider, readers, returncode, timedOut, result, gaveUp>>

\* Mutant: output that was cut off is parsed.
Verdict_IgnoresLimit ==
  IF timedOut THEN "timeout" ELSE IF returncode = "nonzero" THEN "exit" ELSE "parsed"

Verdict ==
  CASE exceeded                                             -> "output_limit"
    [] ~exceeded /\ timedOut                                -> "timeout"
    [] ~exceeded /\ ~timedOut /\ returncode = "nonzero"     -> "exit"
    [] ~exceeded /\ ~timedOut /\ returncode = "zero"        -> "parsed"

Decide ==
  /\ pc = "decide"
  /\ result' = Verdict
  /\ pc' = "done"
  /\ UNCHANGED <<provider, readers, returncode, timedOut, closed, gaveUp>>

\* The temporary directories of the call cannot be removed: the OSError is
\* reported as a failed launch, whatever the provider did.
CleanupFails ==
  /\ pc = "decide"
  /\ result' = "launch"
  /\ pc' = "done"
  /\ UNCHANGED <<provider, readers, returncode, timedOut, closed, gaveUp>>

Environment == Writes \/ Forks \/ ReadsRequest \/ Exits \/ DescendantExits
Readers == EnterRead \/ ReadReturns \/ Extend \/ ReaderKills \/ ErrReaderEnds
Caller == \/ Launch \/ WriteRequest \/ Reap \/ TimesOut \/ KillTree \/ JoinReaders
          \/ RejoinReaders \/ CloseStreams \/ Decide \/ CleanupFails

Next == Environment \/ Readers \/ Caller
Spec == Init /\ [][Next]_vars

\* The threads of the caller run and time passes; nothing is assumed of the
\* provider.
FairSpec ==
  /\ Spec
  /\ WF_vars(Caller)
  /\ WF_vars(EnterRead) /\ WF_vars(ReadReturns) /\ WF_vars(Extend)
  /\ WF_vars(ReaderKills) /\ WF_vars(ErrReaderEnds)
-----------------------------------------------------------------------------
\* A provider that was timed out leaves no process behind, whatever it forked,
\* whenever it exits between the timeout and the kill, and whatever the call
\* reports in the end.
TimeoutEndsTree ==
  timedOut /\ pc = "done" => proc # "running" /\ descendant # "alive"

\* The output that is parsed is all that was written, within the limit: no
\* reader is half way with a chunk and no chunk was cut off.  The exception is
\* a descendant that held a pipe until both joins had timed out.
ParsedIsComplete == result = "parsed" /\ ~gaveUp => output = written

\* The call returns, unless a descendant that lives on keeps a pipe open,
\* or the provider neither reads its request nor exits.
ReturnsUnlessHeldUp ==
  <>[](descendant = "alive" \/ (pc = "write" /\ ~CanWrite)) \/ <>(pc = "done")

\* What the documentation says of the timeout: it is a hard boundary, so that
\* every call returns.
AlwaysReturns == <>(pc = "done")
=============================================================================
