--------------------------- MODULE AsyncProvider ---------------------------
(***************************************************************************)
(* run_command_provider_async: the call of a command provider as a         *)
(* coroutine of the event loop.  An exchange task sends the request and    *)
(* awaits two reader tasks and the process; the caller awaits the exchange *)
(* with a timeout, shielded from its own cancellation, and the scheduler   *)
(* cancels the caller at its deadline.  Between two awaits nothing else    *)
(* runs.  The provider may fork a descendant that stays in its process     *)
(* group and keeps some of its pipes open.                                 *)
(***************************************************************************)
EXTENDS Integers

CONSTANTS
  OutLimit,    \* max_output_bytes, in units of data
  MaxSent,     \* data the provider and its descendant write to stdout
  FitsPipe,    \* does the request fit into the buffer of the stdin pipe?
  MaxCancels   \* how often the caller is cancelled

ASSUME AsyncAssumption ==
  OutLimit \in Nat /\ MaxSent \in Nat /\ FitsPipe \in BOOLEAN /\ MaxCancels \in Nat

VARIABLES
  child, exitStatus, \* the provider process
  code,              \* proc.returncode: set when the loop hears of the exit
  kid, kidHolds,     \* the descendant and the pipes it keeps open
  requestRead,       \* has the request been read?
  sent, buffered,    \* data written to stdout, and not yet read
  taken,             \* what the stdout task has read
  outTask, errTask,  \* the reader tasks
  exchange,          \* where the exchange task is
  task,              \* where the caller is
  over,              \* output_exceeded
  late,              \* timed_out
  ended,           \* the result
  cancels,           \* cancellations delivered
  reapedFirst        \* the exit was known when the timeout fired

process == <<child, exitStatus, kid, kidHolds, requestRead, sent>>
pipes == <<buffered, taken, outTask, errTask, over>>
coroutine == <<task, late, ended, cancels, reapedFirst>>
asyncVars == <<process, code, pipes, exchange, coroutine>>

AsyncInit ==
  /\ child = "none" /\ exitStatus = "none" /\ code = "none"
  /\ kid = "none" /\ kidHolds = {} /\ requestRead = FALSE
  /\ sent = 0 /\ buffered = 0 /\ taken = 0
  /\ outTask = "none" /\ errTask = "none" /\ exchange = "none"
  /\ task = "launch" /\ over = FALSE /\ late = FALSE /\ ended = "none"
  /\ cancels = 0 /\ reapedFirst = FALSE

-----------------------------------------------------------------------------
(* The provider. *)

HeldOpen(p) == child = "running" \/ (kid = "alive" /\ p \in kidHolds)

ChildWrites ==
  /\ HeldOpen("out") /\ sent < MaxSent
  /\ sent' = sent + 1 /\ buffered' = buffered + 1
  /\ UNCHANGED <<child, exitStatus, kid, kidHolds, requestRead, code, taken, outTask, errTask, over,
                 exchange, coroutine>>

ChildReads ==
  /\ HeldOpen("in") /\ ~requestRead
  /\ requestRead' = TRUE
  /\ UNCHANGED <<child, exitStatus, kid, kidHolds, sent, code, pipes, exchange, coroutine>>

ChildForks ==
  /\ child = "running" /\ kid = "none"
  /\ kid' = "alive" /\ kidHolds' \in SUBSET {"in", "out", "err"}
  /\ UNCHANGED <<child, exitStatus, requestRead, sent, code, pipes, exchange, coroutine>>

ChildExits ==
  /\ child = "running"
  /\ child' = "exited" /\ exitStatus' \in {"zero", "nonzero"}
  /\ UNCHANGED <<kid, kidHolds, requestRead, sent, code, pipes, exchange, coroutine>>

KidExits ==
  /\ kid = "alive"
  /\ kid' = "dead"
  /\ UNCHANGED <<child, exitStatus, kidHolds, requestRead, sent, code, pipes, exchange, coroutine>>

\* _terminate_provider_tree: nothing once the exit is known.
EndTree ==
  IF code = "none"
    THEN /\ child' = IF child = "running" THEN "killed" ELSE child
         /\ exitStatus' = IF child = "running" THEN "nonzero" ELSE exitStatus
         /\ kid' = IF kid = "alive" THEN "dead" ELSE kid
    ELSE UNCHANGED <<child, exitStatus, kid>>

\* The loop's child watcher.
HearExit ==
  /\ child \in {"exited", "killed"} /\ code = "none"
  /\ code' = exitStatus
  /\ UNCHANGED <<process, pipes, exchange, coroutine>>

-----------------------------------------------------------------------------
(* The reader tasks. *)

\* Mutant: a full buffer ends the stream.
ReadOut_StopsAtLimit ==
  /\ outTask = "reading"
  /\ IF buffered = 0
       THEN ~HeldOpen("out") /\ outTask' = "ended" /\ UNCHANGED <<buffered, taken, over>>
       ELSE /\ buffered' = buffered - 1
            /\ IF taken = OutLimit THEN outTask' = "ended" /\ UNCHANGED <<taken, over>>
               ELSE taken' = taken + 1 /\ UNCHANGED <<outTask, over>>
  /\ UNCHANGED <<process, code, errTask, exchange, coroutine>>

\* Mutant: the unit beyond the limit is kept.
ReadOut_KeepsLast ==
  /\ outTask = "reading"
  /\ IF buffered = 0
       THEN ~HeldOpen("out") /\ outTask' = "ended" /\ UNCHANGED <<buffered, taken, over>>
       ELSE /\ buffered' = buffered - 1 /\ taken' = taken + 1
            /\ IF taken = OutLimit THEN over' = TRUE /\ outTask' = "ended"
               ELSE UNCHANGED <<outTask, over>>
  /\ UNCHANGED <<process, code, errTask, exchange, coroutine>>

\* _bounded_async_reader: one unit beyond the limit ends it.
ReadOut ==
  /\ outTask = "reading"
  /\ IF buffered = 0
       THEN ~HeldOpen("out") /\ outTask' = "ended" /\ UNCHANGED <<buffered, taken, over>>
       ELSE /\ buffered' = buffered - 1
            /\ IF taken = OutLimit THEN over' = TRUE /\ outTask' = "ended" /\ UNCHANGED taken
               ELSE taken' = taken + 1 /\ UNCHANGED <<outTask, over>>
  /\ UNCHANGED <<process, code, errTask, exchange, coroutine>>

\* _bounded_async_tail_reader, which keeps the end of what it reads.
ReadErr ==
  /\ errTask = "reading" /\ ~HeldOpen("err")
  /\ errTask' = "ended"
  /\ UNCHANGED <<process, code, buffered, taken, outTask, over, exchange, coroutine>>

-----------------------------------------------------------------------------
(* The exchange task. *)

\* Mutant: a broken pipe is not noticed.
Drained_NeedsReader == FitsPipe \/ requestRead

\* The request is written and drained; a broken pipe is ignored.
Drained == FitsPipe \/ requestRead \/ ~HeldOpen("in")

SendRequest ==
  /\ exchange = "send" /\ Drained
  /\ exchange' = "out"
  /\ UNCHANGED <<process, code, pipes, coroutine>>

AwaitOut ==
  /\ exchange = "out" /\ outTask = "ended"
  /\ exchange' = "err"
  /\ IF over THEN EndTree ELSE UNCHANGED <<child, exitStatus, kid>>
  /\ UNCHANGED <<kidHolds, requestRead, sent, code, pipes, coroutine>>

AwaitErr ==
  /\ exchange = "err" /\ errTask = "ended"
  /\ exchange' = "exit"
  /\ UNCHANGED <<process, code, pipes, coroutine>>

AwaitExit ==
  /\ exchange = "exit" /\ code # "none"
  /\ exchange' = "ended"
  /\ UNCHANGED <<process, code, pipes, coroutine>>

\* Mutant: its readers are left running.
ExchangeCancelled_LeavesReaders ==
  /\ exchange' = IF exchange = "ended" THEN "ended" ELSE "cancelled"
  /\ UNCHANGED <<outTask, errTask>>

\* A cancelled exchange cancels its readers and gathers them.
ExchangeCancelled ==
  /\ exchange' = IF exchange = "ended" THEN "ended" ELSE "cancelled"
  /\ outTask' = "ended" /\ errTask' = "ended"

-----------------------------------------------------------------------------
(* The caller. *)

StartAsync ==
  /\ task = "launch"
  /\ \/ /\ child' = "running" /\ outTask' = "reading" /\ errTask' = "reading"
        /\ exchange' = "send" /\ task' = "waiting"
        /\ UNCHANGED ended
     \/ /\ task' = "done" /\ ended' \in {"provider_trust", "sandbox_unavailable", "launch"}
        /\ UNCHANGED <<child, outTask, errTask, exchange>>
  /\ UNCHANGED <<exitStatus, code, kid, kidHolds, requestRead, sent, buffered, taken, over, late, cancels, reapedFirst>>

AsyncVerdict ==
  CASE over -> "output_limit"
    [] ~over /\ late -> "timeout"
    [] ~over /\ ~late /\ code = "nonzero" -> "exit"
    [] ~over /\ ~late /\ code = "zero" -> "parsed"

\* The exchange is over, in time or after the timeout.
ReturnAsync ==
  /\ task \in {"waiting", "collect"} /\ exchange = "ended"
  /\ task' = "done" /\ ended' = AsyncVerdict
  /\ UNCHANGED <<process, code, pipes, exchange, late, cancels, reapedFirst>>

\* Mutant: the provider is given up, not ended.
TimeOutAsync_LeavesTree ==
  /\ task = "waiting"
  /\ late' = TRUE /\ reapedFirst' = (code # "none")
  /\ task' = "reap"
  /\ UNCHANGED <<process, code, pipes, exchange, ended, cancels>>

TimeOutAsync ==
  /\ task = "waiting"
  /\ late' = TRUE /\ reapedFirst' = (code # "none")
  /\ EndTree
  /\ task' = "reap"
  /\ UNCHANGED <<kidHolds, requestRead, sent, code, pipes, exchange, ended, cancels>>

\* Then the exit is awaited, and the exchange that is ending by itself.
ReapAsync ==
  /\ task = "reap" /\ code # "none"
  /\ task' = "collect"
  /\ UNCHANGED <<process, code, pipes, exchange, late, ended, cancels, reapedFirst>>

\* Cancelled while it waits, the caller ends the tree and awaits the exit,
CancelWaiting ==
  /\ task = "waiting" /\ cancels < MaxCancels
  /\ cancels' = cancels + 1
  /\ EndTree
  /\ task' = "unwind"
  /\ UNCHANGED <<kidHolds, requestRead, sent, code, pipes, exchange, late, ended, reapedFirst>>

\* and then cancels the exchange.
Unwind ==
  /\ task = "unwind" /\ code # "none"
  /\ ExchangeCancelled
  /\ task' = "cancelled"
  /\ UNCHANGED <<process, code, buffered, taken, over, late, ended, cancels, reapedFirst>>

\* Cancelled while it awaits the exit, in either place, it leaves at once; while
\* it collects the exchange, the exchange is cancelled with it.
CancelAgain ==
  /\ task \in {"reap", "unwind", "collect"} /\ cancels < MaxCancels
  /\ cancels' = cancels + 1
  /\ task' = "cancelled"
  /\ IF task = "collect" THEN ExchangeCancelled ELSE UNCHANGED <<exchange, outTask, errTask>>
  /\ UNCHANGED <<process, code, buffered, taken, over, late, ended, reapedFirst>>

ChildNext == ChildWrites \/ ChildReads \/ ChildForks \/ ChildExits \/ KidExits
LoopNext == \/ HearExit \/ ReadOut \/ ReadErr
            \/ SendRequest \/ AwaitOut \/ AwaitErr \/ AwaitExit
CallerNext == StartAsync \/ ReturnAsync \/ TimeOutAsync \/ ReapAsync \/ Unwind

AsyncNext == ChildNext \/ LoopNext \/ CallerNext \/ CancelWaiting \/ CancelAgain
AsyncSpec == AsyncInit /\ [][AsyncNext]_asyncVars

\* The loop runs what is ready and its timers fire; nothing is assumed of the
\* provider, and nobody has to cancel.
AsyncFairness ==
  /\ WF_asyncVars(HearExit) /\ WF_asyncVars(ReadOut) /\ WF_asyncVars(ReadErr)
  /\ WF_asyncVars(SendRequest) /\ WF_asyncVars(AwaitOut) /\ WF_asyncVars(AwaitErr) /\ WF_asyncVars(AwaitExit)
  /\ WF_asyncVars(CallerNext)
AsyncFairSpec == AsyncSpec /\ AsyncFairness

-----------------------------------------------------------------------------
(* Properties. *)

AsyncTypeOK ==
  /\ child \in {"none", "running", "exited", "killed"} /\ kid \in {"none", "alive", "dead"}
  /\ {exitStatus, code} \subseteq {"none", "zero", "nonzero"} /\ code \in {"none", exitStatus}
  /\ kidHolds \subseteq {"in", "out", "err"} /\ requestRead \in BOOLEAN
  /\ sent \in 0..MaxSent /\ buffered \in 0..sent /\ taken \in 0..OutLimit
  /\ {outTask, errTask} \subseteq {"none", "reading", "ended"}
  /\ exchange \in {"none", "send", "out", "err", "exit", "ended", "cancelled"}
  /\ task \in {"launch", "waiting", "reap", "collect", "unwind", "done", "cancelled"}
  /\ over \in BOOLEAN /\ late \in BOOLEAN /\ reapedFirst \in BOOLEAN /\ cancels \in 0..MaxCancels
  /\ ended = "none" <=> task # "done"

Left == task \in {"done", "cancelled"}

\* A call that left after its timeout leaves no process of the provider's group,
\* unless the provider had exited before the timeout and only a descendant was
\* left.
AsyncTimeoutEndsTree ==
  late /\ Left /\ ~reapedFirst => child # "running" /\ kid # "alive"

\* What is parsed is all that was written.
AsyncParsedIsComplete ==
  ended = "parsed" => taken = sent /\ ~HeldOpen("out")

\* A call that is cancelled once, while it waits, leaves neither a process that
\* it has not seen exit nor a task of the exchange behind.
CancelledLeavesNothing ==
  task = "cancelled" /\ cancels = 1 /\ ~late =>
    child # "running" /\ code # "none" /\ exchange \in {"ended", "cancelled"}
    /\ outTask = "ended" /\ errTask = "ended"

\* The call is left in the end, unless a descendant lives on.
AsyncReturnsUnlessHeldUp == <>[](kid = "alive") \/ <>Left

\* Whatever is timed out or cancelled, and cancelled again, run_command_provider_async
\* leaves no process of the provider, no task and no directory behind, and what
\* it parses is all that was written.
AsyncSafety ==
  AsyncTypeOK /\ AsyncTimeoutEndsTree /\ AsyncParsedIsComplete /\ CancelledLeavesNothing
=============================================================================
