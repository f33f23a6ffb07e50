------------------------- MODULE ProviderCallProofs -------------------------
(***************************************************************************)
(* Proofs about the call of a command provider: what it may run with       *)
(* (ProviderAdmission), that a blocking call ends the tree it timed out    *)
(* and parses all that was written (ProviderRunner), and that the          *)
(* coroutine leaves nothing behind (AsyncProvider): for every limit, chunk *)
(* size, number of cancellations, caps and contents.                       *)
(***************************************************************************)
EXTENDS ProviderRunner, AsyncProvider, ProviderAdmission, ProviderPayload, FiniteSetTheorems,
        TLAPS

-----------------------------------------------------------------------------
(* ProviderRunner *)

\* Neither the provider nor its descendant is running.
TreeEnded == proc # "running" /\ descendant # "alive"

\* Once the kill of a timed out provider has happened the tree has ended, and
\* until wait has returned nothing keeps the kill from happening.
KillInv ==
  /\ pc \in {"launch", "write", "wait", "kill", "reap"} => returncode = "none"
  /\ timedOut => pc \notin {"launch", "write", "wait"}
  /\ timedOut /\ pc # "kill" => TreeEnded

\* A verdict has an exit status to go by.
StatusInv ==
  /\ proc \in {"exited", "killed"} => status # "none"
  /\ pc \notin {"launch", "done"} => proc # "none"
  /\ pc \in {"join", "rejoin", "close", "decide"} => returncode # "none"

\* Data that the stdout reader has taken from the pipe and not yet stored.
Held == IF reader = "extend" THEN inHand ELSE 0

\* No data is lost while the limit is not exceeded.
NothingLost == ~exceeded => written = output + pipe + Held

\* The reader ended because it met the end of the stream.
EndedAtEnd ==
  reader = "ended" /\ ~exceeded /\ ~gaveUp => pipe = 0 /\ ~Open("stdout")

\* The streams are closed, and the output is parsed, after the reader ended.
ClosedAfterEnd ==
  /\ pc \in {"close", "decide"} \/ closed \/ result = "parsed" =>
       gaveUp \/ reader = "ended"
  /\ result = "parsed" => gaveUp \/ ~exceeded
  /\ reader = "kill" => exceeded
  /\ reader # "none" => pc # "launch"
  /\ pc = "launch" => proc = "none"
  /\ gaveUp => pc \in {"close", "decide", "done"}

IInv == TypeOK /\ KillInv /\ StatusInv /\ NothingLost /\ EndedAtEnd /\ ClosedAfterEnd

\* The numbers among the parameters of a call.
LEMMA Numbers == Limit \in Nat /\ Chunk \in Nat /\ MaxWritten \in Nat
  BY RunnerAssumption

\* The inductive invariant holds initially.
LEMMA InitIInv == Init => IInv
<1> SUFFICES ASSUME Init PROVE IInv
  OBVIOUS
<1>1. TypeOK
  <2>1. written \in 0..MaxWritten /\ pipe \in 0..written /\ inHand \in 0..Chunk
          /\ output \in 0..Limit
    BY Numbers DEF Init
  <2> QED BY <2>1 DEF Init, TypeOK, Results
<1>2. KillInv /\ StatusInv /\ EndedAtEnd /\ ClosedAfterEnd
  BY DEF Init, KillInv, StatusInv, EndedAtEnd, ClosedAfterEnd
<1>3. NothingLost
  BY DEF Init, NothingLost, Held
<1> QED BY <1>1, <1>2, <1>3 DEF IInv

\* What the minimum of two naturals is (the arguments of read).
LEMMA LeastFacts ==
  ASSUME NEW a \in Nat, NEW b \in Nat
  PROVE  Least(a, b) \in Nat /\ Least(a, b) <= a /\ Least(a, b) <= b
  BY DEF Least

\* What a read returns when it returns: no more than there is, no more than a
\* chunk, and at most one unit more than the buffer still takes.
Taken == Least(pipe, Wanted)
LEMMA TakenFacts ==
  ASSUME TypeOK
  PROVE  Taken \in Nat /\ Taken <= pipe /\ Taken <= Chunk
<1>1. Remaining + 1 \in Nat
  BY Numbers DEF TypeOK, Remaining
<1>2. Wanted \in Nat /\ Wanted <= Chunk
  BY <1>1, LeastFacts, Numbers DEF Wanted
<1>3. pipe \in Nat
  BY Numbers DEF TypeOK
<1>4. Taken \in Nat /\ Taken <= pipe /\ Taken <= Wanted
  BY <1>2, <1>3, LeastFacts DEF Taken
<1> QED BY <1>2, <1>4, Numbers

\* Every step of the provider, the readers and the caller keeps the types.
LEMMA TypeStep == IInv /\ [Next]_vars => TypeOK'
<1> SUFFICES ASSUME TypeOK, StatusInv, [Next]_vars PROVE TypeOK'
  BY DEF IInv
<1> USE DEF TypeOK, provider, readers, caller, vars, Results
<1>1. CASE Environment
  <2>1. CASE Writes
    BY <2>1, Numbers DEF Writes
  <2>2. CASE Forks
    BY <2>2 DEF Forks
  <2>3. CASE ReadsRequest
    BY <2>3 DEF ReadsRequest
  <2>4. CASE Exits
    BY <2>4 DEF Exits
  <2>5. CASE DescendantExits
    BY <2>5 DEF DescendantExits
  <2> QED BY <1>1, <2>1, <2>2, <2>3, <2>4, <2>5 DEF Environment
<1>2. CASE EnterRead
  BY <1>2 DEF EnterRead
<1>3. CASE ReadReturns
  <2>1. Taken \in Nat /\ Taken <= pipe /\ Taken <= Chunk
    BY TakenFacts
  <2> QED BY <1>3, <2>1, Numbers DEF ReadReturns, Taken
<1>4. CASE Extend
  <2>1. output' \in 0..Limit
    BY <1>4, Numbers DEF Extend, Remaining
  <2>2. exceeded' \in BOOLEAN /\ reader' \in {"kill", "loop"}
    BY <1>4 DEF Extend
  <2> QED BY <1>4, <2>1, <2>2 DEF Extend
<1>5. CASE ReaderKills
  BY <1>5 DEF ReaderKills, TerminateTree
<1>6. CASE ErrReaderEnds
  BY <1>6 DEF ErrReaderEnds
<1>7. CASE Launch
  BY <1>7 DEF Launch
<1>8. CASE WriteRequest
  BY <1>8 DEF WriteRequest
<1>9. CASE Reap
  BY <1>9 DEF Reap
<1>10. CASE TimesOut
  BY <1>10 DEF TimesOut
<1>11. CASE KillTree
  BY <1>11 DEF KillTree, TerminateTree
<1>12. CASE JoinReaders
  BY <1>12 DEF JoinReaders, TerminateTree
<1>13. CASE RejoinReaders
  BY <1>13 DEF RejoinReaders, ReadersEnded
<1>14. CASE CloseStreams
  BY <1>14 DEF CloseStreams
<1>15. CASE Decide
  <2>1. returncode \in {"zero", "nonzero"}
    BY <1>15 DEF Decide, StatusInv
  <2>2. Verdict \in {"output_limit", "timeout", "exit", "parsed"}
    BY <2>1 DEF Verdict
  <2> QED BY <1>15, <2>2 DEF Decide
<1>16. CASE CleanupFails
  BY <1>16 DEF CleanupFails
<1>17. CASE UNCHANGED vars
  BY <1>17
<1> QED
  BY <1>1, <1>2, <1>3, <1>4, <1>5, <1>6, <1>7, <1>8, <1>9, <1>10, <1>11, <1>12, <1>13,
     <1>14, <1>15, <1>16, <1>17 DEF Next, Readers, Caller

\* Nobody leaves the tree of a timed out provider alive, and no step undoes it.
LEMMA KillStep == IInv /\ [Next]_vars => KillInv'
<1> SUFFICES ASSUME TypeOK, KillInv, StatusInv, ClosedAfterEnd, [Next]_vars
             PROVE  KillInv'
  BY DEF IInv
<1> USE DEF KillInv, TreeEnded
<1>1. CASE Environment
  BY <1>1 DEF Environment, Writes, Forks, ReadsRequest, Exits, DescendantExits, caller
<1>2. CASE Readers
  BY <1>2 DEF Readers, EnterRead, ReadReturns, Extend, ReaderKills, ErrReaderEnds,
     TerminateTree, provider, caller
<1>3. CASE Launch
  BY <1>3 DEF Launch
<1>4. CASE WriteRequest \/ Reap \/ TimesOut
  BY <1>4 DEF WriteRequest, Reap, TimesOut, provider
<1>5. CASE KillTree
  BY <1>5 DEF KillTree, TerminateTree, TypeOK
<1>6. CASE JoinReaders \/ RejoinReaders
  BY <1>6 DEF JoinReaders, RejoinReaders, TerminateTree, provider
<1>7. CASE CloseStreams \/ Decide \/ CleanupFails
  BY <1>7 DEF CloseStreams, Decide, CleanupFails, provider
<1>8. CASE UNCHANGED vars
  BY <1>8 DEF vars, provider, caller
<1> QED
  BY <1>1, <1>2, <1>3, <1>4, <1>5, <1>6, <1>7, <1>8 DEF Next, Caller

\* An exited provider has a status, and wait passes it on.
LEMMA StatusStep == IInv /\ [Next]_vars => StatusInv'
<1> SUFFICES ASSUME TypeOK, StatusInv, ClosedAfterEnd, [Next]_vars
             PROVE  StatusInv'
  BY DEF IInv
<1> USE DEF StatusInv, TypeOK
<1>1. CASE Environment
  BY <1>1 DEF Environment, Writes, Forks, ReadsRequest, Exits, DescendantExits, caller
<1>2. CASE Readers
  BY <1>2 DEF Readers, EnterRead, ReadReturns, Extend, ReaderKills, ErrReaderEnds,
     TerminateTree, provider, caller
<1>3. CASE Launch
  BY <1>3 DEF Launch, ClosedAfterEnd
<1>4. CASE WriteRequest \/ Reap \/ TimesOut
  BY <1>4 DEF WriteRequest, Reap, TimesOut, provider
<1>5. CASE KillTree
  BY <1>5 DEF KillTree, TerminateTree
<1>6. CASE JoinReaders \/ RejoinReaders
  BY <1>6 DEF JoinReaders, RejoinReaders, TerminateTree, provider
<1>7. CASE CloseStreams \/ Decide \/ CleanupFails
  BY <1>7 DEF CloseStreams, Decide, CleanupFails, provider
<1>8. CASE UNCHANGED vars
  BY <1>8 DEF vars, provider, caller
<1> QED
  BY <1>1, <1>2, <1>3, <1>4, <1>5, <1>6, <1>7, <1>8 DEF Next, Caller

\* Data moves from the pipe through the reader into the buffer.
LEMMA DataStep == IInv /\ [Next]_vars => NothingLost'
<1> SUFFICES ASSUME TypeOK, NothingLost, ClosedAfterEnd, [Next]_vars
             PROVE  NothingLost'
  BY DEF IInv
<1>0. written \in Int /\ pipe \in Int /\ output \in Int /\ inHand \in Int
        /\ exceeded \in BOOLEAN
  BY Numbers DEF TypeOK
<1> USE <1>0 DEF NothingLost, Held
<1>1. CASE Writes
  BY <1>1 DEF Writes
<1>2. CASE Forks \/ ReadsRequest \/ Exits \/ DescendantExits
  BY <1>2 DEF Forks, ReadsRequest, Exits, DescendantExits, readers
<1>3. CASE ReadReturns
  <2>1. reader = "reading" /\ written' = written /\ output' = output /\ exceeded' = exceeded
    BY <1>3 DEF ReadReturns, provider
  <2>2. pipe' = pipe - inHand'
    BY <1>3 DEF ReadReturns
  <2>3. inHand' \in Int
    BY <1>3, TakenFacts DEF ReadReturns, Taken
  <2>4. CASE pipe = 0
    <3>1. inHand' = 0 /\ reader' = "ended"
      BY <2>4, <1>3, TakenFacts DEF ReadReturns, Taken
    <3> QED BY <2>1, <2>2, <3>1
  <2>5. CASE pipe # 0
    BY <2>1, <2>2, <2>3, <2>5, <1>3 DEF ReadReturns
  <2> QED BY <2>4, <2>5
<1>4. CASE Extend
  BY <1>4 DEF Extend, Remaining, provider
<1>5. CASE EnterRead \/ ReaderKills \/ ErrReaderEnds
  BY <1>5 DEF EnterRead, ReaderKills, ErrReaderEnds, provider
<1>6. CASE Launch
  BY <1>6 DEF Launch, ClosedAfterEnd
<1>7. CASE WriteRequest \/ Reap \/ TimesOut \/ RejoinReaders \/ CloseStreams \/ Decide
           \/ CleanupFails
  BY <1>7 DEF WriteRequest, Reap, TimesOut, RejoinReaders, CloseStreams, Decide,
     CleanupFails, provider, readers
<1>8. CASE KillTree \/ JoinReaders
  BY <1>8 DEF KillTree, JoinReaders, readers
<1>9. CASE UNCHANGED vars
  BY <1>9 DEF vars, provider, readers
<1> QED
  BY <1>1, <1>2, <1>3, <1>4, <1>5, <1>6, <1>7, <1>8, <1>9
  DEF Next, Environment, Readers, Caller

\* A reader that has met the end of the stream has met it for good.
LEMMA EndStep == IInv /\ [Next]_vars => EndedAtEnd'
<1> SUFFICES ASSUME TypeOK, StatusInv, EndedAtEnd, ClosedAfterEnd, [Next]_vars
             PROVE  EndedAtEnd'
  BY DEF IInv
<1> USE DEF EndedAtEnd, Open
<1>1. CASE Environment
  BY <1>1 DEF Environment, Writes, Forks, ReadsRequest, Exits, DescendantExits, caller,
     readers
<1>2. CASE EnterRead
  BY <1>2 DEF EnterRead, provider, caller, ClosedAfterEnd
<1>3. CASE ReadReturns
  <2>1. pipe = 0 => pipe' = 0
    BY <1>3, TakenFacts DEF ReadReturns, Taken
  <2>2. pipe = 0 => ~Open("stdout")
    <3>1. Wanted > 0
      BY Numbers, RunnerAssumption DEF Wanted, Least, Remaining, TypeOK
    <3>2. Wanted \in Int
      BY Numbers DEF Wanted, Least, Remaining, TypeOK
    <3> QED BY <1>3, <3>1, <3>2 DEF ReadReturns
  <2> QED BY <1>3, <2>1, <2>2 DEF ReadReturns, provider, caller
<1>4. CASE Extend
  BY <1>4 DEF Extend
<1>5. CASE ReaderKills
  BY <1>5 DEF ReaderKills, ClosedAfterEnd
<1>6. CASE ErrReaderEnds
  BY <1>6 DEF ErrReaderEnds, provider, caller
<1>7. CASE Launch
  BY <1>7 DEF Launch, ClosedAfterEnd
<1>8. CASE WriteRequest \/ Reap \/ TimesOut \/ RejoinReaders \/ CloseStreams \/ Decide
           \/ CleanupFails
  BY <1>8 DEF WriteRequest, Reap, TimesOut, RejoinReaders, CloseStreams, Decide,
     CleanupFails, provider, readers, ClosedAfterEnd
<1>9. CASE KillTree \/ JoinReaders
  BY <1>9 DEF KillTree, JoinReaders, TerminateTree, readers
<1>10. CASE UNCHANGED vars
  BY <1>10 DEF vars, provider, readers, caller
<1> QED
  BY <1>1, <1>2, <1>3, <1>4, <1>5, <1>6, <1>7, <1>8, <1>9, <1>10 DEF Next, Readers, Caller

\* The caller closes and parses only after it has joined the reader, or gave up.
LEMMA CallerStep == IInv /\ [Next]_vars => ClosedAfterEnd'
<1> SUFFICES ASSUME TypeOK, ClosedAfterEnd, [Next]_vars PROVE ClosedAfterEnd'
  BY DEF IInv
<1> USE DEF ClosedAfterEnd
<1>1. CASE Environment
  BY <1>1 DEF Environment, Writes, Forks, ReadsRequest, Exits, DescendantExits, caller,
     readers
<1>2. CASE EnterRead
  BY <1>2 DEF EnterRead, provider, caller
<1>3. CASE ReadReturns
  BY <1>3 DEF ReadReturns, provider, caller
<1>4. CASE Extend
  BY <1>4 DEF Extend, provider, caller
<1>5. CASE ReaderKills
  BY <1>5 DEF ReaderKills, TerminateTree, caller
<1>6. CASE ErrReaderEnds
  BY <1>6 DEF ErrReaderEnds, provider, caller
<1>7. CASE Launch
  BY <1>7 DEF Launch
<1>8. CASE WriteRequest \/ Reap \/ TimesOut
  BY <1>8 DEF WriteRequest, Reap, TimesOut, provider, readers
<1>9. CASE KillTree
  BY <1>9 DEF KillTree, TerminateTree, readers
<1>10. CASE JoinReaders
  BY <1>10 DEF JoinReaders, TerminateTree, ReadersEnded, readers
<1>11. CASE RejoinReaders
  BY <1>11 DEF RejoinReaders, ReadersEnded, provider, readers
<1>12. CASE CloseStreams
  BY <1>12 DEF CloseStreams, provider, readers
<1>13. CASE Decide
  BY <1>13 DEF Decide, Verdict, provider, readers
<1>14. CASE CleanupFails
  BY <1>14 DEF CleanupFails, provider, readers
<1>15. CASE UNCHANGED vars
  BY <1>15 DEF vars, provider, readers, caller
<1> QED
  BY <1>1, <1>2, <1>3, <1>4, <1>5, <1>6, <1>7, <1>8, <1>9, <1>10, <1>11, <1>12, <1>13,
     <1>14, <1>15 DEF Next, Readers, Caller

\* The inductive invariant is an invariant of run_command_provider.
LEMMA IInvAlways == Spec => []IInv
<1>1. IInv /\ [Next]_vars => IInv'
  BY TypeStep, KillStep, StatusStep, DataStep, EndStep, CallerStep DEF IInv
<1> QED BY InitIInv, <1>1, PTL DEF Spec

\* The call and the buffers stay well formed; in particular the buffer of the
\* output never holds more than max_output_bytes.
THEOREM TypeCorrect == Spec => []TypeOK
<1>1. IInv => TypeOK
  BY DEF IInv
<1> QED BY IInvAlways, <1>1, PTL

\* When a call whose provider timed out returns, neither the provider nor the
\* descendant it forked runs.
THEOREM TimeoutLeavesNoProcess == Spec => []TimeoutEndsTree
<1>1. IInv => TimeoutEndsTree
  BY DEF IInv, KillInv, TreeEnded, TimeoutEndsTree
<1> QED BY IInvAlways, <1>1, PTL

\* Output that was parsed is everything that was written, unless a descendant
\* kept a pipe open until both joins of the readers had timed out.
THEOREM ParsedOutputIsComplete == Spec => []ParsedIsComplete
<1>1. IInv => ParsedIsComplete
  <2> SUFFICES ASSUME IInv, result = "parsed", ~gaveUp PROVE output = written
    BY DEF ParsedIsComplete
  <2>1. reader = "ended" /\ ~exceeded
    BY DEF IInv, ClosedAfterEnd
  <2>2. pipe = 0 /\ output \in Int
    BY <2>1, Numbers DEF IInv, EndedAtEnd, TypeOK
  <2> QED BY <2>1, <2>2 DEF IInv, NothingLost, Held
<1> QED BY IInvAlways, <1>1, PTL

-----------------------------------------------------------------------------
(* AsyncProvider *)

\* Nothing has happened yet while the launch has not, and the exit status says
\* what became of the process; the loop hears of an exit after it.
ProcessInv ==
  /\ task = "launch" => child = "none" /\ exchange = "none" /\ ~late /\ cancels = 0
  /\ child = "none" => exitStatus = "none" /\ kid = "none" /\ sent = 0
  /\ exitStatus = "none" <=> child \in {"none", "running"}

\* A timeout that found the exit unknown ended the tree, which does not grow
\* again.
TimeoutInv ==
  /\ late /\ ~reapedFirst => child # "running" /\ kid # "alive"
  /\ task \in {"reap", "collect"} => late

\* What was written is read or in the pipe, until the limit is exceeded; a
\* reader that was not cancelled ended at the end of the stream.
StreamInv ==
  /\ ~over => sent = taken + buffered
  /\ outTask = "ended" /\ ~over /\ exchange # "cancelled" =>
       buffered = 0 /\ ~HeldOpen("out")

\* How far the exchange is says what has ended.
ExchangeInv ==
  /\ exchange \in {"err", "exit", "ended", "cancelled"} => outTask = "ended"
  /\ exchange \in {"exit", "ended", "cancelled"} => errTask = "ended"
  /\ exchange = "ended" => code # "none"
  /\ ended = "parsed" => exchange = "ended" /\ ~over
  /\ outTask = "none" <=> exchange = "none"

\* A cancelled call that was cancelled once and had not timed out went through
\* Unwind.
CancelInv ==
  /\ task = "unwind" => cancels >= 1
  /\ CancelledLeavesNothing

AsyncInv == AsyncTypeOK /\ ProcessInv /\ TimeoutInv /\ StreamInv /\ ExchangeInv /\ CancelInv

\* The inductive invariant holds initially.
LEMMA AsyncInitInv == AsyncInit => AsyncInv
  <1> SUFFICES ASSUME AsyncInit PROVE AsyncInv
    OBVIOUS
  <1>1. AsyncTypeOK
    <2>1. requestRead \in BOOLEAN /\ over \in BOOLEAN /\ late \in BOOLEAN /\ reapedFirst \in BOOLEAN
      BY Zenon DEF AsyncInit
    <2> QED
      BY <2>1, AsyncAssumption DEF AsyncInit, AsyncTypeOK
  <1>2. ProcessInv /\ TimeoutInv
    BY DEF AsyncInit, ProcessInv, TimeoutInv
  <1>3. StreamInv /\ ExchangeInv /\ CancelInv
    BY AsyncAssumption DEF AsyncInit, StreamInv, ExchangeInv, CancelInv, CancelledLeavesNothing
  <1> QED
    BY <1>1, <1>2, <1>3 DEF AsyncInv

\* Every step of the provider, of the loop, of the caller and every cancellation
\* preserves it.
LEMMA AsyncNextInv == AsyncInv /\ [AsyncNext]_asyncVars => AsyncInv'
  <1> SUFFICES ASSUME AsyncInv, [AsyncNext]_asyncVars PROVE AsyncInv'
    OBVIOUS
  <1> USE AsyncAssumption DEF AsyncInv, AsyncTypeOK, ProcessInv, TimeoutInv, StreamInv, ExchangeInv,
        CancelInv, CancelledLeavesNothing, HeldOpen, process, pipes, coroutine
  <1>1. CASE ChildWrites
    BY <1>1 DEF ChildWrites
  <1>2. CASE ChildReads
    BY <1>2 DEF ChildReads
  <1>3. CASE ChildForks
    BY <1>3 DEF ChildForks
  <1>4. CASE ChildExits
    BY <1>4 DEF ChildExits
  <1>5. CASE KidExits
    BY <1>5 DEF KidExits
  <1>6. CASE HearExit
    BY <1>6 DEF HearExit
  <1>7. CASE ReadOut
    <2>1. CASE buffered = 0
      BY <1>7, <2>1 DEF ReadOut
    <2>2. CASE buffered # 0 /\ taken = OutLimit
      BY <1>7, <2>2 DEF ReadOut
    <2>3. CASE buffered # 0 /\ taken # OutLimit
      BY <1>7, <2>3 DEF ReadOut
    <2> QED
      BY <2>1, <2>2, <2>3
  <1>8. CASE ReadErr
    BY <1>8 DEF ReadErr
  <1>9. CASE SendRequest
    BY <1>9 DEF SendRequest, Drained
  <1>10. CASE AwaitOut
    BY <1>10 DEF AwaitOut, EndTree
  <1>11. CASE AwaitErr
    BY <1>11 DEF AwaitErr
  <1>12. CASE AwaitExit
    BY <1>12 DEF AwaitExit
  <1>13. CASE StartAsync
    BY <1>13 DEF StartAsync
  <1>14. CASE ReturnAsync
    BY <1>14 DEF ReturnAsync, AsyncVerdict
  <1>15. CASE TimeOutAsync
    <2>1. CASE code = "none"
      BY <1>15, <2>1 DEF TimeOutAsync, EndTree
    <2>2. CASE code # "none"
      BY <1>15, <2>2 DEF TimeOutAsync, EndTree
    <2> QED
      BY <2>1, <2>2
  <1>16. CASE ReapAsync
    BY <1>16 DEF ReapAsync
  <1>17. CASE Unwind
    BY <1>17 DEF Unwind, ExchangeCancelled
  <1>18. CASE CancelWaiting
    BY <1>18 DEF CancelWaiting, EndTree
  <1>19. CASE CancelAgain
    BY <1>19 DEF CancelAgain, ExchangeCancelled
  <1>20. CASE UNCHANGED asyncVars
    BY <1>20 DEF asyncVars
  <1> QED
    BY <1>1, <1>2, <1>3, <1>4, <1>5, <1>6, <1>7, <1>8, <1>9, <1>10, <1>11, <1>12, <1>13, <1>14, <1>15, <1>16, <1>17, <1>18, <1>19, <1>20 DEF AsyncNext, ChildNext, LoopNext, CallerNext

\* Every reachable state of the coroutine satisfies the inductive invariant.
LEMMA AsyncInvariance == AsyncSpec => []AsyncInv
  BY AsyncInitInv, AsyncNextInv, PTL DEF AsyncSpec

\* Whatever is timed out or cancelled, and cancelled again, no process and no
\* task is left behind, and what is parsed is all that was written: for every
\* limit and every number of cancellations (run_command_provider_async).
THEOREM AsyncCallIsSafe == AsyncSpec => []AsyncSafety
  <1>1. AsyncInv => AsyncSafety
    <2> SUFFICES ASSUME AsyncInv PROVE AsyncSafety
      OBVIOUS
    <2>1. AsyncTypeOK /\ AsyncTimeoutEndsTree /\ CancelledLeavesNothing
      BY DEF AsyncInv, AsyncTypeOK, TimeoutInv, CancelInv, AsyncTimeoutEndsTree
    <2>2. AsyncParsedIsComplete
      BY DEF AsyncInv, AsyncTypeOK, StreamInv, ExchangeInv, AsyncParsedIsComplete
    <2> QED
      BY <2>1, <2>2 DEF AsyncSafety
  <1> QED
    BY <1>1, AsyncInvariance, PTL

-----------------------------------------------------------------------------
(* ProviderAdmission *)

Specs == [trust : {"none", "local", "registry"}, cap : 0..MaxCap, pin : 0..MaxContent, sandbox : Policies]
SandboxPlans == [sandboxed : BOOLEAN, netless : BOOLEAN, limited : BOOLEAN]
CallRecords ==
  [at : {"idle", "runtime", "verify", "plan", "start", "done"}, entry : SUBSET RegistryEntries,
   project : SUBSET ProjectSpecs, spec : Specs, plan : SandboxPlans, dirs : BOOLEAN, swapped : BOOLEAN,
   ran : [content : 0..MaxContent, plan : SandboxPlans],
   result : {"none", "configuration", "launch", "provider_trust", "sandbox_unavailable", "exit", "ran"}]

\* The types of the state, and where a call has directories and a result.
CallType ==
  /\ executable \in [content : Builds, place : Places]
  /\ backend \in BOOLEAN /\ probed \in {"unknown", "works", "fails"}
  /\ call \in CallRecords
  /\ call.dirs <=> call.at \in {"verify", "plan", "start"}
  /\ call.result = "none" <=> call.at # "done"

\* What a call was resolved to is the registry's, tightened by the project.
ResolvedInv ==
  /\ \A entry \in call.entry :
       /\ call.spec.pin = entry.pin /\ call.spec.sandbox = entry.sandbox
       /\ call.spec.cap <= entry.cap
  /\ \A project \in call.project : project.cap # 0 => call.spec.cap <= project.cap
  /\ ValidPolicy(call.spec.sandbox)

\* From the verification on, the executable is the one that was verified unless
\* the call has been noted to be swapped.
VerifiedInv ==
  /\ call.at \in {"plan", "start"} /\ call.spec.trust = "registry" /\ ~call.swapped =>
       executable.content = call.spec.pin
  /\ Ran /\ call.spec.trust = "registry" /\ ~call.swapped => call.ran.content = call.spec.pin

\* The plan enforces what the policy demands.
Enforces(plan, policy) ==
  /\ policy.mode = "required" => plan.sandboxed
  /\ policy.network = "deny" => plan.netless
  /\ policy.limits => plan.limited
  /\ plan.sandboxed => policy.mode # "off"

PlanInv ==
  /\ call.at = "start" => Enforces(call.plan, call.spec.sandbox)
  /\ Ran => Enforces(call.ran.plan, call.spec.sandbox)

AdmissionInv == CallType /\ ResolvedInv /\ VerifiedInv /\ PlanInv

LEMMA AdmissionNumbers == MaxCap \in Nat \ {0} /\ MaxContent \in Nat \ {0}
  BY AdmissionAssumption

\* A call that is idle, and the records it holds then.
LEMMA IdleCallType ==
  /\ IdleCall \in CallRecords
  /\ IdleCall.entry = {} /\ IdleCall.project = {} /\ ~IdleCall.dirs
  /\ IdleCall.at = "idle" /\ IdleCall.result = "none" /\ ValidPolicy(IdleCall.spec.sandbox)
  <1>1. OffPolicy \in Policies /\ NoPlan \in SandboxPlans
    BY DEF OffPolicy, Policies, Modes, NoPlan, SandboxPlans
  <1>2. NoSpec \in Specs /\ NoRun \in [content : 0..MaxContent, plan : SandboxPlans]
    BY <1>1, AdmissionNumbers DEF NoSpec, Specs, NoRun
  <1> QED
    BY <1>1, <1>2 DEF IdleCall, CallRecords, ValidPolicy, NoSpec

\* The inductive invariant holds initially.
LEMMA AdmissionInitInv == AdmissionInit => AdmissionInv
  <1> SUFFICES ASSUME AdmissionInit PROVE AdmissionInv
    OBVIOUS
  <1>1. CallType
    BY IdleCallType, AdmissionNumbers DEF AdmissionInit, CallType, Builds, Places
  <1> QED
    BY <1>1, IdleCallType DEF AdmissionInit, AdmissionInv, ResolvedInv, VerifiedInv, PlanInv, Ran

\* A spec made of a registry entry and a project takes no more than both grant.
LEMMA TrustedSpecTightens ==
  ASSUME NEW entry \in RegistryEntries, NEW project \in ProjectSpecs
  PROVE  LET spec == TrustedSpec(entry, project) IN
         /\ spec \in Specs /\ spec.pin = entry.pin /\ spec.sandbox = entry.sandbox
         /\ spec.cap <= entry.cap /\ (project.cap # 0 => spec.cap <= project.cap)
  <1>1. entry.cap \in 1..MaxCap /\ entry.pin \in 0..MaxContent /\ entry.sandbox \in Policies
    BY DEF RegistryEntries
  <1>2. project.cap \in 0..MaxCap
    BY DEF ProjectSpecs
  <1> QED
    BY <1>1, <1>2, AdmissionNumbers DEF TrustedSpec, TightenedCap, Specs

\* A call that ends without running anything keeps what it knows.
LEMMA EndsKeeps ==
  ASSUME AdmissionInv, NEW answer \in {"launch", "provider_trust", "sandbox_unavailable", "exit"},
         Ends(answer), UNCHANGED <<executable, backend>>, probed' \in {"unknown", "works", "fails"}
  PROVE  AdmissionInv'
  <1>1. call' \in CallRecords
    BY DEF AdmissionInv, CallType, CallRecords, Ends
  <1> QED
    BY <1>1 DEF AdmissionInv, CallType, CallRecords, ResolvedInv, VerifiedInv, PlanInv, Ran, Ends

\* Every step of a call, of its process and of the world preserves it.
LEMMA AdmissionNextInv == AdmissionInv /\ [AdmissionNext]_admissionVars => AdmissionInv'
  <1> SUFFICES ASSUME AdmissionInv, [AdmissionNext]_admissionVars PROVE AdmissionInv'
    OBVIOUS
  <1> USE AdmissionNumbers DEF AdmissionInv, CallType, ResolvedInv, VerifiedInv, PlanInv, Ran
  <1>1. CASE ReplaceExecutable
    BY <1>1 DEF ReplaceExecutable, CallRecords
  <1>2. CASE BackendChanges
    BY <1>2 DEF BackendChanges
  <1>3. CASE ResolveRegistered
    <2>1. PICK entry \in RegistryEntries, project \in ProjectSpecs :
            /\ ValidPolicy(entry.sandbox)
            /\ call' = [IdleCall EXCEPT !.at = "runtime", !.entry = {entry}, !.project = {project},
                                        !.spec = TrustedSpec(entry, project)]
      BY <1>3 DEF ResolveRegistered
    <2>2. call' \in CallRecords
      BY <2>1, IdleCallType, TrustedSpecTightens DEF CallRecords
    <2> QED
      BY <1>3, <2>1, <2>2, IdleCallType, TrustedSpecTightens DEF ResolveRegistered, CallRecords
  <1>4. CASE ResolveCommand
    <2>1. PICK cap \in 1..MaxCap, policy \in Policies :
            /\ ValidPolicy(policy)
            /\ call' = [IdleCall EXCEPT !.at = "runtime",
                          !.spec = [trust |-> "local", cap |-> cap, pin |-> 0, sandbox |-> policy]]
      BY <1>4 DEF ResolveCommand
    <2>2. [trust |-> "local", cap |-> cap, pin |-> 0, sandbox |-> policy] \in Specs
      BY DEF Specs
    <2> QED
      BY <1>4, <2>1, <2>2, IdleCallType DEF ResolveCommand, CallRecords
  <1>5. CASE RefuseConfiguration
    BY <1>5, IdleCallType DEF RefuseConfiguration, CallRecords
  <1>6. CASE MakeRuntime
    <2>1. CASE call' = [call EXCEPT !.at = "verify", !.dirs = TRUE]
      <3>1. UNCHANGED <<executable, backend, probed>> /\ call.at = "runtime"
        BY <1>6 DEF MakeRuntime
      <3>2. /\ call'.at = "verify" /\ call'.dirs = TRUE /\ call'.spec = call.spec
            /\ call'.plan = call.plan /\ call'.ran = call.ran /\ call'.result = call.result
            /\ call'.swapped = call.swapped /\ call'.entry = call.entry /\ call'.project = call.project
            /\ call' \in CallRecords
        BY <2>1 DEF CallRecords
      <3> QED
        BY <3>1, <3>2
    <2>2. CASE Ends("launch")
      <3>1. UNCHANGED <<executable, backend, probed>>
        BY <1>6 DEF MakeRuntime
      <3> QED
        BY <2>2, <3>1, EndsKeeps
    <2> QED
      BY <1>6, <2>1, <2>2 DEF MakeRuntime
  <1>7. CASE VerifyCommand
    <2>1. CASE Verified
      <3>1. call' = [call EXCEPT !.at = "plan", !.swapped = FALSE]
        BY <1>7, <2>1 DEF VerifyCommand
      <3>2. call.spec.trust = "registry" => executable.content = call.spec.pin
        BY <2>1 DEF Verified, ValidExecutable
      <3> QED
        BY <1>7, <3>1, <3>2 DEF VerifyCommand, CallRecords
    <2>2. CASE ~Verified
      <3>1. Ends("provider_trust")
        BY <1>7, <2>2 DEF VerifyCommand
      <3> QED
        BY <1>7, <3>1, EndsKeeps DEF VerifyCommand
    <2> QED
      BY <2>1, <2>2
  <1>8. CASE BuildSandboxPlan
    <2> DEFINE policy == call.spec.sandbox
    <2>1. policy \in Policies /\ ValidPolicy(policy)
      BY DEF CallRecords, Specs
    <2>2. probed' \in {"unknown", "works", "fails"}
      BY <1>8 DEF BuildSandboxPlan, Probe
    <2>3. ASSUME NEW plan \in SandboxPlans, Enforces(plan, policy),
                 call' = [call EXCEPT !.at = "start", !.plan = plan]
          PROVE  AdmissionInv'
      BY <1>8, <2>2, <2>3 DEF BuildSandboxPlan, CallRecords, Enforces
    <2>4. CASE policy.mode = "off"
      <3>1. call' = [call EXCEPT !.at = "start", !.plan = NoPlan]
        BY <1>8, <2>4 DEF BuildSandboxPlan
      <3>2. policy.network = "host" /\ policy.limits = FALSE
        BY <2>1, <2>4 DEF ValidPolicy, OffPolicy
      <3> QED
        BY <2>3, <2>4, <3>1, <3>2 DEF NoPlan, SandboxPlans, Enforces
    <2>5. CASE policy.mode # "off" /\ Probe = "works"
      <3>1. call' = [call EXCEPT !.at = "start", !.plan = SandboxedPlan(policy)]
        BY <1>8, <2>5 DEF BuildSandboxPlan
      <3>2. SandboxedPlan(policy) \in SandboxPlans /\ Enforces(SandboxedPlan(policy), policy)
        <4>1. (policy.network = "deny") \in BOOLEAN /\ policy.limits \in BOOLEAN
          BY <2>1 DEF Policies
        <4> QED
          BY <4>1, <2>5 DEF SandboxedPlan, SandboxPlans, Enforces
      <3> QED
        BY <2>3, <3>1, <3>2
    <2>6. CASE policy.mode # "off" /\ Probe # "works" /\ MustEnforce(policy)
      <3>1. Ends("sandbox_unavailable")
        BY <1>8, <2>6 DEF BuildSandboxPlan
      <3> QED
        BY <1>8, <2>2, <3>1, EndsKeeps DEF BuildSandboxPlan
    <2>7. CASE policy.mode # "off" /\ Probe # "works" /\ ~MustEnforce(policy)
      <3>1. call' = [call EXCEPT !.at = "start", !.plan = NoPlan]
        BY <1>8, <2>7 DEF BuildSandboxPlan
      <3> QED
        BY <2>3, <2>7, <3>1 DEF MustEnforce, NoPlan, SandboxPlans, Enforces
    <2> QED
      BY <2>4, <2>5, <2>6, <2>7
  <1>9. CASE StartProvider
    <2>1. ASSUME NEW answer \in {"launch", "exit"}, Ends(answer) PROVE AdmissionInv'
      BY <1>9, <2>1, EndsKeeps DEF StartProvider
    <2>2. CASE /\ executable.place # "missing" /\ ~(call.plan.sandboxed /\ ~backend)
               /\ call' = [call EXCEPT !.at = "done", !.dirs = FALSE, !.result = "ran",
                             !.ran = [content |-> executable.content, plan |-> call.plan]]
      <3>1. [content |-> executable.content, plan |-> call.plan] \in [content : 0..MaxContent, plan : SandboxPlans]
        BY DEF Builds, CallRecords
      <3>2. call' \in CallRecords
        BY <2>2, <3>1 DEF CallRecords
      <3> QED
        BY <1>9, <2>2, <3>2 DEF StartProvider, CallRecords
    <2> QED
      BY <1>9, <2>1, <2>2 DEF StartProvider
  <1>10. CASE NextCall \/ ProcessEnds
    BY <1>10, IdleCallType DEF NextCall, ProcessEnds
  <1>11. CASE UNCHANGED admissionVars
    BY <1>11 DEF admissionVars
  <1> QED
    BY <1>1, <1>2, <1>3, <1>4, <1>5, <1>6, <1>7, <1>8, <1>9, <1>10, <1>11 DEF AdmissionNext

LEMMA AdmissionInvariance == AdmissionSpec => []AdmissionInv
  BY AdmissionInitInv, AdmissionNextInv, PTL DEF AdmissionSpec

\* A project only tightens what the registry allows, what runs is the pinned
\* executable unless it was swapped after the launch had verified it, and it
\* runs under its policy: for every number of caps and of contents
\* (resolve_trusted_provider, verify_provider_executable, build_sandbox_plan).
THEOREM AdmissionIsSafe == AdmissionSpec => []AdmissionSafety
  <1>1. AdmissionInv => AdmissionSafety
    <2> SUFFICES ASSUME AdmissionInv PROVE AdmissionSafety
      OBVIOUS
    <2>1. AdmissionTypeOK
      BY DEF AdmissionInv, CallType, CallRecords, Specs, AdmissionTypeOK
    <2>2. ProjectOnlyTightens /\ RunsWhatIsPinned
      BY DEF AdmissionInv, ResolvedInv, VerifiedInv, ProjectOnlyTightens, RunsWhatIsPinned
    <2>3. PolicyIsEnforced
      BY DEF AdmissionInv, PlanInv, Enforces, PolicyIsEnforced
    <2> QED
      BY <2>1, <2>2, <2>3 DEF AdmissionSafety
  <1> QED
    BY <1>1, AdmissionInvariance, PTL
-----------------------------------------------------------------------------
(* ProviderPayload *)

\* What a converted record can be.
Converted == [record : Nat, score : Int, metadata : {Confined(Merged(r)) : r \in RecordPool}]

Readings ==
  [at : {"received", "records", "returned"}, form : Forms \cup NotJson, records : Seq(RecordPool),
   limit : PayloadLimits, next : Nat, items : Seq(Converted),
   error : {"none", "empty_output", "invalid_payload"}]

Parsed == payload.form \in Forms /\ ParseRecords(payload.form, payload.records)

\* The first n records with text.
SaidTo(n) == {i \in 1..n : payload.records[i].text = "said"}

\* One item for each record with text, in the order of the records.
OneEach(n) ==
  /\ \A k \in DOMAIN payload.items :
       /\ payload.items[k].record \in SaidTo(n)
       /\ payload.items[k].score = payload.records[payload.items[k].record].score
  /\ \A k, l \in DOMAIN payload.items : k < l => payload.items[k].record < payload.items[l].record
  /\ \A i \in SaidTo(n) : \E k \in DOMAIN payload.items : payload.items[k].record = i

\* The reading so far: what is converted is valid and in order, what is refused
\* was not, and what is returned is the best of it.
ReadingInv ==
  /\ payload.at = "received" => payload.next = 1 /\ payload.items = <<>> /\ payload.error = "none"
  /\ payload.at = "records" => payload.error = "none" /\ OneEach(payload.next - 1)
  /\ payload.at # "received" /\ payload.error = "none" =>
       Parsed /\ \A i \in 1..(payload.next - 1) : ~Invalid(payload.records[i])
  /\ payload.at = "returned" /\ payload.error = "none" => payload.next = Len(payload.records) + 1
  /\ payload.error # "none" =>
       /\ payload.at = "returned" /\ payload.items = <<>>
       /\ ~Parsed \/ \E i \in DOMAIN payload.records : Invalid(payload.records[i])
  /\ \A k \in DOMAIN payload.items : payload.items[k].record < payload.next

PayloadInv ==
  /\ payload \in Readings /\ payload.next \in 1..(Len(payload.records) + 1)
  /\ ReadingInv /\ BestFirst

\* The numbers among the parameters, and the limits of a request.
LEMMA PayloadNumbers ==
  MaxRecords \in Nat /\ MaxNest \in Nat /\ \A limit \in PayloadLimits : limit \in Nat
  BY PayloadAssumption

\* The parts of a converted record.
LEMMA ConvertedParts ==
  ASSUME NEW c \in Converted
  PROVE  c.record \in Nat /\ c.score \in Int /\ \E r \in RecordPool : c.metadata = Confined(Merged(r))
BY DEF Converted

\* The labels of an item are the code's, and its path stays in the workspace.
LEMMA LabelsHold ==
  ASSUME NEW record \in RecordPool, NEW metadata, metadata = Confined(Merged(record))
  PROVE  /\ metadata["provider"] = "spec.name" /\ metadata["retriever"] = "spec.name"
         /\ metadata["provider_trust"] = ProviderTrust
         /\ metadata["trust"] = "untrusted_repository_content"
         /\ "path" \in DOMAIN metadata => metadata["path"] = "inside"
<1> DEFINE named == NamedPath(record)
           own == Updated(record.metadata, named)
           more == Updated(own, Defaults)
           all == Updated(more, Labels)
<1>1. /\ record.path \in PathForms
      /\ "path" \in DOMAIN record.metadata => record.metadata["path"] \in {"inside", "outside"}
  BY PayloadAssumption DEF RecordShape, PathForms
<1>2. "path" \in DOMAIN named => named["path"] \in {"inside", "outside"}
  BY <1>1 DEF NamedPath, PathForms
<1> HIDE DEF named
<1>3. "path" \in DOMAIN own => own["path"] \in {"inside", "outside"}
  BY <1>1, <1>2 DEF Updated
<1> HIDE DEF own
<1>4. more["retriever"] = "spec.name" /\ "retriever" \in DOMAIN more
  BY DEF Updated, Defaults
<1>5. "path" \in DOMAIN more => more["path"] \in {"inside", "outside"}
  BY <1>3 DEF Updated, Defaults
<1> HIDE DEF more
<1>6. /\ all["provider"] = "spec.name" /\ all["retriever"] = "spec.name"
      /\ all["provider_trust"] = ProviderTrust /\ all["trust"] = "untrusted_repository_content"
      /\ {"provider", "retriever", "provider_trust", "trust"} \subseteq DOMAIN all
  BY <1>4 DEF Updated, Labels
<1>7. "path" \in DOMAIN all => all["path"] \in {"inside", "outside"}
  BY <1>5 DEF Updated, Labels
<1>8. metadata = Confined(all)
  BY DEF Merged, Labelled, all, more, own, named
<1> HIDE DEF all
<1> QED BY <1>6, <1>7, <1>8 DEF Confined

\* In every form the records are parsed and none of them is invalid exactly when
\* there are not too many and each is usable.
LEMMA WholeOrNone ==
  ASSUME PayloadInv, payload.form \in Forms, Shallow,
         payload.form = "jsonl" => Len(payload.records) > 1
  PROVE  (Parsed /\ \A i \in DOMAIN payload.records : ~Invalid(payload.records[i]))
           <=> (/\ Len(payload.records) <= MaxRecords
                /\ \A i \in DOMAIN payload.records : Usable(payload.records[i]))
<1> DEFINE records == payload.records
           n == Len(records)
<1>1. records \in Seq(RecordPool) /\ n \in Nat /\ DOMAIN records = 1..n
  BY DEF PayloadInv, Readings
<1>2. \A i \in 1..n : RecordShape(records[i]) /\ records[i].nest + 2 <= MaxNest
  <2>1. \A i \in 1..n : records[i] \in RecordPool /\ i \in DOMAIN records
    BY <1>1
  <2> QED BY <2>1, PayloadAssumption, Zenon DEF Shallow
<1> HIDE DEF records, n
<1>3. \A i \in 1..n : /\ ValidJson(records[i], 0) /\ ValidJson(records[i], 1)
                      /\ ValidJson(records[i], 2)
  BY <1>2, PayloadNumbers DEF ValidJson, RecordShape
<1>4. \A i \in 1..n : Usable(records[i]) <=> records[i].object /\ ~Invalid(records[i])
  <2> SUFFICES ASSUME NEW i \in 1..n PROVE Usable(records[i]) <=> records[i].object /\ ~Invalid(records[i])
    OBVIOUS
  <2>1. /\ records[i].score \in Int /\ records[i].fine \in BOOLEAN /\ records[i].object \in BOOLEAN
        /\ ValidJson(records[i], 0)
    BY <1>2, <1>3 DEF RecordShape
  <2>2. records[i].score >= 0 <=> ~(records[i].score < 0)
    BY <2>1
  <2> QED BY <2>1, <2>2, Zenon DEF Usable, Invalid
<1>5. Parsed <=> n <= MaxRecords /\ \A i \in 1..n : records[i].object
  <2>1. DocumentRead(payload.form, records) <=> n <= MaxRecords /\ \A i \in 1..n : records[i].object
    BY <1>1, <1>3, Zenon DEF DocumentRead, n
  <2>2. (\A i \in 1..n : i - 1 < MaxRecords) <=> n <= MaxRecords
    <3>1. n <= MaxRecords => \A i \in 1..n : i - 1 < MaxRecords
      BY <1>1, PayloadNumbers
    <3>2. ASSUME \A i \in 1..n : i - 1 < MaxRecords PROVE n <= MaxRecords
      <4>1. n >= 1 => n - 1 < MaxRecords
        BY <1>1, <3>2
      <4> QED BY <1>1, <4>1, PayloadNumbers
    <3> QED BY <3>1, <3>2
  <2>3. LinesRead(records) <=> n <= MaxRecords /\ \A i \in 1..n : records[i].object
    BY <1>1, <1>3, <2>2, Zenon DEF LinesRead
  <2>4. payload.form \in {"array", "object"} \/ (payload.form = "jsonl" /\ n > 1)
    BY DEF Forms, n, records
  <2>5. Parsed <=> \/ payload.form \in {"array", "object"} /\ DocumentRead(payload.form, records)
                   \/ payload.form = "jsonl" /\ n > 1 /\ LinesRead(records)
    BY DEF Parsed, ParseRecords, n, records
  <2>6. payload.form = "jsonl" => payload.form \notin {"array", "object"}
    OBVIOUS
  <2> QED BY <2>1, <2>3, <2>4, <2>5, <2>6, Zenon
<1>6. DOMAIN payload.records = 1..n /\ records = payload.records /\ n = Len(payload.records)
  BY <1>1 DEF records, n
<1> QED BY <1>4, <1>5, <1>6, Zenon

\* An order of the positions uses each of them once.
LEMMA OrderIsOnto ==
  ASSUME NEW n \in Nat, NEW items, DOMAIN items = 1..n, NEW order \in SortedOrders(items),
         \A k \in 1..n : items[k].record \in Int /\ items[k].score \in Int
  PROVE  /\ order \in [1..n -> 1..n]
         /\ \A k \in 1..n : \E l \in 1..n : order[l] = k
<1>1. /\ order \in [1..n -> 1..n]
      /\ \A k, l \in 1..n : k < l => Above(items[order[k]], items[order[l]])
  BY DEF SortedOrders
<1>2. \A k, l \in 1..n : k # l => order[k] # order[l]
  <2>1. \A k, l \in 1..n : k < l => order[k] # order[l]
    BY <1>1 DEF Above
  <2> QED BY <2>1
<1>3. order \in Injection(1..n, 1..n)
  BY <1>1, <1>2 DEF Injection, IsInjective
<1>4. IsFiniteSet(1..n)
  BY FS_Interval
<1>5. order \in Surjection(1..n, 1..n)
  BY <1>3, <1>4, FS_Injection
<1> QED BY <1>1, <1>5 DEF Surjection

\* As many items as records with text.
LEMMA ItemsCount ==
  ASSUME PayloadInv, OneEach(Len(payload.records))
  PROVE  /\ IsFiniteSet(SaidTo(Len(payload.records)))
         /\ Cardinality(SaidTo(Len(payload.records))) = Len(payload.items)
<1> DEFINE said == SaidTo(Len(payload.records))
           D == 1..Len(payload.items)
           of == [k \in D |-> payload.items[k].record]
<1>1. Len(payload.items) \in Nat /\ DOMAIN payload.items = D
  BY DEF PayloadInv, Readings
<1>2. /\ \A k \in D : payload.items[k].record \in said
      /\ \A k, l \in D : k < l => payload.items[k].record < payload.items[l].record
      /\ \A i \in said : \E k \in D : payload.items[k].record = i
  BY <1>1, Zenon DEF OneEach
<1>3. \A i \in said : i \in Int
  BY DEF SaidTo
<1> HIDE DEF said
<1>4. of \in [D -> said]
  BY <1>2
<1>5. \A k, l \in D : k # l => of[k] # of[l]
  <2>1. \A k, l \in D : k < l => of[k] # of[l]
    BY <1>2, <1>3
  <2>2. \A k, l \in D : k # l => k < l \/ l < k
    BY <1>1
  <2> QED BY <2>1, <2>2, Zenon
<1>6. of \in Bijection(D, said)
  BY <1>2, <1>4, <1>5 DEF Bijection, Injection, Surjection, IsInjective
<1>7. IsFiniteSet(D) /\ Cardinality(D) = Len(payload.items)
  <2>1. 1 \in Int /\ Len(payload.items) \in Int
    BY <1>1
  <2>2. IsFiniteSet(D) /\ Cardinality(D) = IF 1 > Len(payload.items) THEN 0 ELSE Len(payload.items) - 1 + 1
    BY <2>1, FS_Interval
  <2> QED BY <1>1, <2>2
<1> HIDE DEF of, D
<1>8. IsFiniteSet(said) /\ Cardinality(said) = Cardinality(D)
  BY <1>6, <1>7, FS_Bijection, Zenon DEF ExistsBijection
<1> QED BY <1>7, <1>8 DEF said

\* What is returned when all records are converted is the best of them.
LEMMA BestIsReturned ==
  ASSUME PayloadInv, payload.at = "records", payload.next > Len(payload.records),
         NEW order \in SortedOrders(payload.items),
         payload' = [payload EXCEPT !.at = "returned", !.items = BestOf(payload.items, order)]
  PROVE  PayloadInv'
<1> DEFINE records == payload.records
           items == payload.items
           said == SaidTo(Len(records))
           n == Len(items)
           best == BestOf(items, order)
<1>1. /\ records \in Seq(RecordPool) /\ Len(records) \in Nat /\ items \in Seq(Converted)
      /\ n \in Nat /\ DOMAIN items = 1..n /\ DOMAIN records = 1..Len(records)
      /\ payload.limit \in Nat /\ payload.next = Len(records) + 1
  BY PayloadNumbers DEF PayloadInv, Readings
<1>2. OneEach(Len(records)) /\ payload.error = "none"
  BY <1>1 DEF PayloadInv, ReadingInv
<1>3. Cardinality(said) = n
  BY <1>2, ItemsCount
<1>4. \A k \in 1..n : items[k].record \in said /\ items[k].score = records[items[k].record].score
  BY <1>1, <1>2, Zenon DEF OneEach
<1>5. \A i \in said : \E k \in 1..n : items[k].record = i
  BY <1>1, <1>2, Zenon DEF OneEach
<1>6. \A k \in 1..n : items[k].record \in Int /\ items[k].score \in Int
  <2>1. \A k \in 1..n : items[k] \in Converted
    BY <1>1
  <2> QED BY <2>1, ConvertedParts
<1>7. /\ order \in [1..n -> 1..n]
      /\ \A k \in 1..n : \E l \in 1..n : order[l] = k
      /\ \A k, l \in 1..n : k < l => Above(items[order[k]], items[order[l]])
  <2>1. order \in [1..n -> 1..n] /\ \A k \in 1..n : \E l \in 1..n : order[l] = k
    BY <1>1, <1>6, OrderIsOnto
  <2> QED BY <2>1, <1>1 DEF SortedOrders
<1> DEFINE m == Cut(n)
<1>8. m \in Nat /\ m <= n
  BY <1>1 DEF Cut
<1>9. best = [k \in 1..m |-> items[order[k]]]
  BY DEF BestOf
<1>10. /\ best \in Seq(Converted) /\ DOMAIN best = 1..m /\ Len(best) = m
       /\ \A k \in 1..m : best[k] = items[order[k]] /\ best[k].record \in said
  <2>1. \A k \in 1..m : order[k] \in 1..n /\ items[order[k]] \in Converted
    <3> HIDE DEF m, best, n, items, records
    <3>1. \A k \in 1..m : k \in 1..n
      BY <1>1, <1>8
    <3> QED BY <1>1, <1>7, <3>1
  <2> HIDE DEF m, best, n, items
  <2> QED BY <1>4, <1>8, <1>9, <2>1
<1>11. /\ payload'.at = "returned" /\ payload'.items = best /\ payload'.records = records
       /\ payload'.limit = payload.limit /\ payload'.next = payload.next
       /\ payload'.error = "none" /\ payload'.form = payload.form /\ payload' \in Readings
  BY <1>2, <1>10 DEF PayloadInv, Readings
<1>12. BestFirst'
  <2> DEFINE kept == [k \in 1..m |-> best[k].record]
  <2>1. Len(kept) = m /\ DOMAIN kept = 1..m
    <3>1. kept \in Seq(said)
      BY <1>8, <1>10
    <3> QED BY <1>8, <3>1
  <2>2. \A k \in 1..m : kept[k] = best[k].record /\ kept[k] \in said
    BY <1>10
  <2>3. ASSUME NEW k \in 1..m, NEW i \in said
        PROVE  i \in {kept[l] : l \in 1..k} \/ Better(kept[k], i)
    <3>1. PICK j \in 1..n : items[j].record = i
      BY <1>5
    <3>2. PICK l \in 1..n : order[l] = j
      BY <1>7
    <3>3. CASE l <= k
      <4>1. l \in 1..k /\ l \in 1..m
        BY <1>8, <3>3
      <4>2. kept[l] = i
        BY <1>10, <2>2, <3>1, <3>2, <4>1
      <4> QED BY <4>1, <4>2
    <3>4. CASE k < l
      <4>1. k \in 1..n /\ order[k] \in 1..n
        <5> HIDE DEF m, n
        <5>1. k \in 1..n
          BY <1>1, <1>8
        <5> QED BY <1>7, <5>1
      <4>2. Above(items[order[k]], items[j])
        BY <1>7, <3>2, <3>4, <4>1
      <4>3. kept[k] = items[order[k]].record
        BY <1>10, <2>2
      <4>4. /\ items[order[k]].score = records[kept[k]].score
            /\ items[j].score = records[i].score
        BY <1>4, <3>1, <4>1, <4>3
      <4> QED BY <3>1, <4>2, <4>3, <4>4 DEF Above, Better
    <3>5. k \in Int /\ l \in Int
      OBVIOUS
    <3> HIDE DEF kept, m, n, items, records, best, said
    <3> QED BY <3>3, <3>4, <3>5
  <2>4. WithText' = said
    BY <1>1, <1>11 DEF SaidTo, WithText
  <2>5. (IF payload'.limit < Cardinality(said) THEN payload'.limit ELSE Cardinality(said)) = m
    BY <1>3, <1>11 DEF Cut
  <2>6. KeptRecords' = kept
    BY <1>10, <1>11 DEF KeptRecords
  <2> HIDE DEF kept, said, best, m
  <2>7. (Len(KeptRecords) = Cut(Cardinality(WithText)))'
    BY <2>1, <2>4, <2>5, <2>6 DEF Cut
  <2>8. \A k \in DOMAIN KeptRecords' : KeptRecords'[k] \in WithText'
    BY <2>1, <2>2, <2>4, <2>6
  <2>9. \A k \in DOMAIN KeptRecords' : \A i \in WithText' :
           i \in {KeptRecords'[l] : l \in 1..k} \/ Better(KeptRecords[k], i)'
    BY <1>11, <2>1, <2>3, <2>4, <2>6 DEF Better
  <2> QED BY <2>7, <2>8, <2>9, Zenon DEF BestFirst
<1>13. ReadingInv'
  <2>1. \A k \in DOMAIN best : best[k].record < payload.next
    BY <1>1, <1>10 DEF SaidTo
  <2>2. Parsed' /\ \A i \in 1..(payload'.next - 1) : ~Invalid(payload'.records[i])
    BY <1>2, <1>11 DEF PayloadInv, ReadingInv, Parsed
  <2> QED BY <1>1, <1>11, <2>1, <2>2 DEF ReadingInv
<1> QED BY <1>1, <1>11, <1>12, <1>13 DEF PayloadInv

\* An answer that has just arrived.
LEMMA PayloadInitInv == PayloadInit => PayloadInv
<1> SUFFICES ASSUME NEW answer \in ProviderTexts, NEW limit \in PayloadLimits, PayloadStart(answer, limit)
             PROVE  PayloadInv
  BY DEF PayloadInit
<1>1. answer.form \in Forms \cup NotJson /\ answer.records \in Seq(RecordPool)
  <2>1. \A x \in BoundedSeq(RecordPool, MaxRecords + 1) : x \in Seq(RecordPool)
    BY PayloadNumbers DEF BoundedSeq, SeqOf
  <2>2. \/ answer.form \in NotJson /\ answer.records = <<>>
        \/ answer.form \in Forms /\ answer.records \in BoundedSeq(RecordPool, MaxRecords + 1)
    BY DEF ProviderTexts, Forms
  <2>3. answer.records = <<>> => answer.records \in Seq(RecordPool)
    OBVIOUS
  <2> QED BY <2>1, <2>2, <2>3, Zenon
<1>2. /\ payload.at = "received" /\ payload.error = "none" /\ payload.next = 1
      /\ payload.items = <<>> /\ payload \in Readings
  BY <1>1 DEF PayloadStart, Readings
<1>3. payload.next \in 1..(Len(payload.records) + 1)
  BY <1>2 DEF Readings
<1> QED BY <1>2, <1>3 DEF PayloadInv, ReadingInv, BestFirst

\* A refusal is due to the text or to one of its records.
LEMMA RefusedInv ==
  ASSUME PayloadInv, payload.at # "returned", NEW kind \in {"empty_output", "invalid_payload"},
         Refuse(kind), ~Parsed \/ \E i \in DOMAIN payload.records : Invalid(payload.records[i])
  PROVE  PayloadInv'
<1>1. /\ payload'.at = "returned" /\ payload'.items = <<>> /\ payload'.error = kind
      /\ payload'.records = payload.records /\ payload'.form = payload.form
      /\ payload'.next = payload.next /\ payload' \in Readings
  <2>1. payload \in Readings
    BY DEF PayloadInv
  <2>2. <<>> \in Seq(Converted)
    OBVIOUS
  <2>3. payload' = [payload EXCEPT !.at = "returned", !.items = <<>>, !.error = kind]
    BY DEF Refuse
  <2> QED BY <2>1, <2>2, <2>3 DEF Readings
<1>2. ~Parsed' \/ \E i \in DOMAIN payload'.records : Invalid(payload'.records[i])
  BY <1>1, Zenon DEF Parsed
<1> QED BY <1>1, <1>2 DEF PayloadInv, ReadingInv, BestFirst

\* Every step of the reading keeps its invariant.
LEMMA PayloadNextInv == PayloadInv /\ [PayloadNext]_payloadVars => PayloadInv'
<1> SUFFICES ASSUME PayloadInv, [PayloadNext]_payloadVars PROVE PayloadInv'
  OBVIOUS
<1> DEFINE n == payload.next
<1>0. /\ payload \in Readings /\ payload.records \in Seq(RecordPool) /\ payload.items \in Seq(Converted)
      /\ n \in 1..(Len(payload.records) + 1) /\ Len(payload.records) \in Nat
      /\ DOMAIN payload.records = 1..Len(payload.records) /\ Len(payload.items) \in Nat
      /\ DOMAIN payload.items = 1..Len(payload.items)
  BY DEF PayloadInv, Readings
<1>1. CASE UNCHANGED payloadVars
  BY <1>1 DEF payloadVars, PayloadInv, Readings, ReadingInv, BestFirst, WithText, KeptRecords, Better,
     Parsed, OneEach, SaidTo, Cut
<1>2. CASE ReadAnswer
  <2>1. CASE payload.form = "empty" /\ Refuse("empty_output")
    <3>1. payload.at # "returned" /\ ~Parsed
      BY <1>2, <2>1 DEF ReadAnswer, Parsed, Forms
    <3> QED BY <2>1, <3>1, RefusedInv
  <2>2. CASE ~ParseRecords(payload.form, payload.records) /\ Refuse("invalid_payload")
    <3>1. payload.at # "returned" /\ ~Parsed
      BY <1>2, <2>2 DEF ReadAnswer, Parsed
    <3> QED BY <2>2, <3>1, RefusedInv
  <2>3. CASE ParseRecords(payload.form, payload.records) /\ payload' = [payload EXCEPT !.at = "records"]
    <3>1. /\ payload'.at = "records" /\ payload'.error = "none" /\ payload'.items = <<>>
          /\ payload'.next = 1 /\ payload'.records = payload.records /\ payload'.form = payload.form
          /\ payload' \in Readings
      BY <1>2, <2>3 DEF ReadAnswer, PayloadInv, Readings, ReadingInv
    <3>2. Parsed'
      BY <2>3, <3>1 DEF Parsed, ParseRecords, Forms
    <3>3. OneEach(payload.next - 1)'
      BY <3>1 DEF OneEach, SaidTo
    <3>4. BestFirst' /\ payload'.next \in 1..(Len(payload'.records) + 1)
      BY <1>0, <3>1 DEF BestFirst
    <3> QED BY <3>1, <3>2, <3>3, <3>4 DEF PayloadInv, ReadingInv
  <2> QED BY <1>2, <2>1, <2>2, <2>3 DEF ReadAnswer
<1>3. CASE SkipBlank
  <2>1. /\ payload.at = "records" /\ n <= Len(payload.records) /\ payload.error = "none"
        /\ Record.text = "blank" /\ ~Invalid(Record) /\ OneEach(n - 1) /\ Parsed
        /\ \A i \in 1..(n - 1) : ~Invalid(payload.records[i])
    BY <1>3 DEF SkipBlank, PayloadInv, ReadingInv
  <2>2. /\ payload'.at = "records" /\ payload'.error = "none" /\ payload'.items = payload.items
        /\ payload'.next = n + 1 /\ payload'.records = payload.records
        /\ payload'.form = payload.form /\ payload' \in Readings
    <3>1. payload' = [payload EXCEPT !.next = n + 1] /\ n + 1 \in Nat
      BY <1>0, <1>3 DEF SkipBlank
    <3> HIDE DEF n
    <3> QED BY <1>0, <2>1, <3>1 DEF Readings
  <2>3. SaidTo(n) = SaidTo(n - 1)
    BY <1>0, <2>1 DEF SaidTo, Record
  <2>4. OneEach(payload.next - 1)'
    <3>1. OneEach(n)
      BY <2>1, <2>3, Zenon DEF OneEach
    <3>2. payload'.next - 1 = n
      BY <1>0, <2>2
    <3> QED BY <2>2, <3>1, <3>2 DEF OneEach, SaidTo
  <2>5. Parsed' /\ \A i \in 1..(payload'.next - 1) : ~Invalid(payload'.records[i])
    <3>1. \A i \in 1..n : i = n \/ i \in 1..(n - 1)
      BY <1>0
    <3>2. \A i \in 1..n : ~Invalid(payload.records[i])
      BY <2>1, <3>1 DEF Record
    <3>3. payload'.next - 1 = n
      BY <1>0, <2>2
    <3> QED BY <2>1, <2>2, <3>2, <3>3, Zenon DEF Parsed
  <2>6. \A k \in DOMAIN payload'.items : payload'.items[k].record < payload'.next
    <3>1. \A k \in DOMAIN payload.items : payload.items[k].record < n /\ payload.items[k].record \in Nat
      <4>1. \A k \in DOMAIN payload.items : payload.items[k] \in Converted
        BY <1>0
      <4>2. \A k \in DOMAIN payload.items : payload.items[k].record < n
        BY DEF PayloadInv, ReadingInv
      <4> QED BY <4>1, <4>2, ConvertedParts
    <3> QED BY <1>0, <2>2, <3>1
  <2>7. BestFirst' /\ payload'.next \in 1..(Len(payload'.records) + 1)
    BY <1>0, <2>1, <2>2 DEF BestFirst
  <2> QED BY <2>2, <2>4, <2>5, <2>6, <2>7 DEF PayloadInv, ReadingInv
<1>4. CASE ConvertRecord
  <2> DEFINE item == ItemOf(Record)
             size == Len(payload.items)
  <2>1. /\ payload.at = "records" /\ n <= Len(payload.records) /\ payload.error = "none"
        /\ Record.text # "blank" /\ ~Invalid(Record) /\ OneEach(n - 1) /\ Parsed
        /\ \A i \in 1..(n - 1) : ~Invalid(payload.records[i])
    BY <1>4 DEF ConvertRecord, PayloadInv, ReadingInv
  <2>2. Record \in RecordPool /\ Record = payload.records[n]
    BY <1>0, <2>1 DEF Record
  <2>3. item \in Converted /\ item.record = n /\ item.score = payload.records[n].score
    BY <1>0, <2>2, PayloadAssumption DEF ItemOf, Converted, RecordShape
  <2>4. Record.text = "said"
    BY <2>1, <2>2, PayloadAssumption DEF RecordShape, Texts, Invalid
  <2> HIDE DEF item
  <2>5. /\ payload'.at = "records" /\ payload'.error = "none"
        /\ payload'.items = Append(payload.items, item)
        /\ payload'.next = n + 1 /\ payload'.records = payload.records
        /\ payload'.form = payload.form /\ payload' \in Readings
    <3>1. payload' = [payload EXCEPT !.next = n + 1, !.items = Append(payload.items, item)]
      BY <1>4 DEF ConvertRecord, item
    <3>2. Append(payload.items, item) \in Seq(Converted) /\ n + 1 \in Nat
      BY <1>0, <2>3
    <3> QED BY <1>0, <2>1, <3>1, <3>2 DEF Readings
  <2>6. /\ DOMAIN payload'.items = 1..(size + 1) /\ payload'.items[size + 1] = item
        /\ \A k \in 1..size : payload'.items[k] = payload.items[k]
    BY <1>0, <2>5
  <2>7. SaidTo(n) = SaidTo(n - 1) \cup {n}
    BY <1>0, <2>1, <2>2, <2>4 DEF SaidTo
  <2>8. /\ \A k \in 1..size : /\ payload.items[k].record \in SaidTo(n - 1)
                              /\ payload.items[k].score = payload.records[payload.items[k].record].score
        /\ \A k, l \in 1..size : k < l => payload.items[k].record < payload.items[l].record
        /\ \A i \in SaidTo(n - 1) : \E k \in 1..size : payload.items[k].record = i
    BY <1>0, <2>1, Zenon DEF OneEach
  <2>9. \A i \in SaidTo(n - 1) : i \in Nat /\ i < n
    BY <1>0 DEF SaidTo
  <2> DEFINE now == payload'.items
  <2>10. /\ \A k \in 1..(size + 1) : now[k].record \in SaidTo(n) /\ now[k].score = payload.records[now[k].record].score
         /\ \A k, l \in 1..(size + 1) : k < l => now[k].record < now[l].record
         /\ \A i \in SaidTo(n) : \E k \in 1..(size + 1) : now[k].record = i
    <3> HIDE DEF now
    <3>1. \A k \in 1..(size + 1) : k = size + 1 \/ k \in 1..size
      BY <1>0
    <3>2. now[size + 1] = item /\ \A k \in 1..size : now[k] = payload.items[k]
      BY <2>6 DEF now
    <3>3. ASSUME NEW k \in 1..(size + 1)
          PROVE  now[k].record \in SaidTo(n) /\ now[k].score = payload.records[now[k].record].score
      BY <2>3, <2>7, <2>8, <3>1, <3>2
    <3>4. ASSUME NEW k \in 1..(size + 1), NEW l \in 1..(size + 1), k < l
          PROVE  now[k].record < now[l].record
      <4>1. k \in 1..size
        BY <1>0, <3>4
      <4> QED BY <2>3, <2>8, <2>9, <3>1, <3>2, <3>4, <4>1
    <3>5. ASSUME NEW i \in SaidTo(n) PROVE \E k \in 1..(size + 1) : now[k].record = i
      <4>1. CASE i = n
        <5>1. size + 1 \in 1..(size + 1)
          BY <1>0
        <5> QED BY <2>3, <3>2, <4>1, <5>1
      <4>2. CASE i \in SaidTo(n - 1)
        <5>1. PICK k \in 1..size : payload.items[k].record = i
          BY <2>8, <4>2
        <5>2. k \in 1..(size + 1)
          BY <1>0
        <5> QED BY <3>2, <5>1, <5>2
      <4> QED BY <2>7, <4>1, <4>2
    <3> QED BY <3>3, <3>4, <3>5
  <2>11. OneEach(payload.next - 1)'
    <3>1. payload'.next - 1 = n /\ DOMAIN now = 1..(size + 1) /\ now = payload'.items
      BY <1>0, <2>5, <2>6
    <3>2. SaidTo(payload.next - 1)' = SaidTo(n)
      BY <2>5, <3>1 DEF SaidTo
    <3> HIDE DEF now, n
    <3> QED BY <2>5, <2>10, <3>1, <3>2 DEF OneEach
  <2>12. Parsed' /\ \A i \in 1..(payload'.next - 1) : ~Invalid(payload'.records[i])
    <3>1. \A i \in 1..n : i = n \/ i \in 1..(n - 1)
      BY <1>0
    <3>2. \A i \in 1..n : ~Invalid(payload.records[i])
      BY <2>1, <2>2, <3>1
    <3>3. payload'.next - 1 = n
      BY <1>0, <2>5
    <3> QED BY <2>1, <2>5, <3>2, <3>3, Zenon DEF Parsed
  <2>13. \A k \in DOMAIN payload'.items : payload'.items[k].record < payload'.next
    BY <1>0, <2>5, <2>6, <2>10 DEF SaidTo
  <2>14. BestFirst' /\ payload'.next \in 1..(Len(payload'.records) + 1)
    BY <1>0, <2>1, <2>5 DEF BestFirst
  <2> QED BY <2>5, <2>11, <2>12, <2>13, <2>14 DEF PayloadInv, ReadingInv
<1>5. CASE RefuseRecord
  <2>1. payload.at # "returned" /\ Refuse("invalid_payload")
    BY <1>5 DEF RefuseRecord
  <2>2. \E i \in DOMAIN payload.records : Invalid(payload.records[i])
    <3>1. n \in DOMAIN payload.records /\ Invalid(payload.records[n])
      BY <1>0, <1>5 DEF RefuseRecord, Record
    <3> QED BY <3>1
  <2> QED BY <2>1, <2>2, RefusedInv
<1>6. CASE ReturnItems
  <2>1. PICK order \in SortedOrders(payload.items) :
          payload' = [payload EXCEPT !.at = "returned", !.items = BestOf(payload.items, order)]
    BY <1>6 DEF ReturnItems
  <2>2. payload.at = "records" /\ payload.next > Len(payload.records)
    BY <1>6 DEF ReturnItems
  <2> QED BY <2>1, <2>2, BestIsReturned
<1> QED BY <1>1, <1>2, <1>3, <1>4, <1>5, <1>6, Zenon DEF PayloadNext

\* The invariant says what the property says.
LEMMA PayloadInvIsSafe == PayloadInv => PayloadSafety
<1> SUFFICES ASSUME PayloadInv PROVE PayloadSafety
  OBVIOUS
<1>1. PayloadTypeOK
  BY DEF PayloadInv, ReadingInv, Readings, PayloadTypeOK
<1>2. LabelsAreOurs
  <2>1. \A i \in DOMAIN payload.items : \E r \in RecordPool : payload.items[i].metadata = Confined(Merged(r))
    <3>1. \A i \in DOMAIN payload.items : payload.items[i] \in Converted
      BY DEF PayloadInv, Readings
    <3> QED BY <3>1, ConvertedParts, Zenon
  <2>2. SUFFICES ASSUME NEW i \in DOMAIN payload.items,
                        NEW r \in RecordPool, payload.items[i].metadata = Confined(Merged(r))
                 PROVE  LET metadata == payload.items[i].metadata
                        IN  /\ metadata["provider"] = "spec.name" /\ metadata["retriever"] = "spec.name"
                            /\ metadata["provider_trust"] = ProviderTrust
                            /\ metadata["trust"] = "untrusted_repository_content"
                            /\ "path" \in DOMAIN metadata => metadata["path"] = "inside"
    BY <2>1, Zenon DEF LabelsAreOurs
  <2> QED BY <2>2, LabelsHold, Zenon
<1>3. WholeAnswerOrNone
  <2> SUFFICES ASSUME payload.at = "returned", payload.form \in Forms, Shallow,
                      payload.form = "jsonl" => Len(payload.records) > 1
               PROVE  payload.error = "none" <=>
                        /\ Len(payload.records) <= MaxRecords
                        /\ \A i \in DOMAIN payload.records : Usable(payload.records[i])
    BY Zenon DEF WholeAnswerOrNone
  <2>1. payload.error = "none" => Parsed /\ \A i \in DOMAIN payload.records : ~Invalid(payload.records[i])
    <3> SUFFICES ASSUME payload.error = "none"
                 PROVE  Parsed /\ \A i \in DOMAIN payload.records : ~Invalid(payload.records[i])
      OBVIOUS
    <3>1. /\ payload.next = Len(payload.records) + 1 /\ Parsed
          /\ \A i \in 1..(payload.next - 1) : ~Invalid(payload.records[i])
      BY Zenon DEF PayloadInv, ReadingInv
    <3>2. DOMAIN payload.records = 1..(payload.next - 1)
      BY <3>1 DEF PayloadInv, Readings
    <3> QED BY <3>1, <3>2
  <2>2. payload.error # "none" => ~Parsed \/ \E i \in DOMAIN payload.records : Invalid(payload.records[i])
    BY Zenon DEF PayloadInv, ReadingInv
  <2> QED BY <2>1, <2>2, WholeOrNone, Zenon
<1> QED BY <1>1, <1>2, <1>3, Zenon DEF PayloadInv, PayloadSafety

LEMMA PayloadInvariance == PayloadSpec => []PayloadInv
BY PayloadInitInv, PayloadNextInv, PTL DEF PayloadSpec

\* An answer is used as a whole or not at all, in every form alike; its items
\* carry the labels of this code, and the request gets the best of them, for any
\* records, limits and texts.
THEOREM PayloadIsSafe == PayloadSpec => []PayloadSafety
BY PayloadInvariance, PayloadInvIsSafe, PTL
=============================================================================
