----------------------- MODULE LearningRecordsProofs ------------------------
(***************************************************************************)
(* Proofs about LearningRecords, for every set of runs and recorders and   *)
(* every number of errors and power losses.                                *)
(***************************************************************************)
EXTENDS LearningRecords, TLAPS

Writing(w) == pc[w] \in {"publish", "flush", "mirror"}

\* The record at hand exists as far as its writer has come.
ProgressOf(w) ==
  /\ Writing(w) => writing[w] \in Record
  /\ pc[w] = "flush" => writing[w] \in files
  /\ pc[w] = "mirror" => writing[w] \in durable
Progress == \A w \in Writers : ProgressOf(w)

\* A run writes the decision of its arm, and once that is on disk retrieves
\* and writes the observation under the same id.
RunProgressOf(r) ==
  /\ Writing(r) =>
       /\ writing[r].run = r
       /\ \/ /\ writing[r].kind = "decision" /\ writing[r].body = arm[r]
             /\ arm[r] = "candidate" => writing[r].attempt = 1
          \/ /\ writing[r].kind = "observation"
             /\ Decision(r, writing[r].attempt, arm[r]) \in durable
  /\ pc[r] = "execute" =>
       \/ writing[r] = None /\ arm[r] = "baseline"
       \/ /\ \E n \in {1, 2} : writing[r] = Decision(r, n, arm[r])
          /\ arm[r] = "candidate" => writing[r] = Decision(r, 1, "candidate")
          /\ writing[r] \in durable
RunProgress == \A r \in Runs : RunProgressOf(r)

\* A recorder writes an outcome for a decision that was there.
RecorderProgressOf(w) ==
  /\ pc[w] # "execute"
  /\ Writing(w) =>
       /\ writing[w].kind = "outcome"
       /\ \E d \in files \cup lost :
            /\ d.kind = "decision"
            /\ d.run = writing[w].run /\ d.attempt = writing[w].attempt
RecorderProgress == \A w \in Recorders : RecorderProgressOf(w)

WriterInv == TypeOK /\ Progress /\ RunProgress /\ RecorderProgress
-----------------------------------------------------------------------------
LEMMA InitWriterInv == Init => WriterInv
BY WritersAssumption DEF Init, WriterInv, TypeOK, Progress, RunProgress,
   RecorderProgress, ProgressOf, RunProgressOf, RecorderProgressOf, Writing, Writers,
   Record, Kinds, Arms

\* What a writer holds when its write function raises is again a record it may
\* write, and only a run's.
LEMMA RaiseType ==
  ASSUME TypeOK, Progress, RunProgress, RecorderProgress,
         NEW w \in Writers, Writing(w), Raise(w)
  PROVE  /\ pc' \in [Writers -> {"idle", "publish", "flush", "mirror", "execute", "done", "dead"}]
         /\ arm' \in [Runs -> Arms]
         /\ writing' \in [Writers -> Record \cup {None}]
         /\ acknowledged' = acknowledged
<1>1. writing[w] \in Record
  BY DEF Progress, ProgressOf
<1>2. CASE w \in Runs
  BY <1>1, <1>2 DEF TypeOK, Raise, Goto, Hold, Record, Kinds, Arms, Decision
<1>3. CASE w \in Recorders
  <2>1. writing[w].kind = "outcome"
    BY <1>3 DEF RecorderProgress, RecorderProgressOf
  <2> QED BY <2>1 DEF TypeOK, Raise, Goto, Hold
<1> QED BY <1>2, <1>3 DEF Writers

LEMMA NextTypeOK == WriterInv /\ [Next]_vars => TypeOK'
<1> SUFFICES ASSUME WriterInv, [Next]_vars PROVE TypeOK'
  OBVIOUS
<1> USE DEF WriterInv, TypeOK
<1> USE WritersAssumption
<1>1. ASSUME NEW r \in Runs, Choose(r) PROVE TypeOK'
  BY <1>1 DEF Choose, Goto, Hold, operator, Decision, Record, Kinds, Arms, Writers
<1>2. ASSUME NEW r \in Runs, Retrieve(r) PROVE TypeOK'
  BY <1>2 DEF Retrieve, Goto, Hold, operator, Record, Kinds, Writers
<1>3. ASSUME NEW w \in Recorders, RecordOutcome(w) PROVE TypeOK'
  BY <1>3 DEF RecordOutcome, Goto, Hold, operator, Record, Kinds, Writers
<1>4. ASSUME NEW w \in Writers, Publish(w) PROVE TypeOK'
  <2>1. writing[w] \in Record /\ Writing(w)
    BY <1>4 DEF Publish, Progress, ProgressOf, Writing
  <2>2. CASE \E f \in files : SameName(f, writing[w])
    BY <1>4, <2>1, <2>2, RaiseType DEF Publish, operator
  <2>3. CASE ~\E f \in files : SameName(f, writing[w])
    BY <1>4, <2>1, <2>3 DEF Publish, operator, Goto
  <2> QED BY <2>2, <2>3
<1>5. ASSUME NEW w \in Writers, PublishFails(w) PROVE TypeOK'
  BY <1>5, RaiseType DEF PublishFails, Fault, operator, Writing
<1>6. ASSUME NEW w \in Writers, Flush(w) PROVE TypeOK'
  BY <1>6 DEF Flush, Flushed, Goto, operator
<1>7. ASSUME NEW w \in Writers, FlushFails(w) PROVE TypeOK'
  BY <1>7, RaiseType DEF FlushFails, Flushed, Fault, operator, Writing
<1>8. ASSUME NEW w \in Writers, Mirror(w) PROVE TypeOK'
  BY <1>8 DEF Mirror, Append, Return, Goto, Hold, operator, Progress, ProgressOf, Writing
<1>9. ASSUME NEW w \in Writers, MirrorFails(w) PROVE TypeOK'
  BY <1>9 DEF MirrorFails, Return, Goto, Hold, operator, Progress, ProgressOf, Writing, Fault
<1>10. ASSUME NEW w \in Writers, Crash(w) PROVE TypeOK'
  BY <1>10 DEF Crash, Goto, operator
<1>11. CASE PowerLoss
  BY <1>11 DEF PowerLoss
<1>12. CASE StartSync \/ StartReconcile
  BY <1>12 DEF StartSync, StartReconcile, Begin, writers
<1>13. CASE Sync \/ SyncFails \/ Reconcile
  BY <1>13 DEF Sync, ListDirectory, SyncRecord, Append, FinishSync, SyncFails, Fault,
     Reconcile, ReadDirectory, ReadStore, Finish, writers
<1>14. CASE UNCHANGED vars
  BY <1>14 DEF vars
<1> QED
  BY <1>1, <1>2, <1>3, <1>4, <1>5, <1>6, <1>7, <1>8, <1>9, <1>10, <1>11, <1>12,
     <1>13, <1>14 DEF Next, Write, WriteFails

\* What is on disk stays there, and what was visible is visible or lost.
LEMMA DiskGrows ==
  TypeOK /\ [Next]_vars => durable \subseteq durable' /\ files \cup lost \subseteq files' \cup lost'
<1> SUFFICES ASSUME TypeOK, [Next]_vars
             PROVE  durable \subseteq durable' /\ files \cup lost \subseteq files' \cup lost'
  OBVIOUS
<1>1. CASE PowerLoss
  BY <1>1 DEF PowerLoss, TypeOK
<1>2. ASSUME NEW w \in Writers, Write(w) \/ WriteFails(w) \/ Crash(w)
      PROVE  durable \subseteq durable' /\ files \cup lost \subseteq files' \cup lost'
  BY <1>2 DEF Write, WriteFails, Publish, PublishFails, Flush, FlushFails, Flushed,
     Mirror, MirrorFails, Crash
<1>3. CASE \/ \E r \in Runs : Choose(r) \/ Retrieve(r)
           \/ \E w \in Recorders : RecordOutcome(w)
  BY <1>3 DEF Choose, Retrieve, RecordOutcome
<1>4. CASE StartSync \/ Sync \/ SyncFails \/ StartReconcile \/ Reconcile
  BY <1>4 DEF StartSync, StartReconcile, Begin, Sync, ListDirectory, SyncRecord,
     FinishSync, SyncFails, Reconcile, ReadDirectory, ReadStore
<1>5. CASE UNCHANGED vars
  BY <1>5 DEF vars
<1> QED BY <1>1, <1>2, <1>3, <1>4, <1>5 DEF Next

\* A step of one writer leaves the others where they are.
LEMMA OneWriterMoves ==
  ASSUME TypeOK, NEW w \in Writers,
         \/ w \in Runs /\ (Choose(w) \/ Retrieve(w))
         \/ w \in Recorders /\ RecordOutcome(w)
         \/ Write(w) \/ WriteFails(w) \/ Crash(w)
  PROVE  /\ \A v \in Writers \ {w} : pc'[v] = pc[v] /\ writing'[v] = writing[v]
         /\ \A r \in Runs \ {w} : arm'[r] = arm[r]
         /\ files \subseteq files'
<1>1. CASE w \in Runs /\ (Choose(w) \/ Retrieve(w))
  BY <1>1 DEF TypeOK, Choose, Retrieve, Goto, Hold
<1>2. CASE w \in Recorders /\ RecordOutcome(w)
  BY <1>2 DEF TypeOK, RecordOutcome, Goto, Hold
<1>3. CASE Write(w) \/ Crash(w)
  BY <1>3 DEF TypeOK, Write, Publish, Raise, Flush, Mirror, Return, Crash, Goto, Hold
<1>4. CASE WriteFails(w)
  BY <1>4 DEF TypeOK, WriteFails, PublishFails, FlushFails, MirrorFails, Raise, Return,
     Goto, Hold
<1> QED BY <1>1, <1>2, <1>3, <1>4

WriterOf(w) == /\ ProgressOf(w)
               /\ w \in Runs => RunProgressOf(w)
               /\ w \in Recorders => RecorderProgressOf(w)

\* The writers that do not move keep their part of the invariant.
LEMMA OthersKeep ==
  ASSUME WriterInv, [Next]_vars, NEW w \in Writers,
         \/ w \in Runs /\ (Choose(w) \/ Retrieve(w))
         \/ w \in Recorders /\ RecordOutcome(w)
         \/ Write(w) \/ WriteFails(w) \/ Crash(w),
         NEW v \in Writers \ {w}
  PROVE  WriterOf(v)'
<1>1. /\ pc'[v] = pc[v] /\ writing'[v] = writing[v]
      /\ v \in Runs => arm'[v] = arm[v]
      /\ files \subseteq files'
  BY OneWriterMoves DEF WriterInv
<1>2. durable \subseteq durable' /\ files \cup lost \subseteq files' \cup lost'
  BY DiskGrows DEF WriterInv
<1>3. ProgressOf(v)'
  BY <1>1, <1>2 DEF WriterInv, Progress, ProgressOf, Writing
<1>4. CASE v \in Runs
  <2>1. RunProgressOf(v)
    BY <1>4 DEF WriterInv, RunProgress
  <2>2. RunProgressOf(v)'
    BY <1>1, <1>2, <1>4, <2>1 DEF RunProgressOf, Writing
  <2> QED BY <1>3, <1>4, <2>2, WritersAssumption DEF WriterOf
<1>5. CASE v \in Recorders
  <2>1. RecorderProgressOf(v)
    BY <1>5 DEF WriterInv, RecorderProgress
  <2>2. RecorderProgressOf(v)'
    BY <1>1, <1>2, <2>1 DEF RecorderProgressOf, Writing
  <2> QED BY <1>3, <1>5, <2>2, WritersAssumption DEF WriterOf
<1> QED BY <1>4, <1>5 DEF Writers

\* A writer whose write function raises is left with what it may go on with.
LEMMA RaiseKeeps ==
  ASSUME WriterInv, NEW w \in Writers, Writing(w), Raise(w)
  PROVE  WriterOf(w)'
<1>1. writing[w] \in Record
  BY DEF WriterInv, Progress, ProgressOf
<1>2. CASE w \in Runs
  <2>1. RunProgressOf(w) /\ w \notin Recorders
    BY <1>2, WritersAssumption DEF WriterInv, RunProgress
  <2>2. CASE writing[w].kind = "decision" /\ writing[w].body = "candidate"
    <3>1. /\ pc'[w] = "publish" /\ writing'[w] = Decision(w, 2, "baseline")
          /\ arm'[w] = "baseline"
      BY <1>2, <2>2 DEF Raise, Goto, Hold, WriterInv, TypeOK, Writers
    <3> QED
      BY <1>2, <2>1, <3>1 DEF WriterOf, ProgressOf, RunProgressOf, Writing, Decision,
         Record, Kinds, Arms
  <2>3. CASE writing[w].kind = "decision" /\ writing[w].body # "candidate"
    <3>1. pc'[w] = "execute" /\ writing'[w] = None /\ arm' = arm
      BY <1>2, <2>3 DEF Raise, Goto, Hold, WriterInv, TypeOK, Writers
    <3>2. arm[w] = "baseline"
      BY <1>2, <2>1, <2>3 DEF RunProgressOf, WriterInv, TypeOK, Arms
    <3> QED
      BY <1>2, <2>1, <3>1, <3>2 DEF WriterOf, ProgressOf, RunProgressOf, Writing
  <2>4. CASE writing[w].kind # "decision"
    BY <1>2, <2>1, <2>4 DEF Raise, Goto, Hold, WriterInv, TypeOK, Writers, WriterOf,
       ProgressOf, RunProgressOf, Writing
  <2> QED BY <2>2, <2>3, <2>4
<1>3. CASE w \in Recorders
  <2>1. RecorderProgressOf(w) /\ w \notin Runs
    BY <1>3, WritersAssumption DEF WriterInv, RecorderProgress
  <2> QED
    BY <2>1 DEF Raise, Goto, Hold, WriterInv, TypeOK, WriterOf, ProgressOf,
       RecorderProgressOf, Writing
<1> QED BY <1>2, <1>3 DEF Writers

\* A writer whose write function returns.
LEMMA ReturnKeeps ==
  ASSUME WriterInv, NEW w \in Writers, pc[w] = "mirror", Return(w), durable' = durable
  PROVE  WriterOf(w)'
<1>1. writing[w] \in Record /\ writing[w] \in durable
  BY DEF WriterInv, Progress, ProgressOf, Writing
<1>2. CASE w \in Runs
  <2>1. RunProgressOf(w) /\ w \notin Recorders
    BY <1>2, WritersAssumption DEF WriterInv, RunProgress
  <2>2. CASE writing[w].kind = "decision"
    <3>1. pc'[w] = "execute" /\ writing' = writing /\ arm' = arm
      BY <2>2 DEF Return, Goto, WriterInv, TypeOK
    <3>2. /\ writing[w] = Decision(w, writing[w].attempt, arm[w])
          /\ writing[w].attempt \in {1, 2}
          /\ arm[w] = "candidate" => writing[w].attempt = 1
      BY <1>1, <2>1, <2>2 DEF RunProgressOf, Writing, Decision, Record
    <3> QED
      BY <1>1, <2>1, <3>1, <3>2 DEF WriterOf, ProgressOf, RunProgressOf, Writing
  <2>3. CASE writing[w].kind # "decision"
    BY <2>1, <2>3 DEF Return, Goto, Hold, WriterInv, TypeOK, WriterOf, ProgressOf,
       RunProgressOf, Writing
  <2> QED BY <2>2, <2>3
<1>3. CASE w \in Recorders
  <2>1. RecorderProgressOf(w) /\ w \notin Runs
    BY <1>3, WritersAssumption DEF WriterInv, RecorderProgress
  <2> QED
    BY <2>1 DEF Return, Goto, Hold, WriterInv, TypeOK, WriterOf, ProgressOf,
       RecorderProgressOf, Writing
<1> QED BY <1>2, <1>3 DEF Writers

\* Every step keeps what the writers' places say about the files.
LEMMA NextWriterInv == WriterInv /\ [Next]_vars => WriterInv'
<1> SUFFICES ASSUME WriterInv, [Next]_vars PROVE WriterInv'
  OBVIOUS
<1>0. TypeOK'
  BY NextTypeOK
<1>a. durable \subseteq durable' /\ files \cup lost \subseteq files' \cup lost'
  BY DiskGrows DEF WriterInv
<1>b. (\A w \in Writers : WriterOf(w)') => WriterInv'
  BY <1>0 DEF WriterOf, WriterInv, Progress, RunProgress, RecorderProgress, Writers
<1>c. \A w \in Writers : WriterOf(w)
  BY DEF WriterOf, WriterInv, Progress, RunProgress, RecorderProgress
<1>1. ASSUME NEW r \in Runs, Choose(r) PROVE WriterInv'
  <2>1. r \in Writers /\ r \notin Recorders
    BY WritersAssumption DEF Writers
  <2>2. PICK a \in Arms : /\ arm' = [arm EXCEPT ![r] = a]
                          /\ Hold(r, Decision(r, 1, a)) /\ Goto(r, "publish")
    BY <1>1 DEF Choose
  <2>3. pc'[r] = "publish" /\ writing'[r] = Decision(r, 1, a) /\ arm'[r] = a
    BY <2>1, <2>2 DEF Goto, Hold, WriterInv, TypeOK
  <2>4. WriterOf(r)'
    BY <2>1, <2>3 DEF WriterOf, ProgressOf, RunProgressOf, Writing, Decision, Record,
       Kinds
  <2> QED BY <1>1, <1>b, <2>1, <2>4, OthersKeep
<1>2. ASSUME NEW r \in Runs, Retrieve(r) PROVE WriterInv'
  <2>1. r \in Writers /\ r \notin Recorders /\ RunProgressOf(r)
    BY WritersAssumption DEF Writers, WriterInv, RunProgress
  <2>2. durable' = durable /\ arm' = arm /\ pc[r] = "execute"
    BY <1>2 DEF Retrieve
  <2>3. CASE writing[r] = None
    <3>1. pc'[r] = "done"
      BY <1>2, <2>1, <2>3 DEF Retrieve, Goto, WriterInv, TypeOK
    <3> QED
      BY <1>2, <1>b, <2>1, <3>1, OthersKeep DEF WriterOf, ProgressOf, RunProgressOf,
         Writing
  <2>4. CASE writing[r] # None
    <3>1. PICK n \in {1, 2} : /\ writing[r] = Decision(r, n, arm[r])
                              /\ writing[r] \in durable
      BY <2>1, <2>2, <2>4 DEF RunProgressOf
    <3>2. /\ pc'[r] = "publish"
          /\ writing'[r] = [kind |-> "observation", run |-> r, attempt |-> n,
                            body |-> "observed"]
      BY <1>2, <2>1, <2>4, <3>1 DEF Retrieve, Goto, Hold, WriterInv, TypeOK, Decision
    <3>3. WriterOf(r)'
      BY <2>1, <2>2, <3>1, <3>2 DEF WriterOf, ProgressOf, RunProgressOf, Writing,
         Record, Kinds
    <3> QED BY <1>2, <1>b, <2>1, <3>3, OthersKeep
  <2> QED BY <2>3, <2>4
<1>3. ASSUME NEW w \in Recorders, RecordOutcome(w) PROVE WriterInv'
  <2>1. w \in Writers /\ w \notin Runs
    BY WritersAssumption DEF Writers
  <2>2. PICK d \in files :
          /\ d.kind = "decision" /\ Goto(w, "publish")
          /\ Hold(w, [kind |-> "outcome", run |-> d.run, attempt |-> d.attempt,
                      body |-> w])
    BY <1>3 DEF RecordOutcome
  <2>3. /\ pc'[w] = "publish"
        /\ writing'[w] = [kind |-> "outcome", run |-> d.run, attempt |-> d.attempt,
                          body |-> w]
        /\ d \in Record
    BY <2>1, <2>2 DEF Goto, Hold, WriterInv, TypeOK
  <2>4. WriterOf(w)'
    BY <1>a, <2>1, <2>2, <2>3 DEF WriterOf, ProgressOf, RecorderProgressOf, Writing,
       Record, Kinds
  <2> QED BY <1>3, <1>b, <2>1, <2>4, OthersKeep
<1>4. ASSUME NEW w \in Writers, Write(w) \/ WriteFails(w) \/ Crash(w) PROVE WriterInv'
  <2> SUFFICES WriterOf(w)'
    BY <1>4, <1>b, OthersKeep
  <2>1. CASE Publish(w) /\ ~Raise(w)
    <3>1. /\ pc[w] = "publish" /\ pc'[w] = "flush" /\ writing' = writing /\ arm' = arm
          /\ writing[w] \in files'
      BY <2>1 DEF Publish, Goto, WriterInv, TypeOK
    <3> QED
      BY <1>a, <1>c, <3>1 DEF WriterOf, ProgressOf, RunProgressOf, RecorderProgressOf,
         Writing
  <2>2. CASE Raise(w) /\ (Publish(w) \/ PublishFails(w) \/ FlushFails(w))
    BY <2>2, RaiseKeeps DEF Publish, PublishFails, FlushFails, Writing
  <2>3. CASE Flush(w)
    <3>1. /\ pc[w] = "flush" /\ pc'[w] = "mirror" /\ writing' = writing /\ arm' = arm
          /\ writing[w] \in files
      BY <1>c, <2>3 DEF Flush, Goto, WriterInv, TypeOK, WriterOf, ProgressOf
    <3>2. writing[w] \in durable'
      BY <2>3, <3>1 DEF Flush, Flushed
    <3> QED
      BY <1>a, <1>c, <3>1, <3>2 DEF WriterOf, ProgressOf, RunProgressOf,
         RecorderProgressOf, Writing
  <2>4. CASE Mirror(w) \/ MirrorFails(w)
    BY <2>4, ReturnKeeps DEF Mirror, MirrorFails
  <2>5. CASE Crash(w)
    BY <2>5 DEF Crash, Goto, WriterInv, TypeOK, WriterOf, ProgressOf, RunProgressOf,
       RecorderProgressOf, Writing
  <2> QED
    BY <1>4, <2>1, <2>2, <2>3, <2>4, <2>5 DEF Write, WriteFails, PublishFails,
       FlushFails
<1>5. CASE PowerLoss
  <2>1. \A w \in Writers : pc'[w] \in {"idle", "done", "dead"}
    BY <1>5 DEF PowerLoss
  <2> QED
    BY <1>b, <2>1 DEF WriterOf, ProgressOf, RunProgressOf, RecorderProgressOf, Writing
<1>6. CASE \/ UNCHANGED vars
           \/ StartSync \/ Sync \/ SyncFails \/ StartReconcile \/ Reconcile
  <2>1. UNCHANGED <<writers, files, durable, lost>>
    BY <1>6 DEF vars, writers, StartSync, StartReconcile, Begin, Sync, ListDirectory,
       SyncRecord, FinishSync, SyncFails, Reconcile, ReadDirectory, ReadStore
  <2> QED
    BY <1>b, <1>c, <2>1 DEF writers, WriterOf, ProgressOf, RunProgressOf,
       RecorderProgressOf, Writing
<1> QED BY <1>1, <1>2, <1>3, <1>4, <1>5, <1>6 DEF Next
-----------------------------------------------------------------------------
\* Who files the observation of a run has decided, and will not decide again.
ObservationIsLast ==
  \A f \in files : f.kind = "observation" =>
    /\ Decision(f.run, f.attempt, arm[f.run]) \in files \cup lost
    /\ pc[f.run] \notin {"idle", "execute"}
    /\ Writing(f.run) => writing[f.run].kind = "observation"

EvidenceInv == /\ acknowledged \subseteq durable
               /\ OutcomeBelongs
               /\ ObservationIsLast

LEMMA NextEvidenceInv == WriterInv /\ EvidenceInv /\ [Next]_vars => EvidenceInv'
<1> SUFFICES ASSUME WriterInv, EvidenceInv, [Next]_vars PROVE EvidenceInv'
  OBVIOUS
<1>a. durable \subseteq durable' /\ files \cup lost \subseteq files' \cup lost'
  BY DiskGrows DEF WriterInv
<1>1. acknowledged' \subseteq durable'
  <2>1. ASSUME NEW w \in Writers, Mirror(w) \/ MirrorFails(w)
        PROVE  acknowledged' \subseteq durable'
    <3>1. writing[w] \in durable
      BY <2>1 DEF Mirror, MirrorFails, WriterInv, Progress, ProgressOf
    <3> QED BY <2>1, <3>1, <1>a DEF Mirror, MirrorFails, Return, EvidenceInv
  <2>2. CASE acknowledged' = acknowledged
    BY <2>2, <1>a DEF EvidenceInv
  <2>3. \/ acknowledged' = acknowledged
        \/ \E w \in Writers : Mirror(w) \/ MirrorFails(w)
    BY DEF Next, vars, Choose, Retrieve, RecordOutcome, Write, WriteFails, Publish,
       PublishFails, Flush, FlushFails, Raise, Crash, PowerLoss, StartSync,
       StartReconcile, Begin, Sync, ListDirectory, SyncRecord, FinishSync, SyncFails,
       Reconcile, ReadDirectory, ReadStore
  <2> QED BY <2>1, <2>2, <2>3
<1>2. \/ files' \subseteq files
      \/ \E w \in Writers :
           /\ Publish(w) /\ files' = files \cup {writing[w]}
           /\ pc[w] = "publish" /\ pc'[w] = "flush" /\ UNCHANGED <<arm, writing>>
           /\ \A f \in files : ~SameName(f, writing[w])
           /\ writing[w] \in Record
  <2>1. ASSUME NEW w \in Writers, Publish(w), ~(files' \subseteq files)
        PROVE  /\ files' = files \cup {writing[w]}
               /\ pc[w] = "publish" /\ pc'[w] = "flush" /\ UNCHANGED <<arm, writing>>
               /\ \A f \in files : ~SameName(f, writing[w])
               /\ writing[w] \in Record
    BY <2>1 DEF Publish, Goto, WriterInv, TypeOK, Progress, ProgressOf, Writing
  <2>2. files' \subseteq files \/ \E w \in Writers : Publish(w)
    BY DEF Next, vars, Choose, Retrieve, RecordOutcome, Write, WriteFails,
       PublishFails, Flush, FlushFails, Mirror, MirrorFails, Crash, PowerLoss,
       StartSync, StartReconcile, Begin, Sync, ListDirectory, SyncRecord, FinishSync,
       SyncFails, Reconcile, ReadDirectory, ReadStore
  <2> QED BY <2>1, <2>2
<1>3. OutcomeBelongs'
  <2>1. CASE files' \subseteq files
    BY <1>a, <2>1 DEF EvidenceInv, OutcomeBelongs
  <2>2. ASSUME NEW w \in Writers, writing[w] \in Record,
               files' = files \cup {writing[w]}, pc[w] = "publish",
               \A f \in files : ~SameName(f, writing[w])
        PROVE  OutcomeBelongs'
    <3>1. ASSUME NEW f \in files', NEW g \in files', SameName(f, g) PROVE f = g
      <4>1. SameName(g, f)
        BY <3>1 DEF SameName
      <4> QED BY <2>2, <3>1, <4>1 DEF EvidenceInv, OutcomeBelongs
    <3>2. ASSUME NEW f \in files', f.kind = "outcome"
          PROVE  \E d \in files' \cup lost' :
                   d.kind = "decision" /\ d.run = f.run /\ d.attempt = f.attempt
      <4>1. CASE f \in files
        BY <1>a, <3>2, <4>1 DEF EvidenceInv, OutcomeBelongs
      <4>2. CASE f = writing[w]
        <5>1. w \in Recorders
          BY <2>2, <3>2, <4>2 DEF Writers, WriterInv, RunProgress, RunProgressOf, Writing
        <5> QED
          BY <1>a, <2>2, <4>2, <5>1 DEF WriterInv, RecorderProgress,
             RecorderProgressOf, Writing
      <4> QED BY <2>2, <4>1, <4>2
    <3> QED BY <3>1, <3>2 DEF OutcomeBelongs
  <2> QED BY <1>2, <2>1, <2>2
<1>4. ObservationIsLast'
  <2> SUFFICES ASSUME NEW f \in files', f.kind = "observation"
               PROVE  /\ Decision(f.run, f.attempt, arm'[f.run]) \in files' \cup lost'
                      /\ pc'[f.run] \notin {"idle", "execute"}
                      /\ Writing(f.run)' => writing'[f.run].kind = "observation"
    BY DEF ObservationIsLast
  <2>1. CASE f \in files
    <3>1. f.run \in Runs /\ f.run \in Writers
      BY <2>1 DEF WriterInv, TypeOK, Record, Writers
    <3>2. /\ Decision(f.run, f.attempt, arm[f.run]) \in files \cup lost
          /\ pc[f.run] \notin {"idle", "execute"}
          /\ Writing(f.run) => writing[f.run].kind = "observation"
      BY <2>1 DEF EvidenceInv, ObservationIsLast
    <3> SUFFICES /\ arm'[f.run] = arm[f.run]
                 /\ pc'[f.run] \notin {"idle", "execute"}
                 /\ Writing(f.run)' => writing'[f.run].kind = "observation"
      BY <1>a, <3>2
    <3>3. ASSUME NEW w \in Writers, w # f.run,
                 \/ w \in Runs /\ (Choose(w) \/ Retrieve(w))
                 \/ w \in Recorders /\ RecordOutcome(w)
                 \/ Write(w) \/ WriteFails(w) \/ Crash(w)
          PROVE  /\ arm'[f.run] = arm[f.run]
                 /\ pc'[f.run] \notin {"idle", "execute"}
                 /\ Writing(f.run)' => writing'[f.run].kind = "observation"
      BY <3>1, <3>2, <3>3, OneWriterMoves DEF WriterInv, Writing
    <3>4. CASE Write(f.run) \/ WriteFails(f.run)
      BY <3>1, <3>2, <3>4 DEF Write, WriteFails, Publish, PublishFails, Flush,
         FlushFails, Mirror, MirrorFails, Return, Raise, Goto, Hold, WriterInv, TypeOK,
         Writing
    <3>5. CASE Crash(f.run)
      BY <3>1, <3>2, <3>5 DEF Crash, Goto, WriterInv, TypeOK, Writing
    <3>6. CASE PowerLoss
      BY <3>1, <3>2, <3>6 DEF PowerLoss, WriterInv, TypeOK, Writing
    <3>7. CASE \/ UNCHANGED vars
               \/ StartSync \/ Sync \/ SyncFails \/ StartReconcile \/ Reconcile
      <4>1. UNCHANGED writers
        BY <3>7 DEF vars, writers, StartSync, StartReconcile, Begin, Sync,
           ListDirectory, SyncRecord, FinishSync, SyncFails, Reconcile, ReadDirectory,
           ReadStore
      <4> QED BY <3>2, <4>1 DEF writers, Writing
    <3>8. ~Choose(f.run) /\ ~Retrieve(f.run) /\ f.run \notin Recorders
      BY <3>1, <3>2, WritersAssumption DEF Choose, Retrieve
    <3> QED BY <3>1, <3>3, <3>4, <3>5, <3>6, <3>7, <3>8 DEF Next, Writers
  <2>2. CASE f \notin files
    <3>1. PICK w \in Writers : /\ f = writing[w] /\ pc[w] = "publish"
                               /\ pc'[w] = "flush" /\ UNCHANGED <<arm, writing>>
      BY <1>2, <2>2
    <3>2. w \in Runs
      BY <2>2, <3>1 DEF Writers, WriterInv, RecorderProgress, RecorderProgressOf, Writing
    <3>3. f.run = w /\ Decision(w, f.attempt, arm[w]) \in durable
      BY <3>1, <3>2 DEF WriterInv, RunProgress, RunProgressOf, Writing
    <3>4. Decision(w, f.attempt, arm[w]) \in files
      BY <3>3 DEF WriterInv, TypeOK
    <3> QED BY <1>a, <3>1, <3>3, <3>4 DEF Writing
  <2> QED BY <2>1, <2>2
<1> QED BY <1>1, <1>3, <1>4 DEF EvidenceInv
-----------------------------------------------------------------------------
\* Has the operator's command been through the directory of f?
Visited(f) == \E i \in 1..3 : i < dir /\ Directories[i] = f.kind

\* A running command has not answered yet, and what it visited is mirrored,
\* still to be mirrored, or noted.
CommandProgress ==
  /\ task # "idle" => verdict = "none" /\ backlog \subseteq files
  /\ task = "sync" => \A f \in backlog : Visited(f) => f \in store \cup todo
  /\ task = "reconcile" => \A f \in backlog : Visited(f) => f \in seen

OperatorInv == /\ CommandProgress
               /\ AnswersCoverBacklog
               /\ todo \subseteq files
               /\ MirrorFollowsFiles

\* Once the third directory was visited every record has been.
LEMMA AllVisited == ASSUME dir = 4, NEW f \in Record PROVE Visited(f)
BY DEF Visited, Record, Kinds, Directories

LEMMA NextOperatorInv == WriterInv /\ OperatorInv /\ [Next]_vars => OperatorInv'
<1> SUFFICES ASSUME WriterInv, OperatorInv, [Next]_vars PROVE OperatorInv'
  OBVIOUS
<1>a. durable \subseteq durable' /\ files \cup lost \subseteq files' \cup lost'
  BY DiskGrows DEF WriterInv
<1>b. dir \in 1..4 /\ durable \subseteq files /\ files \subseteq Record
  BY DEF WriterInv, TypeOK
<1>1. ASSUME UNCHANGED operator, files \subseteq files', store \subseteq store',
             store' \subseteq files' \cup lost'
      PROVE  OperatorInv'
  BY <1>1 DEF operator, OperatorInv, CommandProgress, AnswersCoverBacklog,
     MirrorFollowsFiles, Visited
<1>2. ASSUME NEW w \in Writers, Mirror(w) PROVE OperatorInv'
  <2>1. writing[w] \in durable
    BY <1>2 DEF Mirror, WriterInv, Progress, ProgressOf
  <2> QED
    BY <1>1, <1>2, <1>b, <2>1 DEF Mirror, Append, OperatorInv, MirrorFollowsFiles
<1>3. ASSUME UNCHANGED <<operator, store>>, files \subseteq files' PROVE OperatorInv'
  BY <1>1, <1>3, <1>a DEF OperatorInv, MirrorFollowsFiles
<1>4. CASE \/ \E r \in Runs : Choose(r) \/ Retrieve(r)
           \/ \E w \in Recorders : RecordOutcome(w)
  BY <1>3, <1>4 DEF Choose, Retrieve, RecordOutcome
<1>5. ASSUME NEW w \in Writers,
             Publish(w) \/ Flush(w) \/ WriteFails(w) \/ Crash(w)
      PROVE  OperatorInv'
  BY <1>3, <1>5 DEF WriteFails, Publish, PublishFails, Flush, FlushFails, MirrorFails,
     Crash
<1>6. CASE PowerLoss
  BY <1>6, <1>a DEF PowerLoss, OperatorInv, CommandProgress, AnswersCoverBacklog,
     MirrorFollowsFiles
<1>7. CASE StartSync \/ StartReconcile
  <2>1. \A f : ~Visited(f)'
    BY <1>7 DEF StartSync, StartReconcile, Begin, Visited
  <2> QED
    BY <1>7, <2>1 DEF StartSync, StartReconcile, Begin, OperatorInv, CommandProgress,
       AnswersCoverBacklog, MirrorFollowsFiles
<1>8. CASE ListDirectory
  <2>1. ASSUME NEW f \in backlog, Visited(f)' PROVE f \in store \cup todo'
    <3>1. f \in files
      BY <1>8 DEF ListDirectory, OperatorInv, CommandProgress
    <3>2. CASE Visited(f)
      BY <1>8, <3>2 DEF ListDirectory, OperatorInv, CommandProgress
    <3>3. CASE ~Visited(f)
      <4>1. f.kind = Directories[dir]
        BY <1>8, <1>b, <2>1, <3>3 DEF ListDirectory, Visited
      <4> QED BY <1>8, <3>1, <4>1 DEF ListDirectory
    <3> QED BY <3>2, <3>3
  <2> QED
    BY <1>8, <2>1 DEF ListDirectory, OperatorInv, CommandProgress, AnswersCoverBacklog,
       MirrorFollowsFiles
<1>9. CASE SyncRecord
  <2>1. PICK record \in todo :
          /\ Append(record)
          /\ todo' = todo \ {record}
          /\ IF Conflicts(record) THEN Finish("failed") ELSE UNCHANGED <<task, verdict>>
    BY <1>9 DEF SyncRecord
  <2>2. record \in files
    BY DEF OperatorInv
  <2>3. CASE Conflicts(record)
    BY <1>9, <2>1, <2>3 DEF SyncRecord, Append, Finish, OperatorInv, CommandProgress,
       AnswersCoverBacklog, MirrorFollowsFiles
  <2>4. CASE ~Conflicts(record)
    <3>1. store' = store \cup {record} /\ UNCHANGED <<task, verdict>>
      BY <2>1, <2>4 DEF Append
    <3> QED
      BY <1>9, <2>1, <2>2, <3>1 DEF SyncRecord, OperatorInv, CommandProgress, Visited,
         AnswersCoverBacklog, MirrorFollowsFiles
  <2> QED BY <2>3, <2>4
<1>10. CASE SyncFails
  BY <1>10 DEF SyncFails, Finish, OperatorInv, CommandProgress, AnswersCoverBacklog,
     MirrorFollowsFiles
<1>11. CASE FinishSync
  <2>1. backlog \subseteq store
    BY <1>11, <1>b, AllVisited DEF FinishSync, OperatorInv, CommandProgress
  <2> QED
    BY <1>11, <2>1 DEF FinishSync, Finish, OperatorInv, CommandProgress,
       AnswersCoverBacklog, MirrorFollowsFiles
<1>12. CASE ReadDirectory
  <2>1. ASSUME NEW f \in backlog, Visited(f)' PROVE f \in seen'
    <3>1. f \in files
      BY <1>12 DEF ReadDirectory, OperatorInv, CommandProgress
    <3>2. CASE Visited(f)
      BY <1>12, <3>2 DEF ReadDirectory, OperatorInv, CommandProgress
    <3>3. CASE ~Visited(f)
      <4>1. f.kind = Directories[dir]
        BY <1>12, <1>b, <2>1, <3>3 DEF ReadDirectory, Visited
      <4> QED BY <1>12, <3>1, <4>1 DEF ReadDirectory
    <3> QED BY <3>2, <3>3
  <2> QED
    BY <1>12, <2>1 DEF ReadDirectory, OperatorInv, CommandProgress, AnswersCoverBacklog,
       MirrorFollowsFiles
<1>13. CASE ReadStore
  <2>1. backlog \subseteq seen
    BY <1>13, <1>b, AllVisited DEF ReadStore, OperatorInv, CommandProgress
  <2> QED
    BY <1>13, <2>1 DEF ReadStore, Finish, OperatorInv, CommandProgress,
       AnswersCoverBacklog, MirrorFollowsFiles
<1>14. CASE UNCHANGED vars
  BY <1>3, <1>14 DEF vars, operator
<1> QED
  BY <1>2, <1>4, <1>5, <1>6, <1>7, <1>8, <1>9, <1>10, <1>11, <1>12, <1>13, <1>14
     DEF Next, Write, Sync, Reconcile
-----------------------------------------------------------------------------
IInv == WriterInv /\ EvidenceInv /\ OperatorInv

\* The inductive invariant holds throughout.
THEOREM Invariance == Spec => []IInv
<1>1. Init => IInv
  <2> SUFFICES ASSUME Init PROVE IInv
    OBVIOUS
  <2>1. WriterInv
    BY InitWriterInv
  <2>2. EvidenceInv
    BY DEF Init, EvidenceInv, OutcomeBelongs, ObservationIsLast
  <2>3. OperatorInv
    BY DEF Init, OperatorInv, CommandProgress, AnswersCoverBacklog, MirrorFollowsFiles
  <2> QED BY <2>1, <2>2, <2>3 DEF IInv
<1>2. IInv /\ [Next]_vars => IInv'
  BY NextWriterInv, NextEvidenceInv, NextOperatorInv DEF IInv
<1> QED BY <1>1, <1>2, PTL DEF Spec

\* Type correctness.
THEOREM TypeCorrect == Spec => []TypeOK
<1>1. IInv => TypeOK
  BY DEF IInv, WriterInv
<1> QED BY <1>1, Invariance, PTL

\* prepare_learning_decision fails closed: whatever raises, a run retrieves
\* with the candidate arm only once its decision is on disk.
THEOREM CandidatesAreLogged == Spec => []CandidateIsLogged
<1>1. IInv => CandidateIsLogged
  BY DEF IInv, WriterInv, RunProgress, RunProgressOf, CandidateIsLogged
<1> QED BY <1>1, Invariance, PTL

\* A record whose write returned is never lost or replaced, whatever crashes,
\* competing recorders and power losses follow.
THEOREM AcknowledgedRecordsStay == Spec => []AcknowledgedStays
<1>1. IInv => AcknowledgedStays
  BY DEF IInv, WriterInv, TypeOK, EvidenceInv, AcknowledgedStays
<1> QED BY <1>1, Invariance, PTL

\* The evidence joins: one file per name, outcomes of known decisions, and
\* observations under the decision whose arm the run used.
THEOREM EvidenceJoins == Spec => [](OutcomeBelongs /\ ObservationMatchesArm)
<1>1. IInv => OutcomeBelongs /\ ObservationMatchesArm
  BY DEF IInv, EvidenceInv, ObservationIsLast, ObservationMatchesArm
<1> QED BY <1>1, Invariance, PTL

\* An observation is filed under the decision of the arm its run used, never
\* under a candidate decision whose write raised (prepare_learning_decision).
THEOREM ObservationsMatchArms == Spec => []ObservationMatchesArm
<1> QED BY EvidenceJoins, PTL

\* The mirror holds nothing but records readers saw.
THEOREM MirrorInventsNothing == Spec => []MirrorFollowsFiles
<1>1. IInv => MirrorFollowsFiles
  BY DEF IInv, OperatorInv
<1> QED BY <1>1, Invariance, PTL

\* sync and reconcile answer for everything there was when they began.
THEOREM AnswersAreComplete == Spec => []AnswersCoverBacklog
<1>1. IInv => AnswersCoverBacklog
  BY DEF IInv, OperatorInv
<1> QED BY <1>1, Invariance, PTL

\* What a writer mirrors itself is already on disk.
THEOREM WritersMirrorDurable == Spec => MirroredByWriterIsDurable
<1>1. IInv /\ [Next]_vars =>
        [\A w \in Writers : pc[w] = "mirror" /\ pc'[w] # "mirror" =>
           store' \ store \subseteq durable]_vars
  <2> SUFFICES ASSUME IInv, [Next]_vars, NEW w \in Writers,
                      pc[w] = "mirror", pc'[w] # "mirror"
               PROVE  store' \ store \subseteq durable
    OBVIOUS
  <2>1. ASSUME NEW v \in Writers, Mirror(v) PROVE store' \ store \subseteq durable
    BY <2>1 DEF IInv, WriterInv, Progress, ProgressOf, Mirror, Append
  <2>2. CASE store' = store
    BY <2>2
  <2>3. store' = store \/ UNCHANGED pc \/ \E v \in Writers : Mirror(v)
    BY DEF Next, vars, writers, Choose, Retrieve, RecordOutcome, Write, WriteFails,
       Publish, PublishFails, Flush, FlushFails, MirrorFails, Crash, PowerLoss,
       StartSync, StartReconcile, Begin, Sync, ListDirectory, SyncRecord, FinishSync,
       SyncFails, Reconcile, ReadDirectory, ReadStore
  <2> QED BY <2>1, <2>2, <2>3
<1> QED BY <1>1, Invariance, PTL DEF Spec, MirroredByWriterIsDurable
=============================================================================
