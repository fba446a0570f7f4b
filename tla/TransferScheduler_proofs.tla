---------------------- MODULE TransferScheduler_proofs ----------------------
(***************************************************************************)
(* Proofs about TransferScheduler, for every set of invocations and files, *)
(* every concurrency and every number of attempts. The inductive invariant *)
(* IInv gives each invocation o the record OpInv(o) of how its scheduler,  *)
(* its items and its coroutine agree. An action of o re-establishes        *)
(* OpInv(o), one lemma per action, and leaves OpInv of the others alone;   *)
(* only Cancel All Transfers reaches several at once. With IInv and what   *)
(* the handler reports (Reported), every step is one of TransferBatch.     *)
(* Then about the plan of a sync (SyncPlan), for folders of any depth and  *)
(* width: by SyncInv each path is as it was found, or as it should be, or  *)
(* broken, and what is not as it should be is still to come.               *)
(***************************************************************************)
EXTENDS MCTransferScheduler, FiniteSetTheorems, SequenceTheorems, TLAPS

-------------------------------------------------------------------------------
(* Queues: sequences in which nothing occurs twice.                         *)

\* No task is queued twice.
Once(s) == \A i, j \in 1..Len(s) : s[i] = s[j] => i = j
\* The tasks start() takes.
Front(s, k) == {s[i] : i \in 1..k}

\* Append adds its element to the range, and repeats nothing it was not given.
LEMMA RangeAppend ==
  ASSUME NEW S, NEW s \in Seq(S), NEW e \in S
  PROVE  /\ RangeOf(Append(s, e)) = RangeOf(s) \union {e}
         /\ Once(s) /\ e \notin RangeOf(s) => Once(Append(s, e))
<1>1. /\ Append(s, e) \in Seq(S) /\ Len(s) \in Nat
      /\ Len(Append(s, e)) = Len(s) + 1
      /\ \A i \in 1..Len(s) : Append(s, e)[i] = s[i]
      /\ Append(s, e)[Len(s) + 1] = e
  BY AppendProperties, LenProperties
<1>2. 1..(Len(s) + 1) = 1..Len(s) \union {Len(s) + 1}
  BY <1>1
<1>3. RangeOf(Append(s, e)) = RangeOf(s) \union {e}
  <2>1. ASSUME NEW x PROVE x \in RangeOf(Append(s, e)) <=> x \in RangeOf(s) \union {e}
    BY <1>1, <1>2 DEF RangeOf
  <2> QED
    BY <2>1
<1>4. ASSUME Once(s), e \notin RangeOf(s) PROVE Once(Append(s, e))
  BY <1>1, <1>2, <1>4 DEF Once, RangeOf
<1> QED
  BY <1>3, <1>4

\* Dropping a prefix of length k splits the range in two disjoint parts. SubSeq and Tail
\* are both such a t.
LEMMA RangeSplit ==
  ASSUME NEW S, NEW s \in Seq(S), Once(s), NEW k \in 0..Len(s),
         NEW t \in Seq(S), Len(t) = Len(s) - k, \A i \in 1..Len(t) : t[i] = s[i + k]
  PROVE  /\ RangeOf(s) = Front(s, k) \union RangeOf(t)
         /\ Front(s, k) \intersect RangeOf(t) = {}
         /\ Once(t)
<1>1. Len(s) \in Nat /\ Len(t) \in Nat
  BY LenProperties
<1>2. ASSUME NEW x \in RangeOf(s) PROVE x \in Front(s, k) \union RangeOf(t)
  <2>1. PICK i \in 1..Len(s) : x = s[i]
    BY DEF RangeOf
  <2>2. CASE i <= k
    BY <1>1, <2>1, <2>2 DEF Front
  <2>3. CASE i > k
    <3>1. i - k \in 1..Len(t) /\ t[i - k] = s[i]
      BY <1>1, <2>3
    <3> QED
      BY <2>1, <3>1 DEF RangeOf
  <2> QED
    BY <1>1, <2>2, <2>3
<1>3. ASSUME NEW i \in 1..Len(t) PROVE i + k \in 1..Len(s) /\ t[i] = s[i + k] /\ i + k > k
  BY <1>1
<1>4. RangeOf(t) \subseteq RangeOf(s) /\ Front(s, k) \subseteq RangeOf(s)
  BY <1>1, <1>3 DEF RangeOf, Front
<1>5. Front(s, k) \intersect RangeOf(t) = {}
  <2> SUFFICES ASSUME NEW i \in 1..k, NEW j \in 1..Len(t), s[i] = t[j] PROVE FALSE
    BY DEF Front, RangeOf
  <2> QED
    BY <1>1, <1>3 DEF Once
<1>6. Once(t)
  BY <1>1, <1>3 DEF Once
<1> QED
  BY <1>2, <1>4, <1>5, <1>6

\* A prefix of length k of a queue without repetitions holds k tasks.
LEMMA FrontCardinality ==
  ASSUME NEW S, NEW s \in Seq(S), Once(s), NEW k \in 0..Len(s)
  PROVE  IsFiniteSet(Front(s, k)) /\ Cardinality(Front(s, k)) = k
<1> DEFINE f == [i \in 1..k |-> s[i]]
<1>1. Len(s) \in Nat
  BY LenProperties
<1>2. IsFiniteSet(1..k) /\ Cardinality(1..k) = k
  BY <1>1, FS_Interval
<1>3. f \in Bijection(1..k, Front(s, k))
  BY <1>1 DEF Bijection, Injection, IsInjective, Surjection, Front, Once
<1> QED
  BY <1>2, <1>3, FS_Bijection DEF ExistsBijection

\* findIndex and splice give a list of the same elements' type.
LEMMA WithoutType ==
  ASSUME NEW S, NEW list \in Seq(S), NEW o
  PROVE  Without(list, o) \in Seq(S)
<1>1. CASE o \notin RangeOf(list)
  BY <1>1 DEF Without
<1>2. CASE o \in RangeOf(list)
  <2> DEFINE index == CHOOSE i \in 1..Len(list) : list[i] = o
  <2>1. index \in 1..Len(list)
    BY <1>2 DEF RangeOf
  <2> HIDE DEF index
  <2>a. Len(list) \in Nat /\ \A i \in 1..Len(list) : list[i] \in S
    BY LenProperties, ElementOfSeq
  <2>2. SubSeq(list, 1, index - 1) \in Seq(S)
    <3>1. index - 1 \in Int /\ \A i \in 1..(index - 1) : list[i] \in S
      BY <2>1, <2>a
    <3> QED
      BY <3>1, SubSeqProperties
  <2>3. SubSeq(list, index + 1, Len(list)) \in Seq(S)
    <3>1. index + 1 \in Int /\ \A i \in (index + 1)..Len(list) : list[i] \in S
      BY <2>1, <2>a
    <3> QED
      BY <3>1, <2>a, SubSeqProperties
  <2>4. QED
    BY <1>2, <2>2, <2>3, ConcatProperties DEF Without, index
<1>3. QED
  BY <1>1, <1>2

\* The queued tasks are files.
LEMMA QueuedType ==
  ASSUME TypeOK, NEW o \in Op
  PROVE  Queued(o) \in SUBSET File
BY DEF TypeOK, Queued, RangeOf

\* The initial state is well typed.
LEMMA InitTypeOK == Init => TypeOK
BY EmptySeq, MaxAttemptsAssumption DEF Init, TypeOK, Phase, Discovery, Status

\* The rejection of a batch is an error kind, or none.
LEMMA BatchErrorType ==
  ASSUME NEW items, NEW first \in ErrorKind \union {"none"}
  PROVE  /\ BatchError(items, first) \in ErrorKind \union {"none"}
         /\ BatchError(items, first) \in CollectErrorKind \union {"none"}
BY DEF BatchError, ErrorKind, CollectErrorKind

\* stop() leaves well-typed items and queues.
LEMMA DrainedTypes ==
  ASSUME TypeOK, NEW S
  PROVE  /\ DrainedStatus(S) \in [Op -> [File -> Status]]
         /\ DrainedQueue(S) \in [Op -> Seq(File)]
BY EmptySeq DEF TypeOK, DrainedStatus, DrainedQueue, Status

\* stop() leaves a well-typed list of schedulers.
LEMMA StoppedInType ==
  ASSUME NEW list \in Seq(Op), NEW o
  PROVE  StoppedIn(list, o) \in Seq(Op)
BY WithoutType DEF StoppedIn

-------------------------------------------------------------------------------
(* The inductive invariant.                                                 *)

\* An attempt begins only while attempts are left.
AttemptsLeft(o) == phase[o] = "waiting" => attempt[o] < MaxAttempts
\* _pendingCount counts the tasks in flight.
Counted(o) == /\ IsFiniteSet(live[o])
              /\ pendingCount[o] = Cardinality(live[o]) /\ pendingCount[o] <= Concurrency
\* The item table agrees with the scheduler.
ItemsMatch(o) == \A f \in File : /\ status[o][f] = "pending" <=> f \in Queued(o)
                                 /\ status[o][f] = "running" <=> f \in live[o]
\* Work is in flight exactly while the scheduler runs, and none is queued after it ended.
PhaseMatch(o) == /\ phase[o] = "running" => live[o] # {}
                 /\ phase[o] \notin {"collecting", "running"} => queue[o] = << >>
                 /\ phase[o] # "running" => live[o] = {}
\* What is queued or in flight was added in this attempt: the cancellation of each of
\* these tasks is registered with the group.
Discovered(o) == Queued(o) \union live[o] \subseteq Added(o)
\* CancelReachesEveryTask, and the scheduler refuses new tasks.
CancelReaches(o) ==
  cancelRequested[o] => isStopped[o] /\ queue[o] = << >> /\ live[o] \subseteq cancelled[o]

OpInv(o) == /\ AttemptsLeft(o) /\ Counted(o) /\ ItemsMatch(o) /\ Once(queue[o])
            /\ PhaseMatch(o) /\ Discovered(o) /\ CancelReaches(o)
IInv == TypeOK /\ \A o \in Op : OpInv(o)

\* The inductive invariant gives the invariants the runs check.
LEMMA IInvImplies == IInv => ConcurrencyBound /\ NoTaskStranded /\ CancelReachesEveryTask
BY DEF IInv, OpInv, AttemptsLeft, Counted, ItemsMatch, PhaseMatch, Discovered, CancelReaches,
       Once, ConcurrencyBound, NoTaskStranded, CancelReachesEveryTask

\* Nothing has started in the initial state.
LEMMA InitIInv == Init => IInv
<1> SUFFICES ASSUME Init PROVE IInv
  OBVIOUS
<1>1. TypeOK
  BY InitTypeOK
<1>2. ASSUME NEW o \in Op PROVE OpInv(o)
  <2>1. queue[o] = << >> /\ live[o] = {} /\ Queued(o) = {}
    BY EmptySeq DEF Init, Queued, RangeOf
  <2>2. AttemptsLeft(o) /\ Counted(o)
    BY <2>1, FS_EmptySet, MaxAttemptsAssumption, ConcurrencyAssumption
       DEF Init, AttemptsLeft, Counted
  <2> QED
    BY <2>1, <2>2, EmptySeq
       DEF Init, OpInv, ItemsMatch, Once, PhaseMatch, Discovered, CancelReaches
<1> QED
  BY <1>1, <1>2 DEF IInv

-------------------------------------------------------------------------------
(* One lemma per action.                                                    *)

\* What OpInv(o) reads is left alone.
Same(o) ==
  /\ phase'[o] = phase[o] /\ attempt'[o] = attempt[o] /\ discovery'[o] = discovery[o]
  /\ queue'[o] = queue[o] /\ pendingCount'[o] = pendingCount[o] /\ live'[o] = live[o]
  /\ isStopped'[o] = isStopped[o] /\ status'[o] = status[o] /\ cancelled[o] \subseteq cancelled'[o]
  /\ cancelRequested'[o] = cancelRequested[o]

\* A step that leaves all of that alone preserves OpInv.
LEMMA Frame ==
  ASSUME NEW o \in Op, OpInv(o), Same(o)
  PROVE  OpInv(o)'
BY DEF OpInv, AttemptsLeft, Counted, ItemsMatch, Once, PhaseMatch, Discovered, CancelReaches,
       Same, Queued, Added, RangeOf

\* A new attempt: the queue is already empty, and isStopped is set again if the group is
\* cancelled, so that nothing can be queued then.
LEMMA BeginAttemptStep ==
  ASSUME IInv, NEW o \in Op, BeginAttempt(o)
  PROVE  OpInv(o)'
<1> USE DEF IInv
<1>1. queue'[o] = queue[o] /\ queue[o] = << >> /\ live'[o] = {} /\ live[o] = {}
  BY DEF OpInv, PhaseMatch, BeginAttempt
<1>2. Queued(o) = {} /\ Queued(o)' = {}
  BY <1>1, EmptySeq DEF Queued, RangeOf
<1>3. phase'[o] = "collecting" /\ isStopped'[o] = cancelRequested[o]
      /\ UNCHANGED <<status, pendingCount, cancelRequested>>
  BY DEF BeginAttempt, TypeOK, batchVars
<1>4. AttemptsLeft(o)' /\ Counted(o)' /\ PhaseMatch(o)'
  BY <1>1, <1>3 DEF OpInv, AttemptsLeft, Counted, PhaseMatch
<1>5. ItemsMatch(o)' /\ Discovered(o)'
  BY <1>1, <1>2, <1>3 DEF OpInv, ItemsMatch, Discovered
<1>6. Once(queue[o])' /\ CancelReaches(o)'
  BY <1>1, <1>3 DEF OpInv, CancelReaches, Once
<1> QED
  BY <1>4, <1>5, <1>6 DEF OpInv

\* A file is added once: a task still queued or in flight was discovered before. When the
\* group is cancelled the scheduler is stopped and the file is not queued.
LEMMA AddStep ==
  ASSUME IInv, NEW o \in Op, NEW f \in File, Add(o, f)
  PROVE  OpInv(o)'
<1> USE DEF IInv
<1>1. f \notin Queued(o) /\ f \notin live[o] /\ Added(o)' = Added(o) \union {f}
  BY DEF OpInv, Discovered, Added, Add, TypeOK
<1>2. UNCHANGED <<phase, attempt, pendingCount, live, isStopped, cancelRequested>>
      /\ cancelled[o] \subseteq cancelled'[o]
  BY DEF Add, TypeOK
<1>3. AttemptsLeft(o)' /\ Counted(o)'
  BY <1>2 DEF OpInv, AttemptsLeft, Counted
<1>4. CASE isStopped[o]
  <2>1. queue' = queue /\ status' = [status EXCEPT ![o][f] = "not-started"] /\ Queued(o)' = Queued(o)
    BY <1>4 DEF Add, Queued
  <2>2. ItemsMatch(o)'
    BY <1>1, <1>2, <2>1 DEF OpInv, ItemsMatch, TypeOK
  <2>3. PhaseMatch(o)' /\ Discovered(o)' /\ CancelReaches(o)' /\ Once(queue[o])'
    BY <1>1, <1>2, <2>1 DEF OpInv, PhaseMatch, Discovered, CancelReaches, Once
  <2> QED
    BY <1>3, <2>2, <2>3 DEF OpInv
<1>5. CASE ~isStopped[o]
  <2>1. queue'[o] = Append(queue[o], f) /\ status' = [status EXCEPT ![o][f] = "pending"]
    BY <1>5 DEF Add, TypeOK
  <2>2. Queued(o)' = Queued(o) \union {f} /\ Once(queue'[o])
    BY <1>1, <2>1, RangeAppend DEF OpInv, Queued, TypeOK
  <2>3. ItemsMatch(o)'
    BY <1>1, <1>2, <2>1, <2>2 DEF OpInv, ItemsMatch, TypeOK
  <2>4. PhaseMatch(o)'
    BY <1>2 DEF OpInv, PhaseMatch, Add
  <2>5. Discovered(o)' /\ CancelReaches(o)'
    BY <1>1, <1>2, <1>5, <2>2 DEF OpInv, Discovered, CancelReaches
  <2> QED
    BY <1>3, <2>2, <2>3, <2>4, <2>5 DEF OpInv, Once
<1> QED
  BY <1>4, <1>5

\* stop() on the scheduler of o, whatever else the step does to the handler.
LEMMA DrainStep ==
  ASSUME IInv, NEW o \in Op, NEW S, o \in S,
         status' = DrainedStatus(S), queue' = DrainedQueue(S),
         UNCHANGED <<attempt, discovery, pendingCount, live>>,
         phase'[o] = phase[o] \/ (phase[o] = "collecting" /\ phase'[o] = "ended"),
         isStopped'[o], cancelRequested'[o] => live[o] \subseteq cancelled'[o]
  PROVE  OpInv(o)'
<1> USE DEF IInv
<1>1. queue'[o] = << >>
  BY DEF DrainedQueue
<1>2. Queued(o)' = {}
  BY <1>1, EmptySeq DEF Queued, RangeOf
<1>3. \A f \in File : status'[o][f] = IF f \in Queued(o) THEN "cancelled" ELSE status[o][f]
  BY DEF DrainedStatus
<1>4. AttemptsLeft(o)' /\ Counted(o)' /\ PhaseMatch(o)'
  BY <1>1 DEF OpInv, AttemptsLeft, Counted, PhaseMatch
<1>5. ItemsMatch(o)' /\ Discovered(o)'
  BY <1>2, <1>3 DEF OpInv, ItemsMatch, Discovered, Added
<1>6. Once(queue[o])' /\ CancelReaches(o)'
  BY <1>1, EmptySeq DEF Once, CancelReaches
<1> QED
  BY <1>4, <1>5, <1>6 DEF OpInv

\* start(): the prefix of the queue the limit allows is in flight, the rest stays queued,
\* and a started scheduler with queued work runs something, since Concurrency > 0.
LEMMA RunStartStep ==
  ASSUME IInv, NEW o \in Op, RunStart(o)
  PROVE  OpInv(o)'
<1> USE DEF IInv
<1> DEFINE k == StartCount(o)
           rest == SubSeq(queue[o], k + 1, Len(queue[o]))
<1>1. phase[o] = "collecting" /\ live[o] = {} /\ pendingCount[o] = 0
  BY FS_EmptySet DEF OpInv, PhaseMatch, Counted, RunStart, Collected
<1>2. queue[o] \in Seq(File) /\ Once(queue[o]) /\ Len(queue[o]) \in Nat \ {0}
  BY EmptySeq DEF OpInv, TypeOK, RunStart
<1>3. k \in 1..Len(queue[o]) /\ k <= Concurrency
  BY <1>1, <1>2, ConcurrencyAssumption DEF StartCount, Least
<1>4. rest \in Seq(File) /\ Len(rest) = Len(queue[o]) - k
      /\ \A i \in 1..Len(rest) : rest[i] = queue[o][i + k]
  <2>1. \A i \in (k + 1)..Len(queue[o]) : queue[o][i] \in File
    BY <1>2, <1>3, ElementOfSeq
  <2> HIDE DEF k
  <2> QED
    BY <1>2, <1>3, <2>1, SubSeqProperties
<1>5. StartedBatch(o) = Front(queue[o], k)
  BY DEF StartedBatch, Front
<1>6. /\ queue'[o] = rest /\ live'[o] = Front(queue[o], k) /\ pendingCount'[o] = k
      /\ phase'[o] = "running"
      /\ \A f \in File : status'[o][f] = IF f \in Front(queue[o], k) THEN "running" ELSE status[o][f]
      /\ UNCHANGED <<attempt, discovery, cancelled, cancelRequested, isStopped>>
  <2>1. queue'[o] = rest /\ phase'[o] = "running"
        /\ UNCHANGED <<attempt, discovery, cancelled, cancelRequested, isStopped>>
    BY DEF RunStart, TypeOK
  <2>2. live'[o] = Front(queue[o], k)
    BY <1>1, <1>5 DEF RunStart, TypeOK
  <2>3. pendingCount'[o] = k
    BY <1>1, <1>2, <1>3 DEF RunStart, TypeOK
  <2>4. \A f \in File : status'[o][f] = IF f \in Front(queue[o], k) THEN "running" ELSE status[o][f]
    BY <1>5 DEF RunStart, TypeOK
  <2> QED
    BY <2>1, <2>2, <2>3, <2>4
<1> HIDE DEF k, rest
<1>7. /\ Queued(o) = Front(queue[o], k) \union Queued(o)'
      /\ Front(queue[o], k) \intersect Queued(o)' = {}
      /\ Once(rest)
  <2>1. k \in 0..Len(queue[o])
    BY <1>2, <1>3
  <2>2. Queued(o) = RangeOf(queue[o]) /\ Queued(o)' = RangeOf(rest)
    BY <1>6 DEF Queued
  <2>3. /\ RangeOf(queue[o]) = Front(queue[o], k) \union RangeOf(rest)
        /\ Front(queue[o], k) \intersect RangeOf(rest) = {}
        /\ Once(rest)
    <3>1. /\ queue[o] \in Seq(File) /\ Once(queue[o]) /\ rest \in Seq(File)
          /\ Len(rest) = Len(queue[o]) - k
          /\ \A i \in 1..Len(rest) : rest[i] = queue[o][i + k]
      BY <1>2, <1>4
    <3> QED
      BY ONLY <3>1, <2>1, RangeSplit
  <2> QED
    BY <2>2, <2>3
<1>8. IsFiniteSet(live'[o]) /\ Cardinality(live'[o]) = k
  <2>1. k \in 0..Len(queue[o])
    BY <1>2, <1>3
  <2> QED
    BY <1>2, <1>6, <2>1, FrontCardinality
<1>9. AttemptsLeft(o)' /\ Counted(o)' /\ Once(queue[o])'
  BY <1>3, <1>6, <1>7, <1>8 DEF AttemptsLeft, Counted, Once
<1>10. ItemsMatch(o)' /\ Discovered(o)'
  <2>1. ItemsMatch(o) /\ Discovered(o) /\ Added(o)' = Added(o)
    BY <1>6 DEF OpInv, Added
  <2>2. Discovered(o)'
    BY <1>6, <1>7, <2>1 DEF Discovered
  <2>3. ASSUME NEW f \in File
        PROVE  /\ status'[o][f] = "pending" <=> f \in Queued(o)'
               /\ status'[o][f] = "running" <=> f \in live'[o]
    BY <1>1, <1>6, <1>7, <2>1 DEF ItemsMatch
  <2> QED
    BY <2>2, <2>3 DEF ItemsMatch
<1>11. live'[o] # {}
  BY <1>3, <1>8, FS_EmptySet
<1>12. PhaseMatch(o)' /\ CancelReaches(o)'
  BY <1>6, <1>11 DEF PhaseMatch, CancelReaches, RunStart
<1> QED
  BY <1>9, <1>10, <1>12 DEF OpInv, Once

\* run() on an empty scheduler moves the coroutine only.
LEMMA RunEmptyStep ==
  ASSUME IInv, NEW o \in Op, RunEmpty(o)
  PROVE  OpInv(o)'
<1>1. phase[o] = "collecting" /\ phase'[o] = "ended" /\ queue[o] = << >>
      /\ UNCHANGED <<attempt, discovery, queue, pendingCount, live, isStopped, status, cancelled,
                     cancelRequested>>
  BY DEF IInv, TypeOK, RunEmpty, Collected, schedulerVars, batchVars
<1>2. OpInv(o) /\ Queued(o)' = Queued(o) /\ Added(o)' = Added(o)
  BY <1>1 DEF IInv, Queued, Added
<1> QED
  BY <1>1, <1>2 DEF OpInv, AttemptsLeft, Counted, ItemsMatch, Once, PhaseMatch, Discovered,
                    CancelReaches

\* A finished item is neither pending nor running.
LEMMA FinishedEnds ==
  ASSUME NEW o, NEW f, NEW error
  PROVE  Finished(o, f, error) \in {"completed", "failed", "cancelled"}
BY DEF Finished

\* What a task's end has in common in its three cases: f was running, and is done.
LEMMA DoneFacts ==
  ASSUME IInv, NEW o \in Op, NEW f \in File, NEW error, TaskDone(o, f, error)
  PROVE  /\ OpInv(o) /\ phase[o] = "running" /\ f \in live[o] /\ f \notin Queued(o)
         /\ IsFiniteSet(live[o]) /\ pendingCount[o] \in Nat \ {0}
         /\ IsFiniteSet(live[o] \ {f}) /\ Cardinality(live[o] \ {f}) = pendingCount[o] - 1
         /\ UNCHANGED <<attempt, discovery, isStopped, cancelled, cancelRequested>>
<1>1. OpInv(o) /\ f \in live[o]
      /\ UNCHANGED <<attempt, discovery, isStopped, cancelled, cancelRequested>>
  BY DEF IInv, TaskDone
<1>2. phase[o] = "running" /\ f \notin Queued(o)
  BY <1>1 DEF OpInv, PhaseMatch, ItemsMatch
<1>3. IsFiniteSet(live[o]) /\ Cardinality(live[o]) = pendingCount[o] /\ pendingCount[o] \in Nat
  BY <1>1 DEF IInv, TypeOK, OpInv, Counted
<1>4. pendingCount[o] # 0
  BY <1>1, <1>3, FS_EmptySet
<1> QED
  BY <1>1, <1>2, <1>3, <1>4, FS_RemoveElement

\* The head of the queue takes the place of the task that ended, and the count stays.
LEMMA DoneThenNextStep ==
  ASSUME IInv, NEW o \in Op, NEW f \in File, NEW error, DoneThenNext(o, f, error)
  PROVE  OpInv(o)'
<1> DEFINE g == Head(queue[o])
           rest == Tail(queue[o])
<1>1. TaskDone(o, f, error)
  BY DEF DoneThenNext
<1>2. queue[o] \in Seq(File) /\ queue[o] # << >> /\ Once(queue[o]) /\ OpInv(o)
  BY <1>1, DoneFacts DEF IInv, TypeOK, DoneThenNext, OpInv
<1>3. /\ Len(queue[o]) \in Nat \ {0} /\ g = queue[o][1] /\ g \in File
      /\ rest \in Seq(File) /\ Len(rest) = Len(queue[o]) - 1
      /\ \A i \in 1..Len(rest) : rest[i] = queue[o][i + 1]
  BY <1>2, EmptySeq, HeadTailProperties
<1>4. /\ queue'[o] = rest /\ live'[o] = (live[o] \ {f}) \union {g}
      /\ status' = [status EXCEPT ![o][f] = Finished(o, f, error), ![o][g] = "running"]
      /\ UNCHANGED <<pendingCount, phase>>
  BY DEF IInv, TypeOK, DoneThenNext
<1> HIDE DEF g, rest
<1>5. RangeOf(queue[o]) = {g} \union RangeOf(rest) /\ g \notin RangeOf(rest) /\ Once(rest)
  <2>1. 1 \in 0..Len(queue[o]) /\ Front(queue[o], 1) = {g}
    BY <1>3 DEF Front
  <2>2. /\ RangeOf(queue[o]) = Front(queue[o], 1) \union RangeOf(rest)
        /\ Front(queue[o], 1) \intersect RangeOf(rest) = {}
        /\ Once(rest)
    BY ONLY <1>2, <1>3, <2>1, RangeSplit
  <2> QED
    BY <2>1, <2>2
<1>6. Queued(o) = {g} \union Queued(o)' /\ g \notin Queued(o)' /\ Added(o)' = Added(o)
  BY <1>1, <1>4, <1>5, DoneFacts DEF Queued, Added
<1>7. g \notin live[o] /\ g # f
  BY <1>1, <1>2, <1>3, <1>6, DoneFacts DEF OpInv, ItemsMatch
<1>8. AttemptsLeft(o)' /\ Once(queue[o])'
  BY <1>1, <1>4, <1>5, DoneFacts DEF OpInv, AttemptsLeft, Once
<1>9. Counted(o)'
  <2>1. /\ IsFiniteSet(live[o] \ {f}) /\ Cardinality(live[o] \ {f}) = pendingCount[o] - 1
        /\ pendingCount[o] \in Nat /\ g \notin live[o] \ {f}
    BY <1>1, <1>7, DoneFacts
  <2>2. IsFiniteSet(live'[o]) /\ Cardinality(live'[o]) = pendingCount[o]
    <3>1. /\ IsFiniteSet((live[o] \ {f}) \union {g})
          /\ Cardinality((live[o] \ {f}) \union {g}) = Cardinality(live[o] \ {f}) + 1
      BY ONLY <2>1, FS_AddElement
    <3> QED
      BY <1>4, <2>1, <3>1
  <2> QED
    BY <1>2, <1>4, <2>2 DEF OpInv, Counted
<1>10. ItemsMatch(o)'
  <2>1. \A h \in File : status'[o][h] = IF h = g THEN "running"
                                       ELSE IF h = f THEN Finished(o, f, error) ELSE status[o][h]
    BY <1>3, <1>4, <1>7 DEF IInv, TypeOK
  <2>2. ItemsMatch(o) /\ f \notin Queued(o)
    BY <1>1, <1>2, DoneFacts DEF OpInv
  <2>3. Finished(o, f, error) \notin {"pending", "running"}
    BY FinishedEnds
  <2>4. ASSUME NEW h \in File
        PROVE  /\ status'[o][h] = "pending" <=> h \in Queued(o)'
               /\ status'[o][h] = "running" <=> h \in live'[o]
    BY <1>4, <1>6, <1>7, <2>1, <2>2, <2>3 DEF ItemsMatch
  <2> QED
    BY <2>4 DEF ItemsMatch
<1>11. PhaseMatch(o)' /\ Discovered(o)'
  BY <1>1, <1>2, <1>4, <1>6, DoneFacts DEF OpInv, PhaseMatch, Discovered
<1>12. CancelReaches(o)'
  BY <1>1, <1>2, DoneFacts DEF OpInv, CancelReaches
<1> QED
  BY <1>8, <1>9, <1>10, <1>11, <1>12 DEF OpInv, Once

\* Nothing is queued when the task ends.
LEMMA DoneThenRestStep ==
  ASSUME IInv, NEW o \in Op, NEW f \in File, NEW error,
         DoneThenWait(o, f, error) \/ DoneThenIdle(o, f, error)
  PROVE  OpInv(o)'
<1>1. TaskDone(o, f, error)
  BY DEF DoneThenWait, DoneThenIdle
<1>2. /\ queue[o] = << >> /\ queue' = queue /\ live'[o] = live[o] \ {f}
      /\ pendingCount'[o] = pendingCount[o] - 1
      /\ status' = [status EXCEPT ![o][f] = Finished(o, f, error)]
  BY DEF IInv, TypeOK, DoneThenWait, DoneThenIdle
<1>3. Queued(o)' = Queued(o) /\ Added(o)' = Added(o)
  BY <1>1, <1>2, DoneFacts DEF Queued, Added
<1>4. AttemptsLeft(o)' /\ PhaseMatch(o)'
  <2>1. CASE DoneThenWait(o, f, error)
    <3>1. phase' = phase /\ pendingCount[o] - 1 # 0
      BY <1>1, <2>1, DoneFacts DEF DoneThenWait, NoneLeft
    <3>2. live'[o] # {}
      BY <1>1, <1>2, <3>1, DoneFacts, FS_EmptySet
    <3> QED
      BY <1>1, <1>2, <3>1, <3>2, DoneFacts DEF AttemptsLeft, PhaseMatch
  <2>2. CASE DoneThenIdle(o, f, error)
    <3>a. phase'[o] = "ended" /\ pendingCount[o] <= 1
      BY <2>2 DEF IInv, TypeOK, DoneThenIdle, NoneLeft
    <3>b. pendingCount[o] \in Nat \ {0}
      BY <1>1, DoneFacts
    <3>1. phase'[o] = "ended" /\ pendingCount[o] - 1 = 0
      BY <3>a, <3>b
    <3>2. live'[o] = {}
      BY <1>1, <1>2, <3>1, DoneFacts, FS_EmptySet
    <3> QED
      BY <1>2, <3>1, <3>2 DEF AttemptsLeft, PhaseMatch
  <2> QED
    BY <2>1, <2>2
<1>5. Counted(o)'
  BY <1>1, <1>2, DoneFacts, ConcurrencyAssumption DEF OpInv, Counted
<1>6. ItemsMatch(o)'
  <2>1. \A h \in File : status'[o][h] = IF h = f THEN Finished(o, f, error) ELSE status[o][h]
    BY <1>2 DEF IInv, TypeOK
  <2>2. ItemsMatch(o) /\ f \notin Queued(o)
    BY <1>1, DoneFacts DEF OpInv
  <2>3. Finished(o, f, error) \notin {"pending", "running"}
    BY FinishedEnds
  <2>4. ASSUME NEW h \in File
        PROVE  /\ status'[o][h] = "pending" <=> h \in Queued(o)'
               /\ status'[o][h] = "running" <=> h \in live'[o]
    BY <1>2, <1>3, <2>1, <2>2, <2>3 DEF ItemsMatch
  <2> QED
    BY <2>4 DEF ItemsMatch
<1>7. Discovered(o)' /\ CancelReaches(o)' /\ Once(queue[o])'
  <2>1. Discovered(o) /\ CancelReaches(o) /\ Once(queue[o])
        /\ UNCHANGED <<isStopped, cancelled, cancelRequested>>
    BY <1>1, DoneFacts DEF OpInv
  <2> QED
    BY <1>2, <1>3, <2>1 DEF Discovered, CancelReaches, Once
<1> QED
  BY <1>4, <1>5, <1>6, <1>7 DEF OpInv

\* Every action preserves the types. The bounds of attempt and of pendingCount - 1 need the
\* invariant.
LEMMA TypeStep == IInv /\ [Next]_vars => TypeOK'
<1> SUFFICES ASSUME IInv, [Next]_vars PROVE TypeOK'
  OBVIOUS
<1>0. TypeOK
  BY DEF IInv
<1> USE <1>0, MaxAttemptsAssumption
<1>1. ASSUME NEW o \in Op, BeginAttempt(o) PROVE TypeOK'
  <2>1. attempt[o] + 1 \in 0..MaxAttempts
    <3>1. attempt[o] \in Nat /\ attempt[o] < MaxAttempts
      BY <1>1 DEF TypeOK, IInv, OpInv, AttemptsLeft, BeginAttempt
    <3> QED
      BY <3>1
  <2>2. schedulers' \in Seq(Op)
    BY <1>1, AppendProperties DEF TypeOK, BeginAttempt
  <2>3. TypeOK'
    BY <1>1, <2>1, <2>2 DEF TypeOK, BeginAttempt, batchVars, Phase, Discovery
  <2> QED
    BY <1>1, <2>3 DEF TypeOK, BeginAttempt
<1>2. ASSUME NEW o \in Op, NEW f \in File, Check(o, f) PROVE TypeOK'
  BY <1>2 DEF TypeOK, Check, schedulerVars, serviceVars, batchVars, Discovery, CollectErrorKind, ErrorKind
<1>3. ASSUME NEW o \in Op, NEW f \in File, NEW kind \in CollectErrorKind, Refuse(o, f, kind)
      PROVE TypeOK'
  BY <1>3 DEF TypeOK, Refuse, schedulerVars, serviceVars, batchVars, Discovery
<1>4. ASSUME NEW o \in Op, NEW f \in File, Add(o, f) PROVE TypeOK'
  <2>a. queue[o] \in Seq(File)
    BY DEF TypeOK
  <2>b. Append(queue[o], f) \in Seq(File)
    BY <2>a, AppendProperties
  <2>1. queue' \in [Op -> Seq(File)]
    BY <1>4, <2>b DEF TypeOK, Add
  <2>2. status' \in [Op -> [File -> Status]]
    <3>1. \E v \in Status : status' = [status EXCEPT ![o][f] = v]
      BY <1>4 DEF Add, Status
    <3> QED
      BY <3>1 DEF TypeOK
  <2>3. discovery' \in [Op -> [File -> Discovery]] /\ cancelled' \in [Op -> SUBSET File]
    BY <1>4 DEF TypeOK, Add, Discovery
  <2> QED
  BY <1>4, <2>1, <2>2, <2>3 DEF TypeOK, Add, serviceVars
<1>5. ASSUME NEW o \in Op, CollectThrow(o) PROVE TypeOK'
  <2>1. schedulers' \in Seq(Op)
    BY <1>5, StoppedInType DEF TypeOK, CollectThrow
  <2>2. status' \in [Op -> [File -> Status]] /\ queue' \in [Op -> Seq(File)]
    BY <1>5, DrainedTypes DEF CollectThrow
  <2>3. cancelled' \in [Op -> SUBSET File]
    BY <1>5, QueuedType DEF TypeOK, CollectThrow
  <2>4. attemptError' \in [Op -> CollectErrorKind \union {"none"}]
    BY <1>5 DEF TypeOK, CollectThrow
  <2>5. phase' \in [Op -> Phase] /\ isStopped' \in [Op -> BOOLEAN]
    BY <1>5 DEF TypeOK, CollectThrow, Phase
  <2>6. TypeOK'
    BY <1>5, <2>1, <2>2, <2>3, <2>4, <2>5 DEF TypeOK, CollectThrow
  <2> QED
    BY <1>5, <2>6 DEF TypeOK, CollectThrow
<1>6. ASSUME NEW o \in Op, RunStopped(o) PROVE TypeOK'
  <2>1. schedulers' \in Seq(Op)
    BY <1>6, StoppedInType DEF TypeOK, RunStopped
  <2>2. status' \in [Op -> [File -> Status]] /\ queue' \in [Op -> Seq(File)]
    BY <1>6, DrainedTypes DEF RunStopped
  <2>3. attemptError' \in [Op -> CollectErrorKind \union {"none"}]
    BY <1>6, BatchErrorType DEF TypeOK, RunStopped
  <2>4. cancelled' \in [Op -> SUBSET File]
    BY <1>6, QueuedType DEF TypeOK, RunStopped
  <2>5. phase' \in [Op -> Phase] /\ isStopped' \in [Op -> BOOLEAN]
    BY <1>6 DEF TypeOK, RunStopped, Phase
  <2>6. TypeOK'
    BY <1>6, <2>1, <2>2, <2>3, <2>4, <2>5 DEF TypeOK, RunStopped
  <2> QED
    BY <1>6, <2>6 DEF TypeOK, RunStopped
<1>7. ASSUME NEW o \in Op, RunEmpty(o) PROVE TypeOK'
  <2>1. schedulers' \in Seq(Op)
    BY <1>7, WithoutType DEF TypeOK, RunEmpty
  <2>2. attemptError' \in [Op -> CollectErrorKind \union {"none"}]
    BY <1>7, BatchErrorType DEF TypeOK, RunEmpty
  <2> QED
    BY <1>7, <2>1, <2>2 DEF TypeOK, RunEmpty, schedulerVars, batchVars, Phase
<1>8. ASSUME NEW o \in Op, RunStart(o) PROVE TypeOK'
  <2>1. StartCount(o) \in Nat /\ StartCount(o) <= Len(queue[o]) /\ Len(queue[o]) \in Nat
    <3>1. pendingCount[o] \in Nat /\ pendingCount[o] <= Concurrency /\ queue[o] \in Seq(File)
      BY DEF TypeOK, IInv, OpInv, Counted
    <3> QED
      BY <3>1, ConcurrencyAssumption, LenProperties DEF StartCount, Least
  <2>2. StartedBatch(o) \in SUBSET File
    BY <2>1, ElementOfSeq DEF StartedBatch, TypeOK
  <2>3. SubSeq(queue[o], StartCount(o) + 1, Len(queue[o])) \in Seq(File)
    BY <2>1, ElementOfSeq, SubSeqProperties DEF TypeOK
  <2>4. queue' \in [Op -> Seq(File)] /\ pendingCount' \in [Op -> Nat]
    BY <1>8, <2>1, <2>3 DEF TypeOK, RunStart
  <2>5. live' \in [Op -> SUBSET File] /\ inert' \in [Op -> SUBSET File]
    BY <1>8, <2>2 DEF TypeOK, RunStart
  <2>6. pendingTransferTasks' \in SUBSET (Op \X File)
    BY <1>8, <2>2 DEF TypeOK, RunStart
  <2>7. status' \in [Op -> [File -> Status]]
    BY <1>8 DEF TypeOK, RunStart, Status
  <2>8. phase' \in [Op -> Phase]
    BY <1>8 DEF TypeOK, RunStart, Phase
  <2>9. TypeOK'
    BY <1>8, <2>4, <2>5, <2>6, <2>7, <2>8 DEF TypeOK, RunStart
  <2> QED
    BY <1>8, <2>9 DEF TypeOK, RunStart
<1>9. ASSUME NEW o \in Op, NEW f \in File, NEW error \in ErrorKind \union {"none"},
             TaskDone(o, f, error)
      PROVE  /\ pendingCount[o] - 1 \in Nat /\ Finished(o, f, error) \in Status
             /\ firstError' \in [Op -> ErrorKind \union {"none"}]
  <2>1. pendingCount[o] - 1 \in Nat
    <3>1. pendingCount[o] \in Nat \ {0}
      BY <1>9, DoneFacts
    <3> QED
      BY <3>1
  <2>2. Finished(o, f, error) \in Status
    BY FinishedEnds DEF Status
  <2>3. firstError' \in [Op -> ErrorKind \union {"none"}]
    BY <1>9 DEF TypeOK, TaskDone
  <2> QED
    BY <2>1, <2>2, <2>3
<1>10. ASSUME NEW o \in Op, NEW f \in File, NEW error \in ErrorKind \union {"none"},
              DoneThenNext(o, f, error)
       PROVE TypeOK'
  <2>1. TaskDone(o, f, error)
    BY <1>10 DEF DoneThenNext
  <2>2. Head(queue[o]) \in File /\ Tail(queue[o]) \in Seq(File)
    BY <1>10, HeadTailProperties DEF TypeOK, DoneThenNext
  <2>3. queue' \in [Op -> Seq(File)]
    BY <1>10, <2>2 DEF TypeOK, DoneThenNext
  <2>4. live' \in [Op -> SUBSET File] /\ inert' \in [Op -> SUBSET File]
    BY <1>10, <2>2 DEF TypeOK, DoneThenNext
  <2>5. pendingTransferTasks' \in SUBSET (Op \X File)
    BY <1>10, <2>2 DEF TypeOK, DoneThenNext
  <2>6. status' \in [Op -> [File -> Status]]
    <3> DEFINE g == Head(queue[o])
               once == [status EXCEPT ![o][f] = Finished(o, f, error)]
    <3>1. status' = [once EXCEPT ![o][g] = "running"]
      BY <1>10 DEF TypeOK, DoneThenNext
    <3>2. once \in [Op -> [File -> Status]]
      BY <1>9, <2>1 DEF TypeOK
    <3>3. "running" \in Status
      BY DEF Status
    <3> HIDE DEF once
    <3> QED
      BY <3>1, <3>2, <3>3
  <2> QED
    BY <1>10, <1>9, <2>1, <2>3, <2>4, <2>5, <2>6 DEF TypeOK, TaskDone, DoneThenNext
<1>11. ASSUME NEW o \in Op, NEW f \in File, NEW error \in ErrorKind \union {"none"},
              DoneThenWait(o, f, error) \/ DoneThenIdle(o, f, error)
       PROVE TypeOK'
  <2>1. TaskDone(o, f, error)
    BY <1>11 DEF DoneThenWait, DoneThenIdle
  <2>2. /\ pendingCount' = [pendingCount EXCEPT ![o] = pendingCount[o] - 1]
        /\ live' = [live EXCEPT ![o] = live[o] \ {f}]
        /\ status' = [status EXCEPT ![o][f] = Finished(o, f, error)]
        /\ pendingTransferTasks' = pendingTransferTasks \ {<<o, f>>}
        /\ queue' = queue /\ inert' = inert
        /\ schedulers' = schedulers \/ schedulers' = Without(schedulers, o)
        /\ \/ UNCHANGED <<phase, attemptError>>
           \/ /\ phase' = [phase EXCEPT ![o] = "ended"]
              /\ attemptError' =
                   [attemptError EXCEPT ![o] = BatchError(status'[o], firstError'[o])]
    BY <1>11 DEF DoneThenWait, DoneThenIdle
  <2>3. pendingCount' \in [Op -> Nat]
    BY <1>9, <2>1, <2>2 DEF TypeOK
  <2>4. live' \in [Op -> SUBSET File] /\ pendingTransferTasks' \in SUBSET (Op \X File)
    BY <2>2 DEF TypeOK
  <2>5. status' \in [Op -> [File -> Status]]
    BY <1>9, <2>1, <2>2 DEF TypeOK
  <2>8. schedulers' \in Seq(Op)
    BY <2>2, WithoutType DEF TypeOK
  <2>6. phase' \in [Op -> Phase]
    BY <2>2 DEF TypeOK, Phase
  <2>7. attemptError' \in [Op -> CollectErrorKind \union {"none"}]
    <3>1. firstError'[o] \in ErrorKind \union {"none"}
      <4>1. firstError' \in [Op -> ErrorKind \union {"none"}]
        BY <1>9, <2>1
      <4> QED
        BY <4>1
    <3>2. BatchError(status'[o], firstError'[o]) \in CollectErrorKind \union {"none"}
      BY <3>1, BatchErrorType
    <3> QED
      BY <2>2, <3>2 DEF TypeOK
  <2> QED
    BY <1>9, <2>1, <2>2, <2>3, <2>4, <2>5, <2>6, <2>7, <2>8 DEF TypeOK, TaskDone
<1>12. ASSUME NEW o \in Op, Retry(o) \/ Settle(o) PROVE TypeOK'
  <2>1. phase' \in [Op -> Phase] /\ outcome' \in [Op -> {"none", "resolved", "abandoned", "rejected"}]
    BY <1>12 DEF TypeOK, Retry, Settle, OutcomeOf, Phase, batchVars
  <2> QED
    BY <1>12, <2>1 DEF TypeOK, Retry, Settle, schedulerVars, serviceVars, batchVars
<1>13. ASSUME NEW o \in Op, NEW f \in File, CancelItem(o, f) PROVE TypeOK'
  BY <1>13 DEF TypeOK, CancelItem, schedulerVars, serviceVars, batchVars
<1>14. ASSUME NEW o \in Op, CancelOperation(o) PROVE TypeOK'
  <2>1. schedulers' \in Seq(Op)
    BY <1>14, StoppedInType DEF TypeOK, CancelOperation
  <2>2. status' \in [Op -> [File -> Status]] /\ queue' \in [Op -> Seq(File)]
    BY <1>14, DrainedTypes DEF CancelOperation
  <2>3. cancelled' \in [Op -> SUBSET File]
    BY <1>14 DEF TypeOK, CancelOperation, Added
  <2>4. isStopped' \in [Op -> BOOLEAN] /\ cancelRequested' \in [Op -> BOOLEAN]
    BY <1>14 DEF TypeOK, CancelOperation
  <2> QED
    BY <1>14, <2>1, <2>2, <2>3, <2>4 DEF TypeOK, CancelOperation
<1>15. ASSUME CancelAllTransfers PROVE TypeOK'
  <2>1. schedulers' \in Seq(Op)
    BY <1>15, EmptySeq DEF CancelAllTransfers
  <2>2. status' \in [Op -> [File -> Status]] /\ queue' \in [Op -> Seq(File)]
    BY <1>15, DrainedTypes DEF CancelAllTransfers
  <2>3. cancelled' \in [Op -> SUBSET File]
    BY <1>15, QueuedType DEF TypeOK, CancelAllTransfers, Added
  <2>4. isStopped' \in [Op -> BOOLEAN] /\ cancelRequested' \in [Op -> BOOLEAN]
    BY <1>15 DEF TypeOK, CancelAllTransfers
  <2>5. pendingTransferTasks' \in SUBSET (Op \X File)
    BY <1>15 DEF TypeOK, CancelAllTransfers
  <2> QED
    BY <1>15, <2>1, <2>2, <2>3, <2>4, <2>5 DEF TypeOK, CancelAllTransfers
<1>16. CASE UNCHANGED vars
  BY <1>16 DEF TypeOK, vars
<1> QED
  BY <1>1, <1>2, <1>3, <1>4, <1>5, <1>6, <1>7, <1>8, <1>10, <1>11, <1>12, <1>13, <1>14, <1>15, <1>16
     DEF Next, Handler, Collect, Done, Cancellation

\* A step of o that leaves its scheduler alone.
LEMMA QuietStep ==
  ASSUME IInv, NEW o \in Op,
         UNCHANGED <<queue, pendingCount, live, isStopped, status, cancelRequested>>,
         cancelled[o] \subseteq cancelled'[o], Added(o)' = Added(o),
         AttemptsLeft(o)', PhaseMatch(o)'
  PROVE  OpInv(o)'
<1>1. OpInv(o) /\ Queued(o)' = Queued(o)
  BY DEF IInv, Queued
<1> QED
  BY <1>1 DEF OpInv, Counted, ItemsMatch, Once, Discovered, CancelReaches

\* Discovery that adds no task.
LEMMA CollectStep ==
  ASSUME IInv, NEW o \in Op, NEW f \in File,
         Check(o, f) \/ \E kind \in CollectErrorKind : Refuse(o, f, kind)
  PROVE  OpInv(o)'
<1>1. /\ UNCHANGED <<phase, attempt, queue, pendingCount, live, isStopped, status, cancelled,
                     cancelRequested>>
      /\ discovery[o][f] # "added"
      /\ \E step \in {"refused", "checked"} : discovery' = [discovery EXCEPT ![o][f] = step]
  BY DEF Check, Refuse, schedulerVars, batchVars
<1>2. Added(o)' = Added(o)
  BY <1>1 DEF IInv, TypeOK, Added
<1>3. AttemptsLeft(o)' /\ PhaseMatch(o)'
  BY <1>1 DEF IInv, OpInv, AttemptsLeft, PhaseMatch
<1> QED
  BY <1>1, <1>2, <1>3, QuietStep

\* The end of an attempt: a retry has an attempt left.
LEMMA EndStep ==
  ASSUME IInv, NEW o \in Op, Retry(o) \/ Settle(o)
  PROVE  OpInv(o)'
<1>1. /\ UNCHANGED <<attempt, discovery, queue, pendingCount, live, isStopped, status, cancelled,
                     cancelRequested>>
      /\ phase[o] = "ended"
      /\ \/ phase'[o] = "waiting" /\ attempt[o] < MaxAttempts
         \/ phase'[o] = "settled"
  BY DEF IInv, TypeOK, Retry, Settle, MayRetry, schedulerVars, batchVars
<1>2. AttemptsLeft(o)' /\ PhaseMatch(o)'
  BY <1>1 DEF IInv, OpInv, AttemptsLeft, PhaseMatch
<1>3. Added(o)' = Added(o)
  BY <1>1 DEF Added
<1> QED
  BY <1>1, <1>2, <1>3, QuietStep

\* Cancelling one task only marks it.
LEMMA CancelItemStep ==
  ASSUME IInv, NEW o \in Op, NEW f \in File, CancelItem(o, f)
  PROVE  OpInv(o)'
<1>1. /\ UNCHANGED <<phase, attempt, discovery, queue, pendingCount, live, isStopped, status,
                     cancelRequested>>
      /\ cancelled[o] \subseteq cancelled'[o]
  BY DEF IInv, TypeOK, CancelItem, schedulerVars, batchVars
<1> QED
  BY <1>1, QuietStep DEF IInv, OpInv, AttemptsLeft, PhaseMatch, Added

\* stop() of an attempt that ends before its scheduler started.
LEMMA StopStep ==
  ASSUME IInv, NEW o \in Op, CollectThrow(o) \/ RunStopped(o)
  PROVE  OpInv(o)'
<1>1. /\ UNCHANGED <<attempt, discovery, pendingCount, live>>
      /\ status' = DrainedStatus({o}) /\ queue' = DrainedQueue({o})
      /\ phase[o] = "collecting"
  BY DEF CollectThrow, RunStopped, Collected
<1>2. phase'[o] = "ended" /\ isStopped'[o]
  BY DEF IInv, TypeOK, CollectThrow, RunStopped
<1>3. live[o] = {}
  BY <1>1 DEF IInv, OpInv, PhaseMatch
<1> QED
  BY <1>1, <1>2, <1>3, DrainStep

\* Cancelling the group: every task in flight was added, so its cancel() is registered.
LEMMA CancelOperationStep ==
  ASSUME IInv, NEW o \in Op, CancelOperation(o)
  PROVE  OpInv(o)'
<1>1. /\ UNCHANGED <<phase, attempt, discovery, pendingCount, live>>
      /\ status' = DrainedStatus({o}) /\ queue' = DrainedQueue({o})
  BY DEF CancelOperation
<1>2. isStopped'[o] /\ live[o] \subseteq Added(o) /\ Added(o) \subseteq cancelled'[o]
  BY DEF IInv, TypeOK, OpInv, Discovered, CancelOperation
<1> QED
  BY <1>1, <1>2, DrainStep

\* The command stops the scheduler of o, or leaves it alone.
LEMMA CancelAllStep ==
  ASSUME IInv, NEW o \in Op, CancelAllTransfers
  PROVE  OpInv(o)'
<1> DEFINE groups == GroupsToCancel
           remaining == SelectSeq(schedulers, LAMBDA p : p \notin groups \/ pendingCount[p] # 0)
           scanned == Scan(remaining)
           stopped == groups \union scanned
<1> HIDE DEF groups, remaining, scanned
<1>1. /\ UNCHANGED <<phase, attempt, discovery, pendingCount, live>>
      /\ status' = DrainedStatus(stopped) /\ queue' = DrainedQueue(stopped)
      /\ isStopped'[o] = (isStopped[o] \/ o \in stopped)
      /\ cancelRequested'[o] = (cancelRequested[o] \/ o \in groups)
      /\ cancelled[o] \subseteq cancelled'[o]
      /\ o \in groups => Added(o) \subseteq cancelled'[o]
  BY DEF CancelAllTransfers, groups, remaining, scanned
<1>2. OpInv(o) /\ status \in [Op -> [File -> Status]]
  BY DEF IInv, TypeOK
<1>3. cancelRequested'[o] => live[o] \subseteq cancelled'[o]
  BY <1>1, <1>2 DEF OpInv, Discovered, CancelReaches
<1>4. CASE o \in stopped
  <2>1. isStopped'[o]
    BY <1>1, <1>4
  <2> HIDE DEF stopped
  <2> QED
    BY <1>1, <1>3, <1>4, <2>1, DrainStep
<1>5. CASE o \notin stopped
  <2>1. status'[o] = status[o] /\ queue'[o] = queue[o]
    BY <1>1, <1>2, <1>5 DEF DrainedStatus, DrainedQueue
  <2>2. isStopped[o] \in BOOLEAN /\ cancelRequested[o] \in BOOLEAN
    BY DEF IInv, TypeOK
  <2>3. isStopped'[o] = isStopped[o] /\ cancelRequested'[o] = cancelRequested[o]
    BY <1>1, <1>5, <2>2
  <2> QED
    BY <1>1, <1>2, <2>1, <2>3, Frame DEF Same
<1> QED
  BY <1>4, <1>5

\* A step of one invocation leaves the others alone.
LEMMA HandlerSame ==
  ASSUME TypeOK, NEW o \in Op, NEW p \in Op, p # o, Handler(o) \/ CancelOperation(o)
  PROVE  Same(p)
<1>1. ASSUME status' = DrainedStatus({o}), queue' = DrainedQueue({o})
      PROVE  status'[p] = status[p] /\ queue'[p] = queue[p]
  BY <1>1 DEF TypeOK, DrainedStatus, DrainedQueue
<1>2. CASE BeginAttempt(o)
  BY <1>2 DEF TypeOK, Same, BeginAttempt, batchVars
<1>3. CASE CollectThrow(o)
  BY <1>1, <1>3 DEF TypeOK, Same, CollectThrow
<1>4. CASE RunStopped(o)
  BY <1>1, <1>4 DEF TypeOK, Same, RunStopped
<1>5. CASE RunEmpty(o)
  BY <1>5 DEF TypeOK, Same, RunEmpty, schedulerVars, batchVars
<1>6. CASE RunStart(o)
  BY <1>6 DEF TypeOK, Same, RunStart
<1>7. CASE Retry(o) \/ Settle(o)
  BY <1>7 DEF TypeOK, Same, Retry, Settle, schedulerVars, batchVars
<1>8. CASE CancelOperation(o)
  BY <1>1, <1>8 DEF TypeOK, Same, CancelOperation
<1> QED
  BY <1>2, <1>3, <1>4, <1>5, <1>6, <1>7, <1>8 DEF Handler

\* The same for the steps of one task.
LEMMA TaskSame ==
  ASSUME TypeOK, NEW o \in Op, NEW f \in File, NEW p \in Op, p # o,
         Collect(o, f) \/ Done(o, f) \/ CancelItem(o, f)
  PROVE  Same(p)
<1>1. CASE Check(o, f) \/ \E kind \in CollectErrorKind : Refuse(o, f, kind)
  BY <1>1 DEF TypeOK, Same, Check, Refuse, schedulerVars, batchVars
<1>2. CASE Add(o, f)
  BY <1>2 DEF TypeOK, Same, Add
<1>3. ASSUME NEW error, DoneThenNext(o, f, error) PROVE Same(p)
  BY <1>3 DEF TypeOK, Same, TaskDone, DoneThenNext
<1>4. ASSUME NEW error, DoneThenWait(o, f, error) \/ DoneThenIdle(o, f, error) PROVE Same(p)
  BY <1>4 DEF TypeOK, Same, TaskDone, DoneThenWait, DoneThenIdle
<1>5. CASE CancelItem(o, f)
  BY <1>5 DEF TypeOK, Same, CancelItem, schedulerVars, batchVars
<1> QED
  BY <1>1, <1>2, <1>3, <1>4, <1>5 DEF Collect, Done

\* Every step preserves OpInv of every invocation.
LEMMA OpInvStep ==
  ASSUME IInv, [Next]_vars, NEW p \in Op
  PROVE  OpInv(p)'
<1>0. TypeOK /\ OpInv(p)
  BY DEF IInv
<1>1. ASSUME NEW o \in Op, Handler(o) PROVE OpInv(p)'
  <2>1. CASE p = o
    BY <1>1, <2>1, BeginAttemptStep, StopStep, RunEmptyStep, RunStartStep, EndStep DEF Handler
  <2>2. CASE p # o
    BY <1>0, <1>1, <2>2, HandlerSame, Frame
  <2> QED
    BY <2>1, <2>2
<1>2. ASSUME NEW o \in Op, NEW f \in File, Collect(o, f) PROVE OpInv(p)'
  <2>1. CASE p = o
    BY <1>2, <2>1, CollectStep, AddStep DEF Collect
  <2>2. CASE p # o
    BY <1>0, <1>2, <2>2, TaskSame, Frame
  <2> QED
    BY <2>1, <2>2
<1>3. ASSUME NEW o \in Op, NEW f \in File, Done(o, f) PROVE OpInv(p)'
  <2>1. CASE p = o
    BY <1>3, <2>1, DoneThenNextStep, DoneThenRestStep DEF Done
  <2>2. CASE p # o
    BY <1>0, <1>3, <2>2, TaskSame, Frame
  <2> QED
    BY <2>1, <2>2
<1>4. ASSUME NEW o \in Op, CancelOperation(o) PROVE OpInv(p)'
  BY <1>0, <1>4, CancelOperationStep, HandlerSame, Frame
<1>5. ASSUME NEW o \in Op, NEW f \in File, CancelItem(o, f) PROVE OpInv(p)'
  BY <1>0, <1>5, CancelItemStep, TaskSame, Frame
<1>6. ASSUME CancelAllTransfers PROVE OpInv(p)'
  BY <1>6, CancelAllStep
<1>7. CASE UNCHANGED vars
  BY <1>0, <1>7, Frame DEF vars, Same
<1> QED
  BY <1>1, <1>2, <1>3, <1>4, <1>5, <1>6, <1>7 DEF Next, Cancellation

\* IInv is inductive.
LEMMA InvariantStep == IInv /\ [Next]_vars => IInv'
BY TypeStep, OpInvStep DEF IInv

\* IInv holds in every reachable state.
LEMMA Invariance == Spec => []IInv
BY InitIInv, InvariantStep, PTL DEF Spec

-------------------------------------------------------------------------------
\* Every variable keeps its type, whatever the number of invocations and files.
THEOREM TypeCorrect == Spec => []TypeOK
<1>1. IInv => TypeOK
  BY DEF IInv
<1> QED
  BY <1>1, Invariance, PTL

\* The scheduler's counter (core/scheduler.ts, _pendingCount) is the number of tasks in
\* flight and never exceeds the configured concurrency.
THEOREM ConcurrencyBounded == Spec => []ConcurrencyBound
BY IInvImplies, Invariance, PTL

\* Items and scheduler agree (core/transferOperation.ts, core/fileService.ts): nothing
\* pending is without a queue entry, nothing queued is left without a task in flight
\* that goes on to it, and nothing is left when an attempt ends.
THEOREM NothingStranded == Spec => []NoTaskStranded
BY IInvImplies, Invariance, PTL

\* A cancelled group has nothing queued and only cancelled tasks in flight
\* (modules/activity.ts, TransferOperation.add), whenever the cancellation came.
THEOREM CancellationReaches == Spec => []CancelReachesEveryTask
BY IInvImplies, Invariance, PTL

-------------------------------------------------------------------------------
(* TransferScheduler implements TransferBatch.                              *)

\* What the handler will report agrees with its items: it has reported once it settled,
\* an attempt that ended without an error left only transferred files, and a review can
\* only be cancelled before any file of the operation was transferred.
Reported(o) ==
  /\ outcome[o] = "none" <=> phase[o] # "settled"
  /\ "conflict" \in collectErrors[o] => MaxAttempts = 1
  /\ attempt[o] = 0 => phase[o] = "waiting"
  /\ (phase[o] = "waiting" /\ attempt[o] = 0) \/ (phase[o] = "collecting" /\ attempt[o] <= 1) =>
       \A f \in File : status[o][f] \notin {"completed", "failed"}
  /\ phase[o] = "ended" /\ attemptError[o] = "none" =>
       \A f \in File : status[o][f] \in {"none", "completed"}
  /\ phase[o] = "ended" /\ attemptError[o] = "conflict" =>
       \A f \in File : status[o][f] \notin {"completed", "failed"}

\* What Reported(o) reads is left alone.
SameReport(o) ==
  /\ phase'[o] = phase[o] /\ attempt'[o] = attempt[o] /\ collectErrors'[o] = collectErrors[o]
  /\ status'[o] = status[o] /\ attemptError'[o] = attemptError[o] /\ outcome'[o] = outcome[o]

\* The step moves items of o, forward only, and changes nothing else the caller sees.
Moves(o) ==
  /\ outcome[o] = "none"
  /\ \E s \in [File -> Status] :
       /\ \A f \in File : s[f] # status[o][f] => <<status[o][f], s[f]>> \in Batch!Move
       /\ cancelRequested[o] => \A f \in File : s[f] \in Batch!Open => s[f] = status[o][f]
       /\ status' = [status EXCEPT ![o] = s]
  /\ UNCHANGED <<cancelRequested, outcome>>

\* Nothing is open once nothing is queued or in flight.
LEMMA ClosedItems ==
  ASSUME IInv, NEW o \in Op, phase[o] \in {"waiting", "ended", "settled"}
  PROVE  Queued(o) = {} /\ \A f \in File : status[o][f] \notin {"pending", "running"}
<1>1. queue[o] = << >> /\ live[o] = {}
  BY DEF IInv, OpInv, PhaseMatch
<1>2. Queued(o) = {}
  BY <1>1, EmptySeq DEF Queued, RangeOf
<1> QED
  BY <1>1, <1>2 DEF IInv, OpInv, ItemsMatch

\* stop() ends what is pending and leaves the rest.
LEMMA DrainedItems ==
  ASSUME IInv, NEW S, NEW o \in Op, NEW f \in File
  PROVE  DrainedStatus(S)[o][f] =
           IF o \in S /\ status[o][f] = "pending" THEN "cancelled" ELSE status[o][f]
  BY DEF IInv, OpInv, ItemsMatch, DrainedStatus

\* stop() on the scheduler of o is a move of its pending items.
LEMMA DrainMoves ==
  ASSUME IInv, NEW o \in Op, outcome[o] = "none", status' = DrainedStatus({o}),
         UNCHANGED <<cancelRequested, outcome>>
  PROVE  Moves(o)
<1> DEFINE s == [f \in File |-> IF status[o][f] = "pending" THEN "cancelled" ELSE status[o][f]]
<1>1. s \in [File -> Status] /\ status \in [Op -> [File -> Status]]
  BY DEF IInv, TypeOK, Status
<1>2. \A f \in File : s[f] # status[o][f] => <<status[o][f], s[f]>> \in Batch!Move
  BY DEF Batch!Move
<1>3. \A f \in File : s[f] \in Batch!Open => s[f] = status[o][f]
  BY DEF Batch!Open
<1>4. status' = [status EXCEPT ![o] = s]
  <2>1. ASSUME NEW p \in Op PROVE DrainedStatus({o})[p] = [status EXCEPT ![o] = s][p]
    BY <1>1, DrainedItems DEF DrainedStatus
  <2> QED
    BY <1>1, <2>1 DEF DrainedStatus
<1> HIDE DEF s
<1> QED
  BY <1>1, <1>2, <1>3, <1>4 DEF Moves

\* A file is queued, or marked not-started, from a status that is not open; never queued
\* once the group is cancelled.
LEMMA AddMoves ==
  ASSUME IInv, NEW o \in Op, outcome[o] = "none", NEW f \in File, Add(o, f)
  PROVE  Moves(o)
<1>1. PICK to \in {"pending", "not-started"} :
        /\ status' = [status EXCEPT ![o][f] = to]
        /\ to = "pending" => ~isStopped[o]
  BY DEF Add
<1>2. status \in [Op -> [File -> Status]] /\ UNCHANGED <<cancelRequested, outcome>>
  BY DEF IInv, TypeOK, Add
<1>3. status[o][f] \notin {"pending", "running"}
  BY DEF IInv, OpInv, Discovered, ItemsMatch, Added, Add
<1>4. to = "pending" => ~cancelRequested[o]
  BY <1>1 DEF IInv, OpInv, CancelReaches
<1> DEFINE s == [status[o] EXCEPT ![f] = to]
<1>5. s \in [File -> Status]
  BY <1>2 DEF Status
<1>6. \A g \in File : s[g] # status[o][g] => <<status[o][g], s[g]>> \in Batch!Move
  BY <1>2, <1>3 DEF Batch!Move, Batch!Status, Batch!Open, Status
<1>7. cancelRequested[o] => \A g \in File : s[g] \in Batch!Open => s[g] = status[o][g]
  BY <1>2, <1>4 DEF Batch!Open
<1>8. status' = [status EXCEPT ![o] = s]
  BY <1>1, <1>2
<1> HIDE DEF s
<1> QED
  BY <1>2, <1>5, <1>6, <1>7, <1>8 DEF Moves

\* start() takes pending items, and only of a group that is not cancelled.
LEMMA RunStartMoves ==
  ASSUME IInv, NEW o \in Op, outcome[o] = "none", RunStart(o)
  PROVE  Moves(o)
<1> DEFINE s == [f \in File |-> IF f \in StartedBatch(o) THEN "running" ELSE status[o][f]]
<1>1. StartedBatch(o) \subseteq Queued(o)
  <2>1. queue[o] \in Seq(File) /\ Len(queue[o]) \in Nat /\ pendingCount[o] \in Nat
    BY LenProperties DEF IInv, TypeOK
  <2>2. StartCount(o) <= Len(queue[o])
    BY <2>1, ConcurrencyAssumption DEF StartCount, Least
  <2>3. StartCount(o) \in Int
    BY <2>1, ConcurrencyAssumption DEF StartCount, Least
  <2> QED
    BY <2>1, <2>2, <2>3 DEF StartedBatch, Queued, RangeOf
<1>2. /\ status \in [Op -> [File -> Status]] /\ ~cancelRequested[o]
      /\ UNCHANGED <<cancelRequested, outcome>>
  BY DEF IInv, TypeOK, RunStart
<1>3. s \in [File -> Status]
  BY <1>2 DEF Status
<1>4. \A f \in File : s[f] # status[o][f] => <<status[o][f], s[f]>> \in Batch!Move
  BY <1>1 DEF IInv, OpInv, ItemsMatch, Batch!Move
<1>5. status' = [status EXCEPT ![o] = s]
  BY <1>2 DEF RunStart
<1> HIDE DEF s
<1> QED
  BY <1>2, <1>3, <1>4, <1>5 DEF Moves

\* A task that settles ends its running item; the next one starts only of a group that is
\* not cancelled, since a cancelled one has an empty queue.
LEMMA DoneMoves ==
  ASSUME IInv, NEW o \in Op, outcome[o] = "none", NEW f \in File, Done(o, f)
  PROVE  Moves(o)
<1>1. status \in [Op -> [File -> Status]] /\ UNCHANGED <<cancelRequested, outcome>>
  BY DEF IInv, TypeOK, Done, DoneThenNext, DoneThenWait, DoneThenIdle, TaskDone
<1>2. f \in live[o]
  BY DEF Done, DoneThenNext, DoneThenWait, DoneThenIdle, TaskDone
<1>3. status[o][f] = "running"
  BY <1>2 DEF IInv, OpInv, ItemsMatch
<1>4. \A error : Finished(o, f, error) \in {"completed", "failed", "cancelled"}
  BY DEF Finished
<1>5. ASSUME NEW error, DoneThenNext(o, f, error) PROVE Moves(o)
  <2> DEFINE g == Head(queue[o])
             s == [status[o] EXCEPT ![f] = Finished(o, f, error), ![g] = "running"]
  <2>1. queue[o] \in Seq(File) /\ queue[o] # << >>
    BY <1>5 DEF IInv, TypeOK, DoneThenNext
  <2>2. g \in File /\ g \in Queued(o)
    BY <2>1, HeadTailProperties, LenProperties, EmptySeq DEF Queued, RangeOf
  <2>3. status[o][g] = "pending" /\ g # f
    BY <1>3, <2>2 DEF IInv, OpInv, ItemsMatch
  <2>4. ~cancelRequested[o]
    BY <2>1 DEF IInv, OpInv, CancelReaches
  <2>5. status' = [status EXCEPT ![o] = s]
    BY <1>1, <1>5 DEF DoneThenNext
  <2> HIDE DEF g
  <2>6. s \in [File -> Status]
    BY <1>1, <1>4, <2>2 DEF Status
  <2>7. \A h \in File : s[h] # status[o][h] => <<status[o][h], s[h]>> \in Batch!Move
    BY <1>1, <1>3, <1>4, <2>2, <2>3 DEF Batch!Move
  <2> HIDE DEF s
  <2> QED
    BY <1>1, <2>4, <2>5, <2>6, <2>7 DEF Moves
<1>6. ASSUME NEW error, DoneThenWait(o, f, error) \/ DoneThenIdle(o, f, error) PROVE Moves(o)
  <2> DEFINE s == [status[o] EXCEPT ![f] = Finished(o, f, error)]
  <2>1. status' = [status EXCEPT ![o] = s]
    BY <1>1, <1>6 DEF DoneThenWait, DoneThenIdle
  <2>2. s \in [File -> Status]
    BY <1>1, <1>4 DEF Status
  <2>3. \A h \in File : s[h] # status[o][h] => <<status[o][h], s[h]>> \in Batch!Move
    BY <1>1, <1>3, <1>4 DEF Batch!Move
  <2>4. \A h \in File : s[h] \in Batch!Open => s[h] = status[o][h]
    BY <1>1, <1>4 DEF Batch!Open
  <2> HIDE DEF s
  <2> QED
    BY <1>1, <2>1, <2>2, <2>3, <2>4 DEF Moves
<1> QED
  BY <1>5, <1>6 DEF Done

\* A step that leaves what Reported(o) reads alone preserves it.
LEMMA ReportedFrame ==
  ASSUME NEW o \in Op, Reported(o), SameReport(o)
  PROVE  Reported(o)'
  BY DEF Reported, SameReport

\* stop() transfers nothing; what ended stays as it is.
LEMMA ReportedDrain ==
  ASSUME IInv, NEW o \in Op, Reported(o), NEW S, status' = DrainedStatus(S),
         phase'[o] = phase[o], attempt'[o] = attempt[o], collectErrors'[o] = collectErrors[o],
         attemptError'[o] = attemptError[o], outcome'[o] = outcome[o]
  PROVE  Reported(o)'
<1>1. \A f \in File : status'[o][f] \in {status[o][f], "cancelled"}
  BY DEF DrainedStatus
<1>2. phase[o] = "ended" => \A f \in File : status'[o][f] = status[o][f]
  BY ClosedItems DEF DrainedStatus
<1> QED
  BY <1>1, <1>2 DEF Reported

\* An attempt starts anew: the first with no file transferred.
LEMMA BeginAttemptReports ==
  ASSUME IInv, NEW o \in Op, Reported(o), BeginAttempt(o)
  PROVE  Reported(o)'
<1>1. /\ phase[o] = "waiting" /\ phase'[o] = "collecting" /\ attempt'[o] = attempt[o] + 1
      /\ collectErrors'[o] = {} /\ UNCHANGED <<status, outcome>>
  BY DEF IInv, TypeOK, BeginAttempt, batchVars
<1>2. attempt[o] \in Nat
  BY MaxAttemptsAssumption DEF IInv, TypeOK
<1>3. (attempt'[o] <= 1 => attempt[o] = 0) /\ attempt'[o] # 0
  BY <1>1, <1>2
<1> QED
  BY <1>1, <1>3 DEF Reported

\* Collecting transfers nothing, and only an operation with one attempt reviews.
LEMMA CollectReports ==
  ASSUME IInv, NEW o \in Op, Reported(o), NEW f \in File, Collect(o, f)
  PROVE  Reported(o)'
<1>1. CASE Check(o, f)
  BY <1>1 DEF IInv, TypeOK, Check, Reported, batchVars
<1>2. ASSUME NEW kind \in CollectErrorKind, Refuse(o, f, kind) PROVE Reported(o)'
  BY <1>2 DEF IInv, TypeOK, Refuse, Reported, batchVars
<1>3. CASE Add(o, f)
  <2>1. /\ phase[o] = "collecting"
        /\ \A g \in File : status'[o][g] \in {status[o][g], "pending", "not-started"}
        /\ UNCHANGED <<phase, attempt, collectErrors, attemptError, outcome>>
    BY <1>3 DEF IInv, TypeOK, Add
  <2> QED
    BY <2>1 DEF Reported
<1> QED
  BY <1>1, <1>2, <1>3 DEF Collect

\* An attempt that ends while it collects: a cancelled review means nothing was begun.
LEMMA CollectThrowReports ==
  ASSUME IInv, NEW o \in Op, Reported(o), CollectThrow(o)
  PROVE  Reported(o)'
<1>1. /\ phase[o] = "collecting" /\ phase'[o] = "ended" /\ attemptError'[o] \in collectErrors[o]
      /\ UNCHANGED <<attempt, collectErrors, outcome>>
      /\ \A f \in File : status'[o][f] \in {status[o][f], "cancelled"}
  BY DEF IInv, TypeOK, CollectThrow, Collected, DrainedStatus
<1>2. attemptError'[o] # "none"
  BY <1>1 DEF IInv, TypeOK, CollectErrorKind, ErrorKind
<1>3. attemptError'[o] = "conflict" => attempt[o] <= 1
  BY <1>1, MaxAttemptsAssumption DEF IInv, TypeOK, Reported
<1> QED
  BY <1>1, <1>2, <1>3 DEF Reported

\* An attempt that runs to its end rejects unless every file was transferred.
LEMMA BatchReports ==
  ASSUME NEW o \in Op, Reported(o), phase[o] \in {"collecting", "running"}, phase'[o] = "ended",
         attemptError'[o] = BatchError(status'[o], firstError'[o]),
         firstError'[o] \in ErrorKind \union {"none"},
         status'[o] \in [File -> Status], \A f \in File : status'[o][f] \notin {"pending", "running"},
         attempt'[o] = attempt[o], collectErrors'[o] = collectErrors[o], outcome'[o] = outcome[o]
  PROVE  Reported(o)'
<1>1. attemptError'[o] # "conflict"
  BY BatchErrorType DEF ErrorKind
<1>2. attemptError'[o] = "none" => \A f \in File : status'[o][f] \in {"none", "completed"}
  <2> SUFFICES ASSUME attemptError'[o] = "none", NEW f \in File PROVE status'[o][f] \in {"none", "completed"}
    OBVIOUS
  <2>1. status'[o][f] \notin {"failed", "cancelled", "not-started"}
    BY DEF BatchError
  <2> QED
    BY <2>1 DEF Status
<1> QED
  BY <1>1, <1>2 DEF Reported

\* An attempt that runs to its end has closed every item.
LEMMA AttemptEnds ==
  ASSUME IInv, IInv', NEW o \in Op, Reported(o),
         \/ RunStopped(o) \/ RunEmpty(o)
         \/ \E f \in File, error \in ErrorKind \union {"none"} : DoneThenIdle(o, f, error)
  PROVE  Reported(o)'
<1>1. /\ phase[o] \in {"collecting", "running"} /\ phase'[o] = "ended"
      /\ attemptError'[o] = BatchError(status'[o], firstError'[o])
      /\ UNCHANGED <<attempt, collectErrors, outcome>>
  <2>1. CASE RunStopped(o)
    BY <2>1 DEF IInv, TypeOK, RunStopped, Collected
  <2>2. CASE RunEmpty(o)
    BY <2>2 DEF IInv, TypeOK, RunEmpty, Collected, schedulerVars, batchVars
  <2>3. ASSUME NEW f, NEW error, DoneThenIdle(o, f, error)
        PROVE  /\ phase'[o] = "ended" /\ live[o] # {}
               /\ attemptError'[o] = BatchError(status'[o], firstError'[o])
               /\ UNCHANGED <<attempt, collectErrors, outcome>>
    BY <2>3 DEF IInv, TypeOK, DoneThenIdle, TaskDone
  <2>4. live[o] # {} => phase[o] = "running"
    BY DEF IInv, OpInv, PhaseMatch
  <2> QED
    BY <2>1, <2>2, <2>3, <2>4
<1>2. status'[o] \in [File -> Status] /\ firstError'[o] \in ErrorKind \union {"none"}
  BY DEF IInv, TypeOK
<1>3. \A g \in File : status'[o][g] \notin {"pending", "running"}
  <2>1. queue'[o] = << >> /\ live'[o] = {}
    BY <1>1 DEF IInv, OpInv, PhaseMatch
  <2>2. Queued(o)' = {}
    BY <2>1, EmptySeq DEF Queued, RangeOf
  <2> QED
    BY <2>1, <2>2 DEF IInv, OpInv, ItemsMatch
<1> QED
  BY <1>1, <1>2, <1>3, BatchReports

\* The steps of an invocation's handler keep Reported.
LEMMA HandlerReports ==
  ASSUME IInv, IInv', NEW o \in Op, Reported(o), Handler(o)
  PROVE  Reported(o)'
<1>1. CASE BeginAttempt(o)
  BY <1>1, BeginAttemptReports
<1>2. CASE CollectThrow(o)
  BY <1>2, CollectThrowReports
<1>3. CASE RunStopped(o) \/ RunEmpty(o)
  BY <1>3, AttemptEnds
<1>4. CASE RunStart(o)
  <2>1. /\ phase[o] = "collecting" /\ phase'[o] = "running"
        /\ UNCHANGED <<attempt, collectErrors, attemptError, outcome>>
    BY <1>4 DEF IInv, TypeOK, RunStart, Collected
  <2> QED
    BY <2>1 DEF Reported
<1>5. CASE Retry(o)
  <2>1. /\ phase[o] = "ended" /\ phase'[o] = "waiting"
        /\ UNCHANGED <<attempt, collectErrors, attemptError, outcome>>
    BY <1>5 DEF IInv, TypeOK, Retry, batchVars
  <2> QED
    BY <2>1 DEF Reported
<1>6. CASE Settle(o)
  <2>1. /\ phase[o] = "ended" /\ phase'[o] = "settled" /\ outcome'[o] # "none"
        /\ UNCHANGED <<attempt, collectErrors, attemptError, status>>
    BY <1>6 DEF IInv, TypeOK, Settle, OutcomeOf
  <2> QED
    BY <2>1 DEF Reported
<1> QED
  BY <1>1, <1>2, <1>3, <1>4, <1>5, <1>6 DEF Handler

\* So do the steps of its tasks.
LEMMA DoneReports ==
  ASSUME IInv, IInv', NEW o \in Op, Reported(o), NEW f \in File, Done(o, f)
  PROVE  Reported(o)'
<1>1. ASSUME NEW error, DoneThenNext(o, f, error) \/ DoneThenWait(o, f, error)
      PROVE  Reported(o)'
  <2>1. f \in live[o] /\ UNCHANGED <<phase, attempt, collectErrors, attemptError, outcome>>
    BY <1>1 DEF DoneThenNext, DoneThenWait, TaskDone
  <2>2. phase[o] = "running"
    BY <2>1 DEF IInv, OpInv, PhaseMatch
  <2> QED
    BY <2>1, <2>2 DEF Reported
<1> QED
  BY <1>1, AttemptEnds DEF Done

\* A step of one invocation leaves the reports of the others alone.
LEMMA OthersReport ==
  ASSUME TypeOK, NEW o \in Op, NEW p \in Op, p # o,
         \/ Handler(o) \/ CancelOperation(o)
         \/ \E f \in File : Collect(o, f) \/ Done(o, f) \/ CancelItem(o, f)
  PROVE  SameReport(p)
<1>1. CASE BeginAttempt(o)
  BY <1>1 DEF TypeOK, SameReport, BeginAttempt, batchVars
<1>2. CASE CollectThrow(o) \/ RunStopped(o)
  BY <1>2 DEF TypeOK, SameReport, CollectThrow, RunStopped, DrainedStatus
<1>3. CASE RunEmpty(o) \/ RunStart(o)
  BY <1>3 DEF TypeOK, SameReport, RunEmpty, RunStart, batchVars
<1>4. CASE Retry(o) \/ Settle(o)
  BY <1>4 DEF TypeOK, SameReport, Retry, Settle, batchVars
<1>5. CASE CancelOperation(o)
  BY <1>5 DEF TypeOK, SameReport, CancelOperation, DrainedStatus
<1>6. ASSUME NEW f \in File, Collect(o, f) PROVE SameReport(p)
  BY <1>6 DEF TypeOK, SameReport, Collect, Check, Refuse, Add, batchVars
<1>7. ASSUME NEW f \in File, NEW error, DoneThenNext(o, f, error) PROVE SameReport(p)
  BY <1>7 DEF TypeOK, SameReport, DoneThenNext, TaskDone
<1>8. ASSUME NEW f \in File, NEW error, DoneThenWait(o, f, error) \/ DoneThenIdle(o, f, error)
      PROVE  SameReport(p)
  BY <1>8 DEF TypeOK, SameReport, DoneThenWait, DoneThenIdle, TaskDone
<1>9. ASSUME NEW f \in File, CancelItem(o, f) PROVE SameReport(p)
  BY <1>9 DEF SameReport, CancelItem, batchVars
<1> QED
  BY <1>1, <1>2, <1>3, <1>4, <1>5, <1>6, <1>7, <1>8, <1>9 DEF Handler, Done

\* Reported is kept by every step.
LEMMA ReportedStep ==
  ASSUME IInv, IInv', [Next]_vars, NEW p \in Op, Reported(p)
  PROVE  Reported(p)'
<1>0. TypeOK
  BY DEF IInv
<1>1. ASSUME NEW o \in Op, Handler(o) PROVE Reported(p)'
  BY <1>0, <1>1, HandlerReports, OthersReport, ReportedFrame
<1>2. ASSUME NEW o \in Op, NEW f \in File, Collect(o, f) PROVE Reported(p)'
  BY <1>0, <1>2, CollectReports, OthersReport, ReportedFrame
<1>3. ASSUME NEW o \in Op, NEW f \in File, Done(o, f) PROVE Reported(p)'
  BY <1>0, <1>3, DoneReports, OthersReport, ReportedFrame
<1>4. ASSUME NEW o \in Op, CancelOperation(o) PROVE Reported(p)'
  BY <1>4, ReportedDrain DEF CancelOperation
<1>5. ASSUME NEW o \in Op, NEW f \in File, CancelItem(o, f) PROVE Reported(p)'
  BY <1>5, ReportedFrame DEF SameReport, CancelItem, batchVars
<1>6. ASSUME CancelAllTransfers PROVE Reported(p)'
  BY <1>6, ReportedDrain DEF CancelAllTransfers
<1>7. CASE UNCHANGED vars
  BY <1>7, ReportedFrame DEF SameReport, vars
<1> QED
  BY <1>1, <1>2, <1>3, <1>4, <1>5, <1>6, <1>7 DEF Next, Cancellation

-------------------------------------------------------------------------------
(* Step by step.                                                            *)

\* A handler's step moves items of its operation, reports, or is not seen by the caller.
LEMMA HandlerRefines ==
  ASSUME IInv, NEW o \in Op, Reported(o), Handler(o)
  PROVE  \/ Moves(o) \/ UNCHANGED batchVars
         \/ \E result \in Batch!Outcome \ {"none"} : Batch!Settle(o, result)
<1>1. CASE BeginAttempt(o) \/ RunEmpty(o) \/ Retry(o)
  BY <1>1 DEF BeginAttempt, RunEmpty, Retry
<1>2. CASE CollectThrow(o) \/ RunStopped(o)
  <2>1. /\ phase[o] = "collecting" /\ status' = DrainedStatus({o})
        /\ UNCHANGED <<cancelRequested, outcome>>
    BY <1>2 DEF CollectThrow, RunStopped, Collected
  <2> QED
    BY <2>1, DrainMoves DEF Reported
<1>3. CASE RunStart(o)
  BY <1>3, RunStartMoves DEF RunStart, Collected, Reported
<1>4. CASE Settle(o)
  <2> DEFINE result == OutcomeOf(attemptError[o])
  <2>1. /\ phase[o] = "ended" /\ UNCHANGED <<status, cancelRequested>>
        /\ outcome' = [outcome EXCEPT ![o] = result]
    BY <1>4 DEF Settle
  <2>2. result \in Batch!Outcome \ {"none"}
    BY DEF OutcomeOf, Batch!Outcome
  <2>3. result = "resolved" => attemptError[o] = "none"
    BY DEF OutcomeOf
  <2>4. result = "abandoned" => attemptError[o] = "conflict"
    BY DEF OutcomeOf
  <2> HIDE DEF result
  <2>5. \A f \in File : status[o][f] \notin {"pending", "running"}
    BY <2>1, ClosedItems
  <2>6. Batch!Settle(o, result)
    BY <2>1, <2>3, <2>4, <2>5 DEF Reported, Batch!Settle, Batch!Open
  <2> QED
    BY <2>2, <2>6
<1> QED
  BY <1>1, <1>2, <1>3, <1>4 DEF Handler

\* Cancelling the groups of C, whatever else is stopped: another operation
\* that is stopped with them has nothing queued any more.
LEMMA CancelRefines ==
  ASSUME IInv, NEW C \in SUBSET Op, NEW S, C \subseteq S,
         \A o \in C : outcome[o] = "none",
         \A o \in (Op \ C) \intersect S : Queued(o) = {},
         status' = DrainedStatus(S),
         cancelRequested' = [o \in Op |-> cancelRequested[o] \/ o \in C], UNCHANGED outcome
  PROVE  Batch!Cancel(C)
<1> DEFINE items == [o \in Op |-> [f \in File |->
                       IF o \in C /\ status[o][f] = "pending" THEN "cancelled" ELSE status[o][f]]]
<1>1. ASSUME NEW o \in Op, NEW f \in File PROVE DrainedStatus(S)[o][f] = items[o][f]
  BY DEF DrainedStatus, IInv, OpInv, ItemsMatch
<1>2. \A o \in Op : DrainedStatus(S)[o] = items[o]
  BY <1>1 DEF DrainedStatus
<1>3. DrainedStatus(S) = items
  BY <1>2 DEF DrainedStatus
<1> QED
  BY <1>3 DEF Batch!Cancel

\* Every step of the schedulers is one of the operations' promise, or a stutter.
LEMMA RefinementStep ==
  ASSUME IInv, \A o \in Op : Reported(o), [Next]_vars
  PROVE  [Batch!Next]_batchVars
<1>1. ASSUME NEW o \in Op, Moves(o) PROVE Batch!Next
  BY <1>1 DEF Moves, Batch!Next, Batch!Advance, Batch!Status, Status
<1>2. ASSUME NEW o \in Op, Handler(o) PROVE [Batch!Next]_batchVars
  BY <1>1, <1>2, HandlerRefines DEF Batch!Next
<1>3. ASSUME NEW o \in Op, NEW f \in File, Collect(o, f) PROVE [Batch!Next]_batchVars
  <2>1. CASE Add(o, f)
    <3>1. outcome[o] = "none"
      BY <2>1 DEF Reported, Add
    <3> QED
      BY <1>1, <2>1, <3>1, AddMoves
  <2>2. CASE Check(o, f) \/ \E kind \in CollectErrorKind : Refuse(o, f, kind)
    BY <2>2 DEF Check, Refuse
  <2> QED
    BY <1>3, <2>1, <2>2 DEF Collect
<1>4. ASSUME NEW o \in Op, NEW f \in File, Done(o, f) PROVE [Batch!Next]_batchVars
  <2>1. f \in live[o]
    BY <1>4 DEF Done, DoneThenNext, DoneThenWait, DoneThenIdle, TaskDone
  <2>2. phase[o] = "running"
    BY <2>1 DEF IInv, OpInv, PhaseMatch
  <2> QED
    BY <1>1, <1>4, <2>2, DoneMoves DEF Reported
<1>5. ASSUME NEW o \in Op, CancelOperation(o) PROVE [Batch!Next]_batchVars
  <2>1. /\ phase[o] # "settled" /\ status' = DrainedStatus({o})
        /\ cancelRequested' = [cancelRequested EXCEPT ![o] = TRUE] /\ UNCHANGED outcome
    BY <1>5 DEF CancelOperation, Active
  <2>2. cancelRequested' = [p \in Op |-> cancelRequested[p] \/ p \in {o}]
    <3>1. cancelRequested \in [Op -> BOOLEAN]
      BY DEF IInv, TypeOK
    <3> QED
      BY <2>1, <3>1
  <2>3. Batch!Cancel({o})
    <3>1. outcome[o] = "none"
      BY <2>1 DEF Reported
    <3> QED
      BY <2>1, <2>2, <3>1, CancelRefines
  <2> QED
    BY <2>3 DEF Batch!Next
<1>6. ASSUME NEW o \in Op, NEW f \in File, CancelItem(o, f) PROVE [Batch!Next]_batchVars
  BY <1>6 DEF CancelItem
<1>7. CASE CancelAllTransfers
  <2> DEFINE C == GroupsToCancel
  <2>1. PICK S : /\ C \subseteq S /\ status' = DrainedStatus(S)
                 /\ cancelRequested' = [o \in Op |-> cancelRequested[o] \/ o \in C]
                 /\ UNCHANGED outcome
    BY <1>7 DEF CancelAllTransfers
  <2>2. \A o \in C : outcome[o] = "none"
    BY DEF GroupsToCancel, Active, Reported
  <2>3. ASSUME NEW o \in Op \ C PROVE Queued(o) = {}
    <3>1. queue[o] = << >>
      BY DEF GroupsToCancel, Active, IInv, OpInv, PhaseMatch, CancelReaches
    <3> QED
      BY <3>1, EmptySeq DEF Queued, RangeOf
  <2>4. C \in SUBSET Op
    BY DEF GroupsToCancel
  <2> HIDE DEF C
  <2>5. Batch!Cancel(C)
    BY <2>1, <2>2, <2>3, <2>4, CancelRefines
  <2> QED
    BY <2>4, <2>5 DEF Batch!Next
<1>8. CASE UNCHANGED vars
  BY <1>8 DEF vars, batchVars
<1> QED
  BY <1>2, <1>3, <1>4, <1>5, <1>6, <1>7, <1>8 DEF Next, Cancellation

\* The schedulers of a file service keep what a transfer operation promises its caller
\* (TransferBatch): in particular an operation reports once, when none of its files is open,
\* success only if every file was transferred, and begins nothing once it is cancelled.
THEOREM BatchImplemented == Spec => ImplementsBatch
<1>1. Init => Batch!Init
  BY DEF Init, Batch!Init
<1>2. Init => \A o \in Op : Reported(o)
  BY DEF Init, Reported
<1>3. IInv /\ (\A o \in Op : Reported(o)) /\ [Next]_vars => (\A o \in Op : Reported(o))'
  BY InvariantStep, ReportedStep
<1>4. IInv /\ (\A o \in Op : Reported(o)) /\ [Next]_vars
        => [Batch!Next]_<<status, cancelRequested, outcome>>
  BY RefinementStep DEF batchVars
<1> QED
  BY <1>1, <1>2, <1>3, <1>4, Invariance, PTL DEF Spec, ImplementsBatch, Batch!Spec

-------------------------------------------------------------------------------
(* The plan of a sync: the words its invariant is stated in.                *)

\* Two entries are alike where the code can tell no difference: its times may differ.
Like(a, b) == a.kind = b.kind /\ a.size = b.size
\* p is d or lies in it; everything lies in Top.
Within(d, p) == d = Top \/ d \in sync!Upto(p)

\* A path is as it was found, as it should be, or alike on both sides.
Untouched(p) == \A s \in sync!Side : tree[s][p] = before[s][p]
Resolved(p) == \A s \in sync!Side : Like(tree[s][p], sync!Model(p, s))
Even(p) == Like(tree["local"][p], tree["remote"][p])
\* A path cut off is a file wherever it is.
NoFolder(p) == \A s \in sync!Side : tree[s][p].kind # "dir"

\* What the trees were at first, and the options that go together.
OriginOK ==
  /\ before \in [sync!Side -> sync!Trees]
  /\ \A p \in Paths : before["local"][p].kind = "file" => before["local"][p].time > 0
  /\ option.both => option.from = "local" /\ ~option.delete

\* A directory still to be compared is on both sides, one to be copied on one side only, in a
\* folder that is there; the whole is compared before anything is collected.
Entered(e) == ParentOf[e.dir] = Top \/ tree[e.to][ParentOf[e.dir]] = sync!Dir
ScanOK ==
  \A e \in scan :
    /\ e.how = "sync" =>
         /\ e.to = sync!Other(option.from)
         /\ e.dir = Top => scan = {e} /\ tasks = {}
         /\ e.dir # Top => /\ tree[option.from][e.dir] = sync!Dir
                           /\ tree[e.to][e.dir] # sync!Missing /\ ~option.ignoreExisting
    /\ e.how = "copy" =>
         /\ e.dir # Top /\ tree[sync!Other(e.to)][e.dir] = sync!Dir
         /\ tree[e.to][e.dir] = sync!Missing /\ Entered(e)
         /\ ~option.skipCreate /\ (e.to = option.from => option.both)

\* A transfer has a file to copy and a folder to put it in.
TasksOK ==
  \A t \in tasks :
    /\ tree[sync!Other(t.to)][t.path].kind = "file" /\ (t.to = option.from => option.both)
    /\ ParentOf[t.path] = Top \/ tree[t.to][ParentOf[t.path]] = sync!Dir

\* Only a running sync has anything to do.
PhaseOK == progress # "sync" => scan = {} /\ tasks = {}

\* A path is as it was found, or both sides have what they should have, and the same.
Sound(p) == Untouched(p) \/ (Resolved(p) /\ Even(p)) \/ (p \in broken /\ NoFolder(p))
\* What a transfer copies is what both sides should have.
Right(t) == \A s \in sync!Side : Like(tree[sync!Other(t.to)][t.path], sync!Model(t.path, s))
\* What is still to come for a path: a directory it lies in is to be compared or copied, or it is
\* to be transferred, or a file is to replace the folder it lies in, which fails.
Awaited(p) ==
  \/ \E e \in scan : Within(e.dir, p)
  \/ \E t \in tasks : t.path = p
  \/ \E t \in tasks : t.path \in Ancestors[p] /\ tree[t.to][t.path].kind = "dir"
\* A failure under ignoreExisting leaves nothing to say.
Lost == broken = Paths
\* How far the sync is, path by path. With ignoreExisting nothing is compared below Root.
CourseOK ==
  /\ option.ignoreExisting => broken = {} /\ progress # "failed"
  /\ \A p \in Paths : Sound(p)
  /\ \A t \in tasks : t.path \notin broken => Right(t)
  /\ \A e \in scan : e.how = "copy" => ~sync!Passed(e.dir)
  /\ option.ignoreExisting /\ (\E e \in scan : e.how = "sync") =>
       (\A p \in Paths : Untouched(p)) \/ (\A p \in Paths : Resolved(p))
  /\ progress # "failed" => \A p \in Paths \ broken : Resolved(p) \/ Awaited(p)

\* The inductive invariant of a sync.
SyncInv == /\ sync!TypeOK /\ OriginOK /\ ScanOK /\ TasksOK /\ PhaseOK
           /\ Lost \/ CourseOK
-------------------------------------------------------------------------------
(* The folders a path lies in.                                              *)

\* The folders above a path are closed under ParentOf.
LEMMA AboveClimbs ==
  ASSUME NEW p \in Paths
  PROVE  /\ Ancestors[p] \subseteq Paths /\ p \notin Ancestors[p]
         /\ \A q \in sync!Upto(p) : q \in Paths /\ ParentOf[q] \in Ancestors[p] \union {Top}
<1>1. Ancestors[p] = {q \in Paths : \A S \in SUBSET Paths : sync!Climbs(S, p) => q \in S}
  BY SyncAssumption DEF sync!PlanAssumption
<1>2. ASSUME NEW q \in sync!Upto(p) PROVE q \in Paths /\ ParentOf[q] \in Ancestors[p] \union {Top}
  <2>1. q \in Paths
    BY <1>1 DEF sync!Upto
  <2>2. ParentOf[q] \in Paths \union {Top}
    BY <2>1, SyncAssumption DEF sync!PlanAssumption
  <2>3. ASSUME ParentOf[q] # Top, NEW S \in SUBSET Paths, sync!Climbs(S, p) PROVE ParentOf[q] \in S
    <3>1. q \in S \union {p}
      BY <1>1, <2>3 DEF sync!Upto
    <3> QED
      BY <2>3, <3>1 DEF sync!Climbs
  <2> QED
    BY <1>1, <2>1, <2>2, <2>3
<1> QED
  BY <1>1, <1>2, SyncAssumption DEF sync!PlanAssumption

\* They are in every set that is closed under ParentOf.
LEMMA AboveLeast ==
  ASSUME NEW p \in Paths, NEW S \in SUBSET Paths,
         \A q \in S \union {p} : ParentOf[q] \in S \union {Top}
  PROVE  Ancestors[p] \subseteq S
<1>1. sync!Climbs(S, p)
  BY DEF sync!Climbs
<1>2. Ancestors[p] = {q \in Paths : \A R \in SUBSET Paths : sync!Climbs(R, p) => q \in R}
  BY SyncAssumption DEF sync!PlanAssumption
<1> QED
  BY <1>1, <1>2

\* A path lies in its parent and in what its parent lies in.
LEMMA AboveParent ==
  ASSUME NEW p \in Paths
  PROVE  /\ ParentOf[p] = Top => Ancestors[p] = {}
         /\ ParentOf[p] # Top => /\ ParentOf[p] \in Paths
                                 /\ Ancestors[p] = sync!Upto(ParentOf[p])
<1>1. CASE ParentOf[p] = Top
  <2> DEFINE S == {}
  <2>1. S \in SUBSET Paths /\ \A q \in S \union {p} : ParentOf[q] \in S \union {Top}
    BY <1>1
  <2>2. Ancestors[p] \subseteq S
    BY <2>1, AboveLeast
  <2> QED
    BY <1>1, <2>2
<1>2. CASE ParentOf[p] # Top
  <2> DEFINE d == ParentOf[p]
  <2>1. d \in Ancestors[p] /\ d \in Paths
    BY <1>2, AboveClimbs DEF sync!Upto
  <2>2. Ancestors[p] \subseteq sync!Upto(d)
    <3>1. \A q \in sync!Upto(d) : q \in Paths /\ ParentOf[q] \in sync!Upto(d) \union {Top}
      BY <2>1, AboveClimbs DEF sync!Upto
    <3>2. sync!Upto(d) \in SUBSET Paths /\ d \in sync!Upto(d)
      BY <3>1 DEF sync!Upto
    <3>3. \A q \in sync!Upto(d) \union {p} : ParentOf[q] \in sync!Upto(d) \union {Top}
      BY <3>1, <3>2
    <3> QED
      BY <3>2, <3>3, AboveLeast
  <2>3. Ancestors[d] \subseteq Ancestors[p]
    <3>1. \A q \in Ancestors[p] \union {d} : ParentOf[q] \in Ancestors[p] \union {Top}
      BY <2>1, AboveClimbs DEF sync!Upto
    <3> QED
      BY <2>1, <3>1, AboveClimbs, AboveLeast
  <2> QED
    BY <1>2, <2>1, <2>2, <2>3 DEF sync!Upto
<1> QED
  BY <1>1, <1>2

\* What is above a folder is above what lies in it.
LEMMA AboveTransitive ==
  ASSUME NEW p \in Paths, NEW q \in Ancestors[p]
  PROVE  q \in Paths /\ Ancestors[q] \subseteq Ancestors[p]
<1>1. q \in Paths /\ \A r \in Ancestors[p] \union {q} : ParentOf[r] \in Ancestors[p] \union {Top}
  BY AboveClimbs DEF sync!Upto
<1> QED
  BY <1>1, AboveClimbs, AboveLeast

\* Between a folder and what lies in it is a child of that folder.
LEMMA ChildTowards ==
  ASSUME NEW p \in Paths, NEW d, d = Top \/ d \in Ancestors[p]
  PROVE  \E c \in sync!Upto(p) : c \in Paths /\ ParentOf[c] = d
<1>1. CASE d = Top
  BY <1>1, SyncAssumption, AboveClimbs DEF sync!PlanAssumption
<1>2. CASE d \in Ancestors[p]
  <2> DEFINE S == {x \in Ancestors[p] : \E c \in sync!Upto(p) : ParentOf[c] = x}
  <2>1. \A q \in S \union {p} : ParentOf[q] \in S \union {Top}
    BY AboveClimbs DEF sync!Upto
  <2>2. S \in SUBSET Paths
    BY AboveClimbs
  <2>3. Ancestors[p] \subseteq S
    BY <2>1, <2>2, AboveLeast
  <2> QED
    BY <1>2, <2>3, AboveClimbs
<1> QED
  BY <1>1, <1>2

\* All folders of a path lie in the one of them that is directly in Top.
LEMMA BelowFirst ==
  ASSUME NEW p \in Paths, NEW c \in sync!Upto(p), ParentOf[c] = Top
  PROVE  \A q \in sync!Upto(p) : c \in sync!Upto(q)
<1>1. CASE c = p
  BY <1>1, AboveParent DEF sync!Upto
<1>2. CASE c \in Ancestors[p]
  <2> DEFINE S == {x \in Ancestors[p] : c \in sync!Upto(x)}
  <2>1. ASSUME NEW q \in S \union {p} PROVE ParentOf[q] \in S \union {Top}
    <3>1. q \in Paths /\ c \in sync!Upto(q) /\ ParentOf[q] \in Ancestors[p] \union {Top}
      BY <1>2, AboveClimbs DEF sync!Upto
    <3>2. CASE c = q
      BY <3>1, <3>2
    <3>3. CASE c \in Ancestors[q]
      BY <3>1, <3>3, AboveParent
    <3> QED
      BY <3>1, <3>2, <3>3 DEF sync!Upto
  <2>2. S \in SUBSET Paths
    BY AboveClimbs
  <2>3. Ancestors[p] \subseteq S
    BY <2>1, <2>2, AboveLeast
  <2> QED
    BY <1>2, <2>3 DEF sync!Upto
<1> QED
  BY <1>1, <1>2 DEF sync!Upto
-------------------------------------------------------------------------------
(* Sides and entries.                                                       *)

\* A side has one other.
LEMMA OtherSide ==
  /\ \A s \in sync!Side : /\ sync!Other(s) \in sync!Side /\ sync!Other(s) # s
                          /\ sync!Other(sync!Other(s)) = s
                          /\ \A r \in sync!Side : r = s \/ r = sync!Other(s)
  /\ sync!Other("local") = "remote" /\ sync!Other("remote") = "local"
<1>1. sync!Side = {"local", "remote"}
  BY DEF sync!Side
<1>2. \A s \in sync!Side : sync!Other(s) \in sync!Side /\ sync!Other(s) # s
  BY <1>1 DEF sync!Other
<1> QED
  BY <1>1, <1>2

\* The kind of an entry tells whether it is nothing or a folder.
LEMMA KindOf ==
  ASSUME NEW a \in sync!Entry
  PROVE  /\ a.kind \in {"none", "dir", "file"}
         /\ (a.kind = "none") <=> (a = sync!Missing)
         /\ (a.kind = "dir") <=> (a = sync!Dir)
         /\ a = sync!Missing => a.time = 0 /\ a.size = 0
         /\ a = sync!Dir => a.time = 0 /\ a.size = 0
         /\ a.kind = "file" => a.time \in Times \union {Later} /\ a.size \in Sizes \union {0}
         /\ a.time \in Nat /\ a.size \in Nat
<1>1. CASE a = sync!Missing
  BY <1>1 DEF sync!Missing, sync!Dir
<1>2. CASE a = sync!Dir
  BY <1>2 DEF sync!Missing, sync!Dir
<1>3. CASE a \in sync!Files
  <2>1. PICK t \in Times \union {Later}, n \in Sizes \union {0} : a = sync!FileOf(t, n)
    BY <1>3 DEF sync!Files
  <2>2. a.kind = "file" /\ a.time = t /\ a.size = n
    BY <2>1 DEF sync!FileOf
  <2>3. t \in Nat /\ n \in Nat
    BY SyncAssumption DEF sync!PlanAssumption
  <2> QED
    BY <2>1, <2>2, <2>3 DEF sync!Missing, sync!Dir
<1> QED
  BY <1>1, <1>2, <1>3 DEF sync!Entry

\* An entry found at first has a size where it is a file, and a time before that of a transfer.
LEMMA KindFound ==
  ASSUME NEW a \in sync!Found
  PROVE  a \in sync!Entry /\ (a.kind = "file" => a.size \in Nat \ {0})
<1>1. CASE a \in {sync!Missing, sync!Dir}
  BY <1>1 DEF sync!Entry, sync!Missing, sync!Dir
<1>2. CASE a \in {sync!FileOf(t, n) : t \in Times, n \in Sizes}
  <2>1. PICK t \in Times, n \in Sizes : a = sync!FileOf(t, n)
    BY <1>2
  <2>2. a.size = n
    BY <2>1 DEF sync!FileOf
  <2>3. n \in Nat \ {0}
    BY SyncAssumption DEF sync!PlanAssumption
  <2> QED
    BY <2>1, <2>2, <2>3 DEF sync!Entry, sync!Files
<1> QED
  BY <1>1, <1>2 DEF sync!Found

\* What is on the sides, now and at first.
LEMMA SidesOK ==
  ASSUME sync!TypeOK, OriginOK
  PROVE  /\ option.from \in sync!Side
         /\ \A s \in sync!Side, p \in Paths : tree[s][p] \in sync!Entry /\ before[s][p] \in sync!Found
         /\ \A s \in sync!Side, p \in Paths, q \in Paths :
              q \in Ancestors[p] => /\ tree[s][p] # sync!Missing => tree[s][q] = sync!Dir
                                    /\ before[s][p] # sync!Missing => before[s][q] = sync!Dir
<1>1. option.from \in sync!Side
  BY DEF sync!TypeOK, sync!Option
<1>2. ASSUME NEW s \in sync!Side
      PROVE  /\ tree[s] \in [Paths -> sync!Entry] /\ sync!IsTree(tree[s])
             /\ before[s] \in [Paths -> sync!Found] /\ sync!IsTree(before[s])
  BY DEF sync!TypeOK, OriginOK, sync!Trees
<1> QED
  BY <1>1, <1>2 DEF sync!IsTree
-------------------------------------------------------------------------------
(* The reference: what Model says, case by case.                            *)

\* Where a sync passes by, everything stays as it was; nothing comes of nothing.
LEMMA ModelPassed ==
  ASSUME sync!TypeOK, OriginOK, NEW p \in Paths, NEW s \in sync!Side
  PROVE  /\ sync!Passed(p) => sync!Model(p, s) = before[s][p]
         /\ (\A r \in sync!Side : before[r][p] = sync!Missing) => sync!Model(p, s) = sync!Missing
BY OtherSide DEF sync!Model, sync!Kept, sync!InCommon

\* What one side had alone goes to the other, in the sync's direction or both ways.
LEMMA ModelAlone ==
  ASSUME sync!TypeOK, OriginOK, NEW p \in Paths, NEW r \in sync!Side,
         before[r][p] # sync!Missing, before[sync!Other(r)][p] = sync!Missing,
         r = option.from \/ option.both
  PROVE  /\ sync!Model(p, r) = before[r][p]
         /\ sync!Model(p, sync!Other(r)) =
              IF option.skipCreate \/ sync!Passed(p) THEN sync!Missing ELSE before[r][p]
<1>1. sync!Model(p, r) = before[r][p]
  BY OtherSide DEF sync!Model, OriginOK
<1>2. sync!Model(p, sync!Other(r)) =
        IF option.skipCreate \/ sync!Passed(p) THEN sync!Missing ELSE before[r][p]
  BY OtherSide DEF sync!Model
<1> QED
  BY <1>1, <1>2

\* What only the target had stays there, or goes.
LEMMA ModelMissed ==
  ASSUME sync!TypeOK, OriginOK, NEW p \in Paths, ~option.both,
         before[option.from][p] = sync!Missing
  PROVE  /\ sync!Model(p, option.from) = sync!Missing
         /\ sync!Model(p, sync!Other(option.from)) =
              IF option.delete /\ ~sync!Passed(p)
                THEN sync!Missing ELSE before[sync!Other(option.from)][p]
<1>1. option.from \in sync!Side
  BY SidesOK
<1>2. sync!Model(p, option.from) = sync!Missing
  BY <1>1, OtherSide DEF sync!Model
<1>3. sync!Model(p, sync!Other(option.from)) =
        IF option.delete /\ ~sync!Passed(p)
          THEN sync!Missing ELSE before[sync!Other(option.from)][p]
  BY <1>1, OtherSide DEF sync!Model
<1> QED
  BY <1>2, <1>3

\* A folder on both sides stays one.
LEMMA ModelFolders ==
  ASSUME sync!TypeOK, OriginOK, NEW p \in Paths, NEW s \in sync!Side,
         \A r \in sync!Side : before[r][p] = sync!Dir
  PROVE  sync!Model(p, s) = sync!Dir
<1>1. sync!Dir # sync!Missing /\ option.from \in sync!Side /\ sync!Newest(p) \in sync!Side
  BY SidesOK DEF sync!Dir, sync!Missing, sync!Newest, sync!Side
<1>2. before[s][p] # sync!Missing /\ before[sync!Other(s)][p] # sync!Missing
  BY <1>1, OtherSide
<1>3. sync!Model(p, s) =
        IF sync!Kept(p) THEN before[s][p]
        ELSE before[IF option.both THEN sync!Newest(p) ELSE option.from][p]
  BY <1>2 DEF sync!Model
<1> QED
  BY <1>1, <1>3

\* Of a file that both sides had the reference has one version, unless it is kept.
LEMMA ModelCommon ==
  ASSUME sync!TypeOK, OriginOK, NEW p \in Paths, NEW s \in sync!Side, sync!InCommon(p)
  PROVE  sync!Model(p, s) =
           IF sync!Kept(p) THEN before[s][p]
           ELSE before[IF option.both THEN sync!Newest(p) ELSE option.from][p]
<1>1. before[s][p] # sync!Missing /\ before[sync!Other(s)][p] # sync!Missing
  BY OtherSide DEF sync!InCommon
<1> QED
  BY <1>1 DEF sync!Model

\* What is decided about a file that the source has and the target has too, both as they were
\* found, is what the reference says: the receiver gets what both should have, and where nothing
\* is transferred both have it. A folder in its place always blocks a transfer.
LEMMA Decided ==
  ASSUME sync!TypeOK, OriginOK, NEW p \in Paths, Untouched(p), ~sync!Passed(p),
         tree[option.from][p].kind = "file",
         tree[sync!Other(option.from)][p].kind # "none"
  PROVE  /\ sync!Changed(p) =>
              \A s \in sync!Side :
                Like(tree[sync!Other(sync!Receiver(p))][p], sync!Model(p, s))
         /\ ~sync!Changed(p) =>
              tree[sync!Other(option.from)][p].kind = "file" /\ Resolved(p)
         /\ tree[sync!Other(option.from)][p].kind = "dir" =>
              sync!Receiver(p) = sync!Other(option.from)
<1> DEFINE F == option.from
           T == sync!Other(F)
           a == before[F][p]
           b == before[T][p]
<1>1. /\ F \in sync!Side /\ T \in sync!Side /\ F # T /\ sync!Other(T) = F
      /\ \A s \in sync!Side : s = F \/ s = T
  BY SidesOK, OtherSide
<1>2. tree[F][p] = a /\ tree[T][p] = b
  BY <1>1 DEF Untouched
<1>3. /\ a \in sync!Entry /\ b \in sync!Entry /\ a.time \in Nat /\ b.time \in Nat
      /\ a.size \in Nat \ {0} /\ b.size \in Nat /\ a.kind = "file" /\ b.kind \in {"dir", "file"}
      /\ b.kind = "dir" => b.time = 0 /\ b.size = 0
      /\ a # sync!Missing /\ b # sync!Missing
  BY <1>1, <1>2, SidesOK, KindFound, KindOf
<1>4. option.both => F = "local" /\ T = "remote" /\ a.time > 0
  BY <1>1, <1>3, OtherSide DEF OriginOK
<1>5. sync!InCommon(p)
  BY <1>1, <1>3 DEF sync!InCommon
<1>6. sync!Known(p) <=> a.time > 0 /\ b.time > 0
  BY <1>1 DEF sync!Known
<1>7. sync!Kept(p) <=> /\ option.update /\ a.time > 0 /\ b.time > 0 /\ a.time <= b.time
                       /\ option.both => a.time = b.time
  BY <1>4, <1>5, <1>6 DEF sync!Kept
<1>8. sync!Receiver(p) = IF option.both /\ b.time > a.time THEN F ELSE T
  BY <1>2 DEF sync!Receiver
<1>9. option.both => sync!Newest(p) = IF b.time > a.time THEN T ELSE F
  BY <1>4 DEF sync!Newest
<1> DEFINE w == IF option.both /\ b.time > a.time THEN T ELSE F
<1>10. \A s \in sync!Side :
         sync!Model(p, s) = IF sync!Kept(p) THEN before[s][p] ELSE before[w][p]
  BY <1>5, <1>9, ModelCommon
<1>11. sync!Other(sync!Receiver(p)) = w
  BY <1>1, <1>8
<1>12. sync!Changed(p) <=> sync!Wanted(before[w][p], before[sync!Other(w)][p])
  BY <1>1, <1>2, <1>3, <1>8, <1>11 DEF sync!Changed
<1>13. CASE w = T
  <2>1. option.both /\ b.time > a.time /\ a.time > 0 /\ b.kind = "file"
    BY <1>1, <1>3, <1>4, <1>13
  <2>2. ~sync!Kept(p)
    BY <1>3, <1>7, <2>1
  <2>3. \A s \in sync!Side : sync!Model(p, s) = b
    BY <1>10, <1>13, <2>2
  <2>4. sync!Changed(p)
    BY <1>1, <1>3, <1>12, <1>13, <2>1 DEF sync!Wanted, sync!Newer, sync!Modified
  <2> QED
    BY <1>2, <1>11, <1>13, <2>1, <2>3, <2>4 DEF Like
<1>14. CASE w = F
  <2>1. ~(option.both /\ b.time > a.time)
    BY <1>1, <1>14
  <2>2. sync!Changed(p) <=> sync!Wanted(a, b)
    BY <1>1, <1>12, <1>14
  <2>3. CASE sync!Kept(p)
    <3>1. ~sync!Newer(a, b) /\ option.update /\ b.kind = "file"
      BY <1>3, <1>7, <2>3 DEF sync!Newer
    <3>2. ~sync!Changed(p)
      BY <2>2, <3>1 DEF sync!Wanted
    <3>3. Resolved(p)
      BY <1>10, <2>3 DEF Resolved, Untouched, Like
    <3> QED
      BY <1>2, <3>1, <3>2, <3>3
  <2>4. CASE ~sync!Kept(p)
    <3>1. \A s \in sync!Side : sync!Model(p, s) = a
      BY <1>10, <1>14, <2>4
    <3>2. ASSUME ~sync!Changed(p) PROVE a.size = b.size
      <4>1. CASE option.update
        BY <1>3, <1>7, <2>1, <2>2, <2>4, <3>2, <4>1 DEF sync!Wanted, sync!Newer, sync!Modified
      <4>2. CASE ~option.update
        BY <1>3, <2>2, <3>2, <4>2 DEF sync!Wanted, sync!Modified
      <4> QED
        BY <4>1, <4>2
    <3>3. ~sync!Changed(p) => b.kind = "file" /\ Resolved(p)
      BY <1>1, <1>2, <1>3, <3>1, <3>2 DEF Resolved, Like
    <3> QED
      BY <1>2, <1>8, <1>11, <1>14, <2>1, <3>1, <3>3 DEF Like
  <2> QED
    BY <2>3, <2>4
<1> QED
  BY <1>13, <1>14
-------------------------------------------------------------------------------
(* What a sound path allows.                                                *)

\* A path passed by has everything above it or below it passed by or not with it.
LEMMA PassedDown ==
  ASSUME NEW c \in Paths, ParentOf[c] = Top \/ ~sync!Passed(ParentOf[c]), ~sync!InCommon(c)
  PROVE  ~sync!Passed(c)
BY AboveParent DEF sync!Passed, sync!Upto

\* What one side has alone is as it was found, and is not passed by.
LEMMA AloneUntouched ==
  ASSUME sync!TypeOK, OriginOK, NEW p \in Paths, NEW r \in sync!Side, Sound(p),
         p \notin broken \/ ~NoFolder(p),
         tree[r][p] # sync!Missing, tree[sync!Other(r)][p] = sync!Missing
  PROVE  Untouched(p) /\ ~sync!InCommon(p)
<1>1. sync!Other(r) \in sync!Side /\ \A s \in sync!Side : s = r \/ s = sync!Other(r)
  BY OtherSide
<1>2. tree[r][p].kind # "none" /\ tree[sync!Other(r)][p].kind = "none"
  BY <1>1, SidesOK, KindOf
<1>3. ~Even(p)
  BY <1>1, <1>2 DEF Even, Like, sync!Side
<1>4. Untouched(p)
  BY <1>3 DEF Sound
<1> QED
  BY <1>1, <1>4 DEF Untouched, sync!InCommon

\* What is created is what both sides should have.
LEMMA CreatedRight ==
  ASSUME sync!TypeOK, OriginOK, NEW p \in Paths, NEW r \in sync!Side, Untouched(p),
         tree[r][p] # sync!Missing, tree[sync!Other(r)][p] = sync!Missing,
         r = option.from \/ option.both, ~option.skipCreate, ~sync!Passed(p)
  PROVE  \A s \in sync!Side : Like(tree[r][p], sync!Model(p, s))
<1>1. /\ sync!Other(r) \in sync!Side /\ \A s \in sync!Side : s = r \/ s = sync!Other(r)
  BY OtherSide
<1>2. before[r][p] = tree[r][p] /\ before[sync!Other(r)][p] = tree[sync!Other(r)][p]
  BY <1>1 DEF Untouched
<1>3. sync!Model(p, r) = before[r][p] /\ sync!Model(p, sync!Other(r)) = before[r][p]
  BY <1>2, ModelAlone
<1> QED
  BY <1>1, <1>2, <1>3 DEF Like

\* Where nothing is created, what one side has alone stays alone.
LEMMA AloneResolved ==
  ASSUME sync!TypeOK, OriginOK, NEW p \in Paths, NEW r \in sync!Side, Sound(p), p \notin broken,
         tree[r][p] # sync!Missing, tree[sync!Other(r)][p] = sync!Missing,
         IF r = option.from \/ option.both THEN option.skipCreate ELSE ~option.delete
  PROVE  Resolved(p)
<1>1. /\ sync!Other(r) \in sync!Side /\ \A s \in sync!Side : s = r \/ s = sync!Other(r)
      /\ option.from \in sync!Side /\ sync!Other(sync!Other(r)) = r
  BY OtherSide, SidesOK
<1>2. before[r][p] = tree[r][p] /\ before[sync!Other(r)][p] = tree[sync!Other(r)][p]
  BY <1>1, AloneUntouched DEF Untouched
<1>3. CASE r = option.from \/ option.both
  <2>1. sync!Model(p, r) = before[r][p] /\ sync!Model(p, sync!Other(r)) = sync!Missing
    BY <1>2, <1>3, ModelAlone
  <2> QED
    BY <1>1, <1>2, <2>1 DEF Resolved, Like
<1>4. CASE ~(r = option.from \/ option.both)
  <2>1. sync!Other(r) = option.from /\ sync!Other(option.from) = r
    BY <1>1, <1>4
  <2>2. sync!Model(p, option.from) = sync!Missing /\ sync!Model(p, r) = before[r][p]
    BY <1>2, <1>4, <2>1, ModelMissed
  <2> QED
    BY <1>1, <1>2, <2>1, <2>2 DEF Resolved, Like
<1> QED
  BY <1>3, <1>4

\* What neither side has is to be nowhere, and folders on both sides stay.
LEMMA EvenResolved ==
  ASSUME sync!TypeOK, OriginOK, NEW p \in Paths, Sound(p), p \notin broken,
         \/ \A s \in sync!Side : tree[s][p] = sync!Missing
         \/ \A s \in sync!Side : tree[s][p] = sync!Dir
  PROVE  Resolved(p)
<1>1. CASE Untouched(p)
  <2>1. CASE \A s \in sync!Side : tree[s][p] = sync!Missing
    BY <1>1, <2>1, ModelPassed DEF Untouched, Resolved, Like
  <2>2. CASE \A s \in sync!Side : tree[s][p] = sync!Dir
    BY <1>1, <2>2, ModelFolders DEF Untouched, Resolved, Like
  <2> QED
    BY <2>1, <2>2
<1> QED
  BY <1>1 DEF Sound

\* What the source lacks is to be nowhere where the target's own is removed.
LEMMA RemovedRight ==
  ASSUME sync!TypeOK, OriginOK, NEW p \in Paths, Sound(p), p \notin broken,
         tree[option.from][p] = sync!Missing, ~option.both, option.delete, ~sync!Passed(p)
  PROVE  \A s \in sync!Side : Like(sync!Missing, sync!Model(p, s))
<1>1. /\ option.from \in sync!Side /\ sync!Other(option.from) \in sync!Side
      /\ \A s \in sync!Side : s = option.from \/ s = sync!Other(option.from)
  BY OtherSide, SidesOK
<1>2. CASE Untouched(p)
  <2>1. before[option.from][p] = sync!Missing
    BY <1>1, <1>2 DEF Untouched
  <2> QED
    BY <1>1, <2>1, ModelMissed DEF Like
<1>3. CASE Resolved(p) /\ Even(p)
  <2>1. \A s \in sync!Side : Like(tree[s][p], sync!Missing)
    BY <1>1, <1>3 DEF Even, Like, sync!Side
  <2> QED
    BY <1>3, <2>1 DEF Resolved, Like
<1> QED
  BY <1>2, <1>3 DEF Sound

\* The decision about a file that both sides have.
LEMMA ComparedRight ==
  ASSUME sync!TypeOK, OriginOK, NEW p \in Paths, Sound(p), p \notin broken, ~sync!Passed(p),
         tree[option.from][p].kind = "file",
         tree[sync!Other(option.from)][p].kind # "none"
  PROVE  /\ sync!Changed(p) =>
              \A s \in sync!Side :
                Like(tree[sync!Other(sync!Receiver(p))][p], sync!Model(p, s))
         /\ ~sync!Changed(p) => Resolved(p)
<1>1. CASE Untouched(p)
  BY <1>1, Decided
<1>2. CASE Resolved(p) /\ Even(p)
  <2>1. sync!Other(sync!Receiver(p)) \in sync!Side
    BY SidesOK, OtherSide DEF sync!Receiver
  <2>2. \A r, s \in sync!Side : Like(tree[r][p], sync!Model(p, s))
    BY <1>2 DEF Resolved, Even, Like, sync!Side
  <2> QED
    BY <1>2, <2>1, <2>2
<1> QED
  BY <1>1, <1>2 DEF Sound

\* A file whose place is taken by a folder is always to be transferred.
LEMMA BlockedChanged ==
  ASSUME sync!TypeOK, OriginOK, NEW p \in Paths, Sound(p), ~sync!Passed(p),
         tree[option.from][p].kind = "file", tree[sync!Other(option.from)][p].kind = "dir"
  PROVE  sync!Changed(p) /\ sync!Receiver(p) = sync!Other(option.from)
<1>1. option.from \in sync!Side /\ sync!Other(option.from) \in sync!Side
  BY SidesOK, OtherSide
<1>2. ~Even(p)
  BY <1>1, OtherSide DEF Even, Like, sync!Side
<1>3. ~NoFolder(p)
  BY <1>1 DEF NoFolder
<1>4. Untouched(p)
  BY <1>2, <1>3 DEF Sound
<1> QED
  BY <1>4, Decided

\* A step that leaves the options and the first trees alone leaves the reference alone.
LEMMA ModelFixed ==
  ASSUME UNCHANGED <<option, before>>
  PROVE  /\ \A p \in Paths, s \in sync!Side : sync!Model(p, s)' = sync!Model(p, s)
         /\ \A p \in Paths : sync!Passed(p)' <=> sync!Passed(p)
         /\ OriginOK => OriginOK'
<1>1. \A p \in Paths : sync!Passed(p)' <=> sync!Passed(p)
  BY DEF sync!Passed, sync!InCommon
<1>2. \A p \in Paths : /\ sync!Kept(p)' <=> sync!Kept(p)
                       /\ sync!Newest(p)' = sync!Newest(p)
  BY <1>1 DEF sync!Kept, sync!InCommon, sync!Known, sync!Newest
<1>3. \A p \in Paths, s \in sync!Side : sync!Model(p, s)' = sync!Model(p, s)
  BY <1>1, <1>2 DEF sync!Model
<1>4. OriginOK => OriginOK'
  BY DEF OriginOK
<1> QED
  BY <1>1, <1>3, <1>4
-------------------------------------------------------------------------------
(* _sync of one directory.                                                  *)

\* What the comparison of a directory removes: it lies at or below something only the target has.
Gone(d, p) == sync!Upto(p) \intersect sync!Missed(d) # {}

\* A removed path has a part of it only the target has, and the options say so.
LEMMA MissedFacts ==
  ASSUME sync!TypeOK, OriginOK, NEW d, NEW p \in Paths, Gone(d, p)
  PROVE  /\ ~option.both /\ option.delete /\ tree[option.from][p] = sync!Missing
         /\ \E c \in sync!Upto(p) : /\ c \in Paths /\ ParentOf[c] = d
                                    /\ tree[option.from][c] = sync!Missing
                                    /\ tree[sync!Other(option.from)][c] # sync!Missing
<1>1. PICK c \in sync!Upto(p) : c \in sync!Missed(d)
  BY DEF Gone
<1>2. option.from \in sync!Side /\ sync!Other(sync!Other(option.from)) = option.from
  BY SidesOK, OtherSide
<1>3. /\ ~option.both /\ option.delete /\ c \in Paths /\ ParentOf[c] = d
      /\ tree[sync!Other(option.from)][c] # sync!Missing /\ tree[option.from][c] = sync!Missing
  BY <1>1, <1>2 DEF sync!Missed, sync!Only, sync!Children
<1>4. tree[option.from][p] = sync!Missing
  <2>1. CASE c = p
    BY <1>3, <2>1
  <2>2. CASE c \in Ancestors[p]
    <3>1. sync!Missing # sync!Dir
      BY DEF sync!Missing, sync!Dir
    <3> QED
      BY <1>2, <1>3, <2>2, <3>1, SidesOK
  <2> QED
    BY <2>1, <2>2 DEF sync!Upto
<1> QED
  BY <1>3, <1>4

\* What the comparison of a directory does to the trees, which stay trees.
LEMMA CompareTree ==
  ASSUME sync!TypeOK, OriginOK, ScanOK, NEW e \in scan, sync!Compare(e)
  PROVE  /\ progress = "sync" /\ UNCHANGED <<option, before, broken, progress>>
         /\ e.how = "sync" /\ e.to = sync!Other(option.from)
         /\ \A p \in Paths :
              /\ tree'[option.from][p] = tree[option.from][p]
              /\ ~Gone(e.dir, p) => tree'[e.to][p] = tree[e.to][p]
              /\ Gone(e.dir, p) => tree'[e.to][p] = sync!Missing
         /\ tree' \in [sync!Side -> [Paths -> sync!Entry]]
         /\ \A s \in sync!Side : sync!IsTree(tree'[s])
         /\ e.dir = Top \/ (e.dir \in Paths /\ \A s \in sync!Side : tree[s][e.dir] = sync!Dir)
<1> DEFINE F == option.from
           T == sync!Other(F)
           d == e.dir
<1>1. /\ F \in sync!Side /\ T \in sync!Side /\ F # T /\ \A s \in sync!Side : s = F \/ s = T
  BY SidesOK, OtherSide
<1>2. /\ progress = "sync" /\ UNCHANGED <<option, before, broken, progress>> /\ e.how = "sync"
      /\ tree' = [tree EXCEPT ![T] = sync!Cut(@, sync!Missed(d))] /\ sync!Enters(d, T)
  BY DEF sync!Compare
<1>3. tree \in [sync!Side -> [Paths -> sync!Entry]]
  BY DEF sync!TypeOK
<1>4. e.to = T
  BY <1>2 DEF ScanOK
<1>5. /\ tree'[F] = tree[F]
      /\ tree'[T] = [p \in Paths |-> IF Gone(d, p) THEN sync!Missing ELSE tree[T][p]]
  BY <1>1, <1>2, <1>3 DEF sync!Cut, Gone
<1>6. sync!Missing \in sync!Entry
  BY DEF sync!Entry
<1>7. tree' \in [sync!Side -> [Paths -> sync!Entry]]
  <2>1. tree'[T] \in [Paths -> sync!Entry] /\ tree'[F] \in [Paths -> sync!Entry]
    BY <1>1, <1>3, <1>5, <1>6
  <2>2. tree' = [s \in sync!Side |-> tree'[s]]
    BY <1>2, <1>3
  <2> QED
    BY <1>1, <2>1, <2>2
<1>8. ASSUME NEW s \in sync!Side PROVE sync!IsTree(tree'[s])
  <2>1. CASE s = F
    BY <1>1, <1>5, <2>1 DEF sync!TypeOK
  <2>2. CASE s = T
    <3>1. ASSUME NEW p \in Paths, tree'[T][p] # sync!Missing, NEW q \in Ancestors[p]
          PROVE  tree'[T][q] = sync!Dir
      <4>1. ~Gone(d, p) /\ tree[T][p] # sync!Missing /\ q \in Paths
        BY <1>5, <3>1, AboveClimbs
      <4>2. sync!Upto(q) \subseteq sync!Upto(p)
        BY AboveTransitive DEF sync!Upto
      <4>3. ~Gone(d, q)
        BY <4>1, <4>2 DEF Gone
      <4>4. tree[T][q] = sync!Dir
        BY <1>1, <4>1, SidesOK
      <4> QED
        BY <1>5, <4>1, <4>3, <4>4
    <3> QED
      BY <2>2, <3>1 DEF sync!IsTree
  <2> QED
    BY <1>1, <2>1, <2>2
<1>9. d = Top \/ (d \in Paths /\ \A s \in sync!Side : tree[s][d] = sync!Dir)
  <2>1. CASE d # Top
    <3>1. tree[F][d] = sync!Dir /\ tree[T][d] # sync!Missing /\ d \in Paths
      BY <1>2, <1>4, <2>1 DEF ScanOK, sync!TypeOK
    <3>2. tree[T][d].kind # "file"
      BY <1>2, <2>1 DEF sync!Enters
    <3>3. tree[T][d] = sync!Dir
      BY <1>1, <3>1, <3>2, SidesOK, KindOf
    <3> QED
      BY <1>1, <3>1, <3>3
  <2> QED
    BY <2>1
<1> QED
  BY <1>1, <1>2, <1>4, <1>5, <1>7, <1>8, <1>9

\* What the comparison of a directory lists.
LEMMA Listed ==
  ASSUME NEW d, NEW p
  PROVE  /\ p \in sync!Compared(d) <=>
              /\ p \in Paths /\ ParentOf[p] = d /\ ~option.ignoreExisting
              /\ \A s \in sync!Side : tree[s][p] # sync!Missing
         /\ \A s \in sync!Side :
              p \in sync!Created(d, s) <=>
                /\ p \in Paths /\ ParentOf[p] = d /\ ~option.skipCreate
                /\ s = option.from \/ option.both
                /\ tree[s][p] # sync!Missing /\ tree[sync!Other(s)][p] = sync!Missing
BY DEF sync!Compared, sync!Common, sync!Created, sync!Only, sync!Children

\* What it collects and what it leaves to be compared or copied.
LEMMA CompareLists ==
  ASSUME NEW e \in scan, sync!Compare(e)
  PROVE  /\ \A t : t \in tasks' <=>
              \/ t \in tasks
              \/ \E p \in sync!Compared(e.dir) :
                   sync!Changed(p) /\ t = sync!Transfer(p, sync!Receiver(p))
              \/ \E s \in sync!Side : \E p \in sync!Created(e.dir, s) :
                   tree[s][p].kind = "file" /\ t = sync!Transfer(p, sync!Other(s))
         /\ \A f : f \in scan' <=>
              \/ f \in scan /\ f # e
              \/ \E p \in sync!Compared(e.dir) :
                   /\ tree[option.from][p].kind = "dir"
                   /\ f = sync!Into(p, sync!Other(option.from), "sync")
              \/ \E s \in sync!Side : \E p \in sync!Created(e.dir, s) :
                   tree[s][p].kind = "dir" /\ f = sync!Into(p, sync!Other(s), "copy")
<1>1. tasks' = tasks \union {sync!Transfer(p, sync!Receiver(p)) :
                               p \in {q \in sync!Compared(e.dir) : sync!Changed(q)}}
                     \union UNION {{sync!Transfer(p, sync!Other(s)) :
                                      p \in sync!OfKind(sync!Created(e.dir, s), s, "file")}
                                     : s \in sync!Side}
  BY DEF sync!Compare
<1>2. scan' = (scan \ {e})
                \union {sync!Into(p, sync!Other(option.from), "sync") :
                          p \in sync!OfKind(sync!Compared(e.dir), option.from, "dir")}
                \union UNION {{sync!Into(p, sync!Other(s), "copy") :
                                 p \in sync!OfKind(sync!Created(e.dir, s), s, "dir")}
                                : s \in sync!Side}
  BY DEF sync!Compare
<1>3. \A S, s, k, p : p \in sync!OfKind(S, s, k) <=> p \in S /\ tree[s][p].kind = k
  BY DEF sync!OfKind
<1>4. ASSUME NEW t
      PROVE  t \in tasks' <=>
               \/ t \in tasks
               \/ \E p \in sync!Compared(e.dir) :
                    sync!Changed(p) /\ t = sync!Transfer(p, sync!Receiver(p))
               \/ \E s \in sync!Side : \E p \in sync!Created(e.dir, s) :
                    tree[s][p].kind = "file" /\ t = sync!Transfer(p, sync!Other(s))
  BY <1>1, <1>3
<1>5. ASSUME NEW f
      PROVE  f \in scan' <=>
               \/ f \in scan /\ f # e
               \/ \E p \in sync!Compared(e.dir) :
                    /\ tree[option.from][p].kind = "dir"
                    /\ f = sync!Into(p, sync!Other(option.from), "sync")
               \/ \E s \in sync!Side : \E p \in sync!Created(e.dir, s) :
                    tree[s][p].kind = "dir" /\ f = sync!Into(p, sync!Other(s), "copy")
  BY <1>2, <1>3
<1> QED
  BY <1>4, <1>5

\* A comparison changes nothing that the source has, and nothing at all both ways.
LEMMA CompareKeeps ==
  ASSUME sync!TypeOK, OriginOK, ScanOK, NEW e \in scan, sync!Compare(e), NEW p \in Paths
  PROVE  /\ tree[option.from][p] # sync!Missing =>
              \A s \in sync!Side : tree'[s][p] = tree[s][p]
         /\ option.both => \A s \in sync!Side : tree'[s][p] = tree[s][p]
         /\ \A s \in sync!Side : tree[s][p] = sync!Missing => tree'[s][p] = sync!Missing
<1>1. \A s \in sync!Side : s = option.from \/ s = sync!Other(option.from)
  BY SidesOK, OtherSide
<1>2. /\ tree'[option.from][p] = tree[option.from][p]
      /\ ~Gone(e.dir, p) => tree'[sync!Other(option.from)][p] = tree[sync!Other(option.from)][p]
      /\ Gone(e.dir, p) => tree'[sync!Other(option.from)][p] = sync!Missing
  BY CompareTree
<1>3. Gone(e.dir, p) => ~option.both /\ tree[option.from][p] = sync!Missing
  BY MissedFacts
<1> QED
  BY <1>1, <1>2, <1>3

\* A path that a folder is above of, or an entry, is there with the folders it lies in.
LEMMA ParentThere ==
  ASSUME sync!TypeOK, OriginOK, NEW s \in sync!Side, NEW p \in Paths, tree[s][p] # sync!Missing
  PROVE  ParentOf[p] = Top \/ (ParentOf[p] \in Paths /\ tree[s][ParentOf[p]] = sync!Dir)
<1>1. CASE ParentOf[p] # Top
  <2>1. ParentOf[p] \in Paths /\ ParentOf[p] \in Ancestors[p]
    BY <1>1, AboveParent DEF sync!Upto
  <2> QED
    BY <2>1, SidesOK
<1> QED
  BY <1>1

\* Comparing a directory leaves both sides trees, and what is still to do in order.
LEMMA CompareStructure ==
  ASSUME sync!TypeOK, OriginOK, ScanOK, TasksOK, NEW e \in scan, sync!Compare(e)
  PROVE  (sync!TypeOK /\ OriginOK /\ ScanOK /\ TasksOK /\ PhaseOK)'
<1> DEFINE F == option.from
           T == sync!Other(F)
           d == e.dir
<1>1. /\ F \in sync!Side /\ T \in sync!Side /\ F # T /\ sync!Other(T) = F
      /\ \A s \in sync!Side : s = F \/ s = T
      /\ \A s \in sync!Side : sync!Other(s) \in sync!Side /\ sync!Other(sync!Other(s)) = s
  BY SidesOK, OtherSide
<1>2. /\ progress = "sync" /\ UNCHANGED <<option, before, broken, progress>>
      /\ tree' \in [sync!Side -> [Paths -> sync!Entry]]
      /\ \A s \in sync!Side : sync!IsTree(tree'[s])
      /\ d = Top \/ (d \in Paths /\ \A s \in sync!Side : tree[s][d] = sync!Dir)
  BY CompareTree
<1>3. \A p \in Paths : /\ tree[F][p] # sync!Missing =>
                            \A s \in sync!Side : tree'[s][p] = tree[s][p]
                       /\ option.both => \A s \in sync!Side : tree'[s][p] = tree[s][p]
                       /\ \A s \in sync!Side : tree[s][p] = sync!Missing => tree'[s][p] = sync!Missing
  BY CompareKeeps
<1>4. Top \notin Paths /\ sync!Dir # sync!Missing /\ \A p \in Paths : ParentOf[p] \in Paths \union {Top}
  BY SyncAssumption DEF sync!PlanAssumption, sync!Dir, sync!Missing
<1>5. \A p \in Paths, s \in sync!Side : /\ tree[s][p].kind = "dir" => tree[s][p] = sync!Dir
                                        /\ tree[s][p].kind = "file" => tree[s][p] # sync!Missing
                                        /\ tree[s][p].kind = "file" => tree[s][p] # sync!Dir
  BY SidesOK, KindOf
<1>6. \A s \in sync!Side : d = Top \/ tree'[s][d] = sync!Dir
  BY <1>1, <1>2, <1>3, <1>4
<1>7. OriginOK' /\ PhaseOK'
  BY <1>2, ModelFixed DEF PhaseOK
<1>8. sync!TypeOK'
  <2>1. tasks' \subseteq [path : Paths, to : sync!Side]
    <3> SUFFICES ASSUME NEW t \in tasks' PROVE t \in [path : Paths, to : sync!Side]
      OBVIOUS
    <3>1. CASE t \in tasks
      BY <3>1 DEF sync!TypeOK
    <3>2. ASSUME NEW p \in sync!Compared(d), t = sync!Transfer(p, sync!Receiver(p))
          PROVE  t \in [path : Paths, to : sync!Side]
      BY <1>1, <3>2, Listed DEF sync!Transfer, sync!Receiver
    <3>3. ASSUME NEW s \in sync!Side, NEW p \in sync!Created(d, s),
                 t = sync!Transfer(p, sync!Other(s))
          PROVE  t \in [path : Paths, to : sync!Side]
      BY <1>1, <3>3, Listed DEF sync!Transfer
    <3> QED
      BY <3>1, <3>2, <3>3, CompareLists
  <2>2. scan' \subseteq [dir : Paths \union {Top}, how : {"sync", "copy"}, to : sync!Side]
    <3> SUFFICES ASSUME NEW f \in scan'
                 PROVE  f \in [dir : Paths \union {Top}, how : {"sync", "copy"}, to : sync!Side]
      OBVIOUS
    <3>1. CASE f \in scan
      BY <3>1 DEF sync!TypeOK
    <3>2. ASSUME NEW p \in sync!Compared(d), f = sync!Into(p, T, "sync")
          PROVE  f \in [dir : Paths \union {Top}, how : {"sync", "copy"}, to : sync!Side]
      BY <1>1, <3>2, Listed DEF sync!Into
    <3>3. ASSUME NEW s \in sync!Side, NEW p \in sync!Created(d, s),
                 f = sync!Into(p, sync!Other(s), "copy")
          PROVE  f \in [dir : Paths \union {Top}, how : {"sync", "copy"}, to : sync!Side]
      BY <1>1, <3>3, Listed DEF sync!Into
    <3> QED
      BY <3>1, <3>2, <3>3, CompareLists
  <2> QED
    BY <1>2, <2>1, <2>2 DEF sync!TypeOK
<1>9. ScanOK'
  <2> SUFFICES ASSUME NEW f \in scan'
               PROVE  /\ f.how = "sync" =>
                           /\ f.to = T /\ f.dir # Top /\ tree'[F][f.dir] = sync!Dir
                           /\ tree'[f.to][f.dir] # sync!Missing /\ ~option.ignoreExisting
                      /\ f.how = "copy" =>
                           /\ f.dir # Top /\ tree'[sync!Other(f.to)][f.dir] = sync!Dir
                           /\ tree'[f.to][f.dir] = sync!Missing /\ Entered(f)'
                           /\ ~option.skipCreate /\ (f.to = F => option.both)
    BY <1>2 DEF ScanOK
  <2>1. CASE f \in scan /\ f # e
    <3>1. f.dir \in Paths \union {Top} /\ f.to \in sync!Side
      BY <2>1 DEF sync!TypeOK
    <3>2. CASE f.how = "sync"
      <4>1. /\ f.to = T /\ f.dir # Top /\ tree[F][f.dir] = sync!Dir
            /\ tree[f.to][f.dir] # sync!Missing /\ ~option.ignoreExisting
        BY <2>1, <3>2 DEF ScanOK
      <4> QED
        BY <1>1, <1>3, <1>4, <3>1, <3>2, <4>1
    <3>3. CASE f.how = "copy"
      <4>1. /\ f.dir # Top /\ tree[sync!Other(f.to)][f.dir] = sync!Dir
            /\ tree[f.to][f.dir] = sync!Missing /\ Entered(f)
            /\ ~option.skipCreate /\ (f.to = F => option.both)
        BY <2>1, <3>3 DEF ScanOK
      <4>2. tree'[sync!Other(f.to)][f.dir] = sync!Dir /\ tree'[f.to][f.dir] = sync!Missing
        BY <1>1, <1>3, <1>4, <3>1, <4>1
      <4>3. Entered(f)'
        <5>1. CASE ParentOf[f.dir] = Top
          BY <5>1 DEF Entered
        <5>2. CASE ParentOf[f.dir] # Top
          <6>1. ParentOf[f.dir] \in Paths /\ tree[sync!Other(f.to)][ParentOf[f.dir]] = sync!Dir
            BY <1>1, <1>4, <3>1, <4>1, <5>2, ParentThere
          <6>2. tree[f.to][ParentOf[f.dir]] = sync!Dir
            BY <4>1, <5>2 DEF Entered
          <6>3. tree'[f.to][ParentOf[f.dir]] = sync!Dir
            BY <1>1, <1>3, <1>4, <3>1, <4>1, <6>1, <6>2
          <6> QED
            BY <6>3 DEF Entered
        <5> QED
          BY <5>1, <5>2
      <4> QED
        BY <3>3, <4>1, <4>2, <4>3
    <3> QED
      BY <3>2, <3>3
  <2>2. ASSUME NEW p \in sync!Compared(d), tree[F][p].kind = "dir", f = sync!Into(p, T, "sync")
        PROVE  /\ f.how = "sync" /\ f.to = T /\ f.dir # Top /\ tree'[F][f.dir] = sync!Dir
               /\ tree'[f.to][f.dir] # sync!Missing /\ ~option.ignoreExisting
    <3>1. f.dir = p /\ f.to = T /\ f.how = "sync"
      BY <2>2 DEF sync!Into
    <3>2. /\ p \in Paths /\ ~option.ignoreExisting /\ tree[T][p] # sync!Missing
          /\ tree[F][p] = sync!Dir
      BY <1>1, <1>5, <2>2, Listed
    <3> QED
      BY <1>1, <1>3, <1>4, <3>1, <3>2
  <2>3. ASSUME NEW s \in sync!Side, NEW p \in sync!Created(d, s), tree[s][p].kind = "dir",
               f = sync!Into(p, sync!Other(s), "copy")
        PROVE  /\ f.how = "copy" /\ f.dir # Top /\ tree'[sync!Other(f.to)][f.dir] = sync!Dir
               /\ tree'[f.to][f.dir] = sync!Missing /\ Entered(f)'
               /\ ~option.skipCreate /\ (f.to = F => option.both)
    <3>1. f.dir = p /\ f.to = sync!Other(s) /\ f.how = "copy"
      BY <2>3 DEF sync!Into
    <3>2. /\ p \in Paths /\ ParentOf[p] = d /\ ~option.skipCreate /\ (s = F \/ option.both)
          /\ tree[s][p] = sync!Dir /\ tree[sync!Other(s)][p] = sync!Missing
      BY <1>5, <2>3, Listed
    <3>3. Entered(f)'
      BY <1>1, <1>6, <3>1, <3>2 DEF Entered
    <3>4. f.to = F => option.both
      BY <1>1, <3>1, <3>2
    <3> QED
      BY <1>1, <1>3, <1>4, <3>1, <3>2, <3>3, <3>4
  <2>4. \/ f \in scan /\ f # e
        \/ \E p \in sync!Compared(d) : tree[F][p].kind = "dir" /\ f = sync!Into(p, T, "sync")
        \/ \E s \in sync!Side : \E p \in sync!Created(d, s) :
             tree[s][p].kind = "dir" /\ f = sync!Into(p, sync!Other(s), "copy")
    BY CompareLists
  <2> QED
    BY <2>1, <2>2, <2>3, <2>4
<1>10. TasksOK'
  <2> SUFFICES ASSUME NEW t \in tasks'
               PROVE  /\ tree'[sync!Other(t.to)][t.path].kind = "file" /\ (t.to = F => option.both)
                      /\ ParentOf[t.path] = Top \/ tree'[t.to][ParentOf[t.path]] = sync!Dir
    BY <1>2 DEF TasksOK
  <2>1. CASE t \in tasks
    <3>1. t.path \in Paths /\ t.to \in sync!Side
      BY <2>1 DEF sync!TypeOK
    <3>2. /\ tree[sync!Other(t.to)][t.path].kind = "file" /\ (t.to = F => option.both)
          /\ ParentOf[t.path] = Top \/ tree[t.to][ParentOf[t.path]] = sync!Dir
      BY <2>1 DEF TasksOK
    <3>3. tree'[sync!Other(t.to)][t.path] = tree[sync!Other(t.to)][t.path]
      BY <1>1, <1>3, <1>5, <3>1, <3>2
    <3>4. CASE ParentOf[t.path] # Top
      <4>1. /\ ParentOf[t.path] \in Paths
            /\ tree[sync!Other(t.to)][ParentOf[t.path]] = sync!Dir
        BY <1>1, <1>5, <3>1, <3>2, <3>4, ParentThere
      <4> QED
        BY <1>1, <1>3, <1>4, <3>1, <3>2, <3>3, <3>4, <4>1
    <3> QED
      BY <3>2, <3>3, <3>4
  <2>2. ASSUME NEW p \in sync!Compared(d), sync!Changed(p),
               t = sync!Transfer(p, sync!Receiver(p))
        PROVE  /\ tree'[sync!Other(t.to)][t.path].kind = "file" /\ (t.to = F => option.both)
               /\ ParentOf[t.path] = Top \/ tree'[t.to][ParentOf[t.path]] = sync!Dir
    <3>1. t.path = p /\ t.to = sync!Receiver(p)
      BY <2>2 DEF sync!Transfer
    <3>2. p \in Paths /\ ParentOf[p] = d /\ tree[F][p].kind = "file"
      BY <2>2, Listed DEF sync!Changed
    <3>3. \A s \in sync!Side : tree'[s][p] = tree[s][p]
      BY <1>1, <1>3, <1>5, <3>2
    <3>4. /\ sync!Receiver(p) \in sync!Side
          /\ sync!Receiver(p) = F => option.both /\ tree[T][p].time > tree[F][p].time
      BY <1>1 DEF sync!Receiver
    <3>5. tree[sync!Other(sync!Receiver(p))][p].kind = "file"
      <4>1. CASE sync!Receiver(p) = F
        <5>1. tree[T][p] \in sync!Entry /\ tree[F][p] \in sync!Entry
          BY <1>1, <3>2, SidesOK
        <5>2. tree[T][p].time > 0
          BY <3>4, <4>1, <5>1, KindOf
        <5> QED
          BY <1>1, <4>1, <5>1, <5>2, KindOf
      <4> QED
        BY <1>1, <3>2, <3>4, <4>1
    <3> QED
      BY <1>1, <1>6, <3>1, <3>2, <3>3, <3>4, <3>5
  <2>3. ASSUME NEW s \in sync!Side, NEW p \in sync!Created(d, s), tree[s][p].kind = "file",
               t = sync!Transfer(p, sync!Other(s))
        PROVE  /\ tree'[sync!Other(t.to)][t.path].kind = "file" /\ (t.to = F => option.both)
               /\ ParentOf[t.path] = Top \/ tree'[t.to][ParentOf[t.path]] = sync!Dir
    <3>1. t.path = p /\ t.to = sync!Other(s)
      BY <2>3 DEF sync!Transfer
    <3>2. p \in Paths /\ ParentOf[p] = d /\ (s = F \/ option.both)
      BY <2>3, Listed
    <3>3. tree'[s][p] = tree[s][p]
      BY <1>1, <1>3, <1>5, <2>3, <3>2
    <3>4. (t.to = F => option.both) /\ sync!Other(t.to) = s
      BY <1>1, <3>1, <3>2
    <3> QED
      BY <1>1, <1>6, <2>3, <3>1, <3>2, <3>3, <3>4
  <2>4. \/ t \in tasks
        \/ \E p \in sync!Compared(d) :
             sync!Changed(p) /\ t = sync!Transfer(p, sync!Receiver(p))
        \/ \E s \in sync!Side : \E p \in sync!Created(d, s) :
             tree[s][p].kind = "file" /\ t = sync!Transfer(p, sync!Other(s))
    BY CompareLists
  <2> QED
    BY <2>1, <2>2, <2>3, <2>4
<1> QED
  BY <1>7, <1>8, <1>9, <1>10

\* A path that a step leaves alone stays sound, and resolved.
LEMMA PathKept ==
  ASSUME UNCHANGED <<option, before>>, broken \subseteq broken',
         NEW p \in Paths, \A s \in sync!Side : tree'[s][p] = tree[s][p]
  PROVE  /\ Sound(p) => Sound(p)'
         /\ Resolved(p) => Resolved(p)'
         /\ Untouched(p) => Untouched(p)'
<1>1. Untouched(p) => Untouched(p)'
  BY DEF Untouched, sync!Side
<1>2. Resolved(p) => Resolved(p)'
  BY ModelFixed DEF Resolved, sync!Side
<1>3. (Even(p) => Even(p)') /\ (NoFolder(p) => NoFolder(p)')
  BY DEF Even, NoFolder, sync!Side
<1> QED
  BY <1>1, <1>2, <1>3 DEF Sound

\* What a comparison removes is not passed by.
LEMMA GoneNotPassed ==
  ASSUME sync!TypeOK, OriginOK, ScanOK, CourseOK, NEW e \in scan, sync!Compare(e),
         NEW p \in Paths, Gone(e.dir, p)
  PROVE  ~sync!Passed(p)
<1>1. SUFFICES ASSUME option.ignoreExisting, NEW q \in sync!Upto(p), sync!InCommon(q) PROVE FALSE
  BY DEF sync!Passed
<1>2. broken = {} /\ e.dir = Top /\ e.how = "sync"
  BY <1>1, CompareTree DEF CourseOK, ScanOK
<1>3. PICK c \in sync!Upto(p) : /\ c \in Paths /\ ParentOf[c] = Top
                                /\ tree[option.from][c] = sync!Missing
                                /\ tree[sync!Other(option.from)][c] # sync!Missing
  BY <1>2, MissedFacts
<1>4. /\ option.from \in sync!Side /\ sync!Other(option.from) \in sync!Side
      /\ sync!Other(sync!Other(option.from)) = option.from
  BY SidesOK, OtherSide
<1>5. Untouched(c) /\ ~sync!InCommon(c)
  <2>1. Sound(c) /\ c \notin broken
    BY <1>2, <1>3 DEF CourseOK
  <2>2. ASSUME NEW r \in sync!Side, r = sync!Other(option.from), sync!Other(r) = option.from
        PROVE  Untouched(c) /\ ~sync!InCommon(c)
    BY <1>3, <2>1, <2>2, AloneUntouched
  <2> QED
    BY <1>4, <2>2
<1>6. before[option.from][c] = sync!Missing /\ sync!Missing # sync!Dir
  BY <1>3, <1>4, <1>5 DEF Untouched, sync!Missing, sync!Dir
<1>7. c \in sync!Upto(q) /\ q \in Paths
  BY <1>3, AboveClimbs, BelowFirst
<1>8. before[option.from][q] # sync!Missing
  BY <1>1, <1>4 DEF sync!InCommon
<1> QED
  BY <1>3, <1>4, <1>6, <1>7, <1>8, SidesOK DEF sync!Upto

\* What a comparison creates is not passed by.
LEMMA CreatedNotPassed ==
  ASSUME sync!TypeOK, OriginOK, ScanOK, CourseOK, NEW e \in scan, sync!Compare(e),
         NEW s \in sync!Side, NEW p \in sync!Created(e.dir, s)
  PROVE  ~sync!Passed(p)
<1>1. CASE option.ignoreExisting
  <2>1. broken = {} /\ e.dir = Top /\ e.how = "sync"
    BY <1>1, CompareTree DEF CourseOK, ScanOK
  <2>2. /\ p \in Paths /\ ParentOf[p] = e.dir
        /\ tree[s][p] # sync!Missing /\ tree[sync!Other(s)][p] = sync!Missing
    BY Listed
  <2>3. ~sync!InCommon(p)
    BY <2>1, <2>2, AloneUntouched DEF CourseOK
  <2> QED
    BY <2>1, <2>2, <2>3, PassedDown
<1>2. CASE ~option.ignoreExisting
  BY <1>2 DEF sync!Passed
<1> QED
  BY <1>1, <1>2

\* What a comparison removes is to be nowhere, and what is resolved stays so.
LEMMA CompareResolved ==
  ASSUME sync!TypeOK, OriginOK, ScanOK, CourseOK, NEW e \in scan, sync!Compare(e), NEW p \in Paths
  PROVE  /\ Gone(e.dir, p) => \A s \in sync!Side : tree'[s][p] = sync!Missing
         /\ p \notin broken /\ (Gone(e.dir, p) \/ Resolved(p)) => Resolved(p)'
         /\ ~Gone(e.dir, p) => \A s \in sync!Side : tree'[s][p] = tree[s][p]
<1>1. /\ \A s \in sync!Side : s = option.from \/ s = sync!Other(option.from)
      /\ option.from \in sync!Side
  BY SidesOK, OtherSide
<1>2. /\ UNCHANGED <<option, before, broken>>
      /\ tree'[option.from][p] = tree[option.from][p]
      /\ ~Gone(e.dir, p) => tree'[sync!Other(option.from)][p] = tree[sync!Other(option.from)][p]
      /\ Gone(e.dir, p) => tree'[sync!Other(option.from)][p] = sync!Missing
  BY CompareTree
<1>3. ASSUME Gone(e.dir, p) PROVE \A s \in sync!Side : tree'[s][p] = sync!Missing
  BY <1>1, <1>2, <1>3, MissedFacts
<1>4. ASSUME Gone(e.dir, p), p \notin broken PROVE Resolved(p)'
  <2>1. ~option.both /\ option.delete /\ tree[option.from][p] = sync!Missing /\ ~sync!Passed(p)
    BY <1>4, MissedFacts, GoneNotPassed
  <2>2. \A s \in sync!Side : Like(sync!Missing, sync!Model(p, s))
    BY <1>4, <2>1, RemovedRight DEF CourseOK
  <2>3. \A s \in sync!Side : Like(tree'[s][p], sync!Model(p, s)')
    BY <1>2, <1>3, <1>4, <2>2, ModelFixed
  <2> QED
    BY <2>3 DEF Resolved, sync!Side
<1>5. ~Gone(e.dir, p) => \A s \in sync!Side : tree'[s][p] = tree[s][p]
  BY <1>1, <1>2
<1> QED
  BY <1>2, <1>3, <1>4, <1>5, PathKept

\* Every path below the directory compared is resolved or awaited then.
LEMMA CompareBelow ==
  ASSUME sync!TypeOK, OriginOK, ScanOK, TasksOK, CourseOK, NEW e \in scan, sync!Compare(e),
         NEW p \in Paths, p \notin broken, Within(e.dir, p)
  PROVE  (Resolved(p) \/ Awaited(p))'
<1> DEFINE F == option.from
           T == sync!Other(F)
           d == e.dir
<1>1. /\ F \in sync!Side /\ T \in sync!Side /\ F # T /\ sync!Other(T) = F
      /\ \A s \in sync!Side : s = F \/ s = T
      /\ sync!Dir # sync!Missing
      /\ Sound(p)
  BY SidesOK, OtherSide DEF CourseOK, sync!Dir, sync!Missing
<1>2. SUFFICES ASSUME ~Resolved(p) PROVE (Resolved(p) \/ Awaited(p))'
  BY CompareResolved
<1>3. /\ e.how = "sync" /\ (d = Top \/ (d \in Paths /\ \A s \in sync!Side : tree[s][d] = sync!Dir))
      /\ (d # Top => ~option.ignoreExisting)
  BY CompareTree DEF ScanOK
<1>4. d = Top \/ d \in Ancestors[p]
  <2>1. ASSUME d # Top, d = p PROVE FALSE
    BY <1>1, <1>2, <1>3, <2>1, EvenResolved
  <2> QED
    BY <2>1 DEF Within, sync!Upto
<1>5. PICK c \in sync!Upto(p) : c \in Paths /\ ParentOf[c] = d
  BY <1>4, ChildTowards
<1>6. c = p \/ c \in Ancestors[p]
  BY <1>5 DEF sync!Upto
<1>7. /\ \A s \in sync!Side : /\ tree[s][c] \in sync!Entry
                              /\ tree[s][c].kind # "dir" => c = p \/ tree[s][p] = sync!Missing
                              /\ tree[s][c] = sync!Missing => tree[s][p] = sync!Missing
  <2>1. ASSUME NEW s \in sync!Side, tree[s][c].kind # "dir", c # p PROVE tree[s][p] = sync!Missing
    BY <1>5, <1>6, <2>1, SidesOK, KindOf
  <2>2. ASSUME NEW s \in sync!Side, tree[s][c] = sync!Missing PROVE tree[s][p] = sync!Missing
    BY <1>1, <1>5, <1>6, <2>2, SidesOK
  <2> QED
    BY <1>5, <2>1, <2>2, SidesOK
<1>8. ASSUME \A s \in sync!Side : tree[s][p] = sync!Missing PROVE FALSE
  BY <1>1, <1>2, <1>8, EvenResolved
<1>9. CASE \A s \in sync!Side : tree[s][c] # sync!Missing
  <2>1. CASE option.ignoreExisting
    <3>1. (\A q \in Paths : Untouched(q)) \/ (\A q \in Paths : Resolved(q))
      BY <1>3, <2>1 DEF CourseOK
    <3>2. \A q \in Paths : Untouched(q)
      BY <1>2, <3>1
    <3>3. sync!Passed(p)
      BY <1>5, <1>9, <2>1, <3>2 DEF sync!Passed, sync!InCommon, Untouched
    <3>4. Resolved(p)
      BY <3>2, <3>3, ModelPassed DEF Resolved, Untouched, Like
    <3> QED
      BY <1>2, <3>4
  <2>2. CASE ~option.ignoreExisting
    <3>1. c \in sync!Compared(d) /\ ~sync!Passed(c) /\ ~sync!Passed(p)
      BY <1>5, <1>9, <2>2, Listed DEF sync!Passed
    <3>2. tree[F][c].kind \in {"dir", "file"} /\ tree[T][c].kind \in {"dir", "file"}
      BY <1>1, <1>7, <1>9, KindOf
    <3>3. CASE tree[F][c].kind = "dir"
      <4>1. sync!Into(c, T, "sync") \in scan'
        BY <3>1, <3>3, CompareLists
      <4>2. Within(sync!Into(c, T, "sync").dir, p)
        BY <1>5 DEF sync!Into, Within
      <4> QED
        BY <4>1, <4>2 DEF Awaited, Within
    <3>4. CASE tree[F][c].kind = "file" /\ c = p
      <4>1. sync!Changed(p)
        BY <1>1, <1>2, <3>1, <3>2, <3>4, ComparedRight
      <4>2. sync!Transfer(p, sync!Receiver(p)) \in tasks'
        BY <3>1, <3>4, <4>1, CompareLists
      <4>3. sync!Transfer(p, sync!Receiver(p)).path = p
        BY DEF sync!Transfer
      <4> QED
        BY <4>2, <4>3 DEF Awaited
    <3>5. CASE tree[F][c].kind = "file" /\ c # p
      <4>1. tree[T][c].kind = "dir"
        BY <1>1, <1>7, <1>8, <3>2, <3>5
      <4>2. sync!Changed(c) /\ sync!Receiver(c) = T
        BY <1>5, <3>1, <3>5, <4>1, BlockedChanged DEF CourseOK
      <4>3. sync!Transfer(c, T) \in tasks'
        BY <3>1, <4>2, CompareLists
      <4>4. sync!Transfer(c, T).path = c /\ sync!Transfer(c, T).to = T
        BY DEF sync!Transfer
      <4>5. tree'[T][c].kind = "dir"
        BY <1>1, <1>5, <1>9, <4>1, CompareKeeps
      <4>6. c \in Ancestors[p]
        BY <1>6, <3>5
      <4> QED
        BY <4>3, <4>4, <4>5, <4>6 DEF Awaited
    <3> QED
      BY <3>2, <3>3, <3>4, <3>5
  <2> QED
    BY <2>1, <2>2
<1>10. ASSUME NEW s \in sync!Side, s = F \/ option.both,
              tree[s][c] # sync!Missing, tree[sync!Other(s)][c] = sync!Missing
       PROVE  Awaited(p)'
  <2>1. tree[sync!Other(s)][p] = sync!Missing /\ tree[s][p] # sync!Missing
    BY <1>1, <1>7, <1>8, <1>10
  <2>2. ~option.skipCreate
    BY <1>1, <1>2, <1>10, <2>1, AloneResolved
  <2>3. c \in sync!Created(d, s)
    BY <1>5, <1>10, <2>2, Listed
  <2>4. CASE tree[s][c].kind = "dir"
    <3>1. sync!Into(c, sync!Other(s), "copy") \in scan'
      BY <2>3, <2>4, CompareLists
    <3>2. Within(sync!Into(c, sync!Other(s), "copy").dir, p)
      BY <1>5 DEF sync!Into, Within
    <3> QED
      BY <3>1, <3>2 DEF Awaited, Within
  <2>5. CASE tree[s][c].kind # "dir"
    <3>1. c = p /\ tree[s][c].kind = "file"
      BY <1>7, <1>10, <2>1, <2>5, KindOf
    <3>2. sync!Transfer(p, sync!Other(s)) \in tasks'
      BY <2>3, <3>1, CompareLists
    <3>3. sync!Transfer(p, sync!Other(s)).path = p
      BY DEF sync!Transfer
    <3> QED
      BY <3>2, <3>3 DEF Awaited
  <2> QED
    BY <2>4, <2>5
<1>11. CASE ~option.both /\ tree[F][c] = sync!Missing /\ tree[T][c] # sync!Missing
  <2>1. tree[F][p] = sync!Missing /\ tree[T][p] # sync!Missing
    BY <1>1, <1>7, <1>8, <1>11
  <2>2. option.delete
    BY <1>1, <1>2, <1>11, <2>1, AloneResolved
  <2>3. c \in sync!Missed(d)
    BY <1>1, <1>5, <1>11, <2>2 DEF sync!Missed, sync!Only, sync!Children
  <2>4. Gone(d, p)
    BY <1>5, <2>3 DEF Gone
  <2> QED
    BY <2>4, CompareResolved
<1>12. CASE \A s \in sync!Side : tree[s][c] = sync!Missing
  BY <1>7, <1>8, <1>12
<1> QED
  BY <1>1, <1>9, <1>10, <1>11, <1>12

\* Comparing a directory keeps the course.
LEMMA CompareCourse ==
  ASSUME sync!TypeOK, OriginOK, ScanOK, TasksOK, CourseOK, NEW e \in scan, sync!Compare(e)
  PROVE  CourseOK'
<1> DEFINE F == option.from
           T == sync!Other(F)
           d == e.dir
<1>1. /\ F \in sync!Side /\ T \in sync!Side /\ F # T /\ sync!Other(T) = F
      /\ \A s \in sync!Side : s = F \/ s = T
      /\ \A s \in sync!Side : sync!Other(s) \in sync!Side /\ sync!Other(sync!Other(s)) = s
  BY SidesOK, OtherSide
<1>2. /\ progress = "sync" /\ UNCHANGED <<option, before, broken, progress>> /\ e.how = "sync"
  BY CompareTree
<1>3. /\ \A p \in Paths, s \in sync!Side : sync!Model(p, s)' = sync!Model(p, s)
      /\ \A p \in Paths : sync!Passed(p)' <=> sync!Passed(p)
  BY <1>2, ModelFixed
<1>4. \A p \in Paths, s \in sync!Side :
        tree[F][p].kind = "file" \/ (option.both /\ tree[s][p].kind = "file") =>
          \A r \in sync!Side : tree'[r][p] = tree[r][p]
  BY <1>1, CompareKeeps, SidesOK, KindOf
<1>5. \A p \in Paths : Sound(p)'
  <2> SUFFICES ASSUME NEW p \in Paths PROVE Sound(p)'
    BY DEF Sound
  <2>1. CASE ~Gone(d, p)
    BY <1>2, <2>1, CompareResolved, PathKept DEF CourseOK
  <2>2. CASE Gone(d, p)
    <3>1. \A s \in sync!Side : tree'[s][p] = sync!Missing
      BY <2>2, CompareResolved
    <3>2. CASE p \in broken
      BY <1>2, <3>1, <3>2 DEF Sound, NoFolder, sync!Missing
    <3>3. CASE p \notin broken
      <4>1. Resolved(p)'
        BY <2>2, <3>3, CompareResolved
      <4>2. Even(p)'
        BY <3>1 DEF Even, Like, sync!Side
      <4> QED
        BY <4>1, <4>2 DEF Sound
    <3> QED
      BY <3>2, <3>3
  <2> QED
    BY <2>1, <2>2
<1>6. \A t \in tasks' : t.path \notin broken' => Right(t)'
  <2> SUFFICES ASSUME NEW t \in tasks', t.path \notin broken PROVE Right(t)'
    BY <1>2
  <2>1. CASE t \in tasks
    <3>1. t.path \in Paths /\ t.to \in sync!Side
      BY <2>1 DEF sync!TypeOK
    <3>2. /\ tree[sync!Other(t.to)][t.path].kind = "file" /\ (t.to = F => option.both)
      BY <2>1 DEF TasksOK
    <3>3. tree'[sync!Other(t.to)][t.path] = tree[sync!Other(t.to)][t.path]
      BY <1>1, <1>4, <3>1, <3>2
    <3>4. Right(t)
      BY <2>1 DEF CourseOK
    <3> QED
      BY <1>3, <3>1, <3>3, <3>4 DEF Right, sync!Side
  <2>2. ASSUME NEW p \in sync!Compared(d), sync!Changed(p),
               t = sync!Transfer(p, sync!Receiver(p))
        PROVE  Right(t)'
    <3>1. t.path = p /\ t.to = sync!Receiver(p)
      BY <2>2 DEF sync!Transfer
    <3>2. /\ p \in Paths /\ tree[F][p].kind = "file" /\ ~sync!Passed(p)
          /\ tree[T][p] # sync!Missing
      BY <1>1, <2>2, Listed DEF sync!Changed, sync!Passed
    <3>3. tree[T][p].kind # "none"
      BY <1>1, <3>2, SidesOK, KindOf
    <3>4. \A s \in sync!Side : Like(tree[sync!Other(sync!Receiver(p))][p], sync!Model(p, s))
      BY <2>2, <3>1, <3>2, <3>3, ComparedRight DEF CourseOK
    <3>5. sync!Other(sync!Receiver(p)) \in sync!Side
      BY <1>1 DEF sync!Receiver
    <3>6. tree'[sync!Other(t.to)][t.path] = tree[sync!Other(sync!Receiver(p))][p]
      BY <1>1, <1>4, <3>1, <3>2, <3>5
    <3> QED
      BY <1>3, <3>1, <3>2, <3>4, <3>6 DEF Right, sync!Side
  <2>3. ASSUME NEW s \in sync!Side, NEW p \in sync!Created(d, s), tree[s][p].kind = "file",
               t = sync!Transfer(p, sync!Other(s))
        PROVE  Right(t)'
    <3>1. t.path = p /\ t.to = sync!Other(s)
      BY <2>3 DEF sync!Transfer
    <3>2. /\ p \in Paths /\ ~option.skipCreate /\ (s = F \/ option.both)
          /\ tree[s][p] # sync!Missing /\ tree[sync!Other(s)][p] = sync!Missing
      BY <2>3, Listed
    <3>3. ~sync!Passed(p)
      BY CreatedNotPassed
    <3>4. \A r \in sync!Side : Like(tree[s][p], sync!Model(p, r))
      <4>1. Sound(p) /\ p \notin broken
        BY <3>1, <3>2 DEF CourseOK
      <4> QED
        BY <3>2, <3>3, <4>1, AloneUntouched, CreatedRight
    <3>5. tree'[sync!Other(t.to)][t.path] = tree[s][p]
      BY <1>1, <1>4, <2>3, <3>1, <3>2
    <3> QED
      BY <1>3, <3>1, <3>2, <3>4, <3>5 DEF Right, sync!Side
  <2> QED
    BY <2>1, <2>2, <2>3, CompareLists
<1>7. \A f \in scan' : f.how = "copy" => ~sync!Passed(f.dir)'
  <2> SUFFICES ASSUME NEW f \in scan', f.how = "copy" PROVE ~sync!Passed(f.dir)'
    OBVIOUS
  <2>1. CASE f \in scan
    <3>1. f.dir \in Paths
      BY <2>1 DEF sync!TypeOK, ScanOK
    <3> QED
      BY <1>3, <2>1, <3>1 DEF CourseOK
  <2>2. ASSUME NEW p \in sync!Compared(d), f = sync!Into(p, T, "sync") PROVE FALSE
    BY <2>2 DEF sync!Into
  <2>3. ASSUME NEW s \in sync!Side, NEW p \in sync!Created(d, s),
               f = sync!Into(p, sync!Other(s), "copy")
        PROVE  ~sync!Passed(f.dir)'
    <3>1. f.dir = p /\ p \in Paths
      BY <2>3, Listed DEF sync!Into
    <3> QED
      BY <1>3, <3>1, CreatedNotPassed
  <2> QED
    BY <2>1, <2>2, <2>3, CompareLists
<1>8. ASSUME option.ignoreExisting, NEW f \in scan', f.how = "sync" PROVE FALSE
  <2>1. scan = {e}
    BY <1>2, <1>8 DEF ScanOK
  <2>2. \A p : p \notin sync!Compared(d)
    BY <1>8, Listed
  <2>3. \A s \in sync!Side : \A p \in sync!Created(d, s) : f # sync!Into(p, sync!Other(s), "copy")
    BY <1>8 DEF sync!Into
  <2> QED
    BY <2>1, <2>2, <2>3, CompareLists
<1>9. ASSUME NEW p \in Paths, p \notin broken PROVE (Resolved(p) \/ Awaited(p))'
  <2>1. CASE Resolved(p)
    BY <1>9, <2>1, CompareResolved
  <2>2. CASE Within(e.dir, p)
    BY <1>9, <2>2, CompareBelow
  <2>3. ASSUME NEW f \in scan, f # e, Within(f.dir, p) PROVE Awaited(p)'
    <3>1. f \in scan'
      BY <2>3, CompareLists
    <3> QED
      BY <2>3, <3>1 DEF Awaited, Within
  <2>4. ASSUME NEW t \in tasks, t.path = p PROVE Awaited(p)'
    <3>1. t \in tasks'
      BY CompareLists
    <3> QED
      BY <2>4, <3>1 DEF Awaited
  <2>5. ASSUME NEW t \in tasks, t.path \in Ancestors[p], tree[t.to][t.path].kind = "dir"
        PROVE  Awaited(p)'
    <3>1. t \in tasks' /\ t.path \in Paths /\ t.to \in sync!Side
      BY CompareLists DEF sync!TypeOK
    <3>2. /\ tree[sync!Other(t.to)][t.path].kind = "file" /\ (t.to = F => option.both)
      BY DEF TasksOK
    <3>3. tree'[t.to][t.path] = tree[t.to][t.path]
      BY <1>1, <1>4, <3>1, <3>2
    <3> QED
      BY <2>5, <3>1, <3>3 DEF Awaited
  <2>6. Resolved(p) \/ Awaited(p)
    BY <1>2, <1>9 DEF CourseOK
  <2> QED
    BY <2>1, <2>2, <2>3, <2>4, <2>5, <2>6 DEF Awaited
<1>10. option.ignoreExisting => broken = {} /\ progress # "failed"
  BY DEF CourseOK
<1> QED
  BY <1>2, <1>5, <1>6, <1>7, <1>8, <1>9, <1>10 DEF CourseOK
-------------------------------------------------------------------------------
(* transferFolder.                                                          *)

\* What the copy of a folder finds and does: the folder is made, on the side that has nothing.
LEMMA CopyTree ==
  ASSUME sync!TypeOK, OriginOK, ScanOK, NEW e \in scan, sync!CopyFolder(e)
  PROVE  /\ progress = "sync" /\ UNCHANGED <<option, before, broken, progress>>
         /\ e.how = "copy" /\ e.dir \in Paths /\ e.to \in sync!Side
         /\ tree[sync!Other(e.to)][e.dir] = sync!Dir /\ tree[e.to][e.dir] = sync!Missing
         /\ tree' \in [sync!Side -> [Paths -> sync!Entry]]
         /\ \A s \in sync!Side, p \in Paths :
              tree'[s][p] = IF s = e.to /\ p = e.dir THEN sync!Dir ELSE tree[s][p]
         /\ \A s \in sync!Side : sync!IsTree(tree'[s])
<1>1. /\ progress = "sync" /\ UNCHANGED <<option, before, broken, progress>> /\ e.how = "copy"
      /\ tree' = [tree EXCEPT ![e.to][e.dir] = sync!Dir]
  BY DEF sync!CopyFolder
<1>2. /\ e.dir \in Paths /\ e.to \in sync!Side /\ Entered(e)
      /\ tree[sync!Other(e.to)][e.dir] = sync!Dir /\ tree[e.to][e.dir] = sync!Missing
  BY <1>1 DEF ScanOK, sync!TypeOK
<1>3. tree \in [sync!Side -> [Paths -> sync!Entry]] /\ sync!Dir \in sync!Entry
  BY DEF sync!TypeOK, sync!Entry
<1>4. /\ tree' \in [sync!Side -> [Paths -> sync!Entry]]
      /\ \A s \in sync!Side, p \in Paths :
           tree'[s][p] = IF s = e.to /\ p = e.dir THEN sync!Dir ELSE tree[s][p]
  BY <1>1, <1>2, <1>3
<1>5. ASSUME NEW s \in sync!Side, NEW p \in Paths, tree'[s][p] # sync!Missing,
             NEW q \in Ancestors[p]
      PROVE  tree'[s][q] = sync!Dir
  <2>1. q \in Paths
    BY AboveClimbs
  <2>2. CASE tree[s][p] # sync!Missing
    BY <1>4, <2>1, <2>2, SidesOK
  <2>3. CASE tree[s][p] = sync!Missing
    <3>1. s = e.to /\ p = e.dir
      BY <1>4, <1>5, <2>3
    <3>2. /\ ParentOf[p] # Top /\ ParentOf[p] \in Paths /\ q \in sync!Upto(ParentOf[p])
      BY <1>5, AboveParent
    <3>3. tree[s][ParentOf[p]] = sync!Dir
      BY <1>2, <3>1, <3>2 DEF Entered
    <3>4. tree[s][q] = sync!Dir
      BY <2>1, <3>2, <3>3, SidesOK DEF sync!Upto, sync!Missing, sync!Dir
    <3> QED
      BY <1>4, <2>1, <3>4
  <2> QED
    BY <2>2, <2>3
<1> QED
  BY <1>1, <1>2, <1>4, <1>5 DEF sync!IsTree

\* It collects the files in the folder and leaves the folders in it to be copied.
LEMMA CopyLists ==
  ASSUME NEW e \in scan, sync!CopyFolder(e)
  PROVE  /\ \A t : t \in tasks' <=>
              \/ t \in tasks
              \/ \E p \in Paths : /\ ParentOf[p] = e.dir
                                  /\ tree[sync!Other(e.to)][p].kind = "file"
                                  /\ t = sync!Transfer(p, e.to)
         /\ \A f : f \in scan' <=>
              \/ f \in scan /\ f # e
              \/ \E p \in Paths : /\ ParentOf[p] = e.dir
                                  /\ tree[sync!Other(e.to)][p].kind = "dir"
                                  /\ f = sync!Into(p, e.to, "copy")
<1>1. /\ tasks' = tasks \union {sync!Transfer(p, e.to) :
                    p \in sync!OfKind(sync!Children(e.dir), sync!Other(e.to), "file")}
      /\ scan' = (scan \ {e}) \union {sync!Into(p, e.to, "copy") :
                    p \in sync!OfKind(sync!Children(e.dir), sync!Other(e.to), "dir")}
  BY DEF sync!CopyFolder
<1>2. \A k, p : p \in sync!OfKind(sync!Children(e.dir), sync!Other(e.to), k) <=>
                  p \in Paths /\ ParentOf[p] = e.dir /\ tree[sync!Other(e.to)][p].kind = k
  BY DEF sync!OfKind, sync!Children
<1> QED
  BY <1>1, <1>2

\* What lies in a folder that is copied is not where it is copied to.
LEMMA CopyBelow ==
  ASSUME sync!TypeOK, OriginOK, ScanOK, NEW e \in scan, sync!CopyFolder(e), NEW p \in Paths
  PROVE  /\ e.dir \in Ancestors[p] => p # e.dir /\ tree[e.to][p] = sync!Missing
         /\ ParentOf[p] = e.dir => e.dir \in Ancestors[p]
<1>1. e.dir \in Paths /\ e.to \in sync!Side /\ tree[e.to][e.dir] = sync!Missing
  BY CopyTree
<1>2. e.dir \in Ancestors[p] => tree[e.to][p] = sync!Missing
  BY <1>1, SidesOK DEF sync!Missing, sync!Dir
<1>3. Top \notin Paths
  BY SyncAssumption DEF sync!PlanAssumption
<1> QED
  BY <1>1, <1>2, <1>3, AboveClimbs, AboveParent DEF sync!Upto

\* Copying a folder leaves both sides trees, and what is still to do in order.
LEMMA CopyStructure ==
  ASSUME sync!TypeOK, OriginOK, ScanOK, TasksOK, NEW e \in scan, sync!CopyFolder(e)
  PROVE  (sync!TypeOK /\ OriginOK /\ ScanOK /\ TasksOK /\ PhaseOK)'
<1> DEFINE F == option.from
           d == e.dir
           to == e.to
           s == sync!Other(to)
<1>1. /\ to \in sync!Side /\ s \in sync!Side /\ s # to /\ sync!Other(s) = to /\ F \in sync!Side
      /\ \A r \in sync!Side : r = s \/ r = to
      /\ \A r \in sync!Side : sync!Other(r) \in sync!Side /\ sync!Other(r) # r
  BY CopyTree, SidesOK, OtherSide
<1>2. /\ progress = "sync" /\ UNCHANGED <<option, before, broken, progress>>
      /\ e.how = "copy" /\ d \in Paths
      /\ tree[s][d] = sync!Dir /\ tree[to][d] = sync!Missing
      /\ tree' \in [sync!Side -> [Paths -> sync!Entry]]
      /\ \A r \in sync!Side : sync!IsTree(tree'[r])
  BY CopyTree
<1>3. \A r \in sync!Side, p \in Paths :
        tree'[r][p] = IF r = to /\ p = d THEN sync!Dir ELSE tree[r][p]
  BY CopyTree
<1>4. /\ Top \notin Paths /\ sync!Dir # sync!Missing
      /\ sync!Dir.kind = "dir" /\ sync!Missing.kind = "none"
      /\ \A p \in Paths : ParentOf[p] \in Paths \union {Top}
  BY SyncAssumption DEF sync!PlanAssumption, sync!Dir, sync!Missing
<1>5. ~option.skipCreate /\ (to = F => option.both)
  BY <1>2 DEF ScanOK
<1>6. ASSUME NEW p \in Paths, ParentOf[p] = d
      PROVE  /\ p # d /\ tree[to][p] = sync!Missing /\ tree'[to][p] = sync!Missing
             /\ tree'[s][p] = tree[s][p] /\ tree'[to][ParentOf[p]] = sync!Dir
  BY <1>1, <1>2, <1>3, <1>6, CopyBelow
<1>7. \A r \in sync!Side, p \in Paths : tree[r][p] = sync!Dir => tree'[r][p] = sync!Dir
  BY <1>3
<1>8. OriginOK' /\ PhaseOK'
  BY <1>2, ModelFixed DEF PhaseOK
<1>9. sync!TypeOK'
  <2>1. tasks' \subseteq [path : Paths, to : sync!Side]
    <3> SUFFICES ASSUME NEW t \in tasks' PROVE t \in [path : Paths, to : sync!Side]
      OBVIOUS
    <3>1. CASE t \in tasks
      BY <3>1 DEF sync!TypeOK
    <3>2. CASE \E p \in Paths : t = sync!Transfer(p, to)
      BY <1>1, <3>2 DEF sync!Transfer
    <3> QED
      BY <3>1, <3>2, CopyLists
  <2>2. scan' \subseteq [dir : Paths \union {Top}, how : {"sync", "copy"}, to : sync!Side]
    <3> SUFFICES ASSUME NEW f \in scan'
                 PROVE  f \in [dir : Paths \union {Top}, how : {"sync", "copy"}, to : sync!Side]
      OBVIOUS
    <3>1. CASE f \in scan
      BY <3>1 DEF sync!TypeOK
    <3>2. CASE \E p \in Paths : f = sync!Into(p, to, "copy")
      BY <1>1, <3>2 DEF sync!Into
    <3> QED
      BY <3>1, <3>2, CopyLists
  <2> QED
    BY <1>2, <2>1, <2>2 DEF sync!TypeOK
<1>10. ScanOK'
  <2> SUFFICES ASSUME NEW f \in scan'
               PROVE  /\ f.how = "sync" =>
                           /\ f.to = sync!Other(F) /\ f.dir # Top /\ tree'[F][f.dir] = sync!Dir
                           /\ tree'[f.to][f.dir] # sync!Missing /\ ~option.ignoreExisting
                      /\ f.how = "copy" =>
                           /\ f.dir # Top /\ tree'[sync!Other(f.to)][f.dir] = sync!Dir
                           /\ tree'[f.to][f.dir] = sync!Missing /\ Entered(f)'
                           /\ ~option.skipCreate /\ (f.to = F => option.both)
    BY <1>2 DEF ScanOK
  <2>1. CASE f \in scan /\ f # e
    <3>1. /\ f.dir \in Paths \union {Top} /\ f.to \in sync!Side
          /\ f = [dir |-> f.dir, how |-> f.how, to |-> f.to]
          /\ e = [dir |-> e.dir, how |-> e.how, to |-> e.to]
      BY <2>1 DEF sync!TypeOK
    <3>2. CASE f.how = "sync"
      <4>1. /\ f.to = sync!Other(F) /\ f.dir # Top /\ tree[F][f.dir] = sync!Dir
            /\ tree[f.to][f.dir] # sync!Missing /\ ~option.ignoreExisting
        BY <2>1, <3>2 DEF ScanOK
      <4> QED
        BY <1>1, <1>3, <1>4, <3>1, <3>2, <4>1
    <3>3. CASE f.how = "copy"
      <4>1. /\ f.dir # Top /\ tree[sync!Other(f.to)][f.dir] = sync!Dir
            /\ tree[f.to][f.dir] = sync!Missing /\ Entered(f)
            /\ ~option.skipCreate /\ (f.to = F => option.both)
        BY <2>1, <3>3 DEF ScanOK
      <4>2. ~(f.to = to /\ f.dir = d)
        BY <1>2, <2>1, <3>1, <3>3
      <4>3. tree'[sync!Other(f.to)][f.dir] = sync!Dir /\ tree'[f.to][f.dir] = sync!Missing
        BY <1>1, <1>3, <3>1, <4>1, <4>2
      <4>4. Entered(f)'
        BY <1>4, <1>7, <3>1, <4>1 DEF Entered
      <4> QED
        BY <3>3, <4>1, <4>3, <4>4
    <3> QED
      BY <3>2, <3>3
  <2>2. ASSUME NEW p \in Paths, ParentOf[p] = d, tree[s][p].kind = "dir",
               f = sync!Into(p, to, "copy")
        PROVE  /\ f.how = "copy" /\ f.dir # Top /\ tree'[sync!Other(f.to)][f.dir] = sync!Dir
               /\ tree'[f.to][f.dir] = sync!Missing /\ Entered(f)'
               /\ ~option.skipCreate /\ (f.to = F => option.both)
    <3>1. f.dir = p /\ f.to = to /\ f.how = "copy"
      BY <2>2 DEF sync!Into
    <3>2. tree[s][p] = sync!Dir
      BY <1>1, <2>2, SidesOK, KindOf
    <3>3. Entered(f)'
      BY <1>6, <2>2, <3>1 DEF Entered
    <3> QED
      BY <1>4, <1>5, <1>6, <2>2, <3>1, <3>2, <3>3
  <2> QED
    BY <2>1, <2>2, CopyLists
<1>11. TasksOK'
  <2> SUFFICES ASSUME NEW t \in tasks'
               PROVE  /\ tree'[sync!Other(t.to)][t.path].kind = "file" /\ (t.to = F => option.both)
                      /\ ParentOf[t.path] = Top \/ tree'[t.to][ParentOf[t.path]] = sync!Dir
    BY <1>2 DEF TasksOK
  <2>1. CASE t \in tasks
    <3>1. t.path \in Paths /\ t.to \in sync!Side
      BY <2>1 DEF sync!TypeOK
    <3>2. /\ tree[sync!Other(t.to)][t.path].kind = "file" /\ (t.to = F => option.both)
          /\ ParentOf[t.path] = Top \/ tree[t.to][ParentOf[t.path]] = sync!Dir
      BY <2>1 DEF TasksOK
    <3>3. tree'[sync!Other(t.to)][t.path] = tree[sync!Other(t.to)][t.path]
      BY <1>1, <1>2, <1>3, <1>4, <3>1, <3>2
    <3> QED
      BY <1>4, <1>7, <3>1, <3>2, <3>3
  <2>2. ASSUME NEW p \in Paths, ParentOf[p] = d, tree[s][p].kind = "file",
               t = sync!Transfer(p, to)
        PROVE  /\ tree'[sync!Other(t.to)][t.path].kind = "file" /\ (t.to = F => option.both)
               /\ ParentOf[t.path] = Top \/ tree'[t.to][ParentOf[t.path]] = sync!Dir
    <3>1. t.path = p /\ t.to = to
      BY <2>2 DEF sync!Transfer
    <3> QED
      BY <1>5, <1>6, <2>2, <3>1
  <2> QED
    BY <2>1, <2>2, CopyLists
<1> QED
  BY <1>8, <1>9, <1>10, <1>11

\* What one side has in a folder that is copied is as it was found, and not passed by.
LEMMA CopyUntouched ==
  ASSUME sync!TypeOK, OriginOK, ScanOK, CourseOK, NEW e \in scan, sync!CopyFolder(e),
         NEW p \in Paths, p = e.dir \/ ParentOf[p] = e.dir,
         tree[sync!Other(e.to)][p] # sync!Missing, p \notin broken \/ ~NoFolder(p)
  PROVE  Untouched(p) /\ ~sync!Passed(p)
<1>1. sync!Other(e.to) \in sync!Side /\ sync!Other(sync!Other(e.to)) = e.to
  BY CopyTree, OtherSide
<1>2. tree[e.to][p] = sync!Missing
  BY CopyTree, CopyBelow
<1>3. Sound(p) /\ ~sync!Passed(e.dir)
  BY CopyTree DEF CourseOK
<1>4. ASSUME NEW r \in sync!Side, r = sync!Other(e.to), sync!Other(r) = e.to
      PROVE  Untouched(p) /\ ~sync!InCommon(p)
  BY <1>2, <1>3, <1>4, AloneUntouched
<1>5. Untouched(p) /\ ~sync!InCommon(p)
  BY <1>1, <1>4
<1> QED
  BY <1>3, <1>5, PassedDown

\* ... and it is what both sides should have.
LEMMA CopyRight ==
  ASSUME sync!TypeOK, OriginOK, ScanOK, CourseOK, NEW e \in scan, sync!CopyFolder(e),
         NEW p \in Paths, p = e.dir \/ ParentOf[p] = e.dir,
         tree[sync!Other(e.to)][p] # sync!Missing, p \notin broken \/ ~NoFolder(p)
  PROVE  \A s \in sync!Side : Like(tree[sync!Other(e.to)][p], sync!Model(p, s))
<1>1. /\ sync!Other(e.to) \in sync!Side /\ sync!Other(sync!Other(e.to)) = e.to
      /\ option.from \in sync!Side
      /\ \A r \in sync!Side : r = e.to \/ r = sync!Other(e.to)
  BY CopyTree, SidesOK, OtherSide
<1>2. tree[e.to][p] = sync!Missing /\ e.how = "copy"
  BY CopyTree, CopyBelow
<1>3. ~option.skipCreate /\ (e.to = option.from => option.both)
  BY <1>2 DEF ScanOK
<1>4. Untouched(p) /\ ~sync!Passed(p)
  BY CopyUntouched
<1>5. ASSUME NEW r \in sync!Side, r = sync!Other(e.to), sync!Other(r) = e.to
      PROVE  \A s \in sync!Side : Like(tree[r][p], sync!Model(p, s))
  <2>1. r = option.from \/ option.both
    BY <1>1, <1>3, <1>5
  <2> QED
    BY <1>2, <1>3, <1>4, <1>5, <2>1, CreatedRight
<1> QED
  BY <1>1, <1>5

\* Copying a folder keeps the course.
LEMMA CopyCourse ==
  ASSUME sync!TypeOK, OriginOK, ScanOK, TasksOK, CourseOK, NEW e \in scan, sync!CopyFolder(e)
  PROVE  CourseOK'
<1> DEFINE d == e.dir
           to == e.to
           s == sync!Other(to)
<1>1. /\ to \in sync!Side /\ s \in sync!Side /\ s # to /\ sync!Other(s) = to
      /\ \A r \in sync!Side : r = s \/ r = to
      /\ \A r \in sync!Side : sync!Other(r) \in sync!Side /\ sync!Other(r) # r
  BY CopyTree, OtherSide
<1>2. /\ progress = "sync" /\ UNCHANGED <<option, before, broken, progress>>
      /\ e.how = "copy" /\ d \in Paths
      /\ tree[s][d] = sync!Dir /\ tree[to][d] = sync!Missing
  BY CopyTree
<1>3. \A r \in sync!Side, p \in Paths :
        tree'[r][p] = IF r = to /\ p = d THEN sync!Dir ELSE tree[r][p]
  BY CopyTree
<1>4. /\ \A p \in Paths, r \in sync!Side : sync!Model(p, r)' = sync!Model(p, r)
      /\ \A p \in Paths : sync!Passed(p)' <=> sync!Passed(p)
  BY <1>2, ModelFixed
<1>5. /\ sync!Dir # sync!Missing /\ sync!Dir.kind = "dir" /\ sync!Missing.kind = "none"
      /\ Top \notin Paths
  BY SyncAssumption DEF sync!PlanAssumption, sync!Dir, sync!Missing
<1>6. Resolved(d)' /\ Even(d)'
  <2>1. ~NoFolder(d)
    BY <1>1, <1>2, <1>5 DEF NoFolder
  <2>2. \A r \in sync!Side : Like(sync!Dir, sync!Model(d, r))
    BY <1>2, <1>5, <2>1, CopyRight
  <2>3. \A r \in sync!Side : tree'[r][d] = sync!Dir
    BY <1>1, <1>2, <1>3
  <2>4. \A r \in sync!Side : Like(tree'[r][d], sync!Model(d, r)')
    BY <1>2, <1>4, <2>2, <2>3
  <2> QED
    BY <2>3, <2>4 DEF Resolved, Even, Like, sync!Side
<1>7. ASSUME NEW p \in Paths PROVE Sound(p)' /\ (Resolved(p) => Resolved(p)')
  <2>1. CASE p = d
    BY <1>6, <2>1 DEF Sound
  <2>2. CASE p # d
    <3>1. \A r \in sync!Side : tree'[r][p] = tree[r][p]
      BY <1>3, <2>2
    <3> QED
      BY <1>2, <3>1, PathKept DEF CourseOK
  <2> QED
    BY <2>1, <2>2
<1>8. \A t \in tasks' : t.path \notin broken' => Right(t)'
  <2> SUFFICES ASSUME NEW t \in tasks', t.path \notin broken PROVE Right(t)'
    BY <1>2
  <2>1. CASE t \in tasks
    <3>1. t.path \in Paths /\ t.to \in sync!Side /\ tree[sync!Other(t.to)][t.path].kind = "file"
      BY <2>1 DEF sync!TypeOK, TasksOK
    <3>2. tree'[sync!Other(t.to)][t.path] = tree[sync!Other(t.to)][t.path]
      BY <1>1, <1>2, <1>3, <1>5, <3>1
    <3>3. Right(t)
      BY <2>1 DEF CourseOK
    <3> QED
      BY <1>4, <3>1, <3>2, <3>3 DEF Right, sync!Side
  <2>2. ASSUME NEW p \in Paths, ParentOf[p] = d, tree[s][p].kind = "file",
               t = sync!Transfer(p, to)
        PROVE  Right(t)'
    <3>1. t.path = p /\ t.to = to
      BY <2>2 DEF sync!Transfer
    <3>2. tree[s][p] # sync!Missing /\ p \notin broken
      BY <1>5, <2>2, <3>1
    <3>3. \A r \in sync!Side : Like(tree[s][p], sync!Model(p, r))
      BY <2>2, <3>2, CopyRight
    <3>4. tree'[s][p] = tree[s][p]
      BY <1>1, <1>3
    <3> QED
      BY <1>4, <3>1, <3>3, <3>4 DEF Right, sync!Side
  <2> QED
    BY <2>1, <2>2, CopyLists
<1>9. \A f \in scan' : f.how = "copy" => ~sync!Passed(f.dir)'
  <2> SUFFICES ASSUME NEW f \in scan', f.how = "copy" PROVE ~sync!Passed(f.dir)'
    OBVIOUS
  <2>1. CASE f \in scan
    <3>1. f.dir \in Paths
      BY <2>1 DEF sync!TypeOK, ScanOK
    <3> QED
      BY <1>4, <2>1, <3>1 DEF CourseOK
  <2>2. ASSUME NEW p \in Paths, ParentOf[p] = d, tree[s][p].kind = "dir",
               f = sync!Into(p, to, "copy")
        PROVE  ~sync!Passed(f.dir)'
    <3>1. f.dir = p
      BY <2>2 DEF sync!Into
    <3>2. ~NoFolder(p) /\ tree[s][p] # sync!Missing
      BY <1>1, <1>5, <2>2 DEF NoFolder
    <3> QED
      BY <1>4, <2>2, <3>1, <3>2, CopyUntouched
  <2> QED
    BY <2>1, <2>2, CopyLists
<1>10. ASSUME option.ignoreExisting, NEW f \in scan', f.how = "sync" PROVE FALSE
  <2>1. \A p \in Paths : f # sync!Into(p, to, "copy")
    BY <1>10 DEF sync!Into
  <2>2. f \in scan /\ f # e
    BY <2>1, CopyLists
  <2>3. scan = {f}
    BY <1>10, <2>2 DEF ScanOK
  <2> QED
    BY <2>2, <2>3
<1>11. ASSUME NEW p \in Paths, p \notin broken PROVE (Resolved(p) \/ Awaited(p))'
  <2>1. CASE Resolved(p)
    BY <1>7, <2>1
  <2>2. CASE Within(d, p)
    <3>1. CASE p = d
      BY <1>6, <3>1
    <3>2. CASE p # d
      <4>1. d \in Ancestors[p]
        BY <1>2, <1>5, <2>2, <3>2 DEF Within, sync!Upto
      <4>2. tree[to][p] = sync!Missing
        BY <4>1, CopyBelow
      <4>3. CASE tree[s][p] = sync!Missing
        <5>1. \A r \in sync!Side : tree[r][p] = sync!Missing
          BY <1>1, <4>2, <4>3
        <5>2. Resolved(p)
          BY <1>11, <5>1, EvenResolved DEF CourseOK
        <5> QED
          BY <1>7, <5>2
      <4>4. CASE tree[s][p] # sync!Missing
        <5>1. PICK c \in sync!Upto(p) : c \in Paths /\ ParentOf[c] = d
          BY <4>1, ChildTowards
        <5>2. CASE tree[s][c].kind = "dir"
          <6>1. sync!Into(c, to, "copy") \in scan'
            BY <5>1, <5>2, CopyLists
          <6>2. Within(sync!Into(c, to, "copy").dir, p)
            BY <5>1 DEF sync!Into, Within
          <6> QED
            BY <6>1, <6>2 DEF Awaited, Within
        <5>3. CASE tree[s][c].kind # "dir"
          <6>1. c = p
            BY <1>1, <1>5, <4>4, <5>1, <5>3, SidesOK DEF sync!Upto
          <6>2. tree[s][p].kind = "file"
            BY <1>1, <4>4, <5>3, <6>1, SidesOK, KindOf
          <6>3. sync!Transfer(p, to) \in tasks' /\ sync!Transfer(p, to).path = p
            BY <5>1, <6>1, <6>2, CopyLists DEF sync!Transfer
          <6> QED
            BY <6>3 DEF Awaited
        <5> QED
          BY <5>2, <5>3
      <4> QED
        BY <4>3, <4>4
    <3> QED
      BY <3>1, <3>2
  <2>3. ASSUME NEW f \in scan, f # e, Within(f.dir, p) PROVE Awaited(p)'
    <3>1. f \in scan'
      BY <2>3, CopyLists
    <3> QED
      BY <2>3, <3>1 DEF Awaited, Within
  <2>4. ASSUME NEW t \in tasks, t.path = p PROVE Awaited(p)'
    <3>1. t \in tasks'
      BY CopyLists
    <3> QED
      BY <2>4, <3>1 DEF Awaited
  <2>5. ASSUME NEW t \in tasks, t.path \in Ancestors[p], tree[t.to][t.path].kind = "dir"
        PROVE  Awaited(p)'
    <3>1. t \in tasks' /\ t.path \in Paths /\ t.to \in sync!Side
      BY CopyLists DEF sync!TypeOK
    <3>2. tree'[t.to][t.path].kind = "dir"
      BY <1>3, <1>5, <2>5, <3>1
    <3> QED
      BY <2>5, <3>1, <3>2 DEF Awaited
  <2>6. Resolved(p) \/ Awaited(p)
    BY <1>2, <1>11 DEF CourseOK
  <2> QED
    BY <2>1, <2>2, <2>3, <2>4, <2>5, <2>6 DEF Awaited
<1>12. option.ignoreExisting => broken = {} /\ progress # "failed"
  BY DEF CourseOK
<1> QED
  BY <1>2, <1>7, <1>8, <1>9, <1>10, <1>11, <1>12 DEF CourseOK
-------------------------------------------------------------------------------
(* The transfers, and the ends of a sync.                                   *)

\* A file put where a transfer goes leaves both sides trees.
LEMMA PlacedTree ==
  ASSUME sync!TypeOK, OriginOK, TasksOK, NEW t \in tasks, NEW a \in sync!Entry, a.kind = "file",
         tree[t.to][t.path].kind # "dir",
         tree' = [tree EXCEPT ![t.to][t.path] = a]
  PROVE  /\ t.path \in Paths /\ t.to \in sync!Side
         /\ tree' \in [sync!Side -> [Paths -> sync!Entry]]
         /\ \A s \in sync!Side, p \in Paths :
              tree'[s][p] = IF s = t.to /\ p = t.path THEN a ELSE tree[s][p]
         /\ \A s \in sync!Side : sync!IsTree(tree'[s])
<1>1. t.path \in Paths /\ t.to \in sync!Side
  BY DEF sync!TypeOK
<1>2. tree \in [sync!Side -> [Paths -> sync!Entry]]
  BY DEF sync!TypeOK
<1>3. /\ tree' \in [sync!Side -> [Paths -> sync!Entry]]
      /\ \A s \in sync!Side, p \in Paths :
           tree'[s][p] = IF s = t.to /\ p = t.path THEN a ELSE tree[s][p]
  BY <1>1, <1>2
<1>4. sync!Dir.kind = "dir" /\ sync!Dir # sync!Missing
  BY DEF sync!Dir, sync!Missing
<1>5. ASSUME NEW s \in sync!Side, NEW p \in Paths, tree'[s][p] # sync!Missing,
             NEW q \in Ancestors[p]
      PROVE  tree'[s][q] = sync!Dir
  <2>1. q \in Paths
    BY AboveClimbs
  <2>2. tree[s][q] = sync!Dir
    <3>1. CASE tree[s][p] # sync!Missing
      BY <2>1, <3>1, SidesOK
    <3>2. CASE tree[s][p] = sync!Missing
      <4>1. s = t.to /\ p = t.path
        BY <1>3, <1>5, <3>2
      <4>2. /\ ParentOf[p] # Top /\ ParentOf[p] \in Paths /\ q \in sync!Upto(ParentOf[p])
        BY <1>5, AboveParent
      <4>3. tree[s][ParentOf[p]] = sync!Dir
        BY <4>1, <4>2 DEF TasksOK
      <4> QED
        BY <1>4, <2>1, <4>2, <4>3, SidesOK DEF sync!Upto
    <3> QED
      BY <3>1, <3>2
  <2> QED
    BY <1>3, <1>4, <2>1, <2>2
<1> QED
  BY <1>1, <1>3, <1>5 DEF sync!IsTree

\* A transfer puts the whole content in its place.
LEMMA RunStep ==
  ASSUME SyncInv, NEW t \in tasks, sync!Run(t)
  PROVE  SyncInv'
<1> DEFINE x == t.path
           to == t.to
           s == sync!Other(to)
           a == sync!Landed(tree[s][x])
<1> USE DEF SyncInv
<1>1. /\ progress = "sync" /\ scan = {} /\ UNCHANGED <<option, progress, scan, before, broken>>
      /\ tasks' = tasks \ {t} /\ tree' = [tree EXCEPT ![to][x] = a]
      /\ tree[s][x].kind = "file" /\ tree[to][x].kind # "dir"
  BY DEF sync!Run
<1>2. /\ x \in Paths /\ to \in sync!Side /\ s \in sync!Side /\ s # to /\ sync!Other(s) = to
      /\ \A r \in sync!Side : r = s \/ r = to
  BY OtherSide DEF sync!TypeOK
<1>3. a \in sync!Entry /\ a.kind = "file" /\ Like(a, tree[s][x])
  <2>1. PICK m \in Times \union {Later}, n \in Sizes \union {0} : tree[s][x] = sync!FileOf(m, n)
    BY <1>1, <1>2, SidesOK DEF sync!Entry, sync!Files, sync!Missing, sync!Dir
  <2> DEFINE k == IF option.keeps /\ m > 0 THEN m ELSE Later
  <2>2. k \in Times \union {Later}
    OBVIOUS
  <2>3. a = sync!FileOf(k, n)
    BY <2>1 DEF sync!Landed, sync!FileOf
  <2>4. sync!FileOf(k, n) \in sync!Entry
    BY <2>2 DEF sync!Entry, sync!Files
  <2> HIDE DEF k
  <2>5. a.kind = "file" /\ a.size = n /\ tree[s][x].kind = "file" /\ tree[s][x].size = n
    BY <2>1, <2>3 DEF sync!FileOf
  <2> QED
    BY <2>3, <2>4, <2>5 DEF Like
<1> HIDE DEF a
<1>4. /\ tree' \in [sync!Side -> [Paths -> sync!Entry]]
      /\ \A r \in sync!Side, p \in Paths :
           tree'[r][p] = IF r = to /\ p = x THEN a ELSE tree[r][p]
      /\ \A r \in sync!Side : sync!IsTree(tree'[r])
  BY <1>1, <1>3, PlacedTree
<1>5. sync!TypeOK' /\ OriginOK' /\ PhaseOK' /\ ScanOK'
  BY <1>1, <1>4, ModelFixed DEF sync!TypeOK, PhaseOK, ScanOK
<1>6. sync!Dir.kind = "dir"
  BY DEF sync!Dir, sync!Missing
<1>7. \A r \in sync!Side, p \in Paths : /\ tree[r][p] = sync!Dir => tree'[r][p] = sync!Dir
                                        /\ tree[r][p].kind = "file" => tree'[r][p].kind = "file"
  BY <1>1, <1>3, <1>4, <1>6
<1>8. TasksOK'
  <2> SUFFICES ASSUME NEW u \in tasks
               PROVE  /\ tree'[sync!Other(u.to)][u.path].kind = "file"
                      /\ (u.to = option.from => option.both)
                      /\ ParentOf[u.path] = Top \/ tree'[u.to][ParentOf[u.path]] = sync!Dir
    BY <1>1 DEF TasksOK
  <2>1. u.path \in Paths /\ u.to \in sync!Side /\ sync!Other(u.to) \in sync!Side
    BY OtherSide DEF sync!TypeOK
  <2>2. ParentOf[u.path] \in Paths \union {Top}
    BY <2>1, SyncAssumption DEF sync!PlanAssumption
  <2> QED
    BY <1>7, <2>1, <2>2 DEF TasksOK
<1>9. ASSUME CourseOK PROVE CourseOK'
  <2>1. \A p \in Paths, r \in sync!Side : sync!Model(p, r)' = sync!Model(p, r)
    BY <1>1, ModelFixed
  <2>2. ASSUME x \notin broken PROVE Resolved(x)' /\ Even(x)'
    <3>1. \A r \in sync!Side : Like(tree[s][x], sync!Model(x, r))
      BY <1>9, <2>2 DEF CourseOK, Right
    <3>2. \A r \in sync!Side : Like(tree'[r][x], sync!Model(x, r)')
      BY <1>2, <1>3, <1>4, <2>1, <3>1 DEF Like
    <3>3. Like(tree'[s][x], tree'[to][x]) /\ Like(tree'[to][x], tree'[s][x])
      BY <1>2, <1>3, <1>4 DEF Like
    <3> QED
      BY <1>2, <3>2, <3>3 DEF Resolved, Even, Like, sync!Side
  <2>3. ASSUME NEW p \in Paths PROVE Sound(p)' /\ (p \notin broken /\ Resolved(p) => Resolved(p)')
    <3>1. CASE p = x /\ x \notin broken
      BY <2>2, <3>1 DEF Sound
    <3>2. CASE p = x /\ x \in broken
      <4>1. \A r \in sync!Side : tree'[r][x].kind = "file"
        BY <1>1, <1>2, <1>3, <1>4
      <4> QED
        BY <1>1, <3>2, <4>1 DEF Sound, NoFolder, sync!Side
    <3>3. CASE p # x
      <4>1. \A r \in sync!Side : tree'[r][p] = tree[r][p]
        BY <1>4, <3>3
      <4> QED
        BY <1>1, <1>9, <4>1, PathKept DEF CourseOK
    <3> QED
      BY <3>1, <3>2, <3>3
  <2>4. ASSUME NEW u \in tasks, u.path \notin broken PROVE Right(u)'
    <3>1. u.path \in Paths /\ u.to \in sync!Side /\ sync!Other(u.to) \in sync!Side
      BY OtherSide DEF sync!TypeOK
    <3>2. \A r \in sync!Side : Like(tree[sync!Other(u.to)][u.path], sync!Model(u.path, r))
      BY <1>9, <2>4 DEF CourseOK, Right
    <3>3. \A r \in sync!Side : Like(tree'[sync!Other(u.to)][u.path], sync!Model(u.path, r)')
      <4>1. CASE u.path = x
        BY <1>2, <2>2, <2>4, <3>1, <4>1 DEF Resolved, Even, Like, sync!Side
      <4>2. CASE u.path # x
        BY <1>4, <2>1, <3>1, <3>2, <4>2
      <4> QED
        BY <4>1, <4>2
    <3> QED
      BY <3>3 DEF Right, sync!Side
  <2>5. ASSUME NEW p \in Paths, p \notin broken PROVE (Resolved(p) \/ Awaited(p))'
    <3>1. CASE Resolved(p)
      BY <2>3, <2>5, <3>1
    <3>2. CASE p = x
      BY <2>2, <2>5, <3>2
    <3>3. ASSUME NEW u \in tasks, u.path = p, p # x PROVE Awaited(p)'
      <4>1. u \in tasks'
        BY <1>1, <3>3
      <4> QED
        BY <3>3, <4>1 DEF Awaited
    <3>4. ASSUME NEW u \in tasks, u.path \in Ancestors[p], tree[u.to][u.path].kind = "dir"
          PROVE  Awaited(p)'
      <4>1. u \in tasks' /\ u.path \in Paths /\ u.to \in sync!Side
        BY <1>1, <3>4 DEF sync!TypeOK
      <4>2. tree'[u.to][u.path].kind = "dir"
        BY <1>1, <1>4, <3>4, <4>1
      <4> QED
        BY <3>4, <4>1, <4>2 DEF Awaited
    <3>5. Resolved(p) \/ Awaited(p)
      BY <1>1, <1>9, <2>5 DEF CourseOK
    <3> QED
      BY <1>1, <3>1, <3>2, <3>3, <3>4, <3>5 DEF Awaited
  <2>6. option.ignoreExisting => broken = {}
    BY <1>9 DEF CourseOK
  <2> QED
    BY <1>1, <2>3, <2>4, <2>5, <2>6 DEF CourseOK
<1>10. Lost => Lost'
  BY <1>1 DEF Lost
<1> QED
  BY <1>5, <1>8, <1>9, <1>10

\* Where a sync ends before it is done nothing is left to do, and what was cut off is broken.
LEMMA GiveUpStep ==
  ASSUME SyncInv, NEW lost \in SUBSET Paths, sync!GiveUp(lost),
         tree' \in [sync!Side -> [Paths -> sync!Entry]],
         \A s \in sync!Side : sync!IsTree(tree'[s]),
         \A p \in Paths \ lost, s \in sync!Side : tree'[s][p] = tree[s][p],
         \A p \in lost, s \in sync!Side : tree'[s][p].kind = "file"
  PROVE  SyncInv'
<1> USE DEF SyncInv
<1>1. /\ progress' = "failed" /\ scan' = {} /\ tasks' = {} /\ UNCHANGED <<option, before>>
      /\ broken' = broken \union (IF option.ignoreExisting THEN Paths ELSE lost)
  BY DEF sync!GiveUp
<1>2. sync!TypeOK' /\ OriginOK' /\ PhaseOK' /\ ScanOK' /\ TasksOK'
  BY <1>1, ModelFixed DEF sync!TypeOK, PhaseOK, ScanOK, TasksOK
<1>3. CASE Lost \/ option.ignoreExisting
  <2>1. Lost'
    BY <1>1, <1>3 DEF Lost, sync!TypeOK
  <2> QED
    BY <1>2, <2>1
<1>4. CASE CourseOK /\ ~option.ignoreExisting
  <2>1. ASSUME NEW p \in Paths PROVE Sound(p)'
    <3>1. CASE p \in lost
      BY <1>1, <1>4, <3>1 DEF Sound, NoFolder, sync!Side
    <3>2. CASE p \notin lost
      <4>1. Sound(p) /\ \A s \in sync!Side : tree'[s][p] = tree[s][p]
        BY <1>4, <3>2 DEF CourseOK
      <4> QED
        BY <1>1, <4>1, PathKept
    <3> QED
      BY <3>1, <3>2
  <2>2. CourseOK'
    BY <1>1, <1>4, <2>1 DEF CourseOK
  <2> QED
    BY <1>2, <2>2
<1> QED
  BY <1>3, <1>4

\* A sync that fails.
LEMMA FailStep ==
  ASSUME SyncInv, sync!Fail
  PROVE  SyncInv'
<1>1. {} \in SUBSET Paths /\ sync!GiveUp({}) /\ UNCHANGED tree
  BY DEF sync!Fail
<1>2. /\ tree' \in [sync!Side -> [Paths -> sync!Entry]]
      /\ \A s \in sync!Side : sync!IsTree(tree'[s])
  BY <1>1 DEF SyncInv, sync!TypeOK
<1>3. /\ \A p \in Paths \ {}, s \in sync!Side : tree'[s][p] = tree[s][p]
      /\ \A p \in {}, s \in sync!Side : tree'[s][p].kind = "file"
  BY <1>1
<1> QED
  BY <1>1, <1>2, <1>3, GiveUpStep

\* An upload in place that is cut off.
LEMMA BreakOffStep ==
  ASSUME SyncInv, NEW t \in tasks, sync!BreakOff(t)
  PROVE  SyncInv'
<1> DEFINE a == sync!FileOf(Later, 0)
<1>1. /\ sync!GiveUp({t.path}) /\ tree[t.to][t.path].kind # "dir"
      /\ tree' = [tree EXCEPT ![t.to][t.path] = a]
  BY DEF sync!BreakOff
<1>2. a \in sync!Entry /\ a.kind = "file"
  BY DEF sync!Entry, sync!Files, sync!FileOf
<1> HIDE DEF a
<1>3. /\ t.path \in Paths /\ t.to \in sync!Side
      /\ tree' \in [sync!Side -> [Paths -> sync!Entry]]
      /\ \A s \in sync!Side, p \in Paths :
           tree'[s][p] = IF s = t.to /\ p = t.path THEN a ELSE tree[s][p]
      /\ \A s \in sync!Side : sync!IsTree(tree'[s])
  BY <1>1, <1>2, PlacedTree DEF SyncInv
<1>4. \A s \in sync!Side : s # t.to => tree[s][t.path].kind = "file"
  BY <1>3, OtherSide DEF SyncInv, TasksOK
<1>5. /\ \A p \in Paths \ {t.path}, s \in sync!Side : tree'[s][p] = tree[s][p]
      /\ \A p \in {t.path}, s \in sync!Side : tree'[s][p].kind = "file"
  BY <1>2, <1>3, <1>4
<1>6. {t.path} \in SUBSET Paths
  BY <1>3
<1> QED
  BY <1>1, <1>3, <1>5, <1>6, GiveUpStep

\* A step that leaves the trees alone, and the sync with nothing to do or all of it.
LEMMA TurnStep ==
  ASSUME SyncInv, sync!Finish \/ sync!Again
  PROVE  SyncInv'
<1> USE DEF SyncInv
<1>1. /\ UNCHANGED <<tree, option, before, broken>> /\ tasks' = {}
      /\ \/ progress = "sync" /\ scan = {} /\ tasks = {} /\ progress' = "done" /\ scan' = {}
         \/ progress # "sync" /\ progress' = "sync" /\ scan' = sync!Whole
  BY DEF sync!Finish, sync!Again
<1>2. option.from \in sync!Side /\ sync!Other(option.from) \in sync!Side
  BY SidesOK, OtherSide
<1>3. \A e \in sync!Whole : /\ e.dir = Top /\ e.how = "sync" /\ e.to = sync!Other(option.from)
                            /\ sync!Whole = {e}
                            /\ e \in [dir : Paths \union {Top}, how : {"sync", "copy"}, to : sync!Side]
  BY <1>2 DEF sync!Whole
<1>4. sync!TypeOK' /\ OriginOK' /\ PhaseOK' /\ ScanOK' /\ TasksOK'
  <2>1. \A e \in scan' : /\ e.dir = Top /\ e.how = "sync" /\ e.to = sync!Other(option.from)
                         /\ scan' = {e}
                         /\ e \in [dir : Paths \union {Top}, how : {"sync", "copy"}, to : sync!Side]
    BY <1>1, <1>3
  <2>2. ScanOK'
    BY <1>1, <2>1 DEF ScanOK
  <2>3. sync!TypeOK'
    BY <1>1, <2>1 DEF sync!TypeOK
  <2> QED
    BY <1>1, <2>2, <2>3, ModelFixed DEF PhaseOK, TasksOK
<1>5. ASSUME CourseOK PROVE CourseOK'
  <2>1. \A p \in Paths : Sound(p)' /\ (Resolved(p) => Resolved(p)') /\ (Untouched(p) => Untouched(p)')
    BY <1>1, <1>5, PathKept DEF CourseOK
  <2>2. CASE progress' = "done"
    <3>1. ASSUME NEW p \in Paths \ broken PROVE Resolved(p)'
      BY <1>1, <1>5, <2>1, <2>2 DEF CourseOK, Awaited
    <3> QED
      BY <1>1, <1>5, <2>1, <2>2, <3>1 DEF CourseOK
  <2>3. CASE progress' = "sync"
    <3>1. scan' = sync!Whole /\ progress # "sync"
      BY <1>1, <2>3
    <3>2. \A p \in Paths : Awaited(p)'
      <4>1. \E e \in scan' : e.dir = Top
        BY <3>1 DEF sync!Whole
      <4> QED
        BY <4>1 DEF Awaited, Within
    <3>3. option.ignoreExisting => \A p \in Paths : Resolved(p)'
      <4>1. scan = {} /\ tasks = {}
        BY <3>1 DEF PhaseOK
      <4> QED
        BY <1>5, <2>1, <4>1 DEF CourseOK, Awaited
    <3>4. \A e \in scan' : e.how # "copy"
      BY <1>3, <3>1
    <3> QED
      BY <1>1, <1>5, <2>1, <2>3, <3>2, <3>3, <3>4 DEF CourseOK
  <2> QED
    BY <1>1, <2>2, <2>3
<1>6. Lost => Lost'
  BY <1>1 DEF Lost
<1> QED
  BY <1>4, <1>5, <1>6
-------------------------------------------------------------------------------
(* The invariant, from the first trees to the end of a sync.                *)

\* A sync begins with two trees nothing has touched and the whole of them to compare.
LEMMA SyncBegins == sync!Init => SyncInv
<1> SUFFICES ASSUME sync!Init PROVE SyncInv
  OBVIOUS
<1>1. /\ option \in sync!Option /\ (option.both => option.from = "local" /\ ~option.delete)
      /\ tree \in [sync!Side -> sync!Trees] /\ before = tree /\ broken = {}
      /\ \A p \in Paths : tree["local"][p].kind = "file" => tree["local"][p].time > 0
      /\ progress = "sync" /\ scan = sync!Whole /\ tasks = {}
  BY DEF sync!Init, sync!Start
<1>2. option.from \in sync!Side /\ sync!Other(option.from) \in sync!Side
  BY <1>1, OtherSide DEF sync!Option
<1>3. \A e \in scan : /\ e.dir = Top /\ e.how = "sync" /\ e.to = sync!Other(option.from)
                      /\ scan = {e}
                      /\ e \in [dir : Paths \union {Top}, how : {"sync", "copy"}, to : sync!Side]
  BY <1>1, <1>2 DEF sync!Whole
<1>4. \E e \in scan : e.dir = Top
  BY <1>1 DEF sync!Whole
<1>5. sync!Found \subseteq sync!Entry
  BY DEF sync!Found, sync!Entry, sync!Files
<1>6. /\ tree \in [sync!Side -> [Paths -> sync!Entry]]
      /\ \A s \in sync!Side : sync!IsTree(tree[s])
  BY <1>1, <1>5 DEF sync!Trees
<1>7. sync!TypeOK
  BY <1>1, <1>3, <1>6 DEF sync!TypeOK
<1>8. OriginOK
  BY <1>1 DEF OriginOK
<1>9. ScanOK /\ TasksOK /\ PhaseOK
  BY <1>1, <1>3 DEF ScanOK, TasksOK, PhaseOK
<1>10. \A p \in Paths : Untouched(p) /\ Awaited(p)
  BY <1>1, <1>4 DEF Untouched, Awaited, Within
<1>11. CourseOK
  BY <1>1, <1>3, <1>10 DEF CourseOK, Sound
<1> QED
  BY <1>7, <1>8, <1>9, <1>11 DEF SyncInv

\* A comparison and a copy, with what they leave of the course of the sync.
LEMMA CollectStepSync ==
  ASSUME SyncInv, NEW e \in scan, sync!Compare(e) \/ sync!CopyFolder(e)
  PROVE  SyncInv'
<1>1. sync!TypeOK /\ OriginOK /\ ScanOK /\ TasksOK /\ (Lost \/ CourseOK)
  BY DEF SyncInv
<1>2. UNCHANGED broken
  BY DEF sync!Compare, sync!CopyFolder
<1>3. Lost => Lost'
  BY <1>2 DEF Lost
<1>4. (sync!TypeOK /\ OriginOK /\ ScanOK /\ TasksOK /\ PhaseOK)'
  BY <1>1, CompareStructure, CopyStructure
<1>5. CourseOK => CourseOK'
  BY <1>1, CompareCourse, CopyCourse
<1> QED
  BY <1>1, <1>3, <1>4, <1>5 DEF SyncInv

\* Every step of a sync.
LEMMA SyncStep == SyncInv /\ [sync!Next]_syncVars => SyncInv'
<1> SUFFICES ASSUME SyncInv, [sync!Next]_syncVars PROVE SyncInv'
  OBVIOUS
<1>1. ASSUME NEW e \in scan, sync!Compare(e) \/ sync!CopyFolder(e) PROVE SyncInv'
  BY <1>1, CollectStepSync
<1>2. ASSUME NEW t \in tasks, sync!Run(t) PROVE SyncInv'
  BY <1>2, RunStep
<1>3. ASSUME NEW t \in tasks, sync!BreakOff(t) PROVE SyncInv'
  BY <1>3, BreakOffStep
<1>4. CASE sync!Fail
  BY <1>4, FailStep
<1>5. CASE sync!Finish \/ sync!Again
  BY <1>5, TurnStep
<1>6. CASE UNCHANGED syncVars
  <2>1. /\ sync!TypeOK' = sync!TypeOK /\ OriginOK' = OriginOK /\ ScanOK' = ScanOK
        /\ TasksOK' = TasksOK /\ PhaseOK' = PhaseOK /\ Lost' = Lost /\ CourseOK' = CourseOK
    BY <1>6 DEF syncVars, sync!TypeOK, OriginOK, ScanOK, TasksOK, PhaseOK, Lost, CourseOK,
         Entered, Sound, Untouched, Resolved, Even, NoFolder, Right, Awaited, sync!Model,
         sync!Kept, sync!Passed, sync!InCommon, sync!Known, sync!Newest
  <2> QED
    BY <2>1 DEF SyncInv
<1> QED
  BY <1>1, <1>2, <1>3, <1>4, <1>5, <1>6 DEF sync!Next

\* Once nothing is left to do, every path that is not broken is as it should be.
LEMMA SyncInvImplies == SyncInv => SyncConverges
<1> SUFFICES ASSUME SyncInv PROVE sync!SyncConverges
  BY DEF SyncInv, SyncConverges
<1> SUFFICES ASSUME progress = "done", NEW s \in sync!Side, NEW p \in Paths \ broken
             PROVE  /\ tree[s][p].kind = sync!Model(p, s).kind
                    /\ tree[s][p].size = sync!Model(p, s).size
  BY DEF sync!SyncConverges
<1>1. CourseOK /\ scan = {} /\ tasks = {}
  BY DEF SyncInv, Lost, PhaseOK
<1>2. Resolved(p)
  BY <1>1 DEF CourseOK, Awaited
<1> QED
  BY <1>2 DEF Resolved, Like

\* A sync that ends without an error leaves both sides as its options say, however often it was
\* cut short and started again: for folders of any depth and width, whatever they hold
\* (sync and _sync of transfer.ts).
THEOREM SyncsConverge == MCSpec => []SyncConverges
<1>1. MCInit => SyncInv
  BY SyncBegins DEF MCInit
<1>2. SyncInv /\ [MCNext]_<<part, vars, syncVars>> => SyncInv'
  BY SyncStep DEF MCNext
<1> QED
  BY <1>1, <1>2, SyncInvImplies, PTL DEF MCSpec
===============================================================================
