-------------------------- MODULE TransferScheduler --------------------------
(***************************************************************************)
(* The transfer schedulers of one FileService: core/scheduler.ts, the      *)
(* wrapper FileService.createTransferScheduler puts around it,             *)
(* TransferOperation's item table, and the handler that collects the       *)
(* tasks, runs the scheduler and retries (fileHandlers/transfer/index.ts,  *)
(* helper/retry.ts). Each handler invocation o \in Op runs in an activity  *)
(* group of its own and owns at most one live scheduler at a time.         *)
(*                                                                         *)
(* Every action is one synchronous stretch of the extension host's event   *)
(* loop. The priority queue is a sequence: no caller passes a priority.    *)
(* scheduler.pause() has no caller, so _isPaused is "not yet running".     *)
(***************************************************************************)
EXTENDS Naturals, FiniteSets, Sequences

CONSTANTS Op,           \* handler invocations (upload, download, sync)
          File,         \* the files an invocation may meet
          Concurrency,  \* config.concurrency
          MaxAttempts   \* getTransferRetryAttempts; 1 for uploads

ASSUME ConcurrencyAssumption == Concurrency \in Nat \ {0}
ASSUME MaxAttemptsAssumption == MaxAttempts \in Nat \ {0}

VARIABLES
  phase,            \* where the handler's coroutine stands
  attempt,          \* withRetry's loop counter
  discovery,        \* discovery[o][f]: progress of transferFile(f) in this attempt
  collectErrors,    \* kinds of errors the collecting children rejected with
  queue,            \* scheduler._queue
  pendingCount,     \* scheduler._pendingCount
  live,             \* tasks whose run() has started and not settled
  isStopped,        \* createTransferScheduler's isStopped
  firstError,       \* createTransferScheduler's firstError
  attemptError,     \* what the attempt's promise rejected with, "none": resolved
  status,           \* TransferOperation's items
  cancelled,        \* tasks of this attempt with _cancelled set
  inert,            \* tasks that were already cancelled when run() was called
  schedulers,       \* FileService._transferSchedulers
  pendingTransferTasks, \* FileService._pendingTransferTasks
  cancelRequested,  \* ActivityGroup.cancelRequested
  outcome           \* what the handler settled with

batchVars == <<status, cancelRequested, outcome>>
schedulerVars == <<queue, pendingCount, live, inert, isStopped, firstError>>
serviceVars == <<schedulers, pendingTransferTasks>>
vars == <<phase, attempt, discovery, collectErrors, queue, pendingCount, live, inert,
          isStopped, firstError, attemptError, status, cancelled, schedulers, pendingTransferTasks,
          cancelRequested, outcome>>

Status == {"none", "pending", "running", "completed", "failed", "cancelled", "not-started"}
\* isConnectionError tells the first kind from the second.
ErrorKind == {"connection", "other"}
\* What discovery may reject with: also the UploadConflictAbortError of a cancelled review.
CollectErrorKind == ErrorKind \union {"conflict"}
Discovery == {"absent", "listed", "checked", "added", "refused"}
Phase == {"waiting", "collecting", "running", "ended", "settled"}

RangeOf(s) == {s[i] : i \in 1..Len(s)}
\* _removeScheduler: findIndex, then splice.
Without(list, o) ==
  IF o \notin RangeOf(list) THEN list
  ELSE LET index == CHOOSE i \in 1..Len(list) : list[i] = o IN
       SubSeq(list, 1, index - 1) \o SubSeq(list, index + 1, Len(list))
Least(a, b) == IF a <= b THEN a ELSE b

Init ==
  /\ phase = [o \in Op |-> "waiting"]
  /\ attempt = [o \in Op |-> 0]
  /\ discovery = [o \in Op |-> [f \in File |-> "absent"]]
  /\ collectErrors = [o \in Op |-> {}]
  /\ queue = [o \in Op |-> << >>]
  /\ pendingCount = [o \in Op |-> 0]
  /\ live = [o \in Op |-> {}]
  /\ inert = [o \in Op |-> {}]
  /\ isStopped = [o \in Op |-> FALSE]
  /\ firstError = [o \in Op |-> "none"]
  /\ attemptError = [o \in Op |-> "none"]
  /\ status = [o \in Op |-> [f \in File |-> "none"]]
  /\ cancelled = [o \in Op |-> {}]
  /\ schedulers = << >>
  /\ pendingTransferTasks = {}
  /\ cancelRequested = [o \in Op |-> FALSE]
  /\ outcome = [o \in Op |-> "none"]

-------------------------------------------------------------------------------
(* stop(): the queue is drained, every drained task is cancelled and its    *)
(* item marked, and an idle scheduler leaves the service's list.            *)

Queued(o) == RangeOf(queue[o])

\* Mutant: the queue is emptied, the drained items keep their status.
DrainedStatusKept(S) == status
\* Statuses after stop() on the schedulers of S.
DrainedStatus(S) ==
  [o \in Op |-> [f \in File |->
     IF o \in S /\ f \in Queued(o) THEN "cancelled" ELSE status[o][f]]]
DrainedQueue(S) == [o \in Op |-> IF o \in S THEN << >> ELSE queue[o]]
\* The list after stop() on the scheduler of o: a busy one stays until it is idle.
StoppedIn(list, o) == IF pendingCount[o] = 0 THEN Without(list, o) ELSE list

\* Mutant: only failed items block the result.
BatchErrorFailedOnly(items, first) ==
  IF \E f \in File : items[f] = "failed"
    THEN IF first = "none" THEN "other" ELSE first
    ELSE "none"
\* hasBlockingTransferOutcome(operation.result()), and the rejection it causes: a
\* TransferBatchFailure, a connection error if its first cause was one.
BatchError(items, first) ==
  IF \E f \in File : items[f] \in {"failed", "cancelled", "not-started"}
    THEN IF first = "none" THEN "other" ELSE first
    ELSE "none"
-------------------------------------------------------------------------------
(* The handler: collect, run, retry.                                        *)

\* A new attempt lists the source, creates a scheduler, stores it, and registers
\* its stop() with the activity group, which calls it at once when the group is
\* already cancelled.
BeginAttempt(o) ==
  /\ phase[o] = "waiting"
  /\ phase' = [phase EXCEPT ![o] = "collecting"]
  /\ attempt' = [attempt EXCEPT ![o] = @ + 1]
  /\ \E listing \in SUBSET File :
       discovery' = [discovery EXCEPT ![o] =
                       [f \in File |-> IF f \in listing THEN "listed" ELSE "absent"]]
  /\ collectErrors' = [collectErrors EXCEPT ![o] = {}]
  /\ cancelled' = [cancelled EXCEPT ![o] = {}]
  /\ isStopped' = [isStopped EXCEPT ![o] = cancelRequested[o]]
  /\ firstError' = [firstError EXCEPT ![o] = "none"]
  /\ schedulers' = IF cancelRequested[o] THEN schedulers ELSE Append(schedulers, o)
  /\ inert' = [inert EXCEPT ![o] = {}]
  /\ UNCHANGED <<queue, pendingCount, live, attemptError, pendingTransferTasks, batchVars>>

\* transferFile: assertActivityNotCancelled, then the wait in beforeFileTransfer.
Check(o, f) ==
  /\ phase[o] = "collecting"
  /\ discovery[o][f] = "listed"
  /\ discovery' = [discovery EXCEPT ![o][f] = IF cancelRequested[o] THEN "refused" ELSE "checked"]
  /\ collectErrors' = [collectErrors EXCEPT ![o] =
                         IF cancelRequested[o] THEN @ \union {"other"} ELSE @]
  /\ UNCHANGED <<phase, attempt, attemptError, cancelled, schedulerVars, serviceVars, batchVars>>

\* Listing the directory, reading the file's metadata or beforeFileTransfer throws. Only
\* uploads are reviewed, and an upload has one attempt.
Refuse(o, f, kind) ==
  /\ phase[o] = "collecting"
  /\ kind = "conflict" => MaxAttempts = 1
  /\ discovery[o][f] \in {"listed", "checked"}
  /\ discovery' = [discovery EXCEPT ![o][f] = "refused"]
  /\ collectErrors' = [collectErrors EXCEPT ![o] = @ \union {kind}]
  /\ UNCHANGED <<phase, attempt, attemptError, cancelled, schedulerVars, serviceVars, batchVars>>

\* scheduler.add(task): queued, or marked not-started after stop(). A task added to a
\* cancelled group is cancelled by TransferOperation.add.
Add(o, f) ==
  /\ phase[o] = "collecting"
  /\ discovery[o][f] = "checked"
  /\ discovery' = [discovery EXCEPT ![o][f] = "added"]
  /\ cancelled' = [cancelled EXCEPT ![o] = IF cancelRequested[o] THEN @ \union {f} ELSE @]
  /\ IF isStopped[o]
       THEN /\ status' = [status EXCEPT ![o][f] = "not-started"]
            /\ UNCHANGED queue
       ELSE /\ status' = [status EXCEPT ![o][f] = "pending"]
            /\ queue' = [queue EXCEPT ![o] = Append(@, f)]
  /\ UNCHANGED <<phase, attempt, collectErrors, pendingCount, live, inert, isStopped, firstError,
                 attemptError, serviceVars, cancelRequested, outcome>>

Collected(o) ==
  /\ phase[o] = "collecting"
  /\ \A f \in File : discovery[o][f] \notin {"listed", "checked"}

\* collectAndRun's catch: the children have all settled and one of them rejected.
CollectThrow(o) ==
  /\ Collected(o)
  /\ \E kind \in collectErrors[o] : attemptError' = [attemptError EXCEPT ![o] = kind]
  /\ phase' = [phase EXCEPT ![o] = "ended"]
  /\ isStopped' = [isStopped EXCEPT ![o] = TRUE]
  /\ status' = DrainedStatus({o})
  /\ cancelled' = [cancelled EXCEPT ![o] = @ \union Queued(o)]
  /\ queue' = DrainedQueue({o})
  /\ schedulers' = StoppedIn(schedulers, o)
  /\ UNCHANGED <<attempt, discovery, collectErrors, pendingCount, live, inert, firstError,
                 pendingTransferTasks, cancelRequested, outcome>>

\* run() on a scheduler that was stopped while the tasks were collected; run() itself
\* stops it when the group is cancelled.
RunStopped(o) ==
  /\ Collected(o) /\ collectErrors[o] = {}
  /\ isStopped[o] \/ cancelRequested[o]
  /\ phase' = [phase EXCEPT ![o] = "ended"]
  /\ isStopped' = [isStopped EXCEPT ![o] = TRUE]
  /\ status' = DrainedStatus({o})
  /\ cancelled' = [cancelled EXCEPT ![o] = @ \union Queued(o)]
  /\ queue' = DrainedQueue({o})
  /\ schedulers' = StoppedIn(schedulers, o)
  /\ attemptError' = [attemptError EXCEPT ![o] = BatchError(status'[o], firstError[o])]
  /\ UNCHANGED <<attempt, discovery, collectErrors, pendingCount, live, inert, firstError,
                 pendingTransferTasks, cancelRequested, outcome>>

\* run() on an empty scheduler.
RunEmpty(o) ==
  /\ Collected(o) /\ collectErrors[o] = {}
  /\ ~isStopped[o] /\ ~cancelRequested[o] /\ queue[o] = << >>
  /\ phase' = [phase EXCEPT ![o] = "ended"]
  /\ schedulers' = Without(schedulers, o)
  /\ attemptError' = [attemptError EXCEPT ![o] = BatchError(status[o], firstError[o])]
  /\ UNCHANGED <<attempt, discovery, collectErrors, cancelled, schedulerVars,
                 pendingTransferTasks, batchVars>>

\* Mutants: the loop tests the limit after running a task; start() only clears the
\* pause and takes nothing.
StartCountOneMore(o) == Least(Len(queue[o]), Concurrency - pendingCount[o] + 1)
StartCountNone(o) == 0
\* How many queued tasks start() runs before the limit stops its loop.
StartCount(o) == Least(Len(queue[o]), Concurrency - pendingCount[o])
StartedBatch(o) == {queue[o][i] : i \in 1..StartCount(o)}

\* run(): start() takes tasks from the queue while the limit allows.
RunStart(o) ==
  /\ Collected(o) /\ collectErrors[o] = {}
  /\ ~isStopped[o] /\ ~cancelRequested[o] /\ queue[o] # << >>
  /\ phase' = [phase EXCEPT ![o] = "running"]
  /\ queue' = [queue EXCEPT ![o] = SubSeq(@, StartCount(o) + 1, Len(@))]
  /\ pendingCount' = [pendingCount EXCEPT ![o] = @ + StartCount(o)]
  /\ live' = [live EXCEPT ![o] = @ \union StartedBatch(o)]
  /\ inert' = [inert EXCEPT ![o] = @ \union (StartedBatch(o) \intersect cancelled[o])]
  /\ pendingTransferTasks' = pendingTransferTasks \union ({o} \X StartedBatch(o))
  /\ status' = [status EXCEPT ![o] =
                  [f \in File |-> IF f \in StartedBatch(o) THEN "running" ELSE @[f]]]
  /\ UNCHANGED <<attempt, discovery, collectErrors, isStopped, firstError, attemptError,
                 cancelled, schedulers, cancelRequested, outcome>>

-------------------------------------------------------------------------------
(* A task's run() settles: onTaskDone, then _next().                        *)

\* TransferOperation.finish
Finished(o, f, error) ==
  IF f \in cancelled[o] THEN "cancelled" ELSE IF error = "none" THEN "completed" ELSE "failed"

TaskDone(o, f, error) ==
  /\ f \in live[o]
  /\ f \in inert[o] => error = "none"
  /\ firstError' = [firstError EXCEPT ![o] = IF @ = "none" THEN error ELSE @]
  /\ UNCHANGED <<attempt, discovery, collectErrors, isStopped, cancelled, cancelRequested, outcome>>

\* Mutant: _next() reads the count before it is decremented.
NoneLeftStale(o) == pendingCount[o] <= 0
\* _next()'s test, after "_pendingCount -= 1".
NoneLeft(o) == pendingCount[o] <= 1

\* _next() takes the head of the queue.
DoneThenNext(o, f, error) ==
  /\ TaskDone(o, f, error)
  /\ queue[o] # << >>
  /\ LET g == Head(queue[o]) IN
       /\ live' = [live EXCEPT ![o] = (@ \ {f}) \union {g}]
       /\ inert' = [inert EXCEPT ![o] = @ \union ({g} \intersect cancelled[o])]
       /\ status' = [status EXCEPT ![o][f] = Finished(o, f, error), ![o][g] = "running"]
       /\ pendingTransferTasks' = (pendingTransferTasks \ {<<o, f>>}) \union {<<o, g>>}
  /\ queue' = [queue EXCEPT ![o] = Tail(@)]
  /\ UNCHANGED <<pendingCount, phase, attemptError, schedulers>>

\* Nothing queued, others still running.
DoneThenWait(o, f, error) ==
  /\ TaskDone(o, f, error)
  /\ queue[o] = << >> /\ ~NoneLeft(o)
  /\ pendingCount' = [pendingCount EXCEPT ![o] = @ - 1]
  /\ live' = [live EXCEPT ![o] = @ \ {f}]
  /\ status' = [status EXCEPT ![o][f] = Finished(o, f, error)]
  /\ pendingTransferTasks' = pendingTransferTasks \ {<<o, f>>}
  /\ UNCHANGED <<queue, inert, phase, attemptError, schedulers>>

\* Nothing queued, nothing running: "idle" settles the attempt's promise.
DoneThenIdle(o, f, error) ==
  /\ TaskDone(o, f, error)
  /\ queue[o] = << >> /\ NoneLeft(o)
  /\ pendingCount' = [pendingCount EXCEPT ![o] = @ - 1]
  /\ live' = [live EXCEPT ![o] = @ \ {f}]
  /\ status' = [status EXCEPT ![o][f] = Finished(o, f, error)]
  /\ pendingTransferTasks' = pendingTransferTasks \ {<<o, f>>}
  /\ schedulers' = Without(schedulers, o)
  /\ phase' = [phase EXCEPT ![o] = "ended"]
  /\ attemptError' = [attemptError EXCEPT ![o] = BatchError(status'[o], firstError'[o])]
  /\ UNCHANGED <<queue, inert>>

\* Mutant: the loop counts retries, not attempts.
MayRetryOnceMore(o) == attemptError[o] = "connection" /\ attempt[o] <= MaxAttempts
\* withRetry: a connection error is tried again while attempts remain.
MayRetry(o) == attemptError[o] = "connection" /\ attempt[o] < MaxAttempts

Retry(o) ==
  /\ phase[o] = "ended" /\ MayRetry(o)
  /\ phase' = [phase EXCEPT ![o] = "waiting"]
  /\ UNCHANGED <<attempt, discovery, collectErrors, attemptError, cancelled, schedulerVars,
                 serviceVars, batchVars>>

\* The handler runs its post-transfer hook, returns quietly because a review was
\* cancelled, or throws.
OutcomeOf(error) ==
  CASE error = "none" -> "resolved" [] error = "conflict" -> "abandoned" [] OTHER -> "rejected"

Settle(o) ==
  /\ phase[o] = "ended" /\ ~MayRetry(o)
  /\ phase' = [phase EXCEPT ![o] = "settled"]
  /\ outcome' = [outcome EXCEPT ![o] = OutcomeOf(attemptError[o])]
  /\ UNCHANGED <<attempt, discovery, collectErrors, attemptError, cancelled, schedulerVars,
                 serviceVars, status, cancelRequested>>

-------------------------------------------------------------------------------
(* Cancellation.                                                            *)

\* Mutant: a task's registered cancellation is released when the task starts.
AddedNotStarted(o) == Queued(o)
\* The tasks whose cancellation TransferOperation.add registered with the group.
Added(o) == {f \in File : discovery[o][f] = "added"}

\* Between the handler's entry and its end the group is active.
Active(o) == phase[o] # "settled" /\ ~cancelRequested[o]

\* Cancelling one task from the queue view: task.cancel().
CancelItem(o, f) ==
  /\ phase[o] \in {"collecting", "running"}
  /\ f \in Added(o) \ cancelled[o]
  /\ status[o][f] \in {"pending", "running"}
  /\ cancelled' = [cancelled EXCEPT ![o] = @ \union {f}]
  /\ UNCHANGED <<phase, attempt, discovery, collectErrors, attemptError, schedulerVars,
                 serviceVars, batchVars>>

\* ActivityStore.cancel(group): the stop() and the task cancels the operation
\* registered, once.
CancelOperation(o) ==
  /\ Active(o)
  /\ cancelRequested' = [cancelRequested EXCEPT ![o] = TRUE]
  /\ isStopped' = [isStopped EXCEPT ![o] = TRUE]
  /\ status' = DrainedStatus({o})
  /\ queue' = DrainedQueue({o})
  /\ cancelled' = [cancelled EXCEPT ![o] = @ \union Added(o)]
  /\ schedulers' = StoppedIn(schedulers, o)
  /\ UNCHANGED <<phase, attempt, discovery, collectErrors, pendingCount, live, inert, firstError,
                 attemptError, pendingTransferTasks, outcome>>

\* The indices Array.forEach visits while stop() removes idle schedulers from the
\* array under it: removing the element at i moves its successor to i, and the
\* loop goes on at i + 1. scan[n] is the array and what was stopped after n rounds.
Scan(list) ==
  LET scan[n \in 0..Len(list)] ==
        IF n = 0 THEN [list |-> list, stopped |-> {}]
        ELSE LET before == scan[n - 1] IN
             IF n > Len(before.list) THEN before
             ELSE LET o == before.list[n] IN
                  [list |-> StoppedIn(before.list, o),
                   stopped |-> before.stopped \union {o}]
  IN scan[Len(list)].stopped

\* The groups "Cancel All Transfers" cancels before it turns to the file service.
GroupsToCancel == {o \in Op : Active(o)}

\* "Cancel All Transfers": every active group, then FileService.cancelTransferTasks.
CancelAllTransfers ==
  LET groups == GroupsToCancel
      remaining == SelectSeq(schedulers, LAMBDA o : o \notin groups \/ pendingCount[o] # 0)
      scanned == Scan(remaining)
      stopped == groups \union scanned
      aborted(o) == IF remaining = << >> THEN {}
                    ELSE {f \in File : <<o, f>> \in pendingTransferTasks}
  IN
  /\ groups # {} \/ schedulers # << >>
  /\ cancelRequested' = [o \in Op |-> cancelRequested[o] \/ o \in groups]
  /\ isStopped' = [o \in Op |-> isStopped[o] \/ o \in stopped]
  /\ status' = DrainedStatus(stopped)
  /\ queue' = DrainedQueue(stopped)
  /\ cancelled' = [o \in Op |-> cancelled[o] \union aborted(o)
                     \union (IF o \in groups THEN Added(o) ELSE {})
                     \union (IF o \in scanned THEN Queued(o) ELSE {})]
  /\ schedulers' = << >>
  /\ pendingTransferTasks' = IF remaining = << >> THEN pendingTransferTasks ELSE {}
  /\ UNCHANGED <<phase, attempt, discovery, collectErrors, pendingCount, live, inert, firstError,
                 attemptError, outcome>>

-------------------------------------------------------------------------------
Handler(o) == \/ BeginAttempt(o) \/ CollectThrow(o) \/ RunStopped(o) \/ RunEmpty(o)
              \/ RunStart(o) \/ Retry(o) \/ Settle(o)
Collect(o, f) == \/ Check(o, f) \/ Add(o, f) \/ \E kind \in CollectErrorKind : Refuse(o, f, kind)
Done(o, f) == \E error \in ErrorKind \union {"none"} :
                 \/ DoneThenNext(o, f, error) \/ DoneThenWait(o, f, error)
                 \/ DoneThenIdle(o, f, error)
Cancellation == \/ \E o \in Op : CancelOperation(o)
                \/ \E o \in Op, f \in File : CancelItem(o, f)
                \/ CancelAllTransfers

Next == \/ \E o \in Op : Handler(o)
        \/ \E o \in Op, f \in File : Collect(o, f) \/ Done(o, f)
        \/ Cancellation

Spec == Init /\ [][Next]_vars

(* The coroutine of a handler goes on, and a task's I/O ends: clients time   *)
(* out or report a closed connection. A file waiting in beforeFileTransfer   *)
(* may wait for a person for ever, so collecting is fair only once the group *)
(* is cancelled: then the wait loop and assertActivityNotCancelled end it.   *)
Fairness == /\ \A o \in Op : WF_vars(Handler(o))
            /\ \A o \in Op, f \in File : WF_vars(Done(o, f))
            /\ \A o \in Op, f \in File : WF_vars(cancelRequested[o] /\ Collect(o, f))

FairSpec == Spec /\ Fairness
-------------------------------------------------------------------------------
TypeOK ==
  /\ phase \in [Op -> Phase]
  /\ attempt \in [Op -> 0..MaxAttempts]
  /\ discovery \in [Op -> [File -> Discovery]]
  /\ collectErrors \in [Op -> SUBSET CollectErrorKind]
  /\ queue \in [Op -> Seq(File)]
  /\ pendingCount \in [Op -> Nat]
  /\ live \in [Op -> SUBSET File]
  /\ inert \in [Op -> SUBSET File]
  /\ isStopped \in [Op -> BOOLEAN]
  /\ firstError \in [Op -> ErrorKind \union {"none"}]
  /\ attemptError \in [Op -> CollectErrorKind \union {"none"}]
  /\ status \in [Op -> [File -> Status]]
  /\ cancelled \in [Op -> SUBSET File]
  /\ schedulers \in Seq(Op)
  /\ pendingTransferTasks \in SUBSET (Op \X File)
  /\ cancelRequested \in [Op -> BOOLEAN]
  /\ outcome \in [Op -> {"none", "resolved", "abandoned", "rejected"}]

\* The counter the scheduler reads is the number of tasks in flight, and never
\* exceeds the configured concurrency, whatever order tasks end in.
ConcurrencyBound ==
  \A o \in Op : pendingCount[o] = Cardinality(live[o]) /\ pendingCount[o] <= Concurrency

\* No item is lost between the operation's table and the scheduler: an item is
\* pending exactly while its task is queued, once, and running exactly while its task
\* is in flight; a started scheduler with queued work has a task in flight to go on to
\* it, and once the attempt ended nothing is left behind.
NoTaskStranded ==
  \A o \in Op :
    /\ \A f \in File : /\ status[o][f] = "pending" <=> f \in Queued(o)
                       /\ status[o][f] = "running" <=> f \in live[o]
    /\ \A i, j \in 1..Len(queue[o]) : queue[o][i] = queue[o][j] => i = j
    /\ phase[o] = "running" => live[o] # {}
    /\ phase[o] \notin {"collecting", "running"} => queue[o] = << >>
    /\ phase[o] # "running" => live[o] = {}

\* Once a group is cancelled nothing of its operation is queued, and what is still in
\* flight is cancelled: across discovery, later attempts and the tasks added after
\* the cancellation.
CancelReachesEveryTask ==
  \A o \in Op : cancelRequested[o] => queue[o] = << >> /\ live[o] \subseteq cancelled[o]

\* The operation behaves as TransferBatch promises.
Batch == INSTANCE TransferBatch WITH
           status <- status, cancelRequested <- cancelRequested, outcome <- outcome
ImplementsBatch == Batch!Spec

\* A started batch settles, and a cancelled operation ends wherever it was.
StartedSettles == \A o \in Op : phase[o] = "running" ~> phase[o] = "ended"
CancelSettles == \A o \in Op : cancelRequested[o] ~> outcome[o] # "none"
===============================================================================
