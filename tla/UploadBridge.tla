------------------------------ MODULE UploadBridge ------------------------------
(***************************************************************************)
(* Uploads that an agent requests (uploadBridge.ts, uploadRunner.ts and    *)
(* the tools upload_files and uploads_wait of server.ts): a request file,  *)
(* accepted once, a serial queue of jobs, and a result file that is saved  *)
(* after every change and polled.                                          *)
(***************************************************************************)
EXTENDS Naturals, Sequences, FiniteSets

CONSTANTS Job, File

VARIABLES
  request,     \* whether the request file of a job exists
  seen,        \* the requests the scan has taken up
  items,       \* the status of every file of a job, in the bridge's memory
  saved,       \* the result file: statuses and whether it is terminal
  queue,       \* the accepted jobs, the first of which runs
  running,     \* the file being uploaded
  transferred, \* the files that were really uploaded, per job
  aborted,     \* whether the bridge was disposed
  gone,        \* whether the editor's process has ended
  told         \* what a tool answered last

vars == <<request, seen, items, saved, queue, running, transferred, aborted, gone, told>>

Nothing == [files |-> [f \in File |-> "none"], terminal |-> FALSE]
Final == {"uploaded", "skipped", "failed", "cancelled"}
Status == Final \union {"none", "pending", "uploading", "conflict"}
Result == [files : [File -> Status], terminal : BOOLEAN]

TypeOK ==
  /\ request \subseteq Job /\ seen \subseteq Job
  /\ items \in [Job -> [File -> Status]] /\ saved \in [Job -> Result]
  /\ queue \in Seq(Job) /\ Len(queue) <= Cardinality(Job)
  /\ running \subseteq File /\ Cardinality(running) <= 1
  /\ transferred \in [Job -> SUBSET File] /\ {aborted, gone} \subseteq BOOLEAN
  /\ told \in [Job -> Result]

Init ==
  /\ request = {} /\ seen = {} /\ queue = <<>> /\ running = {}
  /\ items = [j \in Job |-> [f \in File |-> "none"]]
  /\ saved = [j \in Job |-> Nothing] /\ told = saved
  /\ transferred = [j \in Job |-> {}] /\ aborted = FALSE /\ gone = FALSE

-------------------------------------------------------------------------------
\* upload_files writes the request under a name of its own.
Submit(j) ==
  /\ saved[j] = Nothing /\ j \notin request \union seen
  /\ request' = request \union {j}
  /\ UNCHANGED <<seen, items, saved, queue, running, transferred, aborted, gone, told>>

\* waitForUpload answers with the result file as it is; without one, with the request.
Answer(j) ==
  /\ saved[j] # told[j] /\ told' = [told EXCEPT ![j] = saved[j]]
  /\ UNCHANGED <<request, seen, items, saved, queue, running, transferred, aborted, gone>>

\* scan and processRequest: the first look at a request is the only one. The result is
\* saved, the request removed, the job queued; a request of another session or an old
\* one stays where it is, and a failure leaves the job as far as it came.
Found(j) == ~gone /\ ~aborted /\ j \in request \ seen /\ seen' = seen \union {j}
Pending == [f \in File |-> "pending"]
Save(j, files, terminal) ==
  saved' = [saved EXCEPT ![j] = [files |-> files, terminal |-> terminal]]

Accept(j) ==
  /\ Found(j)
  /\ items' = [items EXCEPT ![j] = Pending] /\ Save(j, Pending, FALSE)
  /\ request' = request \ {j} /\ queue' = Append(queue, j)
  /\ UNCHANGED <<running, transferred, aborted, gone, told>>

Ignore(j) ==
  /\ Found(j)
  /\ UNCHANGED <<request, items, saved, queue, running, transferred, aborted, gone, told>>

SaveThenFail(j) ==
  /\ Found(j) /\ Save(j, Pending, FALSE)
  /\ UNCHANGED <<request, items, queue, running, transferred, aborted, gone, told>>

-------------------------------------------------------------------------------
\* The queue: file after file of the first job.
Current(j) == ~gone /\ queue # <<>> /\ Head(queue) = j
Mark(j, f, status) ==
  LET files == [items[j] EXCEPT ![f] = status] IN
  items' = [items EXCEPT ![j] = files] /\ Save(j, files, FALSE)
Idle(j) == Current(j) /\ running = {}

Begin(j, f) ==
  /\ Idle(j) /\ ~aborted /\ items[j][f] = "pending"
  /\ Mark(j, f, "uploading") /\ running' = {f}
  /\ UNCHANGED <<request, seen, queue, transferred, aborted, gone, told>>

\* The file is no regular file of the project, or is excluded by it.
Refuse(j, f) ==
  /\ Idle(j) /\ ~aborted /\ items[j][f] = "pending"
  /\ \E status \in {"failed", "skipped"} : Mark(j, f, status)
  /\ UNCHANGED <<request, seen, queue, running, transferred, aborted, gone, told>>

CancelRest(j, f) ==
  /\ Idle(j) /\ aborted /\ items[j][f] = "pending"
  /\ items' = [items EXCEPT ![j][f] = "cancelled"]
  /\ UNCHANGED <<request, seen, saved, queue, running, transferred, aborted, gone, told>>

\* runMcpUpload. A conflict shows in the result while it is open.
MeetConflict(j, f) ==
  /\ Current(j) /\ f \in running /\ items[j][f] = "uploading"
  /\ Mark(j, f, "conflict")
  /\ UNCHANGED <<request, seen, queue, running, transferred, aborted, gone, told>>

Transfer(j, f) ==
  /\ Current(j) /\ f \in running /\ f \notin transferred[j]
  /\ transferred' = [transferred EXCEPT ![j] = @ \union {f}]
  /\ UNCHANGED <<request, seen, items, saved, queue, running, aborted, gone, told>>

\* A completed item of the activity decides, then a cancellation, then the error.
\* Mutant: a cancellation decides before what was transferred.
OutcomeCancelled(j, f) ==
  IF aborted THEN {"cancelled"}
  ELSE IF f \in transferred[j] THEN {"uploaded"} ELSE {"failed", "cancelled"}
Outcome(j, f) ==
  IF f \in transferred[j] THEN {"uploaded"}
  ELSE IF aborted THEN {"cancelled"} ELSE {"failed", "cancelled"}
Finish(j, f) ==
  /\ Current(j) /\ f \in running
  /\ \E status \in Outcome(j, f) : Mark(j, f, status)
  /\ running' = {}
  /\ UNCHANGED <<request, seen, queue, transferred, aborted, gone, told>>

\* Mutant: once disposed of, the loop stops without a last result.
TerminateAlive(j) ==
  /\ ~aborted /\ Idle(j) /\ \A f \in File : items[j][f] \in Final
  /\ Save(j, items[j], TRUE) /\ queue' = Tail(queue)
  /\ UNCHANGED <<request, seen, items, running, transferred, aborted, gone, told>>
Terminate(j) ==
  /\ Idle(j) /\ \A f \in File : items[j][f] \in Final
  /\ Save(j, items[j], TRUE) /\ queue' = Tail(queue)
  /\ UNCHANGED <<request, seen, items, running, transferred, aborted, gone, told>>

\* The result cannot be saved: the job is given up, and the next one runs.
GiveUp(j) ==
  /\ Idle(j) /\ queue' = Tail(queue)
  /\ UNCHANGED <<request, seen, items, saved, running, transferred, aborted, gone, told>>

Dispose == /\ ~aborted /\ aborted' = TRUE
           /\ UNCHANGED <<request, seen, items, saved, queue, running, transferred, gone, told>>
EndProcess == /\ ~gone /\ gone' = TRUE
              /\ UNCHANGED <<request, seen, items, saved, queue, running, transferred,
                             aborted, told>>

Handle(j, f) == \/ Begin(j, f) \/ Refuse(j, f) \/ CancelRest(j, f) \/ MeetConflict(j, f)
                \/ Transfer(j, f) \/ Finish(j, f)
Next == \/ Dispose \/ EndProcess
        \/ \E j \in Job : \/ Submit(j) \/ Answer(j) \/ Accept(j) \/ Ignore(j)
                          \/ SaveThenFail(j) \/ Terminate(j) \/ GiveUp(j)
                          \/ \E f \in File : Handle(j, f)
\* Fairness: the promises of the loop that works the queue off settle, and so does an
\* upload that is not in a conflict or whose conflict was cancelled.
Work == \E j \in Job :
          \/ Terminate(j)
          \/ \E f \in File :
               \/ Begin(j, f) \/ Refuse(j, f) \/ CancelRest(j, f)
               \/ (items[j][f] # "conflict" \/ aborted) /\ Finish(j, f)
Fairness == WF_vars(Work)
Spec == Init /\ [][Next]_vars /\ Fairness

-------------------------------------------------------------------------------
\* An answer never says more or less than what happened: a file reported uploaded was,
\* and in a terminal answer every file is decided and every uploaded one reported, also
\* when cancelling races the upload.
ReportsTruth ==
  \A j \in Job :
    /\ \A f \in File : told[j].files[f] = "uploaded" => f \in transferred[j]
    /\ told[j].terminal => /\ \A f \in File : told[j].files[f] \in Final
                           /\ \A f \in transferred[j] : told[j].files[f] = "uploaded"

\* Every accepted job is worked off, also when the bridge is disposed, unless the editor
\* ends or the first one is in a conflict that waits for a person.
Waits(j) == ~aborted /\ \E f \in File : items[j][f] = "conflict"
AcceptedEnds == queue # <<>> ~> queue = <<>> \/ gone \/ Waits(Head(queue))
===============================================================================
