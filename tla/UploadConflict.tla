---------------------------- MODULE UploadConflict ----------------------------
(***************************************************************************)
(* One upload conflict from its capture to its terminal record:            *)
(* fileHandlers/transfer/conflictBridge.ts, the beforeFileTransfer and     *)
(* afterFileTransfer of conflictCheck.ts that drive it, and the task that  *)
(* uploads the file once a decision was accepted. The actors are the       *)
(* handler's coroutine, an editor agent (requests and responses are files  *)
(* the MCP server writes), the person at the conflict menu, the editor     *)
(* that saves the local file, another writer of the remote file, the       *)
(* activity view's cancel, and disposal of the bridge.                     *)
(*                                                                         *)
(* A step of the coroutine ends where the code awaits something another    *)
(* actor can change. A hash is the content it was taken of; the stamp is   *)
(* the remote's modification second and size, and every remote write       *)
(* changes it. "saw" fields are history: what the decider was looking at.  *)
(***************************************************************************)
EXTENDS Naturals, Sequences, FiniteSets

CONSTANTS Content,      \* file contents
          None,         \* undefined or null
          Missing,      \* the remote file does not exist
          ExactTime,    \* the server reports modification times (mtime > 0)
          Batch,        \* the transfer has other files
          MaxChanges,   \* bound: local edits and remote writes by others
          MaxRequests,  \* bound: requests an agent posts
          MaxMenus      \* bound: times the conflict menu is opened

ASSUME ContentAssumption == None \notin Content /\ Missing \notin Content /\ None # Missing
ASSUME FlagsAssumption == ExactTime \in BOOLEAN /\ Batch \in BOOLEAN
ASSUME BoundsAssumption == MaxChanges \in Nat /\ MaxRequests \in Nat /\ MaxMenus \in Nat

VARIABLES
  local, remote, stamp, changes,   \* the two files and the bound's counter
  rec,              \* session.record, in memory
  stored,           \* status of the record on disk
  held,             \* the local path is in activeConflictPaths
  live,             \* the id is in liveConflictUi
  menu, choice, menus, \* the open menu, manualChoices, the bound's counter
  requests, posted, \* request files without a response, the bound's counter
  batch, cur,       \* requests of this poll left to serve, the one served
  pc, caller, probe, \* the coroutine: where it is, who revalidates, what it read
  put,              \* the transfer task: "none", "running", "done", "failed"
  cancelRequested,  \* ActivityGroup.cancelRequested
  expired           \* session.generation is no longer bridgeGeneration

files == <<local, remote, stamp, changes>>
ui == <<live, menu, choice, menus>>
agent == <<requests, posted, batch, cur>>
coroutine == <<pc, caller, probe>>
vars == <<local, remote, stamp, changes, rec, stored, held, live, menu, choice, menus,
          requests, posted, batch, cur, pc, caller, probe, put, cancelRequested, expired>>

Mutable == {"capturing", "pending", "reviewing"}
Terminal == {"uploaded", "cancelled", "failed"}
RecordStatus == Mutable \union Terminal \union {"resolving", "uploading"}
Active == RecordStatus \ Terminal
Caller == {"none", "manual", "upload", "batch", "ack", "refuse"}

Saw == [local |-> rec.local, remote |-> rec.remote]
NoProbe == [local |-> None, remote |-> None, stamp |-> 0, allowed |-> None, saw |-> None]

Init ==
  /\ local \in Content /\ remote \in Content /\ stamp = 1 /\ changes = 0
  /\ rec = [status |-> "capturing", revision |-> 1, local |-> None, remote |-> None,
            stamp |-> 1, stale |-> {}, candidate |-> None,
            recovery |-> None, decision |-> None]
  /\ stored = None /\ held = FALSE
  /\ live = FALSE /\ menu = None /\ choice = None /\ menus = 0
  /\ requests = {} /\ posted = 0 /\ batch = {} /\ cur = None
  /\ pc = "capture" /\ caller = "none"
  /\ probe = NoProbe
  /\ put = "none" /\ cancelRequested = FALSE /\ expired = FALSE

Goto(label) == pc' = label
-------------------------------------------------------------------------------
(* captureConflict                                                          *)

CaptureRecord ==
  /\ pc = "capture"
  /\ rec' = [rec EXCEPT !.local = local]
  /\ stored' = "capturing" /\ held' = TRUE
  /\ Goto("recovery")
  /\ UNCHANGED <<files, ui, agent, caller, probe, put, cancelRequested, expired>>

\* captureLocalRecovery, then liveConflictUi.set. The snapshot may not be admitted.
CaptureLocal ==
  /\ pc = "recovery"
  /\ \E snapshot \in {local, None} : rec' = [rec EXCEPT !.recovery = snapshot]
  /\ live' = TRUE
  /\ Goto("snapshot")
  /\ UNCHANGED <<files, stored, held, menu, choice, menus, agent, caller, probe, put,
                 cancelRequested, expired>>

\* The remote is downloaded some time after the stat that found the conflict.
CaptureRemote ==
  /\ pc = "snapshot"
  /\ \E hash \in {remote, None} \ {Missing} :
       rec' = [rec EXCEPT !.remote = hash, !.status = "pending"]
  /\ stored' = "pending"
  /\ Goto("captured")
  /\ UNCHANGED <<files, held, ui, agent, caller, probe, put, cancelRequested, expired>>

\* The store is gone before the capture ends.
CaptureThrows ==
  /\ pc \in {"capture", "recovery", "snapshot"} /\ expired
  /\ Goto("ended")
  /\ UNCHANGED <<files, rec, stored, held, ui, agent, caller, probe, put, cancelRequested, expired>>

Revalidate(who, allowed, saw) ==
  /\ pc' = "hash" /\ caller' = who
  /\ probe' = [NoProbe EXCEPT !.allowed = allowed, !.saw = saw]

\* Another file of the batch may have been answered with Overwrite All.
Captured ==
  /\ pc = "captured"
  /\ \/ Batch /\ Revalidate("batch", None, None)
     \/ Goto("loop") /\ UNCHANGED <<caller, probe>>
  /\ UNCHANGED <<files, rec, stored, held, ui, agent, put, cancelRequested, expired>>

-------------------------------------------------------------------------------
(* revalidateConflict                                                       *)

RevalidateHash ==
  /\ pc = "hash"
  /\ probe' = [probe EXCEPT !.local = local]
  /\ Goto("stat")
  /\ UNCHANGED <<files, rec, stored, held, ui, agent, caller, put, cancelRequested, expired>>

LocalChanged == probe.local # rec.local /\ probe.local # probe.allowed

\* Mutant: the record takes the status "stale" of the agents' instructions.
SupersededStale(r, stale) ==
  [r EXCEPT !.revision = @ + 1, !.local = probe.local, !.decision = None,
            !.candidate = None, !.stale = stale, !.status = "stale"]
\* What changed since the record was published: a new revision, nothing prepared.
Superseded(r, stale) ==
  [r EXCEPT !.revision = @ + 1, !.local = probe.local, !.decision = None,
            !.candidate = None, !.stale = stale, !.status = "pending"]

\* A missing remote never validates. It is a new revision unless the record says so already.
RevalidateMissing ==
  LET stale == {"missing"} \union (IF LocalChanged THEN {"local"} ELSE {})
      next == Superseded(rec, stale)
      told == ~LocalChanged /\ rec.candidate = None /\ rec.stale = stale
  IN
  /\ pc = "stat" /\ remote = Missing
  /\ rec' = [next EXCEPT !.revision = IF told THEN rec.revision ELSE @]
  /\ stored' = "pending"
  /\ Goto("invalid")
  /\ UNCHANGED <<files, held, ui, agent, caller, probe, put, cancelRequested, expired>>

\* The end of revalidateConflict, on the record r the remote side left.
Conclude(r, remoteChanged) ==
  LET stale == (IF LocalChanged THEN {"local"} ELSE {})
                 \union (IF remoteChanged THEN {"remote"} ELSE {})
  IN
  /\ rec' = IF stale # {} THEN Superseded(r, stale)
                          ELSE [r EXCEPT !.local = probe.local, !.stale = {}]
  /\ stored' = rec'.status
  /\ Goto(IF stale # {} THEN "invalid" ELSE "valid")

\* The metadata are those of the record: the content is not downloaded again.
RevalidateUnchanged ==
  /\ pc = "stat" /\ remote # Missing
  /\ ExactTime /\ stamp = rec.stamp
  /\ probe' = [probe EXCEPT !.remote = remote]
  /\ Conclude(rec, FALSE)
  /\ UNCHANGED <<files, held, ui, agent, caller, put, cancelRequested, expired>>

RevalidateStat ==
  /\ pc = "stat" /\ remote # Missing
  /\ ~ExactTime \/ stamp # rec.stamp
  /\ probe' = [probe EXCEPT !.stamp = stamp]
  /\ Goto("fetch")
  /\ UNCHANGED <<files, rec, stored, held, ui, agent, caller, put, cancelRequested, expired>>

\* refreshRemoteSnapshot: the record takes the downloaded content, with the metadata of
\* the earlier stat. Without a snapshot it keeps the old ones and counts as changed.
RevalidateFetch ==
  /\ pc = "fetch"
  /\ \/ /\ remote # Missing
        /\ probe' = [probe EXCEPT !.remote = remote]
        /\ Conclude([rec EXCEPT !.remote = remote, !.stamp = probe.stamp], remote # rec.remote)
     \/ /\ Conclude(rec, TRUE)
        /\ UNCHANGED probe
  /\ UNCHANGED <<files, held, ui, agent, caller, put, cancelRequested, expired>>

-------------------------------------------------------------------------------
(* Answers to the agent, and the end of the handler's wait.                 *)

\* respond: the served request has its response, and the loop goes on to the next.
Answer == requests' = requests \ {cur} /\ cur' = None
Forget == caller' = "none" /\ probe' = NoProbe
AnswerAndGoOn == Answer /\ Forget /\ Goto("serve")
Leave(label) == Goto(label) /\ Forget /\ UNCHANGED <<requests, cur>>

\* The local file cannot be read, the stat fails, or the bridge's store is gone. Inside a
\* decision the exception leaves beforeFileTransfer; a request is answered with an error.
RevalidateThrows ==
  /\ pc \in {"hash", "stat"} \/ (expired /\ pc \in {"fetch", "valid", "invalid"})
  /\ \/ caller \in {"manual", "upload", "batch"} /\ Leave("ended")
     \/ caller \in {"ack", "refuse"} /\ AnswerAndGoOn
  /\ UNCHANGED <<files, rec, stored, held, ui, posted, batch, put, cancelRequested, expired>>

\* Mutant: an Overwrite that turned out stale is accepted on the refreshed record.
InvalidAccepts ==
  /\ pc = "invalid"
  /\ \/ caller = "manual" /\ Goto("valid") /\ UNCHANGED <<requests, cur, caller, probe>>
     \/ caller = "batch" /\ Leave("loop")
     \/ caller \in {"upload", "ack", "refuse"} /\ AnswerAndGoOn
  /\ UNCHANGED <<files, rec, stored, held, ui, posted, batch, put, cancelRequested, expired>>
\* The revalidation failed: a manual choice is dropped, a request is answered stale, a
\* batch overwrite falls back to a decision of this file's own.
Invalid ==
  /\ pc = "invalid"
  /\ \/ caller = "manual" /\ Leave("poll")
     \/ caller = "batch" /\ Leave("loop")
     \/ caller \in {"upload", "ack", "refuse"} /\ AnswerAndGoOn
  /\ UNCHANGED <<files, rec, stored, held, ui, posted, batch, put, cancelRequested, expired>>

-------------------------------------------------------------------------------
(* acceptDecision once everything was checked, closeManualUi, and the       *)
(* answers to requests the decision supersedes.                             *)

\* Mutant: the menu and its pending choice stay when a decision is accepted.
CloseManualUiKept == UNCHANGED <<live, menu, choice>>
CloseManualUi == live' = FALSE /\ menu' = None /\ choice' = None

\* A validated overwrite. An agent's also needs its candidate to be the local file.
Accept ==
  /\ pc = "valid" /\ caller \in {"manual", "upload", "batch"}
  /\ caller = "upload" => rec.candidate = rec.local
  /\ rec' = [rec EXCEPT !.status = "resolving", !.decision = [action |-> "overwrite", source |-> caller]]
  /\ stored' = "resolving"
  /\ Goto(IF caller = "batch" THEN "mark" ELSE "accepted")
  /\ UNCHANGED <<files, held, ui, agent, caller, probe, put, cancelRequested, expired>>

RefuseValid ==
  /\ pc = "valid"
  /\ caller = "refuse" \/ (caller = "upload" /\ rec.candidate # rec.local)
  /\ AnswerAndGoOn
  /\ UNCHANGED <<files, rec, stored, held, ui, posted, batch, put, cancelRequested, expired>>

CloseAccepted ==
  /\ pc = "accepted"
  /\ CloseManualUi
  /\ IF caller = "upload" THEN Answer ELSE UNCHANGED <<requests, cur>>
  /\ Goto("answer")
  /\ UNCHANGED <<files, rec, stored, held, menus, posted, batch, caller, probe, put,
                 cancelRequested, expired>>

\* A cancel is not revalidated: the record ends, the path is released, the menu closes.
Cancelled(source) ==
  /\ rec' = [rec EXCEPT !.status = "cancelled",
                        !.decision = [action |-> "cancel", source |-> source]]
  /\ stored' = "cancelled" /\ held' = FALSE
  /\ CloseManualUi

AnswerSuperseded ==
  /\ pc = "answer"
  /\ requests' = {} /\ batch' = {}
  /\ cancelRequested' = (cancelRequested \/ rec.decision.action = "cancel")
  /\ Goto(IF rec.decision.action = "cancel" THEN "ended" ELSE "mark")
  /\ UNCHANGED <<files, rec, stored, held, ui, posted, cur, caller, probe, put, expired>>

-------------------------------------------------------------------------------
(* waitForConflictDecision                                                  *)

LoopExpired ==
  /\ pc = "loop" /\ expired
  /\ Goto("ended")
  /\ UNCHANGED <<files, rec, stored, held, ui, agent, caller, probe, put, cancelRequested, expired>>

\* Mutant: the cancel is recorded, but the wait goes on.
LoopCancelledStays ==
  /\ pc = "loop" /\ ~expired /\ cancelRequested
  /\ Cancelled("activity")
  /\ Goto("poll")
  /\ UNCHANGED <<files, menus, agent, caller, probe, put, cancelRequested, expired>>
LoopCancelled ==
  /\ pc = "loop" /\ ~expired /\ cancelRequested
  /\ Cancelled("activity")
  /\ Goto("ended")
  /\ UNCHANGED <<files, menus, agent, caller, probe, put, cancelRequested, expired>>

\* The choice is taken, whether or not it can be accepted.
LoopManual ==
  /\ pc = "loop" /\ ~expired /\ ~cancelRequested /\ choice # None
  /\ \/ /\ choice.revision # rec.revision
        /\ choice' = None /\ Goto("poll")
        /\ UNCHANGED <<rec, stored, held, live, menu, caller, probe>>
     \/ /\ choice.revision = rec.revision /\ choice.action = "cancel"
        /\ Cancelled("manual") /\ Goto("answer")
        /\ UNCHANGED <<caller, probe>>
     \/ /\ choice.revision = rec.revision /\ choice.action = "overwrite"
        /\ choice' = None /\ Revalidate("manual", None, choice.saw)
        /\ UNCHANGED <<rec, stored, held, live, menu>>
  /\ UNCHANGED <<files, menus, agent, put, cancelRequested, expired>>

LoopPoll ==
  /\ pc = "loop" /\ ~expired /\ ~cancelRequested /\ choice = None
  /\ Goto("poll")
  /\ UNCHANGED <<files, rec, stored, held, ui, agent, caller, probe, put, cancelRequested, expired>>

\* Mutant: only requests for the current revision are read.
PollCurrent ==
  /\ pc = "poll"
  /\ IF expired THEN Goto("ended") /\ UNCHANGED batch
                ELSE /\ Goto("serve")
                     /\ batch' = {request \in requests : request.revision = rec.revision}
  /\ UNCHANGED <<files, rec, stored, held, ui, requests, posted, cur, caller, probe, put,
                 cancelRequested, expired>>
\* pendingRequests, then the generation again.
Poll ==
  /\ pc = "poll"
  /\ IF expired THEN Goto("ended") /\ UNCHANGED batch
                ELSE Goto("serve") /\ batch' = requests
  /\ UNCHANGED <<files, rec, stored, held, ui, requests, posted, cur, caller, probe, put,
                 cancelRequested, expired>>

ServeDone ==
  /\ pc = "serve" /\ batch = {}
  /\ Goto("loop")
  /\ UNCHANGED <<files, rec, stored, held, ui, agent, caller, probe, put, cancelRequested, expired>>

\* The capability is this bridge's and the request was written for this revision.
UpToDate(request) == ~expired /\ request.revision = rec.revision

\* The files of a poll are served in the order of their random names. The dirty buffer,
\* the content and the link checks may refuse any preparation.
ServeRefused(request) ==
  /\ pc = "serve" /\ request \in batch
  /\ \/ ~UpToDate(request)
     \/ request.kind \in {"submit", "ack"}
     \/ request.kind = "upload" /\ rec.candidate = None
  /\ batch' = batch \ {request} /\ requests' = requests \ {request}
  /\ UNCHANGED <<files, rec, stored, held, ui, posted, cur, coroutine, put, cancelRequested, expired>>

\* A preparation goes on in steps of its own, an upload is revalidated.
Serve(request) ==
  /\ pc = "serve" /\ request \in batch /\ UpToDate(request)
  /\ batch' = batch \ {request} /\ cur' = request
  /\ \/ request.kind = "submit" /\ Goto("submit") /\ UNCHANGED <<caller, probe>>
     \/ request.kind = "ack" /\ rec.recovery # None /\ Goto("ack") /\ UNCHANGED <<caller, probe>>
     \/ request.kind = "upload" /\ rec.candidate # None /\ Revalidate("upload", None, request.saw)
  /\ UNCHANGED <<files, rec, stored, held, ui, requests, posted, put, cancelRequested, expired>>

ServeCancel(request) ==
  /\ pc = "serve" /\ request \in batch /\ UpToDate(request) /\ request.kind = "cancel"
  /\ Cancelled("agent") /\ Goto("answer")
  /\ requests' = requests \ {request}
  /\ UNCHANGED <<files, menus, posted, batch, cur, caller, probe, put, cancelRequested, expired>>

-------------------------------------------------------------------------------
(* submitLocalCandidate and acknowledgeLocalCandidate                       *)

\* The local file must be the one the record describes and the agent read.
SubmitHash ==
  /\ pc = "submit"
  /\ IF local = rec.local /\ local = cur.expected
       THEN Goto("recover") /\ UNCHANGED <<caller, probe>>
       ELSE Revalidate("refuse", None, None)
  /\ UNCHANGED <<files, rec, stored, held, ui, agent, put, cancelRequested, expired>>

\* Mutant: a missing snapshot does not stop the replacement.
SubmitRecoverAnyway ==
  /\ pc = "recover"
  /\ Goto("replace")
  /\ UNCHANGED <<files, rec, stored, held, ui, agent, caller, probe, put, cancelRequested, expired>>
\* A snapshot is taken only if there is none yet; without one nothing is replaced.
SubmitRecover ==
  /\ pc = "recover"
  /\ \/ /\ rec' = [rec EXCEPT !.recovery = IF @ = None THEN local ELSE @]
        /\ Goto("replace") /\ UNCHANGED <<requests, cur, caller, probe>>
     \/ rec.recovery = None /\ AnswerAndGoOn /\ UNCHANGED rec
  /\ UNCHANGED <<files, stored, held, ui, posted, batch, put, cancelRequested, expired>>

\* replaceLocalAtomically: renamed into place, or rolled back and refused.
SubmitReplace ==
  /\ pc = "replace"
  /\ \/ local' = cur.content /\ Goto("record") /\ UNCHANGED <<requests, cur, caller, probe>>
     \/ AnswerAndGoOn /\ UNCHANGED local
  /\ UNCHANGED <<remote, stamp, changes, rec, stored, held, ui, posted, batch, put,
                 cancelRequested, expired>>

Prepared(hash) ==
  /\ rec' = [rec EXCEPT !.revision = @ + 1, !.local = hash, !.candidate = hash,
                        !.stale = {}, !.status = "pending"]
  /\ stored' = "pending"
  /\ AnswerAndGoOn

\* The replaced file is checked and hashed again.
SubmitRecord ==
  /\ pc = "record"
  /\ \/ Prepared(local)
     \/ AnswerAndGoOn /\ UNCHANGED <<rec, stored>>
  /\ UNCHANGED <<files, held, ui, posted, batch, put, cancelRequested, expired>>

AckHash ==
  /\ pc = "ack"
  /\ IF local = cur.expected THEN Revalidate("ack", local, None)
                             ELSE Revalidate("refuse", None, None)
  /\ UNCHANGED <<files, rec, stored, held, ui, agent, put, cancelRequested, expired>>

AckRecord ==
  /\ pc = "valid" /\ caller = "ack"
  /\ Prepared(probe.allowed)
  /\ UNCHANGED <<files, held, ui, posted, batch, put, cancelRequested, expired>>

-------------------------------------------------------------------------------
(* markConflictUploading, the transfer task, and its report.                *)

MarkUploading ==
  /\ pc = "mark"
  /\ IF expired THEN Goto("ended") /\ UNCHANGED <<rec, stored>>
                ELSE /\ rec' = [rec EXCEPT !.status = "uploading"]
                     /\ stored' = "uploading" /\ Goto("marked")
  /\ UNCHANGED <<files, held, ui, agent, caller, probe, put, cancelRequested, expired>>

\* The generation again after the write; then transferFile hands the task to the scheduler.
Queue ==
  /\ pc = "marked"
  /\ Goto(IF expired THEN "ended" ELSE "queued")
  /\ UNCHANGED <<files, rec, stored, held, ui, agent, caller, probe, put, cancelRequested, expired>>

\* The task never runs, and nothing tells the conflict: stop() drained the scheduler, since
\* the group was cancelled or another file of the batch could not be collected, or the
\* queued task was cancelled by itself and run() returns at once.
DropTask ==
  /\ pc = "queued"
  /\ Goto("ended")
  /\ UNCHANGED <<files, rec, stored, held, ui, agent, caller, probe, put, cancelRequested, expired>>

StartPut ==
  /\ pc = "queued" /\ ~cancelRequested
  /\ put' = "running" /\ probe' = [NoProbe EXCEPT !.local = local]
  /\ caller' = "none" /\ Goto("putting")
  /\ UNCHANGED <<files, rec, stored, held, ui, agent, cancelRequested, expired>>

PutDone ==
  /\ pc = "putting"
  /\ remote' = probe.local /\ stamp' = stamp + 1
  /\ put' = "done" /\ Goto("report") /\ Forget
  /\ UNCHANGED <<local, changes, rec, stored, held, ui, agent, cancelRequested, expired>>

\* A failed put leaves the remote as it was or cut short.
PutFails ==
  /\ pc = "putting"
  /\ \/ UNCHANGED <<remote, stamp>>
     \/ remote' \in Content /\ stamp' = stamp + 1
  /\ put' = "failed" /\ Goto("report") /\ Forget
  /\ UNCHANGED <<local, changes, rec, stored, held, ui, agent, cancelRequested, expired>>

\* Mutant: onTransferError marks the record uploaded.
ReportedAlways == "uploaded"
Reported == IF put = "done" THEN "uploaded" ELSE "failed"

\* updateConflictByReference: a copy read from disk gets the terminal status; the
\* session's own record does not.
Report ==
  /\ pc = "report"
  /\ IF expired THEN UNCHANGED <<stored, held>>
                ELSE stored' = Reported /\ held' = FALSE
  /\ Goto("ended")
  /\ UNCHANGED <<files, rec, ui, agent, caller, probe, put, cancelRequested, expired>>

-------------------------------------------------------------------------------
(* The other actors.                                                        *)

LocalEdit(content) ==
  /\ pc # "ended" /\ changes < MaxChanges /\ content # local
  /\ local' = content /\ changes' = changes + 1
  /\ UNCHANGED <<remote, stamp, rec, stored, held, ui, agent, coroutine, put, cancelRequested, expired>>

RemoteChange(content) ==
  /\ pc # "ended" /\ changes < MaxChanges /\ content # remote
  /\ remote' = content /\ stamp' = stamp + 1 /\ changes' = changes + 1
  /\ UNCHANGED <<local, rec, stored, held, ui, agent, coroutine, put, cancelRequested, expired>>

\* showConflictActions
OpenMenu ==
  /\ menus < MaxMenus /\ menus' = menus + 1
  /\ live /\ rec.status \notin Terminal
  /\ menu' = [revision |-> rec.revision, saw |-> Saw]
  /\ UNCHANGED <<files, rec, stored, held, live, choice, agent, coroutine, put, cancelRequested, expired>>

CloseMenu ==
  /\ menu # None /\ menu' = None
  /\ UNCHANGED <<files, rec, stored, held, live, choice, menus, agent, coroutine, put,
                 cancelRequested, expired>>

\* openNativeDiff
OpenDiff ==
  /\ menu # None /\ menu' = None
  /\ rec.status \notin Terminal
  /\ rec' = [rec EXCEPT !.status = "reviewing"] /\ stored' = "reviewing"
  /\ UNCHANGED <<files, held, live, choice, menus, agent, coroutine, put, cancelRequested, expired>>

Choose(action) ==
  /\ menu # None /\ menu' = None
  /\ choice' = [action |-> action, revision |-> menu.revision, saw |-> menu.saw]
  /\ UNCHANGED <<files, rec, stored, held, live, menus, agent, coroutine, put, cancelRequested, expired>>

\* sendBridgeRequest, for the revision last read from the record. An agent submits for
\* the local hash the record gives, and acknowledges the file it reads.
Post(kind, expected, content, saw) ==
  /\ pc # "ended" /\ ~expired /\ posted < MaxRequests /\ posted' = posted + 1
  /\ stored \in Mutable
  /\ requests' = requests \union {[id |-> posted', kind |-> kind, revision |-> rec.revision,
                                   expected |-> expected, content |-> content, saw |-> saw]}
  /\ UNCHANGED <<files, rec, stored, held, ui, batch, cur, coroutine, put, cancelRequested, expired>>

PostAny ==
  \/ \E content \in Content : Post("submit", rec.local, content, None)
  \/ Post("ack", local, None, None)
  \/ Post("upload", None, None, Saw)
  \/ Post("cancel", None, None, None)

\* After 15 seconds the agent's call fails and its request file is removed; a poll that
\* already read the file serves it all the same.
Withdraw(request) ==
  /\ pc # "ended" /\ request \in requests
  /\ requests' = requests \ {request}
  /\ UNCHANGED <<files, rec, stored, held, ui, posted, batch, cur, coroutine, put,
                 cancelRequested, expired>>

\* ActivityStore.cancel
CancelOperation ==
  /\ ~cancelRequested /\ pc # "ended"
  /\ cancelRequested' = TRUE
  /\ UNCHANGED <<files, rec, stored, held, ui, agent, coroutine, put, expired>>

\* disposeConflictBridge, also when the bridge is initialised again.
Dispose ==
  /\ ~expired /\ expired' = TRUE
  /\ live' = FALSE /\ menu' = None /\ choice' = None /\ held' = FALSE
  /\ UNCHANGED <<files, rec, stored, menus, agent, coroutine, put, cancelRequested>>

-------------------------------------------------------------------------------
Capture == CaptureRecord \/ CaptureLocal \/ CaptureRemote \/ CaptureThrows \/ Captured
Revalidation == \/ RevalidateHash \/ RevalidateMissing \/ RevalidateUnchanged \/ RevalidateStat
                \/ RevalidateFetch \/ RevalidateThrows \/ Invalid
Loop == \/ LoopExpired \/ LoopCancelled \/ LoopManual \/ LoopPoll \/ Poll \/ ServeDone
        \/ \E request \in batch : ServeRefused(request) \/ Serve(request) \/ ServeCancel(request)
Candidate == \/ SubmitHash \/ SubmitRecover \/ SubmitReplace \/ SubmitRecord
             \/ AckHash \/ AckRecord
Acceptance == Accept \/ RefuseValid \/ CloseAccepted \/ AnswerSuperseded
Upload == \/ MarkUploading \/ Queue \/ DropTask \/ StartPut \/ PutDone \/ PutFails \/ Report
Coroutine == Capture \/ Revalidation \/ Loop \/ Candidate \/ Acceptance \/ Upload

Person == \/ OpenMenu \/ CloseMenu \/ OpenDiff
          \/ \E action \in {"overwrite", "cancel"} : Choose(action)
Agent == PostAny \/ \E request \in requests : Withdraw(request)
Others == \/ \E content \in Content : LocalEdit(content)
          \/ \E content \in Content \union {Missing} : RemoteChange(content)

Next == Coroutine \/ Person \/ Agent \/ Others \/ CancelOperation \/ Dispose

Spec == Init /\ [][Next]_vars
\* Timers fire and I/O ends, so the coroutine goes on; nobody else has to act.
FairSpec == Spec /\ WF_vars(Coroutine)
-------------------------------------------------------------------------------
Hash == Content \union {None}
SawType == [local : Hash, remote : Hash]
Decisions == [action : {"overwrite", "cancel"},
              source : {"manual", "upload", "batch", "activity", "agent"}]
\* undefined and null are neither an object nor a status.
ASSUME NoneAssumption == None \notin Decisions \union RecordStatus
RequestType == [id : 1..MaxRequests, kind : {"submit", "ack", "upload", "cancel"}, revision : Nat,
                expected : Hash, content : Hash, saw : SawType \union {None}]

TypeOK ==
  /\ local \in Content /\ remote \in Content \union {Missing}
  /\ stamp \in Nat /\ changes \in 0..MaxChanges /\ menus \in 0..MaxMenus
  /\ rec \in [status : RecordStatus, revision : Nat, local : Hash, remote : Hash, stamp : Nat,
              stale : SUBSET {"local", "remote", "missing"},
              candidate : Hash, recovery : Hash, decision : Decisions \union {None}]
  /\ stored \in RecordStatus \union {None}
  /\ held \in BOOLEAN /\ live \in BOOLEAN
  /\ menu \in [revision : Nat, saw : SawType] \union {None}
  /\ choice \in [action : {"overwrite", "cancel"}, revision : Nat, saw : SawType] \union {None}
  /\ requests \subseteq RequestType /\ batch \subseteq RequestType /\ posted \in 0..MaxRequests
  /\ cur \in RequestType \union {None}
  /\ caller \in Caller
  /\ probe \in [local : Hash, remote : Hash, stamp : Nat, allowed : Hash, saw : SawType \union {None}]
  /\ put \in {"none", "running", "done", "failed"}
  /\ cancelRequested \in BOOLEAN /\ expired \in BOOLEAN

\* Between the acceptance of an overwrite and the task that uploads.
Deciding == {"accepted", "answer", "mark", "marked", "queued"}
Overwriting(source) ==
  /\ pc \in Deciding /\ rec.decision # None
  /\ rec.decision.action = "overwrite" /\ rec.decision.source = source

SawRemote == probe.saw.remote \in {probe.remote, None}
SawLocal == probe.saw.local = probe.local

\* "If either side changes during review, the extension refreshes the conflict instead
\* of applying an outdated decision": an accepted Overwrite or upload request was
\* made looking at the remote content the revalidation then found (or at none: a remote
\* side without a snapshot was not shown, and an Overwrite of it is explicit), and so
\* was an agent's request, and a person's choice where no agent takes part, with the
\* local content.
ReviewedVersions ==
  /\ Overwriting("manual") \/ Overwriting("upload") => SawRemote
  /\ Overwriting("upload") \/ (Overwriting("manual") /\ posted = 0) => SawLocal

\* The same with an agent about: a person's Overwrite too is applied to no other local
\* content than the one the menu was opened on.
ChoiceIsCurrent == Overwriting("manual") => SawLocal

\* An agent's upload is accepted only for the content it submitted or acknowledged, and
\* a person's local content had been recoverable before the agent could replace it.
AgentUploadsItsCandidate ==
  Overwriting("upload") => /\ rec.candidate = probe.local
                           /\ rec.recovery # None

\* "Only uploaded confirms success" and "Cancel upload: leave the remote file
\* unchanged": what the record says on disk agrees with what was done to the remote.
StatusTellsTruth ==
  /\ stored = "uploaded" => put = "done"
  /\ stored = "cancelled" => put = "none"
  /\ stored = "failed" => put = "failed"
  /\ put # "none" => rec.decision # None /\ rec.decision.action = "overwrite"

\* A terminal record is final: no late write of the session, of the menu or of a report
\* opens it again.
TerminalIsFinal == [][(stored \in Terminal) => stored' = stored]_vars

\* While the record on disk is open, saves and watchers keep off the file.
ActiveIsHeld == ~expired /\ stored \in Active => held

\* "Cancel upload: leave the remote file unchanged": the upload does not start while a
\* Cancel picked on the current revision is waiting to be read.
CancelUploadHonoured ==
  [][put = "none" /\ put' = "running" =>
       ~(choice # None /\ choice.action = "cancel" /\ choice.revision = rec.revision)]_vars

\* Once its transfer has ended a conflict has one of the statuses an agent waits for.
EndedIsTerminal == pc = "ended" /\ ~expired => stored \in Terminal

\* "submitted text is ... recoverable": when a candidate takes the place of the local
\* content, that content, or at least the one the agent was shown, is in the snapshot.
ReplacedIsRecoverable ==
  [][pc = "replace" /\ pc' = "record" => rec.recovery \in {local, cur.expected}]_vars

\* The wait for a decision; past it, requests are no longer read.
Waiting == pc \notin {"accepted", "answer", "mark", "marked", "queued", "putting", "report", "ended"}

\* Every request is answered as long as the handler waits for a decision.
RequestsServed ==
  \A id \in 1..MaxRequests :
    (Waiting /\ \E request \in requests : request.id = id)
      ~> (~Waiting \/ \A request \in requests : request.id # id)

\* Cancelling the operation and disposing the bridge both end the handler's wait.
StopEnds == (cancelRequested \/ expired) ~> pc = "ended"
===============================================================================
