-------------------------- MODULE ConflictStateStore --------------------------
(***************************************************************************)
(* The store of upload conflicts on disk: fileHandlers/transfer/           *)
(* conflictStateStore.ts, used by the windows (extension hosts) that have  *)
(* the same project open.  Within a window the operations of the store run *)
(* one after another; the operations of two windows interleave at every    *)
(* file operation, and a window may die at any of them.                    *)
(*                                                                         *)
(* A conflict `i' has a directory with its report, conflict.json, and a    *)
(* snapshot of the remote file with a size.  Writing a report is one step  *)
(* here; JsonReplacement has the files it goes through.  The size of the   *)
(* JSON files, the text of records and the local recovery snapshot, which  *)
(* is taken through the same reservation, are left out; walking the        *)
(* directories to add up sizes is one step.                                *)
(***************************************************************************)
EXTENDS Integers, FiniteSets, FiniteSetsExt, Functions

CONSTANTS Session,      \* the windows
          Id,           \* the conflicts
          Owner,        \* the window that detects each of them
          Size,         \* sizes of remote files
          MaxOpen,      \* bound: conflicts a window has open at once
          MaxInactive,  \* policy.maxInactivePerWorkspace
          MaxSnapshot,  \* policy.maxSnapshotBytes
          MaxTotal,     \* policy.maxTotalBytes
          MaxAge,       \* policy.maxAgeMs
          LeaseStale,   \* policy.leaseStaleMs
          MaxTime,      \* bound: the clock stops here
          MaxAsk,       \* bound: requests of the users
          NoId          \* no conflict

ASSUME StoreAssumption ==
  /\ Owner \in [Id -> Session] /\ Size \subseteq Nat \ {0} /\ IsFiniteSet(Id) /\ NoId \notin Id
  /\ MaxOpen \in Nat /\ MaxInactive \in Nat /\ MaxSnapshot \in Nat /\ MaxTotal \in Nat
  /\ MaxAge \in Nat /\ LeaseStale \in Nat /\ MaxTime \in Nat /\ MaxAsk \in Nat

VARIABLES
  report,     \* conflict.json of each conflict
  dir,        \* the conflicts that have a directory
  snap,       \* size of the permanent remote snapshot, 0 when there is none
  tmpSnap,    \* size of the temporary one
  lease,      \* when a window's lease on the workspace was written, -1 when there is none
  alive,      \* the windows whose process runs
  clock,
  stage,      \* how far the bridge of the owning window is with a conflict
  expected,   \* bytes reserved for the snapshot of a conflict
  reserved,   \* reservedSnapshotBytes of a window
  op,         \* the operation at the head of a window's queue
  asked,      \* how many requests the users made
  leased      \* history: the conflicts first recorded while their window held its lease

disk == <<report, dir, snap, tmpSnap>>
vars == <<disk, lease, alive, clock, stage, expected, reserved, op, asked, leased>>

\* "reviewing", "resolving" and "uploading" are kept like "pending", and "uploaded",
\* "cancelled" and "failed" alike: they are "ended".
Active == {"capturing", "pending"}
Record == [status: Active \union {"ended", "orphaned", "none"}, shot: BOOLEAN, at: 0..MaxTime]
NoRecord == [status |-> "none", shot |-> FALSE, at |-> 0]
Stage == {"none", "prepared", "recorded", "reserved", "copied", "allowed", "refused",
          "captured", "pending", "ended"}
Kind == {"none", "prepare", "write", "reserve", "list", "clear", "retain"}
Phase == {"idle", "look", "reread", "repair", "rewrite", "remove", "lease"}
Idle == [kind |-> "none", id |-> NoId, phase |-> "idle", rest |-> {}, cur |-> NoId,
         copy |-> NoRecord, todo |-> 0]

TypeOK ==
  /\ report \in [Id -> Record] /\ dir \subseteq Id /\ snap \in [Id -> Nat] /\ tmpSnap \in [Id -> Nat]
  /\ lease \in [Session -> -1..MaxTime] /\ alive \subseteq Session /\ clock \in 0..MaxTime
  /\ stage \in [Id -> Stage] /\ expected \in [Id -> Nat] /\ reserved \in [Session -> Nat]
  /\ op \in [Session -> [kind: Kind, id: Id \union {NoId}, phase: Phase,
                         rest: SUBSET Id, cur: Id \union {NoId},
                         copy: Record, todo: Nat]]
  /\ asked \in 0..MaxAsk /\ leased \subseteq Id

Init ==
  /\ report = [i \in Id |-> NoRecord] /\ dir = {} /\ snap = [i \in Id |-> 0] /\ tmpSnap = snap
  /\ lease = [s \in Session |-> -1] /\ alive = Session /\ clock = 0
  /\ stage = [i \in Id |-> "none"] /\ expected = snap
  /\ reserved = [s \in Session |-> 0] /\ op = [s \in Session |-> Idle]
  /\ asked = 0 /\ leased = {}

-------------------------------------------------------------------------------
\* What the operations read.

IsActive(r) == r.status \in Active
LeaseLive(s) == lease[s] >= 0 /\ (s \in alive \/ clock - lease[s] <= LeaseStale)
RecordLive(s, i, r) == IsActive(r) /\ (Owner[i] = s \/ LeaseLive(Owner[i]))

Used == SumFunction(snap) + SumFunction(tmpSnap)
Inactive == {i \in dir : report[i] # NoRecord /\ ~IsActive(report[i])}
Older(i, j) == report[i].at <= report[j].at

\* The entries retention removes, oldest first: the expired ones, those beyond the
\* number kept for a workspace, and as many as bring the bytes under the limit.
\* Entries written at the same instant go in any order.
Expired == {i \in Inactive : clock - report[i].at > MaxAge}
OldestOf(S, R) == R \subseteq S /\ \A i \in R, j \in S \ R : Older(i, j)
Freed(R) == MapThenSumSet(LAMBDA i : snap[i] + tmpSnap[i], R)
Enough(R) == /\ OldestOf(Inactive, R) /\ Expired \subseteq R
             /\ Cardinality(Inactive \ R) <= MaxInactive
             /\ Used - Freed(R) <= MaxTotal \/ R = Inactive
Doomed == LET sets == {R \in SUBSET Inactive : Enough(R)}
          IN {R \in sets : \A T \in sets : Cardinality(R) <= Cardinality(T)}

Ready(s) == s \in alive /\ op[s].phase = "idle"
At(s, phase) == s \in alive /\ op[s].phase = phase
Enter(s, kind, i, n) ==
  op' = [op EXCEPT ![s] = [Idle EXCEPT !.kind = kind, !.id = i, !.phase = "look",
                                       !.rest = dir, !.todo = n]]
Leave(s) == op' = [op EXCEPT ![s] = Idle]
Go(s, phase) == op' = [op EXCEPT ![s].phase = phase]
Proceed(s) ==
  op' = [op EXCEPT ![s] = [op[s] EXCEPT !.phase = "look", !.rest = op[s].rest \ {op[s].cur},
                                        !.cur = NoId, !.copy = NoRecord]]
Touch(s) == lease' = [lease EXCEPT ![s] = clock]
OwnsActive(s) == \E i \in dir : Owner[i] = s /\ IsActive(report[i])
Refresh(s) == lease' = [lease EXCEPT ![s] = IF OwnsActive(s) THEN clock ELSE -1]

-------------------------------------------------------------------------------
\* The bridge of a window, which owns conflict `i', asks for the next operation.

Open(s) == {i \in Id : Owner[i] = s /\ stage[i] \notin {"none", "ended"}}

Prepare(i) ==
  LET s == Owner[i] IN
  /\ Ready(s) /\ stage[i] = "none" /\ Cardinality(Open(s)) < MaxOpen
  /\ Enter(s, "prepare", i, 0)
  /\ UNCHANGED <<disk, lease, alive, clock, stage, expected, reserved, asked, leased>>

\* writeRecord. Ended, a conflict is no longer the bridge's.
Write(i, status, shot) ==
  LET s == Owner[i]
      record == [status |-> status, shot |-> shot, at |-> clock] IN
  /\ Ready(s)
  /\ dir' = dir \union {i}
  /\ report' = [report EXCEPT ![i] = record]
  /\ op' = [op EXCEPT ![s] = [Idle EXCEPT !.kind = "write", !.id = i, !.phase = "lease",
                                          !.copy = record]]
  /\ stage' = [stage EXCEPT ![i] = IF status = "capturing" THEN "recorded" ELSE status]
  /\ leased' = IF status = "capturing" /\ lease[s] >= 0 THEN leased \union {i} ELSE leased
  /\ UNCHANGED <<snap, tmpSnap, lease, alive, clock, expected, reserved, asked>>

\* A conflict is recorded before its snapshot exists, is pending with or without one,
\* is written again while it is reviewed, and ends.
WriteCapturing(i) == stage[i] = "prepared" /\ Write(i, "capturing", TRUE)
WritePending(i) == \/ stage[i] = "captured" /\ Write(i, "pending", TRUE)
                   \/ stage[i] = "refused" /\ Write(i, "pending", FALSE)
                   \/ stage[i] = "pending" /\ Write(i, "pending", report[i].shot)
WriteEnded(i) == stage[i] = "pending" /\ Write(i, "ended", report[i].shot)

\* reserveSnapshot refuses a file over the limit at once.
Reserve(i, n) ==
  LET s == Owner[i] IN
  /\ Ready(s) /\ stage[i] = "recorded"
  /\ IF n > MaxSnapshot
       THEN stage' = [stage EXCEPT ![i] = "refused"] /\ UNCHANGED op
       ELSE Enter(s, "reserve", i, n) /\ UNCHANGED stage
  /\ UNCHANGED <<disk, lease, alive, clock, expected, reserved, asked, leased>>

Release(i) == /\ reserved' = [reserved EXCEPT ![Owner[i]] = @ - expected[i]]
              /\ expected' = [expected EXCEPT ![i] = 0]

\* The remote file is copied: it may have another size than the one reserved. Without
\* its directory the copy fails.
Copy(i, n) ==
  /\ Owner[i] \in alive /\ stage[i] = "reserved"
  /\ \/ /\ i \in dir /\ tmpSnap' = [tmpSnap EXCEPT ![i] = n]
        /\ stage' = [stage EXCEPT ![i] = "copied"] /\ UNCHANGED <<expected, reserved>>
     \/ /\ Release(i) /\ tmpSnap' = [tmpSnap EXCEPT ![i] = 0]
        /\ stage' = [stage EXCEPT ![i] = "refused"]
  /\ UNCHANGED <<report, dir, snap, lease, alive, clock, op, asked, leased>>

\* finalizeSnapshot: what is really used decides, the temporary file included, with
\* the reservations of the window's other snapshots.
\* Mutant: only the size of the file itself is looked at.
SmallEnough(i) == tmpSnap[i] > 0 /\ tmpSnap[i] <= MaxSnapshot
Fits(i) == /\ tmpSnap[i] > 0 /\ tmpSnap[i] <= MaxSnapshot
           /\ Used + (reserved[Owner[i]] - expected[i]) <= MaxTotal
Finalize(i) ==
  /\ Ready(Owner[i]) /\ stage[i] = "copied"
  /\ Release(i)
  /\ stage' = [stage EXCEPT ![i] = IF Fits(i) THEN "allowed" ELSE "refused"]
  /\ tmpSnap' = IF Fits(i) THEN tmpSnap ELSE [tmpSnap EXCEPT ![i] = 0]
  /\ UNCHANGED <<report, dir, snap, lease, alive, clock, op, asked, leased>>

\* replaceSnapshot.
Keep(i) ==
  /\ Owner[i] \in alive /\ stage[i] = "allowed"
  /\ stage' = [stage EXCEPT ![i] = IF tmpSnap[i] > 0 THEN "captured" ELSE "refused"]
  /\ snap' = [snap EXCEPT ![i] = IF tmpSnap[i] > 0 THEN tmpSnap[i] ELSE @]
  /\ tmpSnap' = [tmpSnap EXCEPT ![i] = 0]
  /\ UNCHANGED <<report, dir, lease, alive, clock, expected, reserved, op, asked, leased>>

\* The conflicts of the workspace are listed, or the user clears them.
Ask(s, kind) ==
  /\ Ready(s) /\ kind \in {"list", "clear"} /\ asked < MaxAsk
  /\ asked' = asked + 1
  /\ Enter(s, kind, NoId, 0)
  /\ UNCHANGED <<disk, lease, alive, clock, stage, expected, reserved, leased>>

Heartbeat(s) ==
  /\ Ready(s) /\ lease[s] >= 0 /\ lease[s] < clock /\ Touch(s)
  /\ UNCHANGED <<disk, alive, clock, stage, expected, reserved, op, asked, leased>>

-------------------------------------------------------------------------------
\* reconcileWorkspaceRoot, one directory after the other. The active records of the
\* window itself, and of windows with a live lease, are left alone.

Look(s, i) ==
  /\ At(s, "look") /\ i \in op[s].rest
  /\ op' = [op EXCEPT ![s] = IF i \in dir /\ ~RecordLive(s, i, report[i])
                               THEN [op[s] EXCEPT !.phase = "reread", !.cur = i]
                               ELSE [op[s] EXCEPT !.rest = op[s].rest \ {i}]]
  /\ UNCHANGED <<disk, lease, alive, clock, stage, expected, reserved, asked, leased>>

Reread(s) ==
  /\ At(s, "reread")
  /\ IF report[op[s].cur] = NoRecord
       THEN Proceed(s)
       ELSE op' = [op EXCEPT ![s].copy = report[op[s].cur], ![s].phase = "repair"]
  /\ UNCHANGED <<disk, lease, alive, clock, stage, expected, reserved, asked, leased>>

\* A missing snapshot is struck from the record, snapshots it does not name are
\* removed, and an active record of a window without a live lease is orphaned.
\* Mutant: the lease is not looked at again.
NotOwned(s, i, r) == IsActive(r) /\ Owner[i] # s
MustOrphan(s, i, r) == IsActive(r) /\ Owner[i] # s /\ ~LeaseLive(Owner[i])
Repaired(s, i, r) ==
  LET checked == [r EXCEPT !.shot = @ /\ snap[i] > 0] IN
  IF MustOrphan(s, i, r) THEN [checked EXCEPT !.status = "orphaned", !.at = clock] ELSE checked
Repair(s) ==
  LET i == op[s].cur
      r == Repaired(s, i, op[s].copy) IN
  /\ At(s, "repair")
  /\ tmpSnap' = [tmpSnap EXCEPT ![i] = 0]
  /\ snap' = IF r.shot THEN snap ELSE [snap EXCEPT ![i] = 0]
  /\ IF r = op[s].copy
       THEN Proceed(s)
       ELSE op' = [op EXCEPT ![s].copy = r, ![s].phase = "rewrite"]
  /\ UNCHANGED <<report, dir, lease, alive, clock, stage, expected, reserved, asked, leased>>

\* The repaired copy replaces whatever the report says by now.
Rewrite(s) ==
  LET i == op[s].cur IN
  /\ At(s, "rewrite")
  /\ report' = [report EXCEPT ![i] = op[s].copy] /\ dir' = dir \union {i}
  /\ Proceed(s)
  /\ UNCHANGED <<snap, tmpSnap, lease, alive, clock, stage, expected, reserved, asked, leased>>

\* After an active record the lease is renewed; after an ended one it is given up
\* unless the window has another active record, and retention follows.
Lease(s) ==
  /\ At(s, "lease")
  /\ IF IsActive(op[s].copy) THEN Touch(s) /\ Leave(s)
                             ELSE Refresh(s) /\ Enter(s, "retain", op[s].id, 0)
  /\ UNCHANGED <<disk, alive, clock, stage, expected, reserved, asked, leased>>

-------------------------------------------------------------------------------
\* What follows when every directory has been looked at.

Looked(s, kinds) == At(s, "look") /\ op[s].rest = {} /\ op[s].kind \in kinds

PrepareDone(s) ==
  /\ Looked(s, {"prepare"})
  /\ dir' = dir \union {op[s].id} /\ Touch(s)
  /\ stage' = [stage EXCEPT ![op[s].id] = "prepared"]
  /\ Leave(s)
  /\ UNCHANGED <<report, snap, tmpSnap, alive, clock, expected, reserved, asked, leased>>

ListDone(s) ==
  /\ Looked(s, {"list"}) /\ Leave(s)
  /\ UNCHANGED <<disk, lease, alive, clock, stage, expected, reserved, asked, leased>>

\* The entries to remove are chosen from what the reports say now.
Choose(s) ==
  /\ Looked(s, {"clear", "retain", "reserve"})
  /\ \E R \in (IF op[s].kind = "clear" THEN {Inactive} ELSE Doomed) :
       op' = [op EXCEPT ![s] = [op[s] EXCEPT !.phase = "remove", !.rest = R]]
  /\ UNCHANGED <<disk, lease, alive, clock, stage, expected, reserved, asked, leased>>

Remove(s, i) ==
  /\ At(s, "remove") /\ i \in op[s].rest
  /\ report' = [report EXCEPT ![i] = NoRecord] /\ dir' = dir \ {i}
  /\ snap' = [snap EXCEPT ![i] = 0] /\ tmpSnap' = [tmpSnap EXCEPT ![i] = 0]
  /\ op' = [op EXCEPT ![s].rest = @ \ {i}]
  /\ UNCHANGED <<lease, alive, clock, stage, expected, reserved, asked, leased>>

Removed(s, kinds) == At(s, "remove") /\ op[s].rest = {} /\ op[s].kind \in kinds

ClearDone(s) ==
  /\ Removed(s, {"clear"}) /\ Refresh(s) /\ Leave(s)
  /\ UNCHANGED <<disk, alive, clock, stage, expected, reserved, asked, leased>>

RetainDone(s) ==
  /\ Removed(s, {"retain"}) /\ Leave(s)
  /\ UNCHANGED <<disk, lease, alive, clock, stage, expected, reserved, asked, leased>>

\* The rest of reserveSnapshot.
Room(s, n) == Used + reserved[s] + n <= MaxTotal
Admit(s) ==
  LET i == op[s].id
      n == op[s].todo IN
  /\ Removed(s, {"reserve"})
  /\ IF Room(s, n)
       THEN /\ reserved' = [reserved EXCEPT ![s] = @ + n]
            /\ expected' = [expected EXCEPT ![i] = n]
            /\ stage' = [stage EXCEPT ![i] = "reserved"]
       ELSE stage' = [stage EXCEPT ![i] = "refused"] /\ UNCHANGED <<expected, reserved>>
  /\ Leave(s)
  /\ UNCHANGED <<disk, lease, alive, clock, asked, leased>>

-------------------------------------------------------------------------------
\* A window closes, with dispose() run to its end, or dies; one window remains.

Close(s) ==
  /\ Ready(s) /\ alive # {s}
  /\ alive' = alive \ {s} /\ lease' = [lease EXCEPT ![s] = -1]
  /\ UNCHANGED <<disk, clock, stage, expected, reserved, op, asked, leased>>

Die(s) ==
  /\ s \in alive /\ alive # {s}
  /\ alive' = alive \ {s} /\ Leave(s)
  /\ UNCHANGED <<disk, lease, clock, stage, expected, reserved, asked, leased>>

\* Bound: time passes only after a window is gone; until then it decides nothing but
\* the age of records.
Tick == /\ clock < MaxTime /\ alive # Session /\ clock' = clock + 1
        /\ UNCHANGED <<disk, lease, alive, stage, expected, reserved, op, asked, leased>>

Bridge(i) == \/ Prepare(i) \/ WriteCapturing(i) \/ WritePending(i) \/ WriteEnded(i)
             \/ \E n \in Size : Reserve(i, n) \/ Copy(i, n)
             \/ Finalize(i) \/ Keep(i)
Reconcile(s) == \/ \E i \in Id : Look(s, i)
                \/ Reread(s) \/ Repair(s) \/ Rewrite(s)
Finish(s) == \/ PrepareDone(s) \/ ListDone(s) \/ Choose(s) \/ ClearDone(s)
             \/ RetainDone(s) \/ Admit(s) \/ \E i \in Id : Remove(s, i)
Next == \/ \E i \in Id : Bridge(i)
        \/ \E s \in Session : \/ Reconcile(s) \/ Lease(s) \/ Finish(s)
                              \/ Heartbeat(s) \/ Close(s) \/ Die(s)
                              \/ \E kind \in Kind : Ask(s, kind)
        \/ Tick
Spec == Init /\ [][Next]_vars

-------------------------------------------------------------------------------
\* The stages in which the report of a conflict was written.
Recorded == Stage \ {"none", "prepared"}

Kept(i) == i \in dir /\ report[i].status # "orphaned"
OpenConflicts == {i \in Id : Owner[i] \in alive /\ stage[i] \in Recorded \ {"ended"}}

\* While its window runs, an open conflict that was first recorded under the window's
\* lease keeps its directory, and no other window orphans it, wherever the other
\* window's reconciliation, clearing and retention were when they looked.
LiveConflictKept == \A i \in OpenConflicts \intersect leased : Kept(i)

\* "Active conflict decisions in any editor window will be preserved."
DecisionPreserved == \A i \in OpenConflicts : Kept(i)

\* The snapshots kept are within the limit however the windows' reservations and
\* copies overlap and whatever the copies' real sizes, and a window's counter of
\* reserved bytes is what its snapshots under way reserved.
SnapshotBudget ==
  /\ SumFunction(snap) <= MaxTotal
  /\ \A s \in Session : reserved[s] = MapThenSumSet(LAMBDA i : expected[i],
                                          {i \in Id : Owner[i] = s /\ stage[i] \in {"reserved", "copied"}})
===============================================================================
