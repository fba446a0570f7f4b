----------------------- MODULE ConflictStateStore_proofs -----------------------
(***************************************************************************)
(* What is being reviewed is kept, and the snapshots stay within their     *)
(* limit (conflictStateStore.ts), for any windows and conflicts, any       *)
(* policy, any leases and sizes. IInv says what windows' operations are    *)
(* about and knows no sizes; BudgetInv adds these up.                      *)
(***************************************************************************)
EXTENDS ConflictStateStore, FiniteSetTheorems, WellFoundedInduction, TLAPS

\* The open conflicts of which it is proved.
Held == OpenConflicts \intersect leased

\* An operation of a window.
Operation == [kind: Kind, id: Id \union {NoId}, phase: Phase, rest: SUBSET Id,
              cur: Id \union {NoId}, copy: Record, todo: Nat]

\* The part of TypeOK that the proof needs.
ShapeOK ==
  /\ report \in [Id -> Record] /\ dir \subseteq Id
  /\ lease \in [Session -> -1..MaxTime] /\ alive \subseteq Session /\ clock \in 0..MaxTime
  /\ stage \in [Id -> Stage]
  /\ op \in [Session -> Operation]
  /\ leased \subseteq Id

\* What a window's operation is about.
OpFit(s) ==
  /\ op[s].phase # "idle" /\ op[s].kind \in {"prepare", "reserve"} =>
       /\ op[s].id \in Id /\ Owner[op[s].id] = s
       /\ stage[op[s].id] = IF op[s].kind = "prepare" THEN "none" ELSE "recorded"
  /\ op[s].phase = "reread" => op[s].cur \in Id
  /\ op[s].phase \in {"repair", "rewrite"} =>
       /\ op[s].cur \in Id /\ stage[op[s].cur] \in Recorded
       /\ op[s].cur \in Held => IsActive(op[s].copy)
  /\ op[s].phase = "remove" => \A i \in op[s].rest : stage[i] \in Recorded /\ i \notin Held
OpFits == \A s \in Session : OpFit(s)

\* A report is there only once its conflict was recorded; a held conflict's is active, in
\* its directory, under its window's lease.
ReportFits ==
  \A i \in Id :
    /\ report[i] # NoRecord \/ i \in leased => stage[i] \in Recorded
    /\ i \in Held => i \in dir /\ IsActive(report[i]) /\ lease[Owner[i]] >= 0

IInv == ShapeOK /\ OpFits /\ ReportFits

LEMMA RecordTypes == NoRecord \in Record /\ Idle \in Operation
<1>1. NoRecord \in Record
  BY StoreAssumption DEF StoreAssumption, NoRecord, Record
<1> QED
  BY <1>1 DEF Idle, Operation, Kind, Phase

\* What the actions assign to a window's operation.
LEMMA EnterTypes ==
  ASSUME NEW k \in Kind, NEW i \in Id \union {NoId}, NEW R \in SUBSET Id, NEW n \in Nat
  PROVE  [Idle EXCEPT !.kind = k, !.id = i, !.phase = "look", !.rest = R, !.todo = n]
           \in Operation
BY RecordTypes DEF Operation, Phase

LEMMA WriteTypes ==
  ASSUME NEW i \in Id, NEW c \in Record
  PROVE  [Idle EXCEPT !.kind = "write", !.id = i, !.phase = "lease", !.copy = c] \in Operation
BY RecordTypes DEF Operation, Phase, Kind

LEMMA StepTypes ==
  ASSUME NEW o \in Operation, NEW p \in Phase, NEW R \in SUBSET Id, NEW i \in Id,
         NEW c \in Record
  PROVE  /\ [o EXCEPT !.phase = p, !.cur = i] \in Operation
         /\ [o EXCEPT !.rest = R] \in Operation
         /\ [o EXCEPT !.phase = p, !.rest = R] \in Operation
         /\ [[o EXCEPT !.copy = c] EXCEPT !.phase = p] \in Operation
         /\ [o EXCEPT !.phase = "look", !.rest = R, !.cur = NoId, !.copy = NoRecord]
              \in Operation
BY RecordTypes DEF Operation, Phase

LEMMA InitInv == Init => IInv
<1> SUFFICES ASSUME Init PROVE IInv
  OBVIOUS
<1> USE StoreAssumption DEF StoreAssumption, Init
<1>1. ShapeOK
  BY RecordTypes DEF ShapeOK, Stage
<1>2. OpFits
  BY DEF OpFits, OpFit, Idle
<1>3. ReportFits
  BY DEF ReportFits, Held, OpenConflicts
<1> QED
  BY <1>1, <1>2, <1>3 DEF IInv

-------------------------------------------------------------------------------
(* Types                                                                    *)

LEMMA BridgeShape == ASSUME IInv, NEW i \in Id, Bridge(i) PROVE ShapeOK'
<1> USE StoreAssumption DEF StoreAssumption, disk, IInv, ShapeOK, Stage
<1>1. CASE Prepare(i)
  BY <1>1, EnterTypes DEF Prepare, Enter, Kind
<1>2. ASSUME NEW status \in Active \union {"ended"}, NEW shot \in BOOLEAN, Write(i, status, shot)
      PROVE  ShapeOK'
  <2>1. [status |-> status, shot |-> shot, at |-> clock] \in Record
    BY DEF Record
  <2>2. op' \in [Session -> Operation] /\ report' \in [Id -> Record]
    BY <1>2, <2>1, WriteTypes DEF Write
  <2> QED
    BY <1>2, <2>2 DEF Write, Active
<1>3. CASE WriteCapturing(i) \/ WritePending(i) \/ WriteEnded(i)
  <2>1. report[i].shot \in BOOLEAN
    BY DEF Record
  <2> QED
    BY <1>2, <1>3, <2>1 DEF WriteCapturing, WritePending, WriteEnded, Active
<1>4. ASSUME NEW n \in Size, Reserve(i, n) PROVE ShapeOK'
  <2>1. [Idle EXCEPT !.kind = "reserve", !.id = i, !.phase = "look", !.rest = dir, !.todo = n]
          \in Operation
    BY EnterTypes DEF Kind
  <2> QED
    BY <1>4, <2>1 DEF Reserve, Enter
<1>5. ASSUME NEW n \in Size, Copy(i, n) PROVE ShapeOK'
  BY <1>5 DEF Copy
<1>6. CASE Finalize(i) \/ Keep(i)
  BY <1>6 DEF Finalize, Keep
<1> QED
  BY <1>1, <1>3, <1>4, <1>5, <1>6 DEF Bridge

LEMMA SessionShape ==
  ASSUME IInv, NEW s \in Session,
         \/ Reconcile(s) \/ Lease(s) \/ Finish(s) \/ Heartbeat(s) \/ Close(s) \/ Die(s)
         \/ \E kind \in Kind : Ask(s, kind)
  PROVE  ShapeOK'
<1> USE StoreAssumption DEF StoreAssumption, disk, IInv, ShapeOK
<1>0. /\ op[s] \in Operation /\ op[s].rest \in SUBSET Id /\ op[s].copy \in Record
      /\ op[s].id \in Id \union {NoId}
  BY DEF Operation
<1>1. ASSUME NEW i \in Id, Look(s, i) PROVE ShapeOK'
  <2>1. /\ [op[s] EXCEPT !.phase = "reread", !.cur = i] \in Operation
        /\ [op[s] EXCEPT !.rest = op[s].rest \ {i}] \in Operation
    BY <1>0, StepTypes, RecordTypes DEF Phase
  <2> QED
    BY <1>1, <2>1 DEF Look
<1>2. ASSUME Proceed(s) PROVE op' \in [Session -> Operation]
  <2> DEFINE R == op[s].rest \ {op[s].cur}
  <2>1. [op[s] EXCEPT !.phase = "look", !.rest = R, !.cur = NoId, !.copy = NoRecord]
          \in Operation
    <3>1. CASE Id = {}
      BY <1>0, RecordTypes, <3>1 DEF Operation, Phase
    <3>2. CASE Id # {}
      BY <1>0, StepTypes, RecordTypes, <3>2 DEF Phase
    <3> QED
      BY <3>1, <3>2
  <2> QED
    BY <1>2, <2>1 DEF Proceed
<1>3. CASE Reread(s)
  <2>1. op[s].cur \in Id
    BY <1>3 DEF Reread, At, OpFits, OpFit
  <2>2. [[op[s] EXCEPT !.copy = report[op[s].cur]] EXCEPT !.phase = "repair"] \in Operation
    BY <1>0, <2>1, StepTypes DEF Phase
  <2>3. /\ \/ Proceed(s)
           \/ op' = [op EXCEPT ![s] =
                       [[op[s] EXCEPT !.copy = report[op[s].cur]] EXCEPT !.phase = "repair"]]
        /\ UNCHANGED <<report, dir, lease, alive, clock, stage, leased>>
    BY <1>3 DEF Reread
  <2>4. op' \in [Session -> Operation]
    BY <1>2, <2>2, <2>3
  <2> QED
    BY <2>3, <2>4
<1>4. CASE Repair(s)
  <2> DEFINE r == Repaired(s, op[s].cur, op[s].copy)
  <2>1. op[s].cur \in Id
    BY <1>4 DEF Repair, At, OpFits, OpFit
  <2>2. r \in Record
    BY <1>0 DEF Repaired, Record
  <2>3. [[op[s] EXCEPT !.copy = r] EXCEPT !.phase = "rewrite"] \in Operation
    BY <1>0, <2>1, <2>2, StepTypes DEF Phase
  <2>4. /\ \/ Proceed(s)
           \/ op' = [op EXCEPT ![s] = [[op[s] EXCEPT !.copy = r] EXCEPT !.phase = "rewrite"]]
        /\ UNCHANGED <<report, dir, lease, alive, clock, stage, leased>>
    BY <1>4 DEF Repair
  <2> HIDE DEF r
  <2>5. op' \in [Session -> Operation]
    BY <1>2, <2>3, <2>4
  <2> QED
    BY <2>4, <2>5
<1>5. CASE Rewrite(s)
  <2>1. op[s].cur \in Id
    BY <1>5 DEF Rewrite, At, OpFits, OpFit
  <2> QED
    BY <1>0, <1>2, <1>5, <2>1 DEF Rewrite
<1>6. CASE Lease(s)
  <2>1. [Idle EXCEPT !.kind = "retain", !.id = op[s].id, !.phase = "look", !.rest = dir, !.todo = 0]
          \in Operation
    BY <1>0, EnterTypes DEF Kind
  <2>2. lease' \in [Session -> -1..MaxTime] /\ op' \in [Session -> Operation]
    BY <1>6, <2>1, RecordTypes DEF Lease, Touch, Leave, Refresh, Enter
  <2> QED
    BY <1>6, <2>2 DEF Lease
<1>7. CASE PrepareDone(s)
  <2>1. op[s].id \in Id
    BY <1>7 DEF PrepareDone, Looked, At, OpFits, OpFit
  <2> QED
    BY <1>7, <2>1, RecordTypes DEF PrepareDone, Touch, Leave, Stage
<1>8. CASE ListDone(s) \/ RetainDone(s) \/ ClearDone(s)
  BY <1>8, RecordTypes DEF ListDone, RetainDone, ClearDone, Leave, Refresh
<1>9. CASE Choose(s)
  <2>1. PICK R \in SUBSET Inactive :
          op' = [op EXCEPT ![s] = [op[s] EXCEPT !.phase = "remove", !.rest = R]]
    BY <1>9 DEF Choose, Doomed
  <2>2. R \in SUBSET Id
    BY DEF Inactive
  <2>3. [op[s] EXCEPT !.phase = "remove", !.rest = R] \in Operation
    BY <1>0, <2>2 DEF Operation, Phase
  <2> QED
    BY <1>9, <2>1, <2>3 DEF Choose
<1>10. CASE Admit(s)
  BY <1>10, RecordTypes DEF Admit, Leave, Stage
<1>11. ASSUME NEW i \in Id, Remove(s, i) PROVE ShapeOK'
  <2>1. [op[s] EXCEPT !.rest = op[s].rest \ {i}] \in Operation
    BY <1>0, StepTypes, RecordTypes DEF Phase
  <2> QED
    BY <1>11, <2>1, RecordTypes DEF Remove
<1>12. CASE Heartbeat(s) \/ Close(s) \/ Die(s)
  BY <1>12, RecordTypes DEF Heartbeat, Close, Die, Touch, Leave
<1>13. ASSUME NEW kind \in Kind, Ask(s, kind) PROVE ShapeOK'
  BY <1>13, EnterTypes DEF Ask, Enter
<1> QED
  BY <1>1, <1>3, <1>4, <1>5, <1>6, <1>7, <1>8, <1>9, <1>10, <1>11, <1>12, <1>13
     DEF Reconcile, Finish

-------------------------------------------------------------------------------
(* What is held                                                             *)

\* A step that moves one window's operation and frees conflicts at most.
LEMMA OtherOperations ==
  ASSUME IInv, NEW s \in Session, UNCHANGED stage, Held' \subseteq Held,
         \A t \in Session \ {s} : op'[t] = op[t], OpFit(s)'
  PROVE  OpFits'
<1> SUFFICES ASSUME NEW t \in Session \ {s} PROVE OpFit(t)'
  BY DEF OpFits
<1> QED
  BY DEF IInv, OpFits, OpFit, IsActive

LEMMA SameReports ==
  ASSUME IInv, UNCHANGED <<report, dir, stage, leased>>, Held' \subseteq Held,
         \A i \in Held' : lease'[Owner[i]] >= 0
  PROVE  ReportFits'
BY DEF IInv, ReportFits, IsActive

LEMMA SameHeld ==
  ASSUME UNCHANGED <<stage, leased>>, alive' \subseteq alive
  PROVE  Held' \subseteq Held
BY DEF Held, OpenConflicts

\* The bridge moves on with a conflict whose record is written.
LEMMA BridgeMoves ==
  ASSUME IInv, NEW i \in Id, NEW x \in Recorded \ {"ended", "recorded"},
         stage' = [stage EXCEPT ![i] = x], stage[i] \in Recorded \ {"ended"},
         stage[i] = "recorded" => op[Owner[i]].phase = "idle",
         UNCHANGED <<op, leased, alive, report, dir, lease>>
  PROVE  (OpFits /\ ReportFits)'
<1>1. Held' = Held
  BY DEF IInv, ShapeOK, Held, OpenConflicts
<1>2. \A j \in Id : stage[j] \in Recorded <=> stage'[j] \in Recorded
  BY DEF IInv, ShapeOK
<1>3. ASSUME NEW t \in Session PROVE OpFit(t)'
  <2>1. OpFit(t)
    BY DEF IInv, OpFits
  <2>2. op[t].phase # "idle" /\ op[t].kind \in {"prepare", "reserve"} => op[t].id # i
    BY <2>1 DEF OpFit, Recorded
  <2>3. op[t].rest \subseteq Id
    BY DEF IInv, ShapeOK, Operation
  <2> QED
    BY <1>1, <1>2, <2>1, <2>2, <2>3 DEF OpFit, IsActive, IInv, ShapeOK
<1>4. ReportFits'
  BY <1>1, <1>2 DEF IInv, ReportFits, IsActive
<1> QED
  BY <1>3, <1>4 DEF OpFits

LEMMA WriteStep ==
  ASSUME IInv, NEW i \in Id, NEW status \in {"capturing", "pending", "ended"},
         NEW shot \in BOOLEAN, Write(i, status, shot),
         IF status = "capturing" THEN stage[i] = "prepared"
                                 ELSE stage[i] \in {"captured", "refused", "pending"}
  PROVE  (OpFits /\ ReportFits)'
<1> USE StoreAssumption DEF StoreAssumption, IInv
<1> DEFINE s == Owner[i]
           x == IF status = "capturing" THEN "recorded" ELSE status
<1>1. /\ s \in Session /\ s \in alive /\ op[s].phase = "idle"
      /\ report' = [report EXCEPT ![i] = [status |-> status, shot |-> shot, at |-> clock]]
      /\ dir' = dir \union {i} /\ stage' = [stage EXCEPT ![i] = x]
      /\ op' = [op EXCEPT ![s] = [Idle EXCEPT !.kind = "write", !.id = i, !.phase = "lease",
                                   !.copy = [status |-> status, shot |-> shot, at |-> clock]]]
      /\ UNCHANGED <<lease, alive>>
      /\ leased' = IF status = "capturing" /\ lease[s] >= 0 THEN leased \union {i} ELSE leased
  BY DEF Write, Ready
<1> HIDE DEF s
<1>2. /\ x \in Recorded /\ stage'[i] = x /\ \A j \in Id \ {i} : stage'[j] = stage[j]
      /\ \A j \in Id \ {i} : report'[j] = report[j]
      /\ report'[i] = [status |-> status, shot |-> shot, at |-> clock]
  BY <1>1 DEF ShapeOK, Recorded, Stage
<1>3. \A j \in Id \ {i} : j \in Held' <=> j \in Held
  BY <1>1, <1>2 DEF Held, OpenConflicts
<1>4. i \in Held' => status # "ended" /\ lease[s] >= 0 /\ (status = "capturing" \/ i \in Held)
  <2>1. i \in Held' => status # "ended" /\ i \in leased'
    BY <1>2 DEF Held, OpenConflicts
  <2>2. i \in leased => stage[i] \in Recorded
    BY DEF ReportFits
  <2>3. i \in leased /\ status # "capturing" => i \in Held
    BY <1>1 DEF Held, OpenConflicts, s, Recorded, Stage
  <2>4. i \in Held => lease[s] >= 0
    BY DEF ReportFits, s
  <2> QED
    BY <1>1, <2>1, <2>2, <2>3, <2>4 DEF Recorded
<1>5. ASSUME NEW t \in Session PROVE OpFit(t)'
  <2>1. CASE t = s
    BY <1>1, <2>1 DEF OpFit, ShapeOK, Idle
  <2>2. CASE t # s
    <3>1. op'[t] = op[t] /\ OpFit(t)
      BY <1>1, <2>2 DEF ShapeOK, OpFits
    <3>2. op[t].phase # "idle" /\ op[t].kind \in {"prepare", "reserve"} => op[t].id # i
      BY <2>2, <3>1 DEF OpFit, s
    <3>3. op[t].rest \subseteq Id
      BY DEF ShapeOK, Operation
    <3>4. ASSUME op[t].phase \in {"repair", "rewrite"}
          PROVE  /\ op[t].cur \in Id /\ stage'[op[t].cur] \in Recorded
                 /\ op[t].cur \in Held' => IsActive(op[t].copy)
      BY <1>2, <1>3, <1>4, <3>1, <3>4 DEF OpFit, Recorded
    <3>5. ASSUME op[t].phase = "remove", NEW j \in op[t].rest
          PROVE  stage'[j] \in Recorded /\ j \notin Held'
      BY <1>2, <1>3, <1>4, <3>1, <3>3, <3>5 DEF OpFit, Recorded
    <3> QED
      BY <1>2, <3>1, <3>2, <3>4, <3>5 DEF OpFit, IsActive
  <2> QED
    BY <2>1, <2>2
<1>6. ASSUME NEW j \in Id
      PROVE  /\ report'[j] # NoRecord \/ j \in leased' => stage'[j] \in Recorded
             /\ j \in Held' => j \in dir' /\ IsActive(report'[j]) /\ lease'[Owner[j]] >= 0
  <2>1. CASE j = i
    BY <1>1, <1>2, <1>4, <2>1 DEF IsActive, Active, s
  <2>2. CASE j # i
    BY <1>1, <1>2, <1>3, <2>2 DEF ReportFits
  <2> QED
    BY <2>1, <2>2
<1> QED
  BY <1>5, <1>6 DEF OpFits, ReportFits, IsActive

LEMMA BridgeStep == ASSUME IInv, NEW i \in Id, Bridge(i) PROVE (OpFits /\ ReportFits)'
<1> USE StoreAssumption DEF StoreAssumption, disk
<1>0. op[Owner[i]] \in Operation /\ Owner[i] \in Session /\ report[i].shot \in BOOLEAN
  BY DEF IInv, ShapeOK, Record
<1>1. ASSUME NEW k \in {"prepare", "reserve"}, NEW n \in Nat, Enter(Owner[i], k, i, n),
             stage[i] = IF k = "prepare" THEN "none" ELSE "recorded",
             UNCHANGED <<report, dir, lease, alive, stage, leased>>
      PROVE  (OpFits /\ ReportFits)'
  <2>1. OpFit(Owner[i])'
    BY <1>0, <1>1 DEF Enter, IInv, ShapeOK, OpFit, Idle
  <2>2. \A t \in Session \ {Owner[i]} : op'[t] = op[t]
    BY <1>1 DEF Enter, IInv, ShapeOK
  <2>3. Held' = Held
    BY <1>1 DEF Held, OpenConflicts
  <2> QED
    BY <1>0, <1>1, <2>1, <2>2, <2>3, OtherOperations, SameReports DEF IInv, ReportFits
<1>2. CASE Prepare(i)
  BY <1>1, <1>2 DEF Prepare
<1>3. CASE WriteCapturing(i)
  BY <1>3, WriteStep DEF WriteCapturing
<1>4. CASE WritePending(i)
  BY <1>0, <1>4, WriteStep DEF WritePending
<1>5. CASE WriteEnded(i)
  BY <1>0, <1>5, WriteStep DEF WriteEnded
<1>6. ASSUME NEW n \in Size, Reserve(i, n) PROVE (OpFits /\ ReportFits)'
  <2>1. CASE n > MaxSnapshot
    BY <1>6, <2>1, BridgeMoves DEF Reserve, Ready, Recorded, Stage
  <2>2. CASE ~(n > MaxSnapshot)
    BY <1>1, <1>6, <2>2 DEF Reserve
  <2> QED
    BY <2>1, <2>2
<1>7. ASSUME NEW n \in Size, Copy(i, n) PROVE (OpFits /\ ReportFits)'
  BY <1>7, BridgeMoves DEF Copy, Recorded, Stage
<1>8. CASE Finalize(i)
  <2> DEFINE x == IF Fits(i) THEN "allowed" ELSE "refused"
  <2>1. x \in Recorded \ {"ended", "recorded"} /\ stage' = [stage EXCEPT ![i] = x]
    BY <1>8 DEF Finalize, Recorded, Stage
  <2> HIDE DEF x
  <2> QED
    BY <1>8, <2>1, BridgeMoves DEF Finalize, Recorded, Stage
<1>9. CASE Keep(i)
  <2> DEFINE x == IF tmpSnap[i] > 0 THEN "captured" ELSE "refused"
  <2>1. x \in Recorded \ {"ended", "recorded"} /\ stage' = [stage EXCEPT ![i] = x]
    BY <1>9 DEF Keep, Recorded, Stage
  <2> HIDE DEF x
  <2> QED
    BY <1>9, <2>1, BridgeMoves DEF Keep, Recorded, Stage
<1> QED
  BY <1>2, <1>3, <1>4, <1>5, <1>6, <1>7, <1>8, <1>9 DEF Bridge

LEMMA ProceedStep ==
  ASSUME IInv, NEW s \in Session, Proceed(s), op[s].phase # "idle",
         UNCHANGED <<alive, stage, leased>>
  PROVE  OpFits'
<1>1. Held' = Held
  BY DEF Held, OpenConflicts
<1>2. \A t \in Session \ {s} : op'[t] = op[t]
  BY DEF Proceed, IInv, ShapeOK
<1>3. /\ op'[s].phase = "look" /\ op'[s].kind = op[s].kind /\ op'[s].id = op[s].id
  BY DEF Proceed, IInv, ShapeOK, Operation
<1>4. OpFit(s)'
  BY <1>3 DEF OpFit, IInv, OpFits
<1> QED
  BY <1>1, <1>2, <1>4, OtherOperations

LEMMA ReconcileStep ==
  ASSUME IInv, NEW s \in Session, Reconcile(s) PROVE (OpFits /\ ReportFits)'
<1> USE StoreAssumption DEF StoreAssumption, disk, At
<1>0. op[s] \in Operation /\ OpFit(s)
  BY DEF IInv, ShapeOK, OpFits
<1>1. ASSUME NEW i \in Id, Look(s, i) PROVE (OpFits /\ ReportFits)'
  <2>1. Held' = Held /\ \A t \in Session \ {s} : op'[t] = op[t]
    BY <1>1 DEF Look, IInv, ShapeOK, Held, OpenConflicts
  <2>2. /\ op'[s].kind = op[s].kind /\ op'[s].id = op[s].id /\ op[s].phase = "look"
        /\ op'[s].phase = "look" \/ (op'[s].phase = "reread" /\ op'[s].cur = i)
        /\ stage' = stage
    BY <1>0, <1>1 DEF Look, IInv, ShapeOK, Operation
  <2>3. OpFit(s)'
    BY <1>0, <2>2 DEF OpFit
  <2> QED
    BY <1>1, <2>1, <2>3, OtherOperations, SameReports
       DEF Look, IInv, ReportFits, Held, OpenConflicts
<1>2. CASE Reread(s)
  <2>0. Held' = Held /\ UNCHANGED <<report, dir, lease, alive, stage, leased>>
    BY <1>2 DEF Reread, Held, OpenConflicts
  <2>1. CASE report[op[s].cur] = NoRecord
    <3>1. OpFits'
      BY <1>2, <2>0, <2>1, ProceedStep DEF Reread
    <3> QED
      BY <2>0, <3>1, SameReports DEF IInv, ReportFits
  <2>2. CASE report[op[s].cur] # NoRecord
    <3>1. op[s].cur \in Id /\ stage[op[s].cur] \in Recorded
          /\ (op[s].cur \in Held => IsActive(report[op[s].cur]))
      BY <1>0, <1>2, <2>2 DEF Reread, OpFit, IInv, ReportFits
    <3>2. /\ op'[s].kind = op[s].kind /\ op'[s].id = op[s].id /\ op[s].phase = "reread"
          /\ op'[s].phase = "repair" /\ op'[s].cur = op[s].cur
          /\ op'[s].copy = report[op[s].cur]
          /\ \A t \in Session \ {s} : op'[t] = op[t]
      BY <1>0, <1>2, <2>2 DEF Reread, IInv, ShapeOK, Operation
    <3>3. OpFit(s)'
      BY <1>0, <2>0, <3>1, <3>2 DEF OpFit, IsActive
    <3> QED
      BY <2>0, <3>2, <3>3, OtherOperations, SameReports DEF IInv, ReportFits
  <2> QED
    BY <2>1, <2>2
<1>3. CASE Repair(s)
  <2> DEFINE r == Repaired(s, op[s].cur, op[s].copy)
  <2>0. /\ Held' = Held /\ UNCHANGED <<report, dir, lease, alive, stage, leased>>
        /\ op[s].phase = "repair"
    BY <1>3 DEF Repair, Held, OpenConflicts
  <2>1. op[s].cur \in Id /\ stage[op[s].cur] \in Recorded
        /\ (op[s].cur \in Held => IsActive(op[s].copy))
    BY <1>0, <2>0 DEF OpFit
  <2>2. op[s].cur \in Held => IsActive(r)
    <3> SUFFICES ASSUME op[s].cur \in Held PROVE IsActive(r)
      OBVIOUS
    <3>1. LeaseLive(Owner[op[s].cur])
      BY <2>1 DEF Held, OpenConflicts, LeaseLive, IInv, ReportFits
    <3>2. r.status = op[s].copy.status
      BY <1>0, <3>1 DEF Repaired, MustOrphan, Operation, Record
    <3> QED
      BY <2>1, <3>2 DEF IsActive
  <2>3. \/ Proceed(s)
        \/ op' = [op EXCEPT ![s] = [[op[s] EXCEPT !.copy = r] EXCEPT !.phase = "rewrite"]]
    BY <1>3 DEF Repair
  <2> HIDE DEF r
  <2>4. CASE Proceed(s)
    BY <2>0, <2>4, ProceedStep, SameReports DEF IInv, ReportFits
  <2>5. CASE op' = [op EXCEPT ![s] = [[op[s] EXCEPT !.copy = r] EXCEPT !.phase = "rewrite"]]
    <3>1. /\ op'[s].kind = op[s].kind /\ op'[s].id = op[s].id
          /\ op'[s].phase = "rewrite" /\ op'[s].cur = op[s].cur /\ op'[s].copy = r
          /\ \A t \in Session \ {s} : op'[t] = op[t]
      BY <1>0, <2>5 DEF IInv, ShapeOK, Operation
    <3>2. OpFit(s)'
      BY <1>0, <2>0, <2>1, <2>2, <3>1 DEF OpFit, IsActive
    <3> QED
      BY <2>0, <3>1, <3>2, OtherOperations, SameReports DEF IInv, ReportFits
  <2> QED
    BY <2>3, <2>4, <2>5
<1>4. CASE Rewrite(s)
  <2>0. /\ Held' = Held /\ UNCHANGED <<lease, alive, stage, leased>>
        /\ op[s].phase = "rewrite" /\ Proceed(s) /\ dir' = dir \union {op[s].cur}
        /\ report' = [report EXCEPT ![op[s].cur] = op[s].copy]
    BY <1>4 DEF Rewrite, Held, OpenConflicts
  <2>1. op[s].cur \in Id /\ stage[op[s].cur] \in Recorded
        /\ (op[s].cur \in Held => IsActive(op[s].copy))
    BY <1>0, <2>0 DEF OpFit
  <2>2. OpFits'
    BY <2>0, ProceedStep
  <2>3. ReportFits'
    BY <2>0, <2>1 DEF IInv, ShapeOK, ReportFits, IsActive
  <2> QED
    BY <2>2, <2>3
<1> QED
  BY <1>1, <1>2, <1>3, <1>4 DEF Reconcile

\* An operation ends, or its window's lease changes, and no report does.
LEMMA LeaveStep ==
  ASSUME IInv, NEW s \in Session, op' = [op EXCEPT ![s] = Idle], alive' \subseteq alive,
         UNCHANGED <<report, dir, stage, leased>>, \A i \in Held' : lease'[Owner[i]] >= 0
  PROVE  (OpFits /\ ReportFits)'
<1>1. Held' \subseteq Held
  BY SameHeld
<1>2. OpFit(s)' /\ \A t \in Session \ {s} : op'[t] = op[t]
  BY DEF OpFit, Idle, IInv, ShapeOK
<1> QED
  BY <1>1, <1>2, OtherOperations, SameReports

LEMMA EnterStep ==
  ASSUME IInv, NEW s \in Session, NEW k \in Kind \ {"prepare", "reserve"},
         NEW i \in Id \union {NoId}, NEW n \in Nat, Enter(s, k, i, n),
         UNCHANGED <<report, dir, stage, leased, alive>>, \A j \in Held' : lease'[Owner[j]] >= 0
  PROVE  (OpFits /\ ReportFits)'
<1>1. Held' \subseteq Held
  BY SameHeld
<1>2. OpFit(s)' /\ \A t \in Session \ {s} : op'[t] = op[t]
  BY DEF OpFit, Enter, Idle, IInv, ShapeOK
<1> QED
  BY <1>1, <1>2, OtherOperations, SameReports

\* A window gives its lease up only when none of its conflicts is held.
LEMMA LeaseStep ==
  ASSUME IInv, NEW s \in Session, Touch(s) \/ Refresh(s), Held' \subseteq Held
  PROVE  \A i \in Held' : lease'[Owner[i]] >= 0
<1> SUFFICES ASSUME NEW i \in Held PROVE lease'[Owner[i]] >= 0
  OBVIOUS
<1>1. i \in Id /\ i \in dir /\ IsActive(report[i]) /\ lease[Owner[i]] >= 0
      /\ Owner[i] \in Session
  BY StoreAssumption DEF StoreAssumption, Held, OpenConflicts, IInv, ReportFits
<1>2. clock >= 0 /\ lease \in [Session -> -1..MaxTime]
  BY StoreAssumption DEF StoreAssumption, IInv, ShapeOK
<1>3. CASE Owner[i] = s
  <2>1. OwnsActive(s)
    BY <1>1, <1>3 DEF OwnsActive
  <2> QED
    BY <1>2, <1>3, <2>1 DEF Touch, Refresh
<1>4. CASE Owner[i] # s
  BY <1>1, <1>2, <1>4 DEF Touch, Refresh
<1> QED
  BY <1>3, <1>4

LEMMA FinishStep ==
  ASSUME IInv, NEW s \in Session, Finish(s) PROVE (OpFits /\ ReportFits)'
<1> USE StoreAssumption DEF StoreAssumption, disk, At
<1>0. op[s] \in Operation /\ OpFit(s) /\ \A i \in Held : lease[Owner[i]] >= 0
  BY DEF IInv, ShapeOK, OpFits, ReportFits, Held, OpenConflicts
<1>1. CASE PrepareDone(s)
  <2> DEFINE i == op[s].id
  <2>1. /\ i \in Id /\ Owner[i] = s /\ stage[i] = "none"
        /\ stage' = [stage EXCEPT ![i] = "prepared"] /\ dir' = dir \union {i}
        /\ Touch(s) /\ op' = [op EXCEPT ![s] = Idle] /\ UNCHANGED <<report, alive, leased>>
    BY <1>0, <1>1 DEF PrepareDone, Looked, OpFit, Leave
  <2> HIDE DEF i
  <2>2. \A j \in Id : /\ stage[j] \in Recorded => stage'[j] = stage[j]
                      /\ j # i => stage'[j] = stage[j]
    BY <2>1 DEF IInv, ShapeOK, Recorded
  <2>3. Held' \subseteq Held
    BY <2>1, <2>2 DEF Held, OpenConflicts, Recorded, IInv, ShapeOK
  <2>4. ASSUME NEW t \in Session \ {s} PROVE OpFit(t)'
    <3>1. op'[t] = op[t] /\ OpFit(t) /\ op[t].rest \subseteq Id
      BY <2>1 DEF IInv, ShapeOK, OpFits, Operation
    <3>2. op[t].phase # "idle" /\ op[t].kind \in {"prepare", "reserve"} => op[t].id # i
      BY <2>1, <3>1 DEF OpFit
    <3> QED
      BY <2>2, <2>3, <3>1, <3>2 DEF OpFit, IsActive
  <2>5. OpFit(s)'
    BY <2>1 DEF OpFit, Idle, IInv, ShapeOK
  <2>6. \A j \in Held' : lease'[Owner[j]] >= 0
    BY <2>1, <2>3, LeaseStep
  <2>7. ReportFits'
    BY <2>1, <2>2, <2>3, <2>6 DEF IInv, ReportFits, IsActive
  <2> QED
    BY <2>4, <2>5, <2>7 DEF OpFits
<1>2. CASE ListDone(s) \/ RetainDone(s)
  <2>1. Held' = Held
    BY <1>2 DEF ListDone, RetainDone, Held, OpenConflicts
  <2> QED
    BY <1>0, <1>2, <2>1, LeaveStep DEF ListDone, RetainDone, Leave
<1>3. CASE Choose(s)
  <2>1. PICK R \in SUBSET Inactive :
          op' = [op EXCEPT ![s] = [op[s] EXCEPT !.phase = "remove", !.rest = R]]
    BY <1>3 DEF Choose, Doomed
  <2>2. Held' = Held /\ UNCHANGED <<report, dir, lease, alive, stage, leased>>
        /\ op[s].phase = "look"
    BY <1>3 DEF Choose, Looked, Held, OpenConflicts
  <2>3. \A i \in R : stage[i] \in Recorded /\ i \notin Held
    BY DEF Inactive, IInv, ShapeOK, ReportFits
  <2>4. /\ op'[s].kind = op[s].kind /\ op'[s].id = op[s].id
        /\ op'[s].phase = "remove" /\ op'[s].rest = R
        /\ \A t \in Session \ {s} : op'[t] = op[t]
    BY <1>0, <2>1 DEF IInv, ShapeOK, Operation
  <2>5. OpFit(s)'
    BY <1>0, <2>2, <2>3, <2>4 DEF OpFit
  <2> QED
    BY <1>0, <2>2, <2>4, <2>5, OtherOperations, SameReports
<1>4. CASE ClearDone(s)
  <2>1. Held' = Held
    BY <1>4 DEF ClearDone, Held, OpenConflicts
  <2>2. \A j \in Held' : lease'[Owner[j]] >= 0
    BY <1>4, <2>1, LeaseStep DEF ClearDone
  <2> QED
    BY <1>4, <2>2, LeaveStep DEF ClearDone, Leave
<1>5. CASE Admit(s)
  <2> DEFINE i == op[s].id
  <2>1. /\ i \in Id /\ Owner[i] = s /\ stage[i] = "recorded"
        /\ op' = [op EXCEPT ![s] = Idle] /\ UNCHANGED <<report, dir, lease, alive, leased>>
    BY <1>0, <1>5 DEF Admit, Removed, OpFit, Leave
  <2>2. PICK x \in {"reserved", "refused"} : stage' = [stage EXCEPT ![i] = x]
    BY <1>5 DEF Admit
  <2> HIDE DEF i
  <2>3. /\ \A j \in Id : stage[j] \in Recorded <=> stage'[j] \in Recorded
        /\ \A j \in Id \ {i} : stage'[j] = stage[j]
    BY <2>1, <2>2 DEF IInv, ShapeOK, Recorded, Stage
  <2>4. Held' = Held
    BY <2>1, <2>2 DEF Held, OpenConflicts, Recorded, Stage, IInv, ShapeOK
  <2>5. ASSUME NEW t \in Session \ {s} PROVE OpFit(t)'
    <3>1. op'[t] = op[t] /\ OpFit(t) /\ op[t].rest \subseteq Id
      BY <2>1 DEF IInv, ShapeOK, OpFits, Operation
    <3>2. op[t].phase # "idle" /\ op[t].kind \in {"prepare", "reserve"} => op[t].id # i
      BY <2>1, <3>1 DEF OpFit
    <3> QED
      BY <2>3, <2>4, <3>1, <3>2 DEF OpFit, IsActive
  <2>6. OpFit(s)'
    BY <2>1 DEF OpFit, Idle, IInv, ShapeOK
  <2>7. ReportFits'
    BY <2>1, <2>3, <2>4 DEF IInv, ReportFits, IsActive
  <2> QED
    BY <2>5, <2>6, <2>7 DEF OpFits
<1>6. ASSUME NEW i \in Id, Remove(s, i) PROVE (OpFits /\ ReportFits)'
  <2>1. /\ Held' = Held /\ UNCHANGED <<lease, alive, stage, leased>>
        /\ op[s].phase = "remove" /\ i \in op[s].rest
        /\ report' = [report EXCEPT ![i] = NoRecord] /\ dir' = dir \ {i}
    BY <1>6 DEF Remove, Held, OpenConflicts
  <2>2. i \notin Held
    BY <1>0, <2>1 DEF OpFit
  <2>3. /\ op'[s].kind = op[s].kind /\ op'[s].id = op[s].id /\ op'[s].phase = "remove"
        /\ op'[s].rest \subseteq op[s].rest
        /\ \A t \in Session \ {s} : op'[t] = op[t]
    BY <1>0, <1>6, <2>1 DEF Remove, IInv, ShapeOK, Operation
  <2>4. OpFit(s)'
    BY <1>0, <2>1, <2>3 DEF OpFit
  <2>5. ReportFits'
    BY <2>1, <2>2 DEF IInv, ShapeOK, ReportFits, IsActive
  <2> QED
    BY <2>1, <2>3, <2>4, <2>5, OtherOperations
<1> QED
  BY <1>1, <1>2, <1>3, <1>4, <1>5, <1>6 DEF Finish

LEMMA OtherStep ==
  ASSUME IInv, NEW s \in Session,
         \/ Lease(s) \/ Heartbeat(s) \/ Close(s) \/ Die(s)
         \/ \E kind \in Kind : Ask(s, kind)
  PROVE  (OpFits /\ ReportFits)'
<1> USE StoreAssumption DEF StoreAssumption, disk
<1>0. /\ op[s] \in Operation /\ \A i \in Held : lease[Owner[i]] >= 0
      /\ op[s].id \in Id \union {NoId}
  BY DEF IInv, ShapeOK, ReportFits, Held, OpenConflicts, Operation
<1>1. CASE Lease(s)
  <2>1. Held' = Held
    BY <1>1 DEF Lease, Held, OpenConflicts
  <2>2. \A j \in Held' : lease'[Owner[j]] >= 0
    BY <1>1, <2>1, LeaseStep DEF Lease
  <2>3. CASE IsActive(op[s].copy)
    BY <1>1, <2>2, <2>3, LeaveStep DEF Lease, Leave
  <2>4. CASE ~IsActive(op[s].copy)
    <3>1. "retain" \in Kind \ {"prepare", "reserve"}
      BY DEF Kind
    <3> QED
      BY <1>0, <1>1, <2>2, <2>4, <3>1, EnterStep DEF Lease
  <2> QED
    BY <2>3, <2>4
<1>2. CASE Heartbeat(s)
  <2>1. Held' = Held /\ UNCHANGED <<report, dir, stage, leased, op>>
    BY <1>2 DEF Heartbeat, Held, OpenConflicts
  <2>2. \A j \in Held' : lease'[Owner[j]] >= 0
    BY <1>2, <2>1, LeaseStep DEF Heartbeat
  <2>3. OpFits'
    BY <2>1 DEF IInv, OpFits, OpFit, IsActive
  <2> QED
    BY <2>1, <2>2, <2>3, SameReports
<1>3. CASE Close(s)
  <2>1. UNCHANGED <<report, dir, stage, leased, op>> /\ alive' = alive \ {s}
        /\ lease' = [lease EXCEPT ![s] = -1]
    BY <1>3 DEF Close
  <2>2. Held' \subseteq Held /\ \A j \in Held' : j \in Id /\ Owner[j] # s
    BY <2>1 DEF Held, OpenConflicts
  <2>3. \A j \in Held' : lease'[Owner[j]] >= 0
    BY <1>0, <2>1, <2>2 DEF IInv, ShapeOK
  <2>4. OpFits'
    BY <2>1, <2>2 DEF IInv, OpFits, OpFit, IsActive
  <2> QED
    BY <2>1, <2>2, <2>3, <2>4, SameReports
<1>4. CASE Die(s)
  <2>1. UNCHANGED <<report, dir, stage, leased, lease>> /\ alive' \subseteq alive
        /\ op' = [op EXCEPT ![s] = Idle]
    BY <1>4 DEF Die, Leave
  <2> QED
    BY <1>0, <2>1, SameHeld, LeaveStep
<1>5. ASSUME NEW kind \in Kind, Ask(s, kind) PROVE (OpFits /\ ReportFits)'
  <2>1. Held' = Held
    BY <1>5 DEF Ask, Held, OpenConflicts
  <2> QED
    BY <1>0, <1>5, <2>1, EnterStep DEF Ask
<1> QED
  BY <1>1, <1>2, <1>3, <1>4, <1>5

LEMMA Invariance == Spec => []IInv
<1>1. IInv /\ [Next]_vars => IInv'
  <2> SUFFICES ASSUME IInv, [Next]_vars PROVE IInv'
    OBVIOUS
  <2>1. ASSUME NEW i \in Id, Bridge(i) PROVE IInv'
    BY <2>1, BridgeShape, BridgeStep DEF IInv
  <2>2. ASSUME NEW s \in Session,
               \/ Reconcile(s) \/ Lease(s) \/ Finish(s) \/ Heartbeat(s) \/ Close(s) \/ Die(s)
               \/ \E kind \in Kind : Ask(s, kind)
        PROVE  IInv'
    BY <2>2, SessionShape, ReconcileStep, FinishStep, OtherStep DEF IInv
  <2>3. CASE Tick \/ UNCHANGED vars
    <3>1. /\ UNCHANGED <<disk, lease, alive, stage, op, leased>>
          /\ clock' \in 0..MaxTime
      BY <2>3, StoreAssumption DEF StoreAssumption, Tick, vars, disk, IInv, ShapeOK
    <3>2. ShapeOK' /\ Held' = Held
      BY <3>1 DEF disk, IInv, ShapeOK, Held, OpenConflicts
    <3> QED
      BY <3>1, <3>2 DEF disk, IInv, OpFits, OpFit, ReportFits, IsActive
  <2> QED
    BY <2>1, <2>2, <2>3 DEF Next
<1> QED
  BY InitInv, <1>1, PTL DEF Spec

\* An open conflict first recorded under its window's lease keeps its directory and is not
\* orphaned, wherever other windows' reconciliation, clearing and retention were.
THEOREM LiveConflictsKept == Spec => []LiveConflictKept
<1>1. IInv => LiveConflictKept
  BY StoreAssumption
     DEF StoreAssumption, IInv, ShapeOK, ReportFits, LiveConflictKept, Held, OpenConflicts,
         Kept, IsActive, Active
<1> QED
  BY <1>1, Invariance, PTL

-------------------------------------------------------------------------------
(* Sums over finite sets.                                                   *)

\* A set of naturals with an element has a least one.
LEMMA LeastNumber ==
  ASSUME NEW T, T \subseteq Nat, T # {}
  PROVE  \E n \in T : \A m \in T : n <= m
<1> DEFINE R == {ss \in Nat \X Nat : ss[1] < ss[2]}
<1>1. IsWellFoundedOn(R, Nat)
  BY NatLessThanWellFounded DEF OpToRel
<1> HIDE DEF R
<1>2. \E n \in T : \A m \in T : <<m, n>> \notin R
  BY <1>1, WFMin
<1>3. \A m, n \in Nat : <<m, n>> \in R <=> m < n
  BY DEF R
<1>4. PICK n \in T : \A m \in T : <<m, n>> \notin R
  BY <1>2
<1>5. \A m \in T : m \in Nat /\ n \in Nat /\ ~(m < n)
  BY <1>3, <1>4
<1> QED
  BY <1>5

\* Induction over the subsets of a finite set, as a set of subsets: what has the empty set,
\* and each other one when it has those with one element less, has all of them.
LEMMA SubsetInduction ==
  ASSUME NEW U, IsFiniteSet(U), NEW P, {} \in P,
         \A T \in SUBSET U : T # {} /\ (\A x \in T : T \ {x} \in P) => T \in P
  PROVE  \A T \in SUBSET U : T \in P
<1> DEFINE W == {Cardinality(T) : T \in {S \in SUBSET U : S \notin P}}
<1> SUFFICES ASSUME NEW T0 \in SUBSET U, T0 \notin P PROVE FALSE
  OBVIOUS
<1>1. \A T \in SUBSET U : IsFiniteSet(T) /\ Cardinality(T) \in Nat
  BY FS_Subset, FS_CardinalityType
<1>2. W \subseteq Nat /\ W # {}
  BY <1>1
<1>3. PICK n \in W : \A m \in W : n <= m
  BY <1>2, LeastNumber
<1>4. PICK T \in SUBSET U : T \notin P /\ Cardinality(T) = n
  BY <1>3
<1>5. T # {}
  BY <1>4
<1>6. ASSUME NEW x \in T PROVE T \ {x} \in P
  <2>1. Cardinality(T \ {x}) = n - 1 /\ n \in Nat
    BY <1>1, <1>4, FS_RemoveElement
  <2>2. T \ {x} \notin P => n - 1 \in W
    BY <2>1
  <2> QED
    BY <1>3, <2>1, <2>2
<1> QED
  BY <1>4, <1>5, <1>6

\* The sum of what g gives the elements of S.
Total(g, S) == MapThenSumSet(LAMBDA i : g[i], S)
First(S) == CHOOSE x \in S : TRUE
\* What computes it.
Adds(F, g, S) ==
  F = [s \in SUBSET S |-> IF s = {} THEN 0
                          ELSE g[CHOOSE x \in s : TRUE] + F[s \ {CHOOSE x \in s : TRUE}]]

\* The operators of the model are this sum.
LEMMA TotalDef ==
  ASSUME NEW g
  PROVE  /\ \A S : Total(g, S) = (CHOOSE F : Adds(F, g, S))[S]
         /\ SumFunction(g) = Total(g, DOMAIN g)
<1>1. ASSUME NEW S PROVE Total(g, S) = (CHOOSE F : Adds(F, g, S))[S]
  BY DEF Total, MapThenSumSet, MapThenFoldSet, Adds
<1>2. SumFunction(g) = Total(g, DOMAIN g)
  BY DEF Total, MapThenSumSet, MapThenFoldSet, SumFunction, SumFunctionOnSet, FoldFunctionOnSet
<1> QED
  BY <1>1, <1>2

\* What computes a sum, at a set and its first element.
LEMMA AddsAt ==
  ASSUME NEW F, NEW g, NEW S, Adds(F, g, S), NEW s \in SUBSET S
  PROVE  /\ s = {} => F[s] = 0
         /\ s # {} => /\ First(s) \in s /\ s \ {First(s)} \in SUBSET S
                      /\ F[s] = g[First(s)] + F[s \ {First(s)}]
BY DEF Adds, First

\* There is one sum.
LEMMA AddsUnique ==
  ASSUME NEW S, IsFiniteSet(S), NEW g, NEW F, NEW G, Adds(F, g, S), Adds(G, g, S)
  PROVE  \A s \in SUBSET S : F[s] = G[s]
<1> DEFINE P == {s \in SUBSET S : F[s] = G[s]}
<1>1. {} \in P
  BY AddsAt
<1>2. ASSUME NEW T \in SUBSET S, T # {}, \A x \in T : T \ {x} \in P PROVE T \in P
  <2>1. First(T) \in T /\ F[T] = g[First(T)] + F[T \ {First(T)}]
        /\ G[T] = g[First(T)] + G[T \ {First(T)}]
    BY <1>2, AddsAt
  <2> QED
    BY <1>2, <2>1
<1> HIDE DEF P
<1>3. \A s \in SUBSET S : s \in P
  BY <1>1, <1>2, SubsetInduction
<1> QED
  BY <1>3 DEF P

\* The sum of a set is what its first element is given and the sum of the rest.
LEMMA TotalFirst ==
  ASSUME NEW U, IsFiniteSet(U), NEW g
  PROVE  /\ Total(g, {}) = 0
         /\ U # {} => First(U) \in U /\ Total(g, U) = g[First(U)] + Total(g, U \ {First(U)})
<1> DEFINE Good(T) == \A s \in SUBSET T : s # {} => Total(g, s) = g[First(s)] + Total(g, s \ {First(s)})
           P == {T \in SUBSET U : Good(T)}
<1>1. Total(g, {}) = 0
  <2> DEFINE G == [s \in SUBSET {} |-> 0]
  <2>1. Adds(G, g, {})
    BY DEF Adds
  <2> HIDE DEF G
  <2> DEFINE H == CHOOSE F : Adds(F, g, {})
  <2>2. Adds(H, g, {})
    BY <2>1
  <2>3. Total(g, {}) = H[{}]
    BY TotalDef
  <2> HIDE DEF H
  <2>4. H[{}] = 0
    BY <2>2 DEF Adds
  <2> QED
    BY <2>3, <2>4
<1>2. {} \in P
  OBVIOUS
<1>3. ASSUME NEW T \in SUBSET U, T # {}, \A x \in T : T \ {x} \in P PROVE T \in P
  <2> DEFINE c == First(T)
             G == [s \in SUBSET T |-> IF s = T THEN g[c] + Total(g, T \ {c}) ELSE Total(g, s)]
             H == CHOOSE F : Adds(F, g, T)
  <2>1. c \in T
    BY <1>3 DEF First
  <2>2. ASSUME NEW s \in SUBSET T, s # {}, s # T
        PROVE  First(s) \in s /\ Total(g, s) = g[First(s)] + Total(g, s \ {First(s)})
    <3>1. PICK x \in T : x \notin s
      BY <2>2
    <3>2. Good(T \ {x}) /\ s \in SUBSET (T \ {x})
      BY <1>3, <2>2, <3>1
    <3> QED
      BY <2>2, <3>2 DEF First
  <2>3. Adds(G, g, T)
    <3> SUFFICES ASSUME NEW s \in SUBSET T
                 PROVE  G[s] = IF s = {} THEN 0 ELSE g[First(s)] + G[s \ {First(s)}]
      BY DEF Adds, First
    <3>1. CASE s = {}
      BY <1>1, <1>3, <3>1
    <3>2. CASE s = T
      BY <1>3, <2>1, <3>2
    <3>3. CASE s # {} /\ s # T
      BY <2>2, <3>3
    <3> QED
      BY <3>1, <3>2, <3>3
  <2>4. Adds(H, g, T) /\ IsFiniteSet(T)
    BY <2>3, FS_Subset
  <2>5. Total(g, T) = H[T]
    BY TotalDef
  <2> HIDE DEF H, G
  <2>8. H[T] = G[T]
    BY <2>3, <2>4, AddsUnique
  <2>6. Total(g, T) = g[c] + Total(g, T \ {c})
    BY <2>5, <2>8 DEF G
  <2>7. Good(T)
    BY <2>2, <2>6
  <2> QED
    BY <2>7
<1> HIDE DEF P
<1>4. \A T \in SUBSET U : T \in P
  BY <1>2, <1>3, SubsetInduction
<1>5. U # {} => Total(g, U) = g[First(U)] + Total(g, U \ {First(U)})
  BY <1>4 DEF P
<1> QED
  BY <1>1, <1>5 DEF First

\* A sum of naturals is one.
LEMMA TotalType ==
  ASSUME NEW U, IsFiniteSet(U), NEW g \in [U -> Nat]
  PROVE  \A T \in SUBSET U : Total(g, T) \in Nat
<1> DEFINE P == {T \in SUBSET U : Total(g, T) \in Nat}
<1>1. {} \in P
  BY FS_EmptySet, TotalFirst
<1>2. ASSUME NEW T \in SUBSET U, T # {}, \A x \in T : T \ {x} \in P PROVE T \in P
  <2>1. First(T) \in T /\ Total(g, T) = g[First(T)] + Total(g, T \ {First(T)})
    BY <1>2, TotalFirst, FS_Subset
  <2> QED
    BY <1>2, <2>1
<1> HIDE DEF P
<1>3. \A T \in SUBSET U : T \in P
  BY <1>1, <1>2, SubsetInduction
<1> QED
  BY <1>3 DEF P

\* Any element can be counted last.
LEMMA TotalSplit ==
  ASSUME NEW U, IsFiniteSet(U), NEW g \in [U -> Nat]
  PROVE  \A T \in SUBSET U, x \in U : x \in T => Total(g, T) = g[x] + Total(g, T \ {x})
<1> DEFINE P == {T \in SUBSET U : \A x \in T : Total(g, T) = g[x] + Total(g, T \ {x})}
<1>1. {} \in P
  OBVIOUS
<1>2. ASSUME NEW T \in SUBSET U, T # {}, \A x \in T : T \ {x} \in P PROVE T \in P
  <2> SUFFICES ASSUME NEW x \in T PROVE Total(g, T) = g[x] + Total(g, T \ {x})
    OBVIOUS
  <2> DEFINE c == First(T)
  <2>1. c \in T /\ Total(g, T) = g[c] + Total(g, T \ {c})
    BY <1>2, TotalFirst, FS_Subset
  <2>2. CASE x = c
    BY <2>1, <2>2
  <2>3. CASE x # c
    <3> HIDE DEF c
    <3>1. Total(g, T \ {c}) = g[x] + Total(g, (T \ {c}) \ {x})
      BY <1>2, <2>1, <2>3
    <3>2. Total(g, T \ {x}) = g[c] + Total(g, (T \ {x}) \ {c})
      BY <1>2, <2>1, <2>3
    <3>3. (T \ {x}) \ {c} = (T \ {c}) \ {x}
      OBVIOUS
    <3>4. Total(g, (T \ {c}) \ {x}) \in Nat /\ g[x] \in Nat /\ g[c] \in Nat
      BY <2>1, TotalType
    <3> QED
      BY <2>1, <3>1, <3>2, <3>3, <3>4
  <2> QED
    BY <2>2, <2>3
<1> HIDE DEF P
<1>3. \A T \in SUBSET U : T \in P
  BY <1>1, <1>2, SubsetInduction
<1> QED
  BY <1>3 DEF P

\* What is at most two others together, element by element, is so in sum.
LEMMA TotalBound ==
  ASSUME NEW U, IsFiniteSet(U), NEW g \in [U -> Nat], NEW h \in [U -> Nat], NEW k \in [U -> Nat],
         NEW S \in SUBSET U, \A x \in S : g[x] <= h[x] + k[x]
  PROVE  Total(g, S) <= Total(h, S) + Total(k, S)
<1> DEFINE P == {T \in SUBSET S : Total(g, T) <= Total(h, T) + Total(k, T)}
<1>0. IsFiniteSet(S)
  BY FS_Subset
<1>1. {} \in P
  <2>1. IsFiniteSet({})
    BY FS_EmptySet
  <2>2. Total(g, {}) = 0 /\ Total(h, {}) = 0 /\ Total(k, {}) = 0
    BY <2>1, TotalFirst
  <2> QED
    BY <2>2
<1>2. ASSUME NEW T \in SUBSET S, T # {}, \A x \in T : T \ {x} \in P PROVE T \in P
  <2>1. PICK c \in T : TRUE
    BY <1>2
  <2>2. /\ Total(g, T) = g[c] + Total(g, T \ {c}) /\ Total(h, T) = h[c] + Total(h, T \ {c})
        /\ Total(k, T) = k[c] + Total(k, T \ {c})
    BY <2>1, TotalSplit
  <2>3. /\ Total(g, T \ {c}) \in Nat /\ Total(h, T \ {c}) \in Nat /\ Total(k, T \ {c}) \in Nat
        /\ g[c] \in Nat /\ h[c] \in Nat /\ k[c] \in Nat
    BY <2>1, TotalType
  <2>4. g[c] <= h[c] + k[c] /\ Total(g, T \ {c}) <= Total(h, T \ {c}) + Total(k, T \ {c})
    BY <1>2, <2>1
  <2>5. Total(g, T) <= Total(h, T) + Total(k, T)
    BY <2>2, <2>3, <2>4
  <2> QED
    BY <2>5
<1> HIDE DEF P
<1>3. \A T \in SUBSET S : T \in P
  BY <1>0, <1>1, <1>2, SubsetInduction
<1> QED
  BY <1>3 DEF P

\* What gives every element nothing has no sum.
LEMMA TotalZero ==
  ASSUME NEW S, IsFiniteSet(S), NEW k \in [S -> Nat], \A x \in S : k[x] = 0
  PROVE  Total(k, S) = 0
<1> DEFINE P == {T \in SUBSET S : Total(k, T) = 0}
<1>1. {} \in P
  <2>1. IsFiniteSet({})
    BY FS_EmptySet
  <2>2. Total(k, {}) = 0
    BY <2>1, TotalFirst
  <2> QED
    BY <2>2
<1>2. ASSUME NEW T \in SUBSET S, T # {}, \A x \in T : T \ {x} \in P PROVE T \in P
  <2>1. PICK c \in T : TRUE
    BY <1>2
  <2>2. Total(k, T) = k[c] + Total(k, T \ {c})
    BY <2>1, TotalSplit
  <2> QED
    BY <1>2, <2>1, <2>2
<1> HIDE DEF P
<1>3. \A T \in SUBSET S : T \in P
  BY <1>1, <1>2, SubsetInduction
<1> QED
  BY <1>3 DEF P

\* The order of two functions, element by element, is that of their sums.
LEMMA TotalOrder ==
  ASSUME NEW U, IsFiniteSet(U), NEW g \in [U -> Nat], NEW h \in [U -> Nat],
         NEW S \in SUBSET U, \A x \in S : g[x] <= h[x]
  PROVE  Total(g, S) <= Total(h, S)
<1> DEFINE P == {T \in SUBSET S : Total(g, T) <= Total(h, T)}
<1>0. IsFiniteSet(S)
  BY FS_Subset
<1>1. {} \in P
  <2>1. IsFiniteSet({})
    BY FS_EmptySet
  <2>2. Total(g, {}) = 0 /\ Total(h, {}) = 0
    BY <2>1, TotalFirst
  <2> QED
    BY <2>2
<1>2. ASSUME NEW T \in SUBSET S, T # {}, \A x \in T : T \ {x} \in P PROVE T \in P
  <2>1. PICK c \in T : TRUE
    BY <1>2
  <2>2. Total(g, T) = g[c] + Total(g, T \ {c}) /\ Total(h, T) = h[c] + Total(h, T \ {c})
    BY <2>1, TotalSplit
  <2>3. /\ Total(g, T \ {c}) \in Nat /\ Total(h, T \ {c}) \in Nat
        /\ g[c] \in Nat /\ h[c] \in Nat
    BY <2>1, TotalType
  <2>4. g[c] <= h[c] /\ Total(g, T \ {c}) <= Total(h, T \ {c})
    BY <1>2, <2>1
  <2>5. Total(g, T) <= Total(h, T)
    BY <2>2, <2>3, <2>4
  <2> QED
    BY <2>5
<1> HIDE DEF P
<1>3. \A T \in SUBSET S : T \in P
  BY <1>0, <1>1, <1>2, SubsetInduction
<1> QED
  BY <1>3 DEF P

\* Functions that agree on a set have one sum there.
LEMMA TotalSame ==
  ASSUME NEW U, IsFiniteSet(U), NEW g \in [U -> Nat], NEW h \in [U -> Nat],
         NEW S \in SUBSET U, \A x \in S : g[x] = h[x]
  PROVE  Total(g, S) = Total(h, S)
<1>1. \A x \in S : g[x] <= h[x] /\ h[x] <= g[x]
  OBVIOUS
<1>2. Total(g, S) <= Total(h, S) /\ Total(h, S) <= Total(g, S)
  BY <1>1, TotalOrder
<1>3. Total(g, S) \in Nat /\ Total(h, S) \in Nat
  BY TotalType
<1> QED
  BY <1>2, <1>3
-------------------------------------------------------------------------------
(* The bytes of snapshots                                                   *)

\* The part of TypeOK that IInv leaves open.
SizesOK == /\ snap \in [Id -> Nat] /\ tmpSnap \in [Id -> Nat] /\ expected \in [Id -> Nat]
           /\ reserved \in [Session -> Nat] /\ asked \in 0..MaxAsk

\* What a conflict takes, a copy that was allowed included.
Taken(i) == snap[i] + (IF stage[i] = "allowed" THEN tmpSnap[i] ELSE 0)
Takes == [i \in Id |-> Taken(i)]
\* The conflicts of a window that have bytes reserved.
Underway == {"reserved", "copied"}
Promised(s) == {i \in Id : Owner[i] = s /\ stage[i] \in Underway}

\* Inductive: what is taken, not only what is kept, is within the limit, and each window's
\* counter is what its conflicts reserved.
BytesFit == Total(Takes, Id) <= MaxTotal
PromisesFit == \A s \in Session : reserved[s] = Total(expected, Promised(s))
BudgetInv == SizesOK /\ BytesFit /\ PromisesFit

\* What is taken is within what the directories hold.
LEMMA TakesType ==
  ASSUME SizesOK
  PROVE  /\ Takes \in [Id -> Nat]
         /\ \A i \in Id : snap[i] <= Taken(i) /\ Taken(i) <= snap[i] + tmpSnap[i]
BY DEF SizesOK, Takes, Taken

\* Nothing is taken at first, and nothing reserved.
LEMMA InitBudget == Init => BudgetInv
<1> SUFFICES ASSUME Init PROVE BudgetInv
  OBVIOUS
<1> USE StoreAssumption DEF StoreAssumption
<1>1. /\ snap \in [Id -> Nat] /\ expected = snap /\ tmpSnap = snap
      /\ \A i \in Id : snap[i] = 0 /\ stage[i] = "none"
      /\ reserved = [s \in Session |-> 0] /\ asked = 0
  BY DEF Init
<1>2. SizesOK
  BY <1>1 DEF SizesOK
<1>3. Takes \in [Id -> Nat] /\ \A i \in Id : Takes[i] = 0
  BY <1>1, <1>2, TakesType DEF Takes, Taken
<1>4. BytesFit
  <2>1. Total(Takes, Id) = 0
    BY <1>3, TotalZero
  <2> QED
    BY <2>1 DEF BytesFit
<1>5. PromisesFit
  <2>1. \A s \in Session : Promised(s) = {}
    BY <1>1 DEF Promised, Underway
  <2>2. Total(expected, {}) = 0
    BY TotalFirst, FS_EmptySet
  <2> QED
    BY <1>1, <2>1, <2>2 DEF PromisesFit
<1> QED
  BY <1>2, <1>4, <1>5 DEF BudgetInv

\* A step after which no conflict takes more.
LEMMA NoMoreTaken ==
  ASSUME BudgetInv, SizesOK', \A i \in Id : Taken(i)' <= Taken(i)
  PROVE  BytesFit'
<1> DEFINE G == Takes'
<1>1. IsFiniteSet(Id) /\ MaxTotal \in Nat
  BY StoreAssumption DEF StoreAssumption
<1>2. /\ Takes \in [Id -> Nat] /\ G = [i \in Id |-> Taken(i)']
      /\ \A i \in Id : Taken(i)' \in Nat /\ G[i] <= Takes[i]
  BY TakesType DEF BudgetInv, Takes, Taken, SizesOK
<1>6. G \in [Id -> Nat]
  BY <1>2
<1> HIDE DEF G
<1>3. Total(G, Id) <= Total(Takes, Id)
  BY <1>1, <1>2, <1>6, TotalOrder
<1>4. Total(G, Id) \in Nat /\ Total(Takes, Id) \in Nat
  BY <1>1, <1>2, <1>6, TotalType
<1>5. Total(G, Id) <= MaxTotal
  BY <1>1, <1>3, <1>4 DEF BudgetInv, BytesFit
<1> QED
  BY <1>5 DEF BytesFit, G

\* A step that reserves nothing and gives nothing back.
LEMMA SamePromises ==
  ASSUME BudgetInv, UNCHANGED <<expected, reserved>>,
         \A i \in Id : stage'[i] \in Underway <=> stage[i] \in Underway
  PROVE  PromisesFit'
<1>1. \A s \in Session : Promised(s)' = Promised(s)
  BY DEF Promised
<1> QED
  BY <1>1 DEF BudgetInv, PromisesFit

\* A reservation is given back.
LEMMA ReleaseStep ==
  ASSUME BudgetInv, ShapeOK, NEW i \in Id, stage[i] \in Underway, Release(i),
         NEW x \in {"allowed", "refused"}, stage' = [stage EXCEPT ![i] = x]
  PROVE  /\ expected[i] <= reserved[Owner[i]]
         /\ expected' \in [Id -> Nat] /\ reserved' \in [Session -> Nat]
         /\ PromisesFit'
<1> DEFINE s == Owner[i]
           e == expected'
           R == Promised(s) \ {i}
<1>1. /\ s \in Session /\ IsFiniteSet(Id) /\ expected \in [Id -> Nat]
      /\ reserved \in [Session -> Nat] /\ stage \in [Id -> Stage]
  BY StoreAssumption DEF StoreAssumption, BudgetInv, SizesOK, ShapeOK
<1>2. /\ e = [expected EXCEPT ![i] = 0] /\ reserved' = [reserved EXCEPT ![s] = @ - expected[i]]
  BY DEF Release
<1>3. e \in [Id -> Nat] /\ \A j \in Id \ {i} : e[j] = expected[j]
  BY <1>1, <1>2
<1> HIDE DEF e
<1>4. i \in Promised(s) /\ \A t \in Session : Promised(t) \in SUBSET Id
  BY DEF Promised
<1>5. reserved[s] = expected[i] + Total(expected, R)
  BY <1>1, <1>4, TotalSplit DEF BudgetInv, PromisesFit
<1>6. Total(expected, R) \in Nat /\ expected[i] \in Nat
  BY <1>1, <1>4, TotalType
<1>7. reserved'[s] = Total(expected, R) /\ expected[i] <= reserved[s]
  BY <1>1, <1>2, <1>5, <1>6
<1>8. reserved' \in [Session -> Nat] /\ \A t \in Session \ {s} : reserved'[t] = reserved[t]
  BY <1>1, <1>2, <1>6, <1>7
<1>9. ASSUME NEW t \in Session PROVE reserved'[t] = Total(e, Promised(t)')
  <2>1. CASE t = s
    <3>1. Promised(t)' = R
      BY <1>1, <2>1 DEF Promised, Underway
    <3>2. Total(e, R) = Total(expected, R)
      BY <1>1, <1>3, <1>4, TotalSame
    <3> QED
      BY <1>7, <2>1, <3>1, <3>2
  <2>2. CASE t # s
    <3>1. Promised(t)' = Promised(t) /\ i \notin Promised(t)
      BY <1>1, <2>2 DEF Promised, Underway
    <3>2. Total(e, Promised(t)) = Total(expected, Promised(t))
      BY <1>1, <1>3, <1>4, <3>1, TotalSame
    <3> QED
      BY <1>8, <2>2, <3>1, <3>2 DEF BudgetInv, PromisesFit
  <2> QED
    BY <2>1, <2>2
<1> QED
  BY <1>3, <1>7, <1>8, <1>9 DEF PromisesFit, e

\* Room is reserved.
LEMMA AdmitStep ==
  ASSUME BudgetInv, ShapeOK, NEW i \in Id, stage[i] = "recorded", NEW n \in Nat,
         stage' = [stage EXCEPT ![i] = "reserved"],
         expected' = [expected EXCEPT ![i] = n],
         reserved' = [reserved EXCEPT ![Owner[i]] = @ + n]
  PROVE  /\ expected' \in [Id -> Nat] /\ reserved' \in [Session -> Nat]
         /\ PromisesFit'
<1> DEFINE s == Owner[i]
           e == expected'
           R == Promised(s)
           Q == R \union {i}
<1>1. /\ s \in Session /\ IsFiniteSet(Id) /\ expected \in [Id -> Nat]
      /\ reserved \in [Session -> Nat] /\ stage \in [Id -> Stage]
  BY StoreAssumption DEF StoreAssumption, BudgetInv, SizesOK, ShapeOK
<1>3. e \in [Id -> Nat] /\ e[i] = n /\ \A j \in Id \ {i} : e[j] = expected[j]
  BY <1>1
<1> HIDE DEF e
<1>4. /\ i \notin R /\ i \in Q /\ R \in SUBSET Id /\ \A t \in Session : Promised(t) \in SUBSET Id
      /\ Q \in SUBSET Id /\ Q \ {i} = R
  BY DEF Promised, Underway
<1> HIDE DEF Q, R
<1>5. Total(e, Q) = n + Total(e, Q \ {i})
  BY <1>1, <1>3, <1>4, TotalSplit
<1>6. Total(e, R) = Total(expected, R)
  BY <1>1, <1>3, <1>4, TotalSame
<1>7. Total(expected, R) = reserved[s]
  BY <1>1 DEF BudgetInv, PromisesFit, R
<1>8. /\ reserved' \in [Session -> Nat] /\ reserved'[s] = Total(e, Q)
      /\ \A t \in Session \ {s} : reserved'[t] = reserved[t]
  <2>2. Total(e, Q \ {i}) = Total(e, R)
    BY <1>4
  <2>3. Total(e, Q) = n + reserved[s]
    BY <1>5, <1>6, <1>7, <2>2
  <2>4. reserved[s] \in Nat
    BY <1>1
  <2>1. Total(e, Q) = reserved[s] + n
    BY <2>3, <2>4
  <2> QED
    BY <1>1, <2>1
<1>9. ASSUME NEW t \in Session PROVE reserved'[t] = Total(e, Promised(t)')
  <2>1. CASE t = s
    <3>1. Promised(t)' = Q
      BY <1>1, <2>1 DEF Promised, Underway, Q, R
    <3> QED
      BY <1>8, <2>1, <3>1
  <2>2. CASE t # s
    <3>1. Promised(t)' = Promised(t) /\ i \notin Promised(t)
      BY <1>1, <2>2 DEF Promised, Underway
    <3>2. Total(e, Promised(t)) = Total(expected, Promised(t))
      BY <1>1, <1>3, <1>4, <3>1, TotalSame
    <3> QED
      BY <1>8, <2>2, <3>1, <3>2 DEF BudgetInv, PromisesFit
  <2> QED
    BY <2>1, <2>2
<1> QED
  BY <1>3, <1>8, <1>9 DEF PromisesFit, e

\* The bridge of a conflict.
LEMMA BridgeBudget ==
  ASSUME IInv, BudgetInv, NEW i \in Id, Bridge(i)
  PROVE  BudgetInv'
<1> USE StoreAssumption DEF StoreAssumption, disk
<1>0. /\ ShapeOK /\ SizesOK /\ stage \in [Id -> Stage] /\ Owner[i] \in Session
      /\ Size \subseteq Nat \ {0}
  BY DEF IInv, ShapeOK, BudgetInv
\* What changes the stage of i alone, and no size.
<1>1. ASSUME NEW x \in Stage \ {"allowed"}, stage' = [stage EXCEPT ![i] = x],
             stage[i] # "allowed", stage[i] \in Underway <=> x \in Underway,
             UNCHANGED <<snap, tmpSnap, expected, reserved, asked>>
      PROVE  BudgetInv'
  <2>1. \A j \in Id : Taken(j)' <= Taken(j)
    <3> SUFFICES ASSUME NEW j \in Id PROVE Taken(j)' = Taken(j) /\ Taken(j) \in Nat
      OBVIOUS
    <3> QED
      BY <1>0, <1>1 DEF Taken, SizesOK
  <2>2. SizesOK'
    BY <1>0, <1>1 DEF SizesOK
  <2>3. \A j \in Id : stage'[j] \in Underway <=> stage[j] \in Underway
    BY <1>0, <1>1
  <2> QED
    BY <1>1, <2>1, <2>2, <2>3, NoMoreTaken, SamePromises DEF BudgetInv
<1>2. ASSUME UNCHANGED <<snap, tmpSnap, stage, expected, reserved, asked>> PROVE BudgetInv'
  <2>1. \A j \in Id : Taken(j)' <= Taken(j)
    BY <1>0, <1>2 DEF Taken, SizesOK
  <2>2. SizesOK'
    BY <1>0, <1>2 DEF SizesOK
  <2> QED
    BY <1>2, <2>1, <2>2, NoMoreTaken, SamePromises DEF BudgetInv
<1>3. CASE Prepare(i)
  BY <1>2, <1>3 DEF Prepare
<1>4. CASE WriteCapturing(i) \/ WritePending(i) \/ WriteEnded(i)
  <2>1. PICK x \in {"recorded", "pending", "ended"} :
          /\ stage' = [stage EXCEPT ![i] = x]
          /\ stage[i] \in {"prepared", "captured", "refused", "pending"}
          /\ UNCHANGED <<snap, tmpSnap, expected, reserved, asked>>
    BY <1>4 DEF WriteCapturing, WritePending, WriteEnded, Write
  <2> QED
    BY <1>1, <2>1 DEF Stage, Underway
<1>5. ASSUME NEW n \in Size, Reserve(i, n) PROVE BudgetInv'
  <2>1. CASE n > MaxSnapshot
    BY <1>1, <1>5, <2>1 DEF Reserve, Stage, Underway
  <2>2. CASE ~(n > MaxSnapshot)
    BY <1>2, <1>5, <2>2 DEF Reserve
  <2> QED
    BY <2>1, <2>2
<1>6. ASSUME NEW n \in Size, Copy(i, n) PROVE BudgetInv'
  <2>1. /\ stage[i] = "reserved" /\ UNCHANGED <<snap, asked>>
        /\ \/ /\ tmpSnap' = [tmpSnap EXCEPT ![i] = n] /\ stage' = [stage EXCEPT ![i] = "copied"]
              /\ UNCHANGED <<expected, reserved>>
           \/ /\ tmpSnap' = [tmpSnap EXCEPT ![i] = 0] /\ stage' = [stage EXCEPT ![i] = "refused"]
              /\ Release(i)
    BY <1>6 DEF Copy
  <2>2. tmpSnap' \in [Id -> Nat] /\ snap' \in [Id -> Nat] /\ asked' \in 0..MaxAsk
    BY <1>0, <2>1 DEF SizesOK
  <2>3. \A j \in Id : Taken(j)' <= Taken(j)
    <3> SUFFICES ASSUME NEW j \in Id PROVE Taken(j)' = Taken(j) /\ Taken(j) \in Nat
      OBVIOUS
    <3>1. CASE j = i
      BY <1>0, <2>1, <3>1 DEF Taken, SizesOK
    <3>2. CASE j # i
      BY <1>0, <2>1, <3>2 DEF Taken, SizesOK
    <3> QED
      BY <3>1, <3>2
  <2>4. CASE UNCHANGED <<expected, reserved>> /\ stage' = [stage EXCEPT ![i] = "copied"]
    <3>1. \A j \in Id : stage'[j] \in Underway <=> stage[j] \in Underway
      BY <1>0, <2>1, <2>4 DEF Underway
    <3>2. SizesOK'
      BY <1>0, <2>2, <2>4 DEF SizesOK
    <3> QED
      BY <2>3, <2>4, <3>1, <3>2, NoMoreTaken, SamePromises DEF BudgetInv
  <2>5. CASE Release(i) /\ stage' = [stage EXCEPT ![i] = "refused"]
    <3>1. stage[i] \in Underway
      BY <2>1 DEF Underway
    <3>2. /\ expected' \in [Id -> Nat] /\ reserved' \in [Session -> Nat]
          /\ PromisesFit'
      BY <1>0, <2>5, <3>1, ReleaseStep
    <3>3. SizesOK'
      BY <2>2, <3>2 DEF SizesOK
    <3> QED
      BY <2>3, <3>2, <3>3, NoMoreTaken DEF BudgetInv
  <2> QED
    BY <2>1, <2>4, <2>5
<1>7. CASE Finalize(i)
  <2>1. PICK x \in {"allowed", "refused"} :
          /\ stage' = [stage EXCEPT ![i] = x]
          /\ x = "allowed" => Fits(i) /\ UNCHANGED tmpSnap
          /\ x = "refused" => tmpSnap' = [tmpSnap EXCEPT ![i] = 0]
          /\ stage[i] = "copied" /\ Release(i) /\ UNCHANGED <<snap, asked>>
    BY <1>7 DEF Finalize
  <2>2. /\ expected[i] <= reserved[Owner[i]]
        /\ expected' \in [Id -> Nat] /\ reserved' \in [Session -> Nat]
        /\ PromisesFit'
    <3>1. stage[i] \in Underway
      BY <2>1 DEF Underway
    <3> QED
      BY <1>0, <2>1, <3>1, ReleaseStep
  <2>6. tmpSnap' \in [Id -> Nat]
    BY <1>0, <2>1 DEF SizesOK
  <2>3. SizesOK'
    BY <1>0, <2>1, <2>2, <2>6 DEF SizesOK
  <2>4. CASE x = "refused"
    <3>1. \A j \in Id : Taken(j)' <= Taken(j)
      <4> SUFFICES ASSUME NEW j \in Id PROVE Taken(j)' = Taken(j) /\ Taken(j) \in Nat
        OBVIOUS
      <4>1. CASE j = i
        BY <1>0, <2>1, <2>4, <4>1 DEF Taken, SizesOK
      <4>2. CASE j # i
        BY <1>0, <2>1, <2>4, <4>2 DEF Taken, SizesOK
      <4> QED
        BY <4>1, <4>2
    <3> QED
      BY <2>2, <2>3, <3>1, NoMoreTaken DEF BudgetInv
  <2>5. CASE x = "allowed"
    <3> DEFINE G == Takes'
    <3>1. G = [j \in Id |-> Taken(j)'] /\ UNCHANGED <<snap, tmpSnap>>
      BY <2>1, <2>5 DEF Takes
    <3>2. \A j \in Id : Taken(j)' \in Nat /\ Taken(j)' <= snap[j] + tmpSnap[j]
      BY <1>0, <3>1 DEF Taken, SizesOK
    <3>3. G \in [Id -> Nat] /\ \A j \in Id : G[j] <= snap[j] + tmpSnap[j]
      BY <3>1, <3>2
    <3> HIDE DEF G
    <3>4. Total(G, Id) <= Total(snap, Id) + Total(tmpSnap, Id)
      BY <1>0, <3>3, TotalBound DEF SizesOK
    <3>5. Used = Total(snap, Id) + Total(tmpSnap, Id)
      BY <1>0, TotalDef DEF Used, SizesOK
    <3>6. Used + (reserved[Owner[i]] - expected[i]) <= MaxTotal
      BY <2>1, <2>5 DEF Fits
    <3>7. /\ Total(G, Id) \in Nat /\ Total(snap, Id) \in Nat /\ Total(tmpSnap, Id) \in Nat
          /\ reserved[Owner[i]] \in Nat /\ expected[i] \in Nat
      BY <1>0, <3>3, TotalType DEF SizesOK
    <3>8. Total(G, Id) <= MaxTotal
      BY <2>2, <3>4, <3>5, <3>6, <3>7
    <3> QED
      BY <2>2, <2>3, <3>8 DEF BudgetInv, BytesFit, G
  <2> QED
    BY <2>4, <2>5
<1>8. CASE Keep(i)
  <2>1. /\ stage[i] = "allowed" /\ tmpSnap' = [tmpSnap EXCEPT ![i] = 0]
        /\ snap' = [snap EXCEPT ![i] = IF tmpSnap[i] > 0 THEN tmpSnap[i] ELSE @]
        /\ stage' = [stage EXCEPT ![i] = IF tmpSnap[i] > 0 THEN "captured" ELSE "refused"]
        /\ UNCHANGED <<expected, reserved, asked>>
    BY <1>8 DEF Keep
  <2>2. SizesOK'
    BY <1>0, <2>1 DEF SizesOK
  <2>3. ASSUME NEW j \in Id PROVE Taken(j)' <= Taken(j)
    <3>1. CASE j = i
      BY <1>0, <2>1, <3>1 DEF Taken, SizesOK
    <3>2. CASE j # i
      BY <1>0, <2>1, <3>2 DEF Taken, SizesOK
    <3> QED
      BY <3>1, <3>2
  <2>4. \A j \in Id : stage'[j] \in Underway <=> stage[j] \in Underway
    BY <1>0, <2>1 DEF Underway
  <2> QED
    BY <2>1, <2>2, <2>3, <2>4, NoMoreTaken, SamePromises DEF BudgetInv
<1> QED
  BY <1>3, <1>4, <1>5, <1>6, <1>7, <1>8 DEF Bridge

\* A step that leaves the bridges alone, and removes snapshots at most.
LEMMA ShrinkStep ==
  ASSUME BudgetInv, UNCHANGED <<stage, expected, reserved>>, asked' \in 0..MaxAsk,
         snap' \in [Id -> Nat], tmpSnap' \in [Id -> Nat],
         \A i \in Id : snap'[i] <= snap[i] /\ tmpSnap'[i] <= tmpSnap[i]
  PROVE  BudgetInv'
<1>1. SizesOK'
  BY DEF BudgetInv, SizesOK
<1>2. \A i \in Id : Taken(i)' <= Taken(i)
  BY DEF BudgetInv, SizesOK, Taken
<1> QED
  BY <1>1, <1>2, NoMoreTaken, SamePromises DEF BudgetInv

\* The operations of a window.
LEMMA SessionBudget ==
  ASSUME IInv, BudgetInv, NEW s \in Session,
         \/ Reconcile(s) \/ Lease(s) \/ Finish(s) \/ Heartbeat(s) \/ Close(s) \/ Die(s)
         \/ \E kind \in Kind : Ask(s, kind)
  PROVE  BudgetInv'
<1> USE StoreAssumption DEF StoreAssumption, disk
<1>0. /\ ShapeOK /\ SizesOK /\ stage \in [Id -> Stage] /\ OpFit(s) /\ op[s] \in Operation
      /\ op[s].todo \in Nat
      /\ snap \in [Id -> Nat] /\ tmpSnap \in [Id -> Nat] /\ asked \in 0..MaxAsk
      /\ \A i \in Id : snap[i] \in Nat /\ tmpSnap[i] \in Nat
  BY DEF IInv, ShapeOK, OpFits, BudgetInv, SizesOK, Operation
<1>1. ASSUME UNCHANGED <<snap, tmpSnap, stage, expected, reserved>>, asked' \in 0..MaxAsk
      PROVE  BudgetInv'
  BY <1>0, <1>1, ShrinkStep
<1>2. ASSUME NEW i \in Id, Look(s, i) PROVE BudgetInv'
  BY <1>0, <1>1, <1>2 DEF Look
<1>3. CASE Reread(s) \/ Rewrite(s) \/ Lease(s) \/ Heartbeat(s) \/ Close(s) \/ Die(s)
  BY <1>0, <1>1, <1>3 DEF Reread, Rewrite, Lease, Heartbeat, Close, Die
<1>4. CASE ListDone(s) \/ Choose(s) \/ ClearDone(s) \/ RetainDone(s)
  BY <1>0, <1>1, <1>4 DEF ListDone, Choose, ClearDone, RetainDone
<1>5. ASSUME NEW kind \in Kind, Ask(s, kind) PROVE BudgetInv'
  <2>1. asked' \in 0..MaxAsk
    BY <1>0, <1>5 DEF Ask
  <2> QED
    BY <1>1, <1>5, <2>1 DEF Ask
<1>6. CASE Repair(s)
  <2> DEFINE i == op[s].cur
  <2>1. i \in Id
    BY <1>0, <1>6 DEF OpFit, Repair, At
  <2>2. /\ tmpSnap' = [tmpSnap EXCEPT ![i] = 0] /\ (snap' = snap \/ snap' = [snap EXCEPT ![i] = 0])
        /\ UNCHANGED <<stage, expected, reserved, asked>>
    BY <1>6 DEF Repair
  <2> HIDE DEF i
  <2>3. /\ snap' \in [Id -> Nat] /\ tmpSnap' \in [Id -> Nat]
        /\ \A j \in Id : snap'[j] <= snap[j] /\ tmpSnap'[j] <= tmpSnap[j]
    BY <1>0, <2>1, <2>2
  <2> QED
    BY <1>0, <2>2, <2>3, ShrinkStep
<1>7. ASSUME NEW i \in Id, Remove(s, i) PROVE BudgetInv'
  <2>1. /\ tmpSnap' = [tmpSnap EXCEPT ![i] = 0] /\ snap' = [snap EXCEPT ![i] = 0]
        /\ UNCHANGED <<stage, expected, reserved, asked>>
    BY <1>7 DEF Remove
  <2>2. /\ snap' \in [Id -> Nat] /\ tmpSnap' \in [Id -> Nat]
        /\ \A j \in Id : snap'[j] <= snap[j] /\ tmpSnap'[j] <= tmpSnap[j]
    BY <1>0, <2>1
  <2> QED
    BY <1>0, <2>1, <2>2, ShrinkStep
<1>8. ASSUME NEW i \in Id, NEW x \in {"prepared", "refused"}, stage' = [stage EXCEPT ![i] = x],
             stage[i] \in {"none", "recorded"},
             UNCHANGED <<snap, tmpSnap, expected, reserved, asked>>
      PROVE  BudgetInv'
  <2>1. ASSUME NEW j \in Id PROVE Taken(j)' <= Taken(j)
    <3>1. Taken(j)' = Taken(j) /\ Taken(j) \in Nat
      BY <1>0, <1>8 DEF Taken
    <3> QED
      BY <3>1
  <2>2. SizesOK'
    BY <1>0, <1>8 DEF SizesOK
  <2>3. \A j \in Id : stage'[j] \in Underway <=> stage[j] \in Underway
    BY <1>0, <1>8 DEF Underway
  <2> QED
    BY <1>8, <2>1, <2>2, <2>3, NoMoreTaken, SamePromises DEF BudgetInv
<1>9. CASE PrepareDone(s)
  <2>1. op[s].id \in Id /\ stage[op[s].id] = "none"
    BY <1>0, <1>9 DEF OpFit, PrepareDone, Looked, At
  <2> QED
    BY <1>8, <1>9, <2>1 DEF PrepareDone
<1>10. CASE Admit(s)
  <2> DEFINE i == op[s].id
             n == op[s].todo
  <2>1. i \in Id /\ stage[i] = "recorded" /\ Owner[i] = s /\ n \in Nat
    BY <1>0, <1>10 DEF OpFit, Admit, Removed, At
  <2>2. /\ UNCHANGED <<snap, tmpSnap, asked>>
        /\ \/ /\ stage' = [stage EXCEPT ![i] = "reserved"]
              /\ reserved' = [reserved EXCEPT ![Owner[i]] = @ + n]
              /\ expected' = [expected EXCEPT ![i] = n]
           \/ stage' = [stage EXCEPT ![i] = "refused"] /\ UNCHANGED <<expected, reserved>>
    BY <1>10, <2>1 DEF Admit
  <2> HIDE DEF i, n
  <2>3. CASE stage' = [stage EXCEPT ![i] = "refused"] /\ UNCHANGED <<expected, reserved>>
    BY <1>8, <2>1, <2>2, <2>3
  <2>4. CASE /\ stage' = [stage EXCEPT ![i] = "reserved"]
             /\ reserved' = [reserved EXCEPT ![Owner[i]] = @ + n]
             /\ expected' = [expected EXCEPT ![i] = n]
    <3>1. expected' \in [Id -> Nat] /\ reserved' \in [Session -> Nat] /\ PromisesFit'
      BY <1>0, <2>1, <2>4, AdmitStep
    <3>2. SizesOK'
      BY <1>0, <2>2, <3>1 DEF SizesOK
    <3>3. ASSUME NEW j \in Id PROVE Taken(j)' <= Taken(j)
      <4>1. Taken(j)' = Taken(j) /\ Taken(j) \in Nat
        BY <1>0, <2>1, <2>2, <2>4 DEF Taken
      <4> QED
        BY <4>1
    <3> QED
      BY <3>1, <3>2, <3>3, NoMoreTaken DEF BudgetInv
  <2> QED
    BY <2>2, <2>3, <2>4
<1> QED
  BY <1>2, <1>3, <1>4, <1>5, <1>6, <1>7, <1>9, <1>10 DEF Reconcile, Finish

\* The limit is kept by every step.
LEMMA BudgetInvariance == Spec => []BudgetInv
<1>1. IInv /\ BudgetInv /\ [Next]_vars => BudgetInv'
  <2> SUFFICES ASSUME IInv, BudgetInv, [Next]_vars PROVE BudgetInv'
    OBVIOUS
  <2>1. ASSUME NEW i \in Id, Bridge(i) PROVE BudgetInv'
    BY <2>1, BridgeBudget
  <2>2. ASSUME NEW s \in Session,
               \/ Reconcile(s) \/ Lease(s) \/ Finish(s) \/ Heartbeat(s) \/ Close(s) \/ Die(s)
               \/ \E kind \in Kind : Ask(s, kind)
        PROVE  BudgetInv'
    BY <2>2, SessionBudget
  <2>3. CASE Tick \/ UNCHANGED vars
    <3>1. UNCHANGED <<snap, tmpSnap, stage, expected, reserved, asked>>
      BY <2>3 DEF Tick, vars, disk
    <3>2. /\ asked \in 0..MaxAsk /\ snap \in [Id -> Nat] /\ tmpSnap \in [Id -> Nat]
          /\ \A i \in Id : snap[i] <= snap[i] /\ tmpSnap[i] <= tmpSnap[i]
      BY DEF BudgetInv, SizesOK
    <3> QED
      BY <3>1, <3>2, ShrinkStep
  <2> QED
    BY <2>1, <2>2, <2>3 DEF Next
<1> QED
  BY InitBudget, Invariance, <1>1, PTL DEF Spec

\* Types of every variable.
THEOREM TypeCorrect == Spec => []TypeOK
<1>1. IInv /\ BudgetInv => TypeOK
  BY DEF IInv, ShapeOK, BudgetInv, SizesOK, TypeOK, Operation
<1> QED
  BY <1>1, Invariance, BudgetInvariance, PTL

\* The snapshots kept are within the limit, and the counter of reserved bytes is what the
\* snapshots under way reserved.
THEOREM BudgetHolds == Spec => []SnapshotBudget
<1>1. BudgetInv => SnapshotBudget
  <2> SUFFICES ASSUME BudgetInv PROVE SnapshotBudget
    OBVIOUS
  <2>1. /\ IsFiniteSet(Id) /\ MaxTotal \in Nat /\ snap \in [Id -> Nat] /\ Takes \in [Id -> Nat]
        /\ \A i \in Id : snap[i] <= Takes[i]
    BY StoreAssumption, TakesType DEF StoreAssumption, BudgetInv, SizesOK, Takes
  <2>2. Total(snap, Id) <= Total(Takes, Id) /\ Total(snap, Id) \in Nat /\ Total(Takes, Id) \in Nat
    BY <2>1, TotalOrder, TotalType
  <2>3. SumFunction(snap) = Total(snap, Id)
    BY <2>1, TotalDef
  <2>4. SumFunction(snap) <= MaxTotal
    BY <2>1, <2>2, <2>3 DEF BudgetInv, BytesFit
  <2>5. \A s \in Session :
          reserved[s] = MapThenSumSet(LAMBDA i : expected[i],
                          {i \in Id : Owner[i] = s /\ stage[i] \in {"reserved", "copied"}})
    BY DEF BudgetInv, PromisesFit, Promised, Underway, Total
  <2> QED
    BY <2>4, <2>5 DEF SnapshotBudget
<1> QED
  BY <1>1, BudgetInvariance, PTL
===============================================================================
