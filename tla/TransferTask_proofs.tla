-------------------------- MODULE TransferTask_proofs --------------------------
(***************************************************************************)
(* TransferTask keeps the promise of FileReplacement, for any tasks of one *)
(* target; it backs up what it replaces, and leaves no temporary file of a *)
(* download behind.                                                        *)
(***************************************************************************)
EXTENDS TransferTask, TLAPS

\* What the target held first is no task's content and no sign of one that is missing or
\* partial.
OldIsOther == Old \notin {None, Damaged} \union Task

-------------------------------------------------------------------------------
(* Types                                                                    *)

LEMMA TypeInit == Init => TypeOK
  BY DEF Init, TypeOK, Contents

LEMMA TypeStep == TypeOK /\ [Next]_vars => TypeOK'
<1> SUFFICES ASSUME TypeOK, [Next]_vars PROVE TypeOK'
  OBVIOUS
<1> USE DEF TypeOK, Contents, Ended, Go, At
<1>1. ASSUME NEW t \in Task, Run(t) PROVE TypeOK'
  BY <1>1 DEF Run
<1>2. ASSUME NEW t \in Task, Backup(t) PROVE TypeOK'
  BY <1>2 DEF Backup
<1>3. ASSUME NEW t \in Task, OpenFile(t) PROVE TypeOK'
  BY <1>3 DEF OpenFile, Stage
<1>4. ASSUME NEW t \in Task, OpenStream(t) \/ Opened(t) \/ Listen(t) PROVE TypeOK'
  BY <1>4 DEF OpenStream, Opened, Listen
<1>5. ASSUME NEW t \in Task, Copy(t) PROVE TypeOK'
  BY <1>5 DEF Copy, Stage
<1>6. ASSUME NEW t \in Task, Close(t) \/ Check(t) PROVE TypeOK'
  BY <1>6 DEF Close, Check
<1>7. ASSUME NEW t \in Task, Unlink(t) PROVE TypeOK'
  BY <1>7 DEF Unlink
<1>8. ASSUME NEW t \in Task, Rename(t) PROVE TypeOK'
  BY <1>8 DEF Rename, Stage
<1>9. ASSUME NEW t \in Task, Report(t) \/ Fail(t) PROVE TypeOK'
  BY <1>9 DEF Report, Fail
<1>10. ASSUME NEW t \in Task, Clean(t) PROVE TypeOK'
  BY <1>10 DEF Clean, Stage
<1>11. ASSUME NEW t \in Task, Cancel(t) PROVE TypeOK'
  BY <1>11 DEF Cancel
<1>12. CASE Crash
  BY <1>12 DEF Crash
<1>13. CASE UNCHANGED vars
  BY <1>13 DEF vars
<1> QED
  BY <1>1, <1>2, <1>3, <1>4, <1>5, <1>6, <1>7, <1>8, <1>9, <1>10, <1>11, <1>12, <1>13
     DEF Next, Advance

-------------------------------------------------------------------------------
(* Where tasks stand                                                        *)

\* Only what is staged is committed, only a download looks at a cancellation then, and
\* what replaces in several steps is allowed to.
WayFits ==
  /\ way = "direct" => loose = "damaged"
  /\ way = "unlink" => loose # "never"
  /\ \A t \in Task :
       /\ step[t] \in {"close", "check", "unlink", "rename"} => Staged
       /\ step[t] = "check" => Download
       /\ step[t] = "unlink" => way = "unlink"

\* A task has its file open from opening to closing; in its place when nothing renames, at
\* its temporary name as long as that is not shared.
OpenFits ==
  \A t \in Task :
    /\ step[t] \in {"opened", "copy", "close"} => open[t] # "none"
    /\ step[t] \in {"ready", "backup", "check", "unlink", "rename"} => open[t] = "none"
    /\ ~Staged => open[t] \in {"none", "target"}
    /\ loose # "damaged" => open[t] \in {"none", "staging"}

\* Unless uploads share a temporary file, it holds what its task will commit.
OneUses ==
  loose # "damaged" /\ ~Download => \A t, u \in Task : Uses(t) /\ Uses(u) => t = u
Filled ==
  loose # "damaged" =>
    \A t \in Task : step[t] \in {"close", "check", "unlink", "rename"} => staging[t] = t

\* A task replaces once, reports only then, and not after it was stopped.
ReplacedOnce ==
  \A t \in Task :
    /\ step[t] = "report" => t \in replaced
    /\ t \in replaced => step[t] \in {"report", "ok", "failed"}
    /\ t \in stopped =>
         Download /\ t \in cancelled /\ step[t] \notin {"rename", "report", "ok"}

IInv == TypeOK /\ WayFits /\ OpenFits /\ OneUses /\ Filled /\ ReplacedOnce

LEMMA InitInv == Init => IInv
<1> SUFFICES ASSUME Init PROVE IInv
  OBVIOUS
<1>1. WayFits /\ OpenFits
  BY DEF Init, WayFits, OpenFits, Staged, Download
<1>2. OneUses /\ Filled /\ ReplacedOnce
  BY DEF Init, OneUses, Filled, ReplacedOnce, Uses
<1> QED
  BY TypeInit, <1>1, <1>2 DEF IInv

LEMMA OtherStep ==
  IInv /\ (Crash \/ UNCHANGED vars) => (WayFits /\ OpenFits /\ OneUses /\ Filled /\ ReplacedOnce)'
  BY DEF IInv, WayFits, OpenFits, OneUses, Filled, ReplacedOnce, Uses, Staged, Download,
         Crash, vars

LEMMA AdvanceStep ==
  ASSUME IInv, NEW t \in Task, Advance(t)
  PROVE  (WayFits /\ OpenFits /\ OneUses /\ Filled /\ ReplacedOnce)'
<1> USE DEF IInv, TypeOK, Contents, Ended, WayFits, OpenFits, OneUses, Filled, ReplacedOnce,
            Uses, Staged, Download, At, Go
<1>1. CASE Run(t) \/ Backup(t)
  BY <1>1 DEF Run, Backup
<1>2. CASE OpenFile(t)
  BY <1>2 DEF OpenFile, Stage, Mates
<1>3. CASE OpenStream(t) \/ Opened(t) \/ Listen(t)
  BY <1>3 DEF OpenStream, Opened, Listen
<1>4. CASE Copy(t)
  BY <1>4 DEF Copy, Stage, Mates, Alone
<1>5. CASE Close(t) \/ Check(t)
  BY <1>5 DEF Close, Check
<1>6. CASE Unlink(t)
  BY <1>6 DEF Unlink
<1>7. CASE Rename(t)
  BY <1>7 DEF Rename, Stage, Mates
<1>8. CASE Report(t) \/ Fail(t)
  BY <1>8 DEF Report, Fail
<1>9. CASE Clean(t)
  BY <1>9 DEF Clean, Stage, Mates
<1> QED
  BY <1>1, <1>2, <1>3, <1>4, <1>5, <1>6, <1>7, <1>8, <1>9 DEF Advance

LEMMA CancelStep ==
  ASSUME IInv, NEW t \in Task, Cancel(t)
  PROVE  (WayFits /\ OpenFits /\ OneUses /\ Filled /\ ReplacedOnce)'
  BY DEF IInv, TypeOK, Contents, Ended, WayFits, OpenFits, OneUses, Filled, ReplacedOnce,
         Uses, Staged, Download, At, Go, Cancel

LEMMA Invariance == Spec => []IInv
<1>1. IInv /\ [Next]_vars => IInv'
  BY TypeStep, OtherStep, AdvanceStep, CancelStep DEF Next, IInv
<1> QED
  BY InitInv, <1>1, PTL DEF Spec

-------------------------------------------------------------------------------
(* The promise                                                              *)

LEMMA InitPromise == ASSUME OldIsOther PROVE Init => promise!Init
  BY DEF OldIsOther, Init, promise!Init

\* The tasks that reported success stay the same but where one reports.
LEMMA EndedSame ==
  ASSUME TypeOK, NEW t \in Task, NEW s, Go(t, s), s # "ok", step[t] # "ok"
  PROVE  {u \in Task : step[u] = "ok"}' = {u \in Task : step[u] = "ok"}
  BY DEF TypeOK, Go

\* Steps before the file is opened and after it is closed, and those that only look.
LEMMA QuietStep ==
  ASSUME IInv, NEW t \in Task,
         \/ Run(t) \/ Backup(t) \/ OpenStream(t) \/ Opened(t) \/ Listen(t)
         \/ Close(t) \/ Check(t) \/ Fail(t) \/ Clean(t)
  PROVE  UNCHANGED promise!vars
<1>1. CASE OpenStream(t)
  BY <1>1 DEF OpenStream, promise!vars
<1>2. CASE \/ Run(t) \/ Backup(t) \/ Opened(t) \/ Listen(t)
           \/ Close(t) \/ Check(t) \/ Fail(t) \/ Clean(t)
  <2>1. PICK s : Go(t, s) /\ s # "ok" /\ step[t] # "ok"
    BY <1>2 DEF Run, Backup, Opened, Listen, Close, Check, Fail, Clean, At
  <2>2. {u \in Task : step[u] = "ok"}' = {u \in Task : step[u] = "ok"}
    BY <2>1, EndedSame DEF IInv
  <2> QED
    BY <1>2, <2>2 DEF Run, Backup, Opened, Listen, Close, Check, Fail, Clean, promise!vars
<1> QED
  BY <1>1, <1>2

\* A step that writes is one of the promise's, or nothing.
LEMMA AdvancePromise ==
  ASSUME IInv, NEW t \in Task, Advance(t)
  PROVE  [promise!Next]_promise!vars
<1> USE DEF IInv, TypeOK, Contents, Ended, At
<1>1. CASE OpenFile(t)
  <2>1. {u \in Task : step[u] = "ok"}' = {u \in Task : step[u] = "ok"}
    BY <1>1 DEF OpenFile
  <2>2. CASE loose' = loose /\ Staged
    BY <1>1, <2>1, <2>2 DEF OpenFile, promise!vars
  <2>3. CASE loose' # loose
    <3>1. promise!Loosen
      BY <1>1, <2>1, <2>3 DEF OpenFile, promise!Loosen
    <3> QED
      BY <3>1 DEF promise!Next
  <2>4. CASE ~Staged
    <3>1. promise!Damage
      BY <1>1, <2>1, <2>4 DEF OpenFile, promise!Damage, WayFits, Staged
    <3> QED
      BY <3>1 DEF promise!Next
  <2> QED
    BY <2>2, <2>3, <2>4
<1>2. CASE Copy(t)
  <2>1. {u \in Task : step[u] = "ok"}' = {u \in Task : step[u] = "ok"}
    BY <1>2, EndedSame DEF Copy
  <2>2. CASE loose = "damaged"
    <3>1. promise!Damage
      BY <1>2, <2>1, <2>2 DEF Copy, promise!Damage
    <3> QED
      BY <3>1 DEF promise!Next
  <2>3. CASE loose # "damaged"
    BY <1>2, <2>1, <2>3 DEF Copy, WayFits, OpenFits, Staged, promise!vars
  <2> QED
    BY <2>2, <2>3
<1>3. CASE Unlink(t)
  <2>1. {u \in Task : step[u] = "ok"}' = {u \in Task : step[u] = "ok"}
    BY <1>3, EndedSame DEF Unlink
  <2>2. CASE target' = target
    BY <1>3, <2>1, <2>2 DEF Unlink, promise!vars
  <2>3. CASE target' # target
    <3>1. promise!Gap
      BY <1>3, <2>1, <2>3 DEF Unlink, promise!Gap, WayFits
    <3> QED
      BY <3>1 DEF promise!Next
  <2> QED
    BY <2>2, <2>3
<1>4. CASE Rename(t)
  <2>1. {u \in Task : step[u] = "ok"}' = {u \in Task : step[u] = "ok"}
    BY <1>4, EndedSame DEF Rename
  <2>2. CASE loose = "damaged"
    <3>1. promise!Damage
      BY <1>4, <2>1, <2>2 DEF Rename, promise!Damage
    <3> QED
      BY <3>1 DEF promise!Next
  <2>3. CASE loose # "damaged"
    <3>1. promise!Replace(t)
      BY <1>4, <2>1, <2>3 DEF Rename, promise!Replace, Filled, ReplacedOnce
    <3> QED
      BY <3>1 DEF promise!Next
  <2> QED
    BY <2>2, <2>3
<1>5. CASE Report(t)
  <2>1. CASE Go(t, "ok")
    <3>1. {u \in Task : step[u] = "ok"}' = {u \in Task : step[u] = "ok"} \union {t}
      BY <1>5, <2>1 DEF Go
    <3>2. promise!Succeed(t)
      BY <1>5, <3>1 DEF Report, promise!Succeed, ReplacedOnce
    <3> QED
      BY <3>2 DEF promise!Next
  <2>2. CASE Go(t, "failed")
    <3>1. {u \in Task : step[u] = "ok"}' = {u \in Task : step[u] = "ok"}
      BY <1>5, <2>2, EndedSame DEF Report
    <3> QED
      BY <1>5, <3>1 DEF Report, promise!vars
  <2> QED
    BY <1>5, <2>1, <2>2 DEF Report
<1> QED
  BY <1>1, <1>2, <1>3, <1>4, <1>5, QuietStep DEF Advance

\* Cancelling stops a download that has not begun to rename.
LEMMA CancelPromise ==
  ASSUME IInv, NEW t \in Task, Cancel(t)
  PROVE  [promise!Next]_promise!vars
<1>1. {u \in Task : step[u] = "ok"}' = {u \in Task : step[u] = "ok"}
  <2>1. PICK s : Go(t, s) /\ s # "ok" /\ step[t] # "ok"
    BY DEF Cancel, Ended
  <2> QED
    BY <2>1, EndedSame DEF IInv
<1>2. CASE stopped' = stopped
  BY <1>1, <1>2 DEF Cancel, promise!vars
<1>3. CASE stopped' = stopped \union {t}
  <2>1. promise!Stop(t)
    BY <1>1, <1>3 DEF Cancel, promise!Stop
  <2> QED
    BY <2>1 DEF promise!Next
<1> QED
  BY <1>2, <1>3 DEF Cancel

\* However tasks interleave, fail, are cancelled or crash, what they do to their target is
\* what FileReplacement allows (_transferFile, commitDownload, run).
THEOREM PromiseKept == ASSUME OldIsOther PROVE Spec => KeepsPromise
<1>1. IInv /\ [Next]_vars => [promise!Next]_promise!vars
  <2>1. ASSUME Crash \/ UNCHANGED vars PROVE UNCHANGED promise!vars
    BY <2>1 DEF Crash, vars, promise!vars
  <2> QED
    BY <2>1, AdvancePromise, CancelPromise DEF Next
<1> QED
  BY <1>1, InitPromise, Invariance, PTL DEF Spec, KeepsPromise, promise!Spec

-------------------------------------------------------------------------------
(* Backups and temporary files                                              *)

\* Only a task past its backup changes the target.
BackedUp ==
  backup /\ (target # Old \/ \E t \in Task : step[t] \notin {"ready", "backup", "skipped"})
    => Old \in backups \/ warned

LEMMA BackupStep == TypeOK /\ BackedUp /\ [Next]_vars => BackedUp'
<1> SUFFICES ASSUME TypeOK, BackedUp, [Next]_vars PROVE BackedUp'
  OBVIOUS
<1> USE DEF TypeOK, BackedUp, At, Go, Ended
<1>1. ASSUME NEW t \in Task, Run(t) PROVE BackedUp'
  BY <1>1 DEF Run
<1>2. ASSUME NEW t \in Task, Backup(t) PROVE BackedUp'
  BY <1>2 DEF Backup
<1>3. ASSUME NEW t \in Task, Advance(t), ~Run(t), ~Backup(t) PROVE BackedUp'
  <2>1. step[t] \notin {"ready", "backup", "skipped"}
    BY <1>3 DEF Advance, OpenFile, OpenStream, Opened, Listen, Copy, Close, Check, Unlink,
                Rename, Report, Fail, Clean
  <2>2. UNCHANGED <<backup, backups, warned>>
    BY <1>3 DEF Advance, OpenFile, OpenStream, Opened, Listen, Copy, Close, Check, Unlink,
                Rename, Report, Fail, Clean
  <2> QED
    BY <2>1, <2>2
<1>4. ASSUME NEW t \in Task, Cancel(t) PROVE BackedUp'
  BY <1>4 DEF Cancel
<1>5. CASE Crash \/ UNCHANGED vars
  BY <1>5 DEF Crash, vars
<1> QED
  BY <1>1, <1>2, <1>3, <1>4, <1>5 DEF Next

\* With backups on, the content found first is gone only after it was backed up, or after
\* the user was warned that it was not (_transferFile).
THEOREM FirstIsBackedUp == Spec => []OldIsBackedUp
<1>1. Init => BackedUp
  BY DEF Init, BackedUp
<1>2. BackedUp => OldIsBackedUp
  BY DEF BackedUp, OldIsBackedUp
<1> QED
  BY <1>1, <1>2, TypeInit, TypeStep, BackupStep, PTL DEF Spec

\* The temporary file of a download is there only while its task is at work.
Tidy ==
  Download => \A t \in Task :
                step[t] \in {"ready", "backup", "report"} \union Ended => staging[t] = None

LEMMA TidyStep == IInv /\ Tidy /\ [Next]_vars => Tidy'
<1> SUFFICES ASSUME IInv, Tidy, [Next]_vars PROVE Tidy'
  OBVIOUS
<1> USE DEF IInv, TypeOK, Tidy, At, Go, Ended, Download
<1>1. ASSUME NEW t \in Task, Advance(t) PROVE Tidy'
  <2>1. CASE \/ Run(t) \/ Backup(t) \/ OpenStream(t) \/ Opened(t) \/ Listen(t) \/ Close(t)
             \/ Check(t) \/ Unlink(t) \/ Report(t) \/ Fail(t)
    BY <2>1 DEF Run, Backup, OpenStream, Opened, Listen, Close, Check, Unlink, Report, Fail
  <2>2. CASE OpenFile(t) \/ Copy(t)
    BY <2>2 DEF OpenFile, Copy, Stage, Mates, Staged
  <2>3. CASE Rename(t) \/ Clean(t)
    BY <2>3 DEF Rename, Clean, Stage, Mates
  <2> QED
    BY <1>1, <2>1, <2>2, <2>3 DEF Advance
<1>2. ASSUME NEW t \in Task, Cancel(t) PROVE Tidy'
  BY <1>2 DEF Cancel
<1>3. CASE Crash \/ UNCHANGED vars
  BY <1>3 DEF Crash, vars
<1> QED
  BY <1>1, <1>2, <1>3 DEF Next

\* A download that ended leaves no temporary file beside its target while the process
\* lives: the finally block of _transferFile.
THEOREM NothingLeftBehind == Spec => []NoStagingLeft
<1>1. Init => Tidy
  BY DEF Init, Tidy
<1>2. Tidy => NoStagingLeft
  BY DEF Tidy, NoStagingLeft
<1> QED
  BY <1>1, <1>2, Invariance, TidyStep, PTL DEF Spec
===============================================================================
