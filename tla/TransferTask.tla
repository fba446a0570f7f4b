------------------------------ MODULE TransferTask ------------------------------
(***************************************************************************)
(* TransferTask.run (transferTask.ts) of the tasks that transfer one file, *)
(* upon the file systems of sftpFileSystem.ts, ftpFileSystem.ts and        *)
(* localFileSystem.ts.  A file's content is the task whose source it is,   *)
(* or something older; a descriptor follows its file through a rename.     *)
(***************************************************************************)
EXTENDS FiniteSets

CONSTANTS Task, None, Old, Damaged

VARIABLES
  way,        \* how the target is replaced, fixed by direction and configuration
  backup,     \* whether uploads back the target up
  target,     \* what the target holds
  staging,    \* what the temporary file of a task holds; uploads share one name
  open,       \* where the file a task has opened for writing is
  stream,     \* the tasks whose source stream exists
  step,       \* what a task does next
  cancelled,  \* the tasks told to cancel
  backups,    \* the contents that were backed up
  warned,     \* whether a backup failed
  replaced,   \* the tasks that put their content in place
  stopped,    \* the downloads cancelled before they renamed
  loose,      \* when the target may be missing or damaged
  crashed     \* whether the process has ended

vars == <<way, backup, target, staging, open, stream, step, cancelled, backups, warned,
          replaced, stopped, loose, crashed>>

Download == way = "download"
Staged == way # "direct"
Contents == Task \union {None, Old, Damaged}
Ended == {"ok", "failed", "skipped"}

TypeOK ==
  /\ way \in {"download", "direct", "unlink", "atomic"} /\ backup \in BOOLEAN
  /\ target \in Contents /\ staging \in [Task -> Contents]
  /\ open \in [Task -> {"none", "staging", "target", "gone"}]
  /\ stream \subseteq Task /\ cancelled \subseteq Task /\ replaced \subseteq Task
  /\ step \in [Task -> {"ready", "backup", "open", "opened", "copy", "stuck", "close",
                        "check", "unlink", "rename", "report", "clean"} \union Ended]
  /\ backups \subseteq Contents /\ {warned, crashed} \subseteq BOOLEAN
  /\ stopped \subseteq Task /\ loose \in {"never", "missing", "damaged"}

Init ==
  /\ way \in {"download", "direct", "unlink", "atomic"}
  /\ backup \in BOOLEAN /\ (way = "download" => ~backup)
  /\ target = Old /\ staging = [t \in Task |-> None]
  /\ open = [t \in Task |-> "none"] /\ step = [t \in Task |-> "ready"]
  /\ stream = {} /\ cancelled = {} /\ backups = {} /\ warned = FALSE
  /\ replaced = {} /\ stopped = {} /\ crashed = FALSE
  /\ loose = CASE way = "direct" -> "damaged" [] way = "unlink" -> "missing"
               [] OTHER -> "never"

At(t, s) == ~crashed /\ step[t] = s
Go(t, s) == step' = [step EXCEPT ![t] = s]
\* The temporary name of a download is its own.
Mates(t) == IF Download THEN {t} ELSE Task
Stage(t, c) == staging' = [u \in Task |-> IF u \in Mates(t) THEN c ELSE staging[u]]

-------------------------------------------------------------------------------
Run(t) ==
  /\ At(t, "ready")
  /\ Go(t, CASE t \in cancelled -> "skipped" [] backup -> "backup" [] OTHER -> "open")
  /\ UNCHANGED <<way, backup, target, staging, open, stream, cancelled, backups, warned,
                 replaced, stopped, loose, crashed>>

\* createBackup: a failure is only a warning.
Backup(t) ==
  /\ At(t, "backup") /\ Go(t, "open")
  /\ \/ backups' = backups \union {target} /\ UNCHANGED warned
     \/ warned' = TRUE /\ UNCHANGED backups
  /\ UNCHANGED <<way, backup, target, staging, open, stream, cancelled,
                 replaced, stopped, loose, crashed>>

\* The file is opened for writing and thereby emptied, and the source stream created,
\* in either order.
Uses(t) == open[t] # "none" \/ step[t] \in {"unlink", "rename"}
OpenFile(t) ==
  /\ At(t, "open") /\ open[t] = "none"
  /\ open' = [open EXCEPT ![t] = IF Staged THEN "staging" ELSE "target"]
  /\ IF Staged THEN Stage(t, Damaged) /\ UNCHANGED target
               ELSE target' = Damaged /\ UNCHANGED staging
  /\ loose' = IF Staged /\ \E u \in Mates(t) \ {t} : Uses(u) THEN "damaged" ELSE loose
  /\ UNCHANGED <<way, backup, stream, step, cancelled, backups, warned,
                 replaced, stopped, crashed>>

OpenStream(t) ==
  /\ At(t, "open") /\ t \notin stream /\ stream' = stream \union {t}
  /\ UNCHANGED <<way, backup, target, staging, open, step, cancelled, backups, warned,
                 replaced, stopped, loose, crashed>>

\* Both are there, and cancel can reach the stream; put listens to its errors only
\* after the old file was closed and the mode set.
Opened(t) ==
  /\ At(t, "open") /\ t \in stream /\ open[t] # "none" /\ Go(t, "opened")
  /\ UNCHANGED <<way, backup, target, staging, open, stream, cancelled, backups, warned,
                 replaced, stopped, loose, crashed>>

Listen(t) ==
  /\ At(t, "opened") /\ Go(t, "copy")
  /\ UNCHANGED <<way, backup, target, staging, open, stream, cancelled, backups, warned,
                 replaced, stopped, loose, crashed>>

\* put. Two tasks that fill one file damage it for good.
Alone(t) == \A u \in Task \ {t} : open[u] # open[t] \/ open[u] = "none"
                                     \/ (Download /\ open[t] = "staging")
Copy(t) ==
  LET c == IF Alone(t) THEN t ELSE Damaged IN
  /\ At(t, "copy")
  /\ CASE open[t] = "staging" -> Stage(t, c) /\ UNCHANGED target
       [] open[t] = "target"  -> target' = c /\ UNCHANGED staging
       [] OTHER               -> UNCHANGED <<target, staging>>
  /\ replaced' = IF open[t] = "target" /\ ~Staged THEN replaced \union {t} ELSE replaced
  /\ Go(t, IF Staged THEN "close" ELSE "report")
  /\ UNCHANGED <<way, backup, open, stream, cancelled, backups, warned, stopped, loose,
                 crashed>>

Close(t) ==
  /\ At(t, "close")
  /\ open' = [open EXCEPT ![t] = "none"]
  /\ Go(t, CASE Download -> "check" [] way = "unlink" -> "unlink" [] OTHER -> "rename")
  /\ UNCHANGED <<way, backup, target, staging, stream, cancelled, backups, warned,
                 replaced, stopped, loose, crashed>>

\* Mutant: the commit goes on whatever was cancelled.
CheckNothing(t) ==
  /\ At(t, "check") /\ Go(t, "rename")
  /\ UNCHANGED <<way, backup, target, staging, open, stream, cancelled, backups, warned,
                 replaced, stopped, loose, crashed>>
\* commitDownload: the last look at a cancellation.
Check(t) ==
  /\ At(t, "check") /\ Go(t, IF t \in cancelled THEN "clean" ELSE "rename")
  /\ UNCHANGED <<way, backup, target, staging, open, stream, cancelled, backups, warned,
                 replaced, stopped, loose, crashed>>

\* A failed unlink is ignored.
Unlink(t) ==
  /\ At(t, "unlink") /\ Go(t, "rename")
  /\ \/ target' = None /\ open' = [u \in Task |-> IF open[u] = "target" THEN "gone"
                                                                       ELSE open[u]]
     \/ UNCHANGED <<target, open>>
  /\ UNCHANGED <<way, backup, staging, stream, cancelled, backups, warned,
                 replaced, stopped, loose, crashed>>

\* A rename needs its source and, unless it replaces, a free name.
Rename(t) ==
  /\ At(t, "rename") /\ staging[t] # None
  /\ way = "unlink" => target = None
  /\ target' = staging[t] /\ Stage(t, None)
  /\ open' = [u \in Task |-> CASE open[u] = "target" -> "gone"
                               [] open[u] = "staging" /\ u \in Mates(t) -> "target"
                               [] OTHER -> open[u]]
  /\ replaced' = replaced \union {t} /\ Go(t, "report")
  /\ UNCHANGED <<way, backup, stream, cancelled, backups, warned, stopped, loose, crashed>>

\* onTransferSuccess, inside the try of run.
Report(t) ==
  /\ At(t, "report")
  /\ \E result \in {"ok", "failed"} : Go(t, result)
  /\ open' = [open EXCEPT ![t] = "none"]
  /\ UNCHANGED <<way, backup, target, staging, stream, cancelled, backups, warned,
                 replaced, stopped, loose, crashed>>

\* An operation fails: the connection is lost, permission is denied, a cancelled stream
\* is destroyed.
Fail(t) ==
  /\ \E s \in {"open", "opened", "copy", "close", "check", "rename"} : At(t, s)
  /\ Go(t, "clean")
  /\ UNCHANGED <<way, backup, target, staging, open, stream, cancelled, backups, warned,
                 replaced, stopped, loose, crashed>>

\* The finally block: the temporary file of a failed download is removed, that of an
\* upload stays.
Clean(t) ==
  /\ At(t, "clean") /\ Go(t, "failed")
  /\ open' = [open EXCEPT ![t] = "none"]
  /\ IF Download THEN Stage(t, None) ELSE UNCHANGED staging
  /\ UNCHANGED <<way, backup, target, stream, cancelled, backups, warned,
                 replaced, stopped, loose, crashed>>

\* cancel aborts the stream, if there is one already. Before put listens, the error is
\* lost: that of a download's stream leaves put waiting for ever, that of a local file
\* is thrown to the caller and the upload goes on.
Cancel(t) ==
  /\ ~crashed /\ t \notin cancelled /\ step[t] \notin Ended
  /\ cancelled' = cancelled \union {t}
  /\ Go(t, CASE step[t] = "copy" -> "clean"
             [] step[t] = "opened" /\ Download -> "stuck"
             [] OTHER -> step[t])
  /\ stopped' = IF Download /\ step[t] \notin {"rename", "report"}
                  THEN stopped \union {t} ELSE stopped
  /\ UNCHANGED <<way, backup, target, staging, open, stream, backups, warned,
                 replaced, loose, crashed>>

Crash == /\ ~crashed /\ crashed' = TRUE
         /\ UNCHANGED <<way, backup, target, staging, open, stream, step, cancelled,
                        backups, warned, replaced, stopped, loose>>

Advance(t) == \/ Run(t) \/ Backup(t) \/ OpenFile(t) \/ OpenStream(t) \/ Opened(t)
              \/ Listen(t) \/ Copy(t) \/ Close(t) \/ Check(t) \/ Unlink(t) \/ Rename(t) \/ Report(t)
              \/ Fail(t) \/ Clean(t)
Next == Crash \/ \E t \in Task : Advance(t) \/ Cancel(t)
Spec == Init /\ [][Next]_vars

-------------------------------------------------------------------------------
\* Every step keeps what a transfer promises about its target: downloads, cancelled,
\* failing or crashing at any point, and uploads by an atomic rename never show a partial
\* or missing file, and success is never reported without the content in place.
promise == INSTANCE FileReplacement WITH
             content <- target, ended <- {t \in Task : step[t] = "ok"}
KeepsPromise == promise!Spec

\* While the process lives, a download that ended leaves no temporary file beside its
\* target (the finally block of _transferFile).
NoStagingLeft ==
  Download /\ ~crashed => \A t \in Task : step[t] \in Ended => staging[t] = None

\* With backups on, the content found first is gone only after it was backed up or the
\* user was warned that it was not, whichever of two uploads comes first.
OldIsBackedUp == backup /\ target # Old => Old \in backups \/ warned
===============================================================================
