---------------------------- MODULE JsonReplacement ----------------------------
(***************************************************************************)
(* How one conflict.json is replaced and, after a crash, found again:      *)
(* atomicWriteJson and reconcileReportTemporaries of conflictStateStore.ts.*)
(* The owning window writes the versions 1, 2, ... `Last' one after the    *)
(* other; the last one is an ended record, the others are active.  Other   *)
(* windows reconcile the directory and orphan the record of a dead owner.  *)
(* A rename may fail where a file that is open elsewhere cannot be         *)
(* replaced, and does when its source is gone.  0 stands for a missing     *)
(* file.  The owner has the lease of an earlier record.                    *)
(***************************************************************************)
EXTENDS Integers, FiniteSets

CONSTANTS Window, Writer, Last

VARIABLES
  file, prev, tmp,  \* conflict.json, .previous, and the temporary files of the windows
  running,          \* the windows that run
  lapsed,           \* whether the lease of the writer, once dead, is stale
  atomic,           \* whether a rename replaces a file that is open elsewhere
  step,             \* what a window is about to do
  seen, missing,    \* what a window that reconciles has found
  acked,            \* the newest version whose write succeeded
  crossed           \* whether a window handled files that another was replacing

vars == <<file, prev, tmp, running, lapsed, atomic, step, seen, missing, acked, crossed>>

Orphaned == Last + 1
Version == 0..Orphaned
Partial == Orphaned + 1
\* A window's latest temporary file, and the latest that an earlier write of it left.
New(w) == <<w, "new">>
Left(w) == <<w, "left">>
Temporary == Window \X {"new", "left"}
Readable(t) == tmp[t] \in 1..Orphaned
IsActive(v) == v \in 1..(Last - 1)
Live(v) == IsActive(v) /\ (Writer \in running \/ ~lapsed)
Others == Window \ {Writer}

TypeOK ==
  /\ file \in Version /\ prev \in Version /\ tmp \in [Temporary -> Version \union {Partial}]
  /\ running \subseteq Window /\ {lapsed, atomic, crossed} \subseteq BOOLEAN /\ acked \in 0..Last
  /\ step \in [Window -> {"idle", "temps", "recover", "promote", "remove", "reread", "decide",
                          "write", "rename", "aside", "again", "tidy"}]
  /\ seen \in [Window -> SUBSET Temporary] /\ missing \in [Window -> BOOLEAN]

Init ==
  /\ file = 0 /\ prev = 0 /\ tmp = [t \in Temporary |-> 0]
  /\ running = Window /\ lapsed = FALSE /\ atomic \in BOOLEAN /\ acked = 0 /\ crossed = FALSE
  /\ step = [w \in Window |-> "idle"]
  /\ seen = [w \in Window |-> {}] /\ missing = [w \in Window |-> FALSE]

At(w, s) == w \in running /\ step[w] = s
Go(w, s) == step' = [step EXCEPT ![w] = s]

-------------------------------------------------------------------------------
\* atomicWriteJson.

\* A temporary file has a name of its own: nobody has seen it yet.  Until it is complete
\* nobody can read it; when somebody removes it, what is written goes nowhere.  Of what
\* earlier writes left the model keeps the latest that can be read.
Create(w) ==
  LET kept == Readable(New(w)) IN
  /\ tmp' = [tmp EXCEPT ![New(w)] = Partial, ![Left(w)] = IF kept THEN tmp[New(w)] ELSE @]
  /\ seen' = [o \in Window |->
               (seen[o] \ ({New(w)} \union IF kept THEN {Left(w)} ELSE {}))
               \union IF kept /\ New(w) \in seen[o] THEN {Left(w)} ELSE {}]
  /\ Go(w, "write")
  /\ UNCHANGED <<file, prev, running, lapsed, atomic, missing, acked>>

WriteNext == At(Writer, "idle") /\ acked < Last /\ Create(Writer)

Content(w) == IF w = Writer THEN acked + 1 ELSE Orphaned
Complete(w) ==
  /\ At(w, "write") /\ Go(w, "rename")
  /\ tmp' = [tmp EXCEPT ![New(w)] = IF @ = 0 THEN 0 ELSE Content(w)]
  /\ UNCHANGED <<file, prev, running, lapsed, atomic, seen, missing, acked>>

Acknowledge(w, v) == acked' = IF w = Writer THEN v ELSE acked

Rename(w) ==
  /\ At(w, "rename") /\ tmp[New(w)] # 0
  /\ file' = tmp[New(w)] /\ tmp' = [tmp EXCEPT ![New(w)] = 0]
  /\ Acknowledge(w, tmp[New(w)]) /\ Go(w, "idle")
  /\ UNCHANGED <<prev, running, lapsed, atomic, seen, missing>>

\* Mutant: the report is always put aside first.
PutAsideFirst(w) ==
  /\ At(w, "rename") /\ prev' = 0 /\ Go(w, "aside")
  /\ UNCHANGED <<file, tmp, running, lapsed, atomic, seen, missing, acked>>

\* After a failed rename: an old .previous goes, the file becomes .previous, the
\* temporary file is renamed, .previous goes.
RenameFails(w) ==
  /\ At(w, "rename") /\ (atomic => tmp[New(w)] = 0) /\ prev' = 0 /\ Go(w, "aside")
  /\ UNCHANGED <<file, tmp, running, lapsed, atomic, seen, missing, acked>>

Aside(w) ==
  /\ At(w, "aside") /\ file # 0
  /\ prev' = file /\ file' = 0 /\ Go(w, "again")
  /\ UNCHANGED <<tmp, running, lapsed, atomic, seen, missing, acked>>

RenameAgain(w) ==
  /\ At(w, "again") /\ tmp[New(w)] # 0
  /\ file' = tmp[New(w)] /\ tmp' = [tmp EXCEPT ![New(w)] = 0]
  /\ Acknowledge(w, tmp[New(w)]) /\ Go(w, "tidy")
  /\ UNCHANGED <<prev, running, lapsed, atomic, seen, missing>>

Tidy(w) == /\ At(w, "tidy") /\ prev' = 0 /\ Go(w, "idle")
           /\ UNCHANGED <<file, tmp, running, lapsed, atomic, seen, missing, acked>>

\* Whatever failed in that sequence, the previous file comes back when there is no
\* other; the temporary file stays.
WriteFails(w) ==
  /\ At(w, "aside") \/ At(w, "again")
  /\ IF file = 0 /\ prev # 0 THEN file' = prev /\ prev' = 0 ELSE UNCHANGED <<file, prev>>
  /\ Go(w, "idle")
  /\ UNCHANGED <<tmp, running, lapsed, atomic, seen, missing, acked>>

-------------------------------------------------------------------------------
\* Another window reconciles, unless the record is active under a live lease.

Look(w) ==
  /\ At(w, "idle") /\ w # Writer /\ ~Live(file) /\ Go(w, "temps")
  /\ UNCHANGED <<file, prev, tmp, running, lapsed, atomic, seen, missing, acked>>

\* The temporary files are listed and read, and none is a live window's.
Written == {t \in Temporary : Readable(t)}
Temps(w) ==
  /\ At(w, "temps")
  /\ IF \E t \in Written : Live(tmp[t])
       THEN Go(w, "reread") /\ UNCHANGED <<seen, missing>>
       ELSE /\ seen' = [seen EXCEPT ![w] = {t \in Temporary : tmp[t] # 0}]
            /\ missing' = [missing EXCEPT ![w] = file = 0]
            /\ Go(w, "recover")
  /\ UNCHANGED <<file, prev, tmp, running, lapsed, atomic, acked>>

\* .previous becomes the report when that was missing, and goes otherwise.
Recover(w) ==
  /\ At(w, "recover")
  /\ file' = IF missing[w] /\ prev # 0 THEN prev ELSE file
  /\ prev' = 0
  /\ missing' = [missing EXCEPT ![w] = file' = 0]
  /\ Go(w, IF seen[w] = {} THEN "reread" ELSE "promote")
  /\ UNCHANGED <<tmp, running, lapsed, atomic, seen, acked>>

\* Mutant: temporary files are only ever removed.
PromoteNothing(w) ==
  /\ At(w, "promote") /\ Go(w, "remove")
  /\ UNCHANGED <<file, prev, tmp, running, lapsed, atomic, seen, missing, acked>>

\* Without a report the newest temporary file that can be read becomes it; the others are
\* removed.
Promote(w) ==
  LET left == seen[w] \intersect Written
      newest == CHOOSE t \in left : \A u \in left : tmp[t] >= tmp[u] IN
  /\ At(w, "promote") /\ Go(w, "remove")
  /\ IF missing[w] /\ left # {}
       THEN file' = tmp[newest] /\ tmp' = [tmp EXCEPT ![newest] = 0]
       ELSE UNCHANGED <<file, tmp>>
  /\ UNCHANGED <<prev, running, lapsed, atomic, seen, missing, acked>>

RemoveTemps(w) ==
  /\ At(w, "remove") /\ Go(w, "reread")
  /\ tmp' = [t \in Temporary |-> IF t \in seen[w] THEN 0 ELSE tmp[t]]
  /\ seen' = [seen EXCEPT ![w] = {}]
  /\ UNCHANGED <<file, prev, running, lapsed, atomic, missing, acked>>

\* What is active now and has no live lease is orphaned; the lease is looked up after
\* the record was read.
Reread(w) ==
  /\ At(w, "reread") /\ Go(w, IF IsActive(file) THEN "decide" ELSE "idle")
  /\ UNCHANGED <<file, prev, tmp, running, lapsed, atomic, seen, missing, acked>>

Orphan(w) == /\ At(w, "decide") /\ Writer \notin running /\ lapsed
             /\ Create(w)
LeaveAlone(w) == /\ At(w, "decide") /\ (Writer \in running \/ ~lapsed) /\ Go(w, "idle")
                 /\ UNCHANGED <<file, prev, tmp, running, lapsed, atomic, seen, missing, acked>>

Crash(w) == /\ w \in running /\ running' = running \ {w} /\ Go(w, "idle")
            /\ seen' = [seen EXCEPT ![w] = {}]
            /\ UNCHANGED <<file, prev, tmp, lapsed, atomic, missing, acked>>
Restart(w) == /\ w \notin running /\ running' = running \union {w}
              /\ UNCHANGED <<file, prev, tmp, lapsed, atomic, step, seen, missing, acked>>
Lapse == /\ Writer \notin running /\ ~lapsed /\ lapsed' = TRUE
         /\ UNCHANGED <<file, prev, tmp, running, atomic, step, seen, missing, acked>>

Replace(w) == \/ Complete(w) \/ Rename(w) \/ RenameFails(w) \/ Aside(w) \/ RenameAgain(w)
              \/ Tidy(w) \/ WriteFails(w)
Reconcile(w) == \/ Look(w) \/ Temps(w) \/ Recover(w) \/ Promote(w)
                \/ RemoveTemps(w) \/ Reread(w) \/ Orphan(w) \/ LeaveAlone(w)

\* Two windows move files around each other, or one is about to remove the temporary
\* file that another writes or is about to rename.
Crossing ==
  \E w, o \in running :
    /\ w # o
    /\ \/ /\ step[w] \in {"aside", "again"}
          /\ step[o] \in {"recover", "promote", "remove", "aside", "again", "tidy"}
       \/ step[w] \in {"write", "rename"} /\ New(w) \in seen[o]
Next == /\ \/ WriteNext \/ Lapse
           \/ \E w \in Window : Replace(w) \/ Crash(w)
           \/ \E w \in Others : Reconcile(w) \/ Restart(w)
        /\ crossed' = (crossed \/ Crossing')
Spec == Init /\ [][Next]_vars

-------------------------------------------------------------------------------
\* A record that some file holds in a readable form is never lost, not even before its
\* first write ended: in whatever order replacing, failing, crashing and reconciling come,
\* as long as no two windows move, list for removal or replace the files of one another.
Held == file # 0 \/ prev # 0 \/ Written # {}
NeverLost == [][~crossed' /\ Held => Held']_vars

\* Where a rename replaces, no window takes an acknowledged version back: neither an
\* older one nor none at all is ever the report after it, unless a window had listed
\* for removal the temporary file that another was writing or about to rename.
AcknowledgedStays == atomic /\ ~crossed => file >= acked
===============================================================================
