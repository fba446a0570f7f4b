----------------------------- MODULE BackupVersions -----------------------------
(***************************************************************************)
(* The backups of the files of one remote directory (backup.ts): made      *)
(* before an upload or a restore replaces a file and before a deletion     *)
(* removes it (remove.ts), and thinned out after each one.  A backup is    *)
(* named by its time, here the number of its making.                       *)
(***************************************************************************)
EXTENDS Integers, Sequences, FiniteSets, SequencesExt

CONSTANTS FileName, Text, Absent, MaxMade, Limit, Recent, Confirmed

VARIABLES
  versions,  \* the configured limit
  content,   \* what every remote file holds
  made,      \* the number of backups made
  store,     \* the backups there are: number, file, content, priority
  op,        \* what the extension is doing
  foreign    \* the files whose content has no copy: others changed it, or a warning said so

vars == <<versions, content, made, store, op, foreign>>

Priority == {"normal", "conflict"}
Backup == [number : 1..MaxMade, file : FileName, text : Text, priority : Priority]
Rest == [name |-> "rest", files |-> {}, left |-> {}, write |-> Absent,
         priority |-> "normal"]
Deleting == op.write = Absent

TypeOK ==
  /\ versions \in Limit /\ content \in [FileName -> Text \union {Absent}]
  /\ made \in 0..MaxMade /\ store \subseteq Backup
  /\ op.name \in {"rest", "copy", "finish"} /\ {op.files, op.left} \subseteq SUBSET FileName
  /\ op.write \in Text \union {Absent} /\ op.priority \in Priority
  /\ foreign \subseteq FileName

Init ==
  /\ versions \in Limit /\ content \in [FileName -> Text]
  /\ made = 0 /\ store = {} /\ op = Rest /\ foreign = {}

-------------------------------------------------------------------------------
\* selectBackupsToKeep, of the numbers of a file's backups in their order: the oldest,
\* the newest, the newest that a confirmed overwrite made, and an even choice of others.
Largest(set, n) == {x \in set : Cardinality({y \in set : y > x}) < n}

\* selectEvenly; Math.round rounds a half up.
Round(a, b) == (2 * a + b) \div (2 * b)
Evenly(s, n) ==
  CASE n = 0 \/ s = <<>> -> {}
    [] n >= Len(s)       -> {s[i] : i \in 1..Len(s)}
    [] n = 1             -> {s[1 + (Len(s) - 1) \div 2]}
    [] OTHER             -> {s[1 + Round(i * (Len(s) - 1), n - 1)] : i \in 0..(n - 1)}

Fill(keep, more) == keep \union Largest(more \ keep, versions - Cardinality(keep))
Numbers(b) == {x.number : x \in b}
\* Mutant: overwrites that were confirmed come before the newest.
ChosenConfirmedFirst(b) ==
  Fill(Fill({Min(Numbers(b))}, Numbers({x \in b : x.priority = "conflict"})), Numbers(b))
Chosen(b) ==
  LET all == Numbers(b)
      recent == Fill({Min(all)}, Largest(all, Recent))
      overwritten == Largest(Numbers({x \in b : x.priority = "conflict"}), Confirmed)
      keep == Fill(recent, overwritten)
  IN  keep \union Evenly(SetToSortSeq(all \ keep, <), versions - Cardinality(keep))

\* pruneBackups: a backup that cannot be removed stays; without a listing all do.
Of(f) == {x \in store : x.file = f}
Pruned(f, new) ==
  LET all == Of(f) \union {new}
      spare == {x \in all : x.number \notin Chosen(all)} IN
  {(store \union {new}) \ gone : gone \in SUBSET spare}

\* createBackup. Binary content is skipped; a deletion treats that as a failure.
Copy(f) ==
  /\ made < MaxMade /\ content[f] # Absent
  /\ made' = made + 1 /\ foreign' = foreign \ {f}
  /\ LET new == [number |-> made + 1, file |-> f, text |-> content[f],
                 priority |-> op.priority] IN
     store' \in Pruned(f, new)
Uncopied(f) == /\ UNCHANGED <<made, store>>
               /\ foreign' = IF Deleting THEN foreign ELSE foreign \union {f}

-------------------------------------------------------------------------------
\* An upload (of a confirmed overwrite or not) or the restoring of a backup begins.
BeginReplace(f, text, priority) ==
  /\ op = Rest
  /\ op' = [name |-> IF content[f] = Absent THEN "finish" ELSE "copy", files |-> {f},
            left |-> {f}, write |-> text, priority |-> priority]
  /\ UNCHANGED <<versions, content, made, store, foreign>>
Upload(f) == \E text \in Text, priority \in Priority : BeginReplace(f, text, priority)
Restore(x) == BeginReplace(x.file, x.text, "normal")

\* Delete Remote with onDelete, of a file or the directory: every file found is copied
\* first.
BeginDelete(files) ==
  LET found == {f \in files : content[f] # Absent} IN
  /\ op = Rest /\ found # {}
  /\ op' = [Rest EXCEPT !.name = "copy", !.files = files, !.left = found]
  /\ UNCHANGED <<versions, content, made, store, foreign>>

\* Replacing goes on without a copy; a deletion does not.
CopyNext(f) ==
  LET after == [op EXCEPT !.left = @ \ {f},
                          !.name = IF op.left = {f} THEN "finish" ELSE "copy"] IN
  /\ op.name = "copy" /\ f \in op.left
  /\ \/ Copy(f) /\ op' = after
     \/ Uncopied(f) /\ op' \in (IF Deleting THEN {} ELSE {after}) \union {Rest}
  /\ UNCHANGED <<versions, content>>

FinishOp ==
  /\ op.name = "finish" /\ op' = Rest
  /\ content' = [f \in FileName |-> IF f \in op.files THEN op.write ELSE content[f]]
  /\ UNCHANGED <<versions, made, store, foreign>>

\* Somebody else changes the file, between its copy and its removal, say.
Foreign(f) ==
  /\ \E text \in Text : content[f] # text /\ content' = [content EXCEPT ![f] = text]
  /\ foreign' = foreign \union {f}
  /\ UNCHANGED <<versions, made, store, op>>

\* The user deletes a backup.
Discard(x) == /\ op = Rest /\ store' = store \ {x}
              /\ UNCHANGED <<versions, content, made, op, foreign>>

Next == \/ \E f \in FileName : Upload(f) \/ CopyNext(f) \/ Foreign(f)
        \/ \E x \in store : Restore(x) \/ Discard(x)
        \/ \E files \in {{f} : f \in FileName} \union {FileName} : BeginDelete(files)
        \/ FinishOp
Spec == Init /\ [][Next]_vars

-------------------------------------------------------------------------------
\* What the extension replaces or deletes is among the file's backups at that moment, the
\* thinning out that follows every copy included, unless others changed the file after it
\* was copied or, for an upload, a warning said that it was not. A limit of one version is
\* the exception: it keeps the oldest backup only.
BackupKept ==
  [][\A f \in FileName :
       /\ op.name = "finish" /\ content'[f] # content[f] /\ op' = Rest
       /\ content[f] # Absent /\ versions > 1 /\ f \notin foreign
       => \E x \in store : x.file = f /\ x.text = content[f]]_vars
===============================================================================
