------------------------------ MODULE LegacyImport ------------------------------
(***************************************************************************)
(* How conflict records kept inside a project by earlier releases move to  *)
(* the shared state: reconcileLegacyIfPresent, importLegacyRoot and        *)
(* readRecoverableLegacyRecord of conflictStateStore.ts.  A record's       *)
(* directory is copied, its report rewritten and read back; when all are   *)
(* imported the old root is removed, file by file.                         *)
(***************************************************************************)
EXTENDS FiniteSets

CONSTANTS Importer, Record, NoRecord

VARIABLES
  legacy,    \* what is left of a record's old directory
  imported,  \* what its directory in the shared state holds
  importing, \* the windows that import, with the records still to come and the one at hand
  overlapped \* whether two windows imported at once

vars == <<legacy, imported, importing, overlapped>>

Idle == [at |-> "idle", left |-> {}, record |-> NoRecord]

TypeOK ==
  /\ legacy \in [Record -> {"none", "unreadable", "bare", "full"}]
  /\ imported \in [Record -> {"none", "partial", "copied", "bare", "full"}]
  /\ importing \in [Importer -> [at : {"idle", "next", "copy", "fill", "write", "remove"},
                                 left : SUBSET Record, record : Record \union {NoRecord}]]
  /\ overlapped \in BOOLEAN

\* A record may be damaged, or be without its remote snapshot, from the start.
Init ==
  /\ legacy \in [Record -> {"unreadable", "bare", "full"}]
  /\ imported = [r \in Record |-> "none"]
  /\ importing = [w \in Importer |-> Idle]
  /\ overlapped = FALSE

RootExists == \E r \in Record : legacy[r] # "none"
Busy(w) == importing[w].at # "idle"
Become(w, state) == importing' = [importing EXCEPT ![w] = state]
Step(w, at) == Become(w, [importing[w] EXCEPT !.at = at])
Store(r, what) == imported' = [imported EXCEPT ![r] = what]

-------------------------------------------------------------------------------
\* The process of the older release has ended, and the directory is listed.
Begin(w) ==
  /\ ~Busy(w) /\ RootExists
  /\ Become(w, [at |-> "next", left |-> {r \in Record : legacy[r] # "none"},
                record |-> NoRecord])
  /\ overlapped' = (overlapped \/ \E o \in Importer \ {w} : Busy(o))
  /\ UNCHANGED <<legacy, imported>>

\* A readable record is read and what an earlier attempt imported is removed.
Take(w, r) ==
  /\ importing[w].at = "next" /\ r \in importing[w].left
  /\ legacy[r] \in {"bare", "full"}
  /\ Store(r, "none")
  /\ Become(w, [at |-> "copy", left |-> importing[w].left \ {r}, record |-> r])
  /\ UNCHANGED <<legacy, overlapped>>

\* Mutant: a record that cannot be read is passed over.
PassOver(w, r) ==
  /\ importing[w].at = "next" /\ r \in importing[w].left
  /\ legacy[r] \in {"none", "unreadable"}
  /\ Become(w, [importing[w] EXCEPT !.left = @ \ {r}])
  /\ UNCHANGED <<legacy, imported, overlapped>>

\* One that cannot be read ends the import; the old root stays.
Refuse(w, r) ==
  /\ importing[w].at = "next" /\ r \in importing[w].left
  /\ legacy[r] \in {"none", "unreadable"}
  /\ Become(w, Idle)
  /\ UNCHANGED <<legacy, imported, overlapped>>

\* The directory is copied file by file; it may be gone by now.
CopyDirectory(w) ==
  LET r == importing[w].record IN
  /\ \/ importing[w].at = "copy" /\ Store(r, "partial")
     \/ importing[w].at = "fill" /\ Store(r, "copied")
  /\ IF legacy[r] = "none"
       THEN Become(w, Idle)
       ELSE Step(w, IF importing[w].at = "copy" THEN "fill" ELSE "write")
  /\ UNCHANGED <<legacy, overlapped>>

\* The report is rewritten for its new place, without a snapshot when that is missing,
\* and read back; if it is not there the import fails.
WriteReport(w) ==
  LET r == importing[w].record IN
  /\ importing[w].at = "write"
  /\ IF imported[r] = "none"
       THEN Become(w, Idle) /\ UNCHANGED imported
       ELSE Step(w, "next") /\ Store(r, IF legacy[r] = "full" THEN "full" ELSE "bare")
  /\ UNCHANGED <<legacy, overlapped>>

StartRemoval(w) ==
  /\ importing[w].at = "next" /\ importing[w].left = {}
  /\ Step(w, "remove")
  /\ UNCHANGED <<legacy, imported, overlapped>>

\* The files of the old root go one after the other, in any order.
RemoveFile(w) ==
  /\ importing[w].at = "remove"
  /\ \E r \in Record :
       /\ legacy[r] # "none"
       /\ \E rest \in {"bare", "unreadable", "none"} :
            /\ rest = "bare" => legacy[r] = "full"
            /\ rest = "none" => legacy[r] = "unreadable"
            /\ legacy' = [legacy EXCEPT ![r] = rest]
  /\ UNCHANGED <<imported, importing, overlapped>>

End(w) ==
  /\ importing[w].at = "remove" /\ ~RootExists
  /\ Become(w, Idle)
  /\ UNCHANGED <<legacy, imported, overlapped>>

\* The window is closed, or an operation on a file fails.
Stop(w) ==
  /\ Busy(w) /\ Become(w, Idle)
  /\ UNCHANGED <<legacy, imported, overlapped>>

Import(w) ==
  \/ Begin(w) \/ CopyDirectory(w) \/ WriteReport(w)
  \/ StartRemoval(w) \/ RemoveFile(w) \/ End(w) \/ Stop(w)
  \/ \E r \in Record : Take(w, r) \/ Refuse(w, r)
Next == \E w \in Importer : Import(w)
Spec == Init /\ [][Next]_vars

-------------------------------------------------------------------------------
\* No record of an earlier release is lost by importing it: until its import is complete
\* its old directory stays, whatever is damaged, fails or is interrupted, also while the
\* old root is being removed; provided two windows do not import one root at once.
LegacyKept ==
  ~overlapped => \A r \in Record : legacy[r] # "none" \/ imported[r] \in {"bare", "full"}
===============================================================================
