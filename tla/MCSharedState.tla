---------------------------- MODULE MCSharedState -----------------------------
(***************************************************************************)
(* What outlives the operations that use it: the conflict state, one       *)
(* report of it on disk, the records of earlier releases and the stored    *)
(* credentials, which windows share, the backups of remote files and the   *)
(* baselines of uploads.  These do not touch one another's files; a        *)
(* behaviour is one of `Part'.                                             *)
(***************************************************************************)
EXTENDS ConflictStateStore, TLC

CONSTANTS
  Part, a, b, i1, i2,
  Writer, Process, Last,                         \* a report, the windows that share it
  OldRecord, Endpoint,                           \* what earlier releases left
  FileName, Text, MaxMade, Limit, Recent, Confirmed,
  Transfer, MaxVersion, MaxEntries, MaxWrites, Dated

ASSUME SharedAssumption ==
  /\ Last \in Nat \ {0} /\ Writer \notin Process
  /\ Recent \in Nat \ {0} /\ MaxMade \in Nat /\ Limit \subseteq Nat /\ NoId \notin Text
  /\ MaxVersion \in Nat /\ MaxEntries \in Nat /\ IsFiniteSet(FileName)

Windows == {a, b}
Conflicts == {i1, i2}
OwnerEach == (i1 :> a) @@ (i2 :> b)
OwnerOne == (i1 :> a) @@ (i2 :> a)
Swap == {p \in Permutations(Windows \union Conflicts \union Process) :
           /\ p[a] \in Windows /\ p[i1] \in Conflicts /\ (p[a] = a <=> p[i1] = i1)
           /\ \A w \in Process : p[w] \in Process}

VARIABLES
  part, file, prev, tmp, running, lapsed, atomic, step, seen, missing, acked, crossed,
  legacy, imported, importing, overlapped,
  old, saved, candidates, waiting, phase, forgotten,
  versions, content, made, copies, doing, foreign,
  remote, local, last, baselines, writes, job, unseen

jsonVars == <<file, prev, tmp, running, lapsed, atomic, step, seen, missing, acked, crossed>>
importVars == <<legacy, imported, importing, overlapped>>
secretVars == <<old, saved, candidates, waiting, phase, forgotten>>
backupVars == <<versions, content, made, copies, doing, foreign>>
baselineVars == <<remote, local, last, baselines, writes, job, unseen>>

json == INSTANCE JsonReplacement WITH Window <- {Writer} \union Process
import == INSTANCE LegacyImport WITH Importer <- Process, Record <- OldRecord, NoRecord <- NoId
secrets == INSTANCE CredentialMigration
backups == INSTANCE BackupVersions WITH Absent <- NoId, store <- copies, op <- doing
baseline == INSTANCE RemoteBaselines WITH
              Name <- FileName, NoName <- NoId, store <- baselines

\* selectEvenly returns as many backups as it is asked for, the oldest and the newest
\* among them, whatever the rounding.
ASSUME EvenSpread ==
  \A k \in 1..9, n \in 2..9 :
    LET chosen == backups!Evenly([i \in 1..k |-> i], n) IN
    /\ Cardinality(chosen) = IF n < k THEN n ELSE k
    /\ {1, k} \subseteq chosen

MCInit ==
  /\ part \in Part /\ Init
  /\ json!Init /\ (part # "json" => atomic)
  /\ import!Init /\ (part # "import" => legacy = [r \in OldRecord |-> "full"])
  /\ secrets!Init /\ (part # "secrets" => candidates = [w \in Process |-> {}])
  /\ backups!Init /\ (part # "backups" => content = [f \in FileName |-> CHOOSE t \in Text : TRUE])
  /\ baseline!Init

MCNext ==
  \/ /\ part = "store" /\ Next
     /\ UNCHANGED <<part, jsonVars, importVars, secretVars, backupVars, baselineVars>>
  \/ /\ part = "json" /\ json!Next
     /\ UNCHANGED <<part, vars, importVars, secretVars, backupVars, baselineVars>>
  \/ /\ part = "import" /\ import!Next
     /\ UNCHANGED <<part, vars, jsonVars, secretVars, backupVars, baselineVars>>
  \/ /\ part = "secrets" /\ secrets!Next
     /\ UNCHANGED <<part, vars, jsonVars, importVars, backupVars, baselineVars>>
  \/ /\ part = "backups" /\ backups!Next
     /\ UNCHANGED <<part, vars, jsonVars, importVars, secretVars, baselineVars>>
  \/ /\ part = "baselines" /\ baseline!Next
     /\ UNCHANGED <<part, vars, jsonVars, importVars, secretVars, backupVars>>

MCSpec ==
  MCInit /\ [][MCNext]_<<part, vars, jsonVars, importVars, secretVars, backupVars, baselineVars>>

\* Of a report that windows crossed over, and of imports that overlapped, nothing more is
\* said.
Undisturbed == ~crossed /\ ~overlapped

\* The part that moves keeps its variables in their types: they stand for files, leases,
\* records and promises of conflictStateStore.ts, secrets.ts, backup.ts and
\* remoteBaseline.ts.
StateTypeOK == CASE part = "store"     -> TypeOK
                 [] part = "json"      -> json!TypeOK
                 [] part = "import"    -> import!TypeOK
                 [] part = "secrets"   -> secrets!TypeOK
                 [] part = "backups"   -> backups!TypeOK
                 [] OTHER              -> baseline!TypeOK

\* A readable report is never lost (atomicWriteJson, reconcileReportTemporaries).
NeverLost == json!NeverLost
\* An acknowledged version stays where renames replace (atomicWriteJson).
AcknowledgedStays == json!AcknowledgedStays
\* Importing loses no record of an earlier release (importLegacyRoot).
LegacyKept == import!LegacyKept
\* Migrating loses no password (migrateLegacyCredentials).
CredentialKept == secrets!CredentialKept
\* What is replaced or deleted was backed up and not thinned out (backup.ts).
BackupKept == backups!BackupKept
\* No upload overwrites others' change unseen (conflictCheck.ts).
RemoteEditSeen == baseline!RemoteEditSeen
===============================================================================
