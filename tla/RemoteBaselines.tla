---------------------------- MODULE RemoteBaselines ----------------------------
(***************************************************************************)
(* How an upload notices that others changed the remote file               *)
(* (conflictCheck.ts): it compares the file with the version this window   *)
(* recorded last (remoteBaseline.ts), in a store of bounded size that is   *)
(* written one record after the other.  A version stands for its time and  *)
(* size; no two versions have both in common.                              *)
(***************************************************************************)
EXTENDS Naturals, Sequences, FiniteSets

CONSTANTS Name, NoName, Transfer, MaxVersion, MaxEntries, MaxWrites, Dated

VARIABLES
  remote,    \* the version of every remote file, 0 if there is none
  local,     \* the version whose time and size the local file has, 0 for its own
  last,      \* the number of versions so far
  store,     \* the baselines: the version recorded of a file, 0 if there is none
  writes,    \* records still to be written to it
  job,       \* the transfers under way
  unseen     \* the files whose remote version others made while the file was not being
             \* transferred, and that neither was downloaded nor decided about

vars == <<remote, local, last, store, writes, job, unseen>>

Version == 0..MaxVersion
Record == [name : Name, version : Version]
Stage == {"rest", "baseline", "ask", "put", "after", "get", "record"}
Recorded(s) == {n \in Name : s[n] # 0}
Idle == [stage |-> "rest", name |-> NoName, seen |-> 0, waits |-> 0]

TypeOK ==
  /\ remote \in [Name -> Version] /\ local \in [Name -> Version] /\ last \in Version
  /\ store \in [Name -> Version] /\ Cardinality(Recorded(store)) <= MaxEntries
  /\ writes \in Seq(Record) /\ unseen \subseteq Name
  /\ job \in [Transfer -> [stage : Stage, name : Name \union {NoName}, seen : Version, waits : Nat]]

Init ==
  /\ remote = [n \in Name |-> 0] /\ local = remote /\ last = 0
  /\ store = remote /\ writes = <<>> /\ job = [t \in Transfer |-> Idle]
  /\ unseen = {}

At(t, stage) == job[t].stage = stage
Go(t, stage) == job' = [job EXCEPT ![t].stage = stage]
End(t) == job' = [job EXCEPT ![t] = Idle]
See(n) == unseen' = unseen \ {n}
files == <<remote, local, last>>
kept == <<store, writes>>

-------------------------------------------------------------------------------
\* beforeFileTransfer: the remote file is looked at first, then the baseline is read,
\* after the records that are being written.
Upload(t, n) ==
  /\ At(t, "rest")
  /\ job' = [job EXCEPT ![t] = [stage |-> IF remote[n] = 0 THEN "put" ELSE "baseline",
                                name |-> n, seen |-> remote[n], waits |-> Len(writes)]]
  /\ UNCHANGED <<files, kept, unseen>>

\* Mutant: without a baseline there is nothing to compare.
ConflictsIfRecorded(n, seen) == local[n] # seen /\ store[n] \notin {0, seen}
\* detectUploadConflict.
Conflicts(n, seen) == ~Dated \/ (local[n] # seen /\ store[n] # seen)
Detect(t) ==
  LET n == job[t].name IN
  /\ At(t, "baseline") /\ job[t].waits = 0
  /\ Go(t, IF Conflicts(n, job[t].seen) THEN "ask" ELSE "put")
  /\ UNCHANGED <<files, kept, unseen>>

\* The decision about a conflict holds for the version that was shown: another one is
\* shown before the upload may go on.
Overwrite(t) ==
  LET n == job[t].name IN
  /\ At(t, "ask") /\ remote[n] = job[t].seen
  /\ Go(t, "put") /\ See(n)
  /\ UNCHANGED <<files, kept>>
ShowAgain(t) ==
  LET n == job[t].name IN
  /\ At(t, "ask") /\ remote[n] # job[t].seen
  /\ job' = [job EXCEPT ![t].seen = remote[n]]
  /\ UNCHANGED <<files, kept, unseen>>
Cancel(t) == /\ At(t, "ask") /\ End(t)
             /\ UNCHANGED <<files, kept, unseen>>

\* The transfer gives the remote file the time of the local one, if it can; a transfer
\* that fails leaves a version that nothing records.
Put(t) ==
  LET n == job[t].name IN
  /\ At(t, "put") /\ last < MaxVersion
  /\ last' = last + 1 /\ remote' = [remote EXCEPT ![n] = last + 1]
  /\ local' \in {local, [local EXCEPT ![n] = last + 1]}
  /\ (Go(t, "after") \/ End(t))
  /\ See(n) /\ UNCHANGED kept

\* afterFileTransfer looks at the remote file once more and records what is there then.
\* Bound: at most MaxWrites records wait.
Enqueue(n, version) == Len(writes) < MaxWrites /\ writes' = Append(writes, [name |-> n, version |-> version])
After(t) ==
  LET n == job[t].name IN
  /\ At(t, "after") /\ End(t)
  /\ Enqueue(n, remote[n]) \/ UNCHANGED writes
  /\ UNCHANGED <<files, store, unseen>>

\* A download records the version its listing showed.
Download(t, n) ==
  /\ At(t, "rest") /\ remote[n] # 0
  /\ job' = [job EXCEPT ![t] = [stage |-> "get", name |-> n, seen |-> remote[n],
                                waits |-> 0]]
  /\ UNCHANGED <<files, kept, unseen>>
Get(t) ==
  LET n == job[t].name IN
  /\ At(t, "get") /\ Go(t, "record") /\ See(n)
  /\ local' = [local EXCEPT ![n] = IF remote[n] = job[t].seen THEN job[t].seen ELSE 0]
  /\ UNCHANGED <<remote, last, kept>>
RecordDownload(t) ==
  /\ At(t, "record") /\ End(t)
  /\ Enqueue(job[t].name, job[t].seen)
  /\ UNCHANGED <<files, store, unseen>>

Fail(t) == /\ ~At(t, "rest") /\ End(t)
           /\ UNCHANGED <<files, kept, unseen>>

\* recordRemoteBaseline: one write after the other. Beyond the limit the records saved
\* longest ago go, by a clock that the user may set: it may be any. A write that fails is
\* followed by the next all the same.
Newest(s) ==
  LET over == Cardinality(Recorded(s)) - MaxEntries IN
  {[n \in Name |-> IF n \in gone THEN 0 ELSE s[n]] :
     gone \in {g \in SUBSET Recorded(s) : Cardinality(g) = IF over > 0 THEN over ELSE 0}}
Write ==
  /\ writes # <<>> /\ writes' = Tail(writes)
  /\ job' = [t \in Transfer |-> [job[t] EXCEPT !.waits = IF @ > 0 THEN @ - 1 ELSE 0]]
  /\ \/ store' \in Newest([store EXCEPT ![Head(writes).name] = Head(writes).version])
     \/ UNCHANGED store
  /\ UNCHANGED <<files, unseen>>

\* Others change the remote file; the user edits the local one.
Busy(n) == \E t \in Transfer : ~At(t, "rest") /\ job[t].name = n
Foreign(n) ==
  /\ last < MaxVersion /\ last' = last + 1
  /\ remote' = [remote EXCEPT ![n] = last + 1]
  /\ unseen' = IF Busy(n) THEN unseen \ {n} ELSE unseen \union {n}
  /\ UNCHANGED <<local, kept, job>>
Edit(n) == /\ local[n] # 0 /\ local' = [local EXCEPT ![n] = 0]
           /\ UNCHANGED <<remote, last, kept, job, unseen>>

Next == \/ Write
        \/ \E n \in Name : Foreign(n) \/ Edit(n)
        \/ \E t \in Transfer :
             \/ \E n \in Name : Upload(t, n) \/ Download(t, n)
             \/ Detect(t) \/ Overwrite(t) \/ ShowAgain(t) \/ Cancel(t) \/ Put(t)
             \/ After(t) \/ Get(t) \/ RecordDownload(t) \/ Fail(t)
Spec == Init /\ [][Next]_vars

-------------------------------------------------------------------------------
\* A change that others make while the file is not being transferred is never overwritten
\* unseen: whatever was recorded, failed to be recorded or was evicted, the upload that
\* replaces it contains it or was decided with it in sight.
RemoteEditSeen ==
  [][\A t \in Transfer : At(t, "put") /\ last' # last /\ job'[t] # job[t] =>
                            job[t].name \notin unseen]_vars
===============================================================================
