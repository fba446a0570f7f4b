--------------------------- MODULE SharedState_proofs ---------------------------
(***************************************************************************)
(* What windows share is not lost, for any windows: the report of a        *)
(* conflict while it is replaced and repaired, the records of an earlier   *)
(* release while they are imported (conflictStateStore.ts), a password     *)
(* while it is migrated (secrets.ts), the content of a remote file that is *)
(* replaced (backup.ts), and what others made of it (conflictCheck.ts).    *)
(***************************************************************************)
EXTENDS MCSharedState, ConflictStateStore_proofs, Sequences, FiniteSetTheorems, TLAPS

-------------------------------------------------------------------------------
(* The replacement of a report                                               *)

Sharing == {Writer} \union Process
Temps == Sharing \X {"new", "left"}
New(w) == <<w, "new">>
Left(w) == <<w, "left">>

\* A window that does not run is idle; only one that repairs has files on its list; the
\* writer does not repair its own report.
Resting ==
  /\ \A w \in Sharing : w \notin running => step[w] = "idle"
  /\ \A w \in Sharing : step[w] \notin {"recover", "promote", "remove"} => seen[w] = {}
  /\ step[Writer] \in {"idle", "write", "rename", "aside", "again", "tidy"}

\* What the temporary files hold: the writer's the version after the acknowledged one, or
\* an earlier one, the others' the orphaned record.
Contents ==
  /\ \A w \in Process :
       tmp[New(w)] \in {0, json!Partial, json!Orphaned} /\ tmp[Left(w)] \in {0, json!Orphaned}
  /\ tmp[New(Writer)] \in {0, json!Partial, acked + 1}
  /\ tmp[Left(Writer)] \in 0..Last
  /\ json!Readable(New(Writer)) \/ step[Writer] = "write" => acked < Last
  /\ \A w \in Sharing : step[w] \in {"rename", "aside", "again"} => tmp[New(w)] # json!Partial

\* A window that tidies up, or that found a report, has one; one that will remove what it
\* listed has a report or listed nothing that can be read; and one that writes or is about
\* to rename has its temporary file.
Good(w) ==
  /\ step[w] = "tidy" => file # 0
  /\ step[w] \in {"recover", "promote", "remove"} /\ ~missing[w] => file # 0
  /\ step[w] = "remove" => file # 0 \/ \A t \in seen[w] : ~json!Readable(t)
  /\ step[w] \in {"write", "rename"} => tmp[New(w)] # 0
Guarded == ~crossed => ~json!Crossing /\ \A w \in Sharing : Good(w)

\* Where renames replace, nothing is put aside, and no earlier version is left behind.
InPlace ==
  atomic /\ ~crossed =>
    /\ file >= acked /\ prev = 0 /\ tmp[Left(Writer)] = 0
    /\ \A w \in Sharing : step[w] \notin {"aside", "again", "tidy"}
    /\ Writer \in running /\ step[Writer] = "idle" => tmp[New(Writer)] = 0

ReportInv == json!TypeOK /\ Resting /\ Contents /\ Guarded /\ InPlace

\* Every temporary file is a window's new one or the one it left.
LEMMA TemporaryFiles ==
  /\ json!Temporary = Temps
  /\ \A w : json!New(w) = New(w) /\ json!Left(w) = Left(w)
  /\ \A w \in Sharing : New(w) \in Temps /\ Left(w) \in Temps
  /\ \A v, w : New(v) # Left(w)
  /\ \A v, w : (New(v) = New(w) \/ Left(v) = Left(w)) => v = w
  /\ \A t \in Temps : \E w \in Sharing : t = New(w) \/ t = Left(w)
BY DEF json!Temporary, json!New, json!Left, New, Left, Temps, Sharing

LEMMA ReportInit == json!Init => ReportInv
<1> SUFFICES ASSUME json!Init PROVE ReportInv
  OBVIOUS
<1>1. json!TypeOK
  <2>1. 0 \in json!Version /\ 0 \in 0..Last
    BY SharedAssumption DEF json!Version, json!Orphaned
  <2>2. {lapsed, atomic, crossed} \subseteq BOOLEAN
    BY Zenon DEF json!Init
  <2> QED
    BY <2>1, <2>2 DEF json!Init, json!TypeOK
<1>2. \A t \in Temps : tmp[t] = 0
  BY TemporaryFiles DEF json!Init
<1>3. Resting
  BY DEF json!Init, Resting, Sharing
<1>4. Contents
  <2>1. Writer \in Sharing /\ Process \subseteq Sharing
    BY DEF Sharing
  <2>2. ~json!Readable(New(Writer))
    BY <1>2, <2>1, TemporaryFiles DEF json!Readable
  <2> QED
    BY <1>2, <2>1, <2>2, SharedAssumption, TemporaryFiles DEF json!Init, Contents, Sharing
<1>5. Guarded
  BY DEF json!Init, Guarded, Good, json!Crossing, Sharing
<1>6. InPlace
  BY <1>2, TemporaryFiles DEF json!Init, InPlace, Sharing
<1> QED
  BY <1>1, <1>3, <1>4, <1>5, <1>6 DEF ReportInv

\* The types as the steps need them.
LEMMA ReportTypes ==
  ASSUME json!TypeOK
  PROVE  /\ file \in 0..(Last + 1) /\ prev \in 0..(Last + 1) /\ acked \in 0..Last
         /\ tmp \in [Temps -> 0..(Last + 2)] /\ running \subseteq Sharing
         /\ step \in [Sharing -> {"idle", "temps", "recover", "promote", "remove", "reread",
                                  "decide", "write", "rename", "aside", "again", "tidy"}]
         /\ seen \in [Sharing -> SUBSET Temps] /\ missing \in [Sharing -> BOOLEAN]
         /\ Last \in Nat \ {0} /\ Writer \notin Process /\ Writer \in Sharing
         /\ json!Partial = Last + 2 /\ json!Orphaned = Last + 1
<1>1. json!Partial = Last + 2 /\ json!Orphaned = Last + 1 /\ Last \in Nat \ {0}
  BY SharedAssumption DEF json!Partial, json!Orphaned
<1>2. json!Version \union {json!Partial} = 0..(Last + 2) /\ json!Version = 0..(Last + 1)
  BY <1>1 DEF json!Version
<1> QED
  BY <1>1, <1>2, SharedAssumption, TemporaryFiles DEF json!TypeOK, Sharing

\* The newest readable file of a list is one of them.
LEMMA NewestListed ==
  ASSUME ReportInv, NEW L \in SUBSET {t \in Temps : json!Readable(t)}, L # {}
  PROVE  \E t \in L : \A u \in L : tmp[t] >= tmp[u]
<1> USE ReportTypes DEF ReportInv
<1>1. \A t \in L : tmp[t] \in 1..(Last + 1)
  BY DEF json!Readable
<1>2. CASE \E t \in L : tmp[t] = Last + 1
  BY <1>1, <1>2
<1>3. CASE \A t \in L : tmp[t] # Last + 1
  <2>1. \A t \in L : t = New(Writer) \/ t = Left(Writer)
    <3> SUFFICES ASSUME NEW t \in L PROVE t = New(Writer) \/ t = Left(Writer)
      OBVIOUS
    <3>1. PICK w \in Sharing : t = New(w) \/ t = Left(w)
      BY TemporaryFiles
    <3>2. CASE w \in Process
      BY <1>1, <1>3, <3>1, <3>2 DEF Contents
    <3> QED
      BY <3>1, <3>2 DEF Sharing
  <2> QED
    BY <1>1, <2>1
<1> QED
  BY <1>2, <1>3

\* Promoting moves one readable file of the list, or there is no need or none to move.
LEMMA PromoteEffect ==
  ASSUME ReportInv, NEW w \in Sharing, json!Promote(w)
  PROVE  /\ prev' = prev /\ acked' = acked /\ running' = running /\ seen' = seen
         /\ missing' = missing /\ step' = [step EXCEPT ![w] = "remove"] /\ atomic' = atomic
         /\ step[w] = "promote"
         /\ \/ /\ file' = file /\ tmp' = tmp
               /\ ~missing[w] \/ \A t \in seen[w] : ~json!Readable(t)
            \/ \E t \in seen[w] : /\ t \in Temps /\ json!Readable(t)
                                  /\ file' = tmp[t] /\ tmp' = [tmp EXCEPT ![t] = 0]
<1> DEFINE left == {t \in seen[w] : json!Readable(t)}
<1> DEFINE newest == CHOOSE t \in left : \A u \in left : tmp[t] >= tmp[u]
<1>1. seen[w] \subseteq Temps
  BY ReportTypes DEF ReportInv
<1>2. seen[w] \intersect json!Written = left
  BY <1>1, TemporaryFiles DEF json!Written
<1>3. /\ prev' = prev /\ acked' = acked /\ running' = running /\ seen' = seen
      /\ missing' = missing /\ step' = [step EXCEPT ![w] = "remove"] /\ atomic' = atomic
      /\ step[w] = "promote"
      /\ \/ file' = file /\ tmp' = tmp /\ (~missing[w] \/ left = {})
         \/ left # {} /\ file' = tmp[newest] /\ tmp' = [tmp EXCEPT ![newest] = 0]
  BY <1>2 DEF json!Promote, json!Go, json!At
<1>4. left # {} => newest \in left
  <2>1. left \in SUBSET {t \in Temps : json!Readable(t)}
    BY <1>1
  <2> HIDE DEF left
  <2> QED
    BY <2>1, NewestListed
<1>5. \A t \in left : t \in seen[w] /\ t \in Temps /\ json!Readable(t)
  BY <1>1
<1>6. left = {} => \A t \in seen[w] : ~json!Readable(t)
  OBVIOUS
<1> HIDE DEF left, newest
<1> QED
  BY <1>3, <1>4, <1>5, <1>6

\* Every step keeps the types.
LEMMA ReportTypeStep ==
  ASSUME ReportInv, json!Next
  PROVE  json!TypeOK'
<1>0. /\ file \in 0..(Last + 1) /\ prev \in 0..(Last + 1) /\ acked \in 0..Last
      /\ tmp \in [Temps -> 0..(Last + 2)] /\ running \subseteq Sharing
      /\ step \in [Sharing -> {"idle", "temps", "recover", "promote", "remove", "reread",
                                 "decide", "write", "rename", "aside", "again", "tidy"}]
      /\ seen \in [Sharing -> SUBSET Temps] /\ missing \in [Sharing -> BOOLEAN]
      /\ Last \in Nat \ {0} /\ json!Partial = Last + 2 /\ json!Orphaned = Last + 1
  BY ReportTypes DEF ReportInv
<1>1. {lapsed', atomic', crossed'} \subseteq BOOLEAN
  <2>1. crossed' \in BOOLEAN /\ lapsed' \in {lapsed, TRUE} /\ atomic' = atomic
    BY Zenon DEF json!Next, json!WriteNext, json!Lapse, json!Replace, json!Crash, json!Reconcile,
       json!Restart, json!Create, json!Complete, json!Rename, json!RenameFails, json!Aside,
       json!RenameAgain, json!Tidy, json!WriteFails, json!Look, json!Temps, json!Recover,
       json!Promote, json!RemoveTemps, json!Reread, json!Orphan, json!LeaveAlone
  <2> QED
    BY <2>1, Zenon DEF ReportInv, json!TypeOK
<1> DEFINE Typed == /\ file' \in 0..(Last + 1) /\ prev' \in 0..(Last + 1) /\ acked' \in 0..Last
                    /\ tmp' \in [Temps -> 0..(Last + 2)] /\ running' \subseteq Sharing
                    /\ step' \in [Sharing -> {"idle", "temps", "recover", "promote", "remove",
                                   "reread", "decide", "write", "rename", "aside", "again", "tidy"}]
                    /\ seen' \in [Sharing -> SUBSET Temps] /\ missing' \in [Sharing -> BOOLEAN]
<1>2. ASSUME NEW w \in Sharing, json!Create(w) PROVE Typed
  <2>1. /\ file' = file /\ prev' = prev /\ acked' = acked /\ running' = running
        /\ missing' = missing
    BY <1>2 DEF json!Create
  <2>2. tmp' \in [Temps -> 0..(Last + 2)]
    <3>1. /\ DOMAIN tmp' = Temps
          /\ \A t \in Temps : tmp'[t] \in {tmp[t], json!Partial, tmp[New(w)]}
          /\ tmp' = [t \in Temps |-> tmp'[t]]
      BY <1>0, <1>2, TemporaryFiles DEF json!Create
    <3>2. \A t \in Temps : tmp'[t] \in 0..(Last + 2)
      BY <1>0, <3>1, TemporaryFiles
    <3> QED
      BY <3>1, <3>2
  <2>3. seen' \in [Sharing -> SUBSET Temps]
    BY <1>0, <1>2, TemporaryFiles DEF json!Create, Sharing
  <2>4. step' = [step EXCEPT ![w] = "write"]
    BY <1>2 DEF json!Create, json!Go
  <2> QED
    BY <1>0, <2>1, <2>2, <2>3, <2>4
<1>3. ASSUME NEW w \in Sharing, json!Complete(w) PROVE Typed
  <2>1. tmp' = [tmp EXCEPT ![New(w)] = IF @ = 0 THEN 0 ELSE json!Content(w)]
    BY <1>3, TemporaryFiles DEF json!Complete
  <2>2. json!Content(w) \in 0..(Last + 2)
    BY <1>0 DEF json!Content
  <2> QED
    BY <1>0, <1>3, <2>1, <2>2 DEF json!Complete, json!Go
<1>4. ASSUME NEW w \in Sharing, json!Rename(w) \/ json!RenameAgain(w) PROVE Typed
  <2>1. /\ file' = tmp[New(w)] /\ tmp' = [tmp EXCEPT ![New(w)] = 0]
        /\ acked' = (IF w = Writer THEN tmp[New(w)] ELSE acked)
        /\ step' \in {[step EXCEPT ![w] = "idle"], [step EXCEPT ![w] = "tidy"]}
        /\ prev' = prev /\ running' = running /\ seen' = seen /\ missing' = missing
        /\ step[w] \in {"rename", "again"} /\ tmp[New(w)] # 0
    BY <1>4, TemporaryFiles DEF json!Rename, json!RenameAgain, json!Acknowledge, json!Go, json!At
  <2>2. tmp[New(w)] \in 1..(Last + 1)
    BY <1>0, <2>1, TemporaryFiles DEF ReportInv, Contents
  <2>3. w = Writer => tmp[New(w)] \in 0..Last
    BY <1>0, <2>1, <2>2, TemporaryFiles DEF ReportInv, Contents, json!Readable
  <2>4. file' \in 0..(Last + 1) /\ acked' \in 0..Last
    BY <1>0, <2>1, <2>2, <2>3
  <2>5. tmp' \in [Temps -> 0..(Last + 2)]
    <3>1. 0 \in 0..(Last + 2)
      BY <1>0
    <3> QED
      BY <1>0, <2>1, <3>1, Zenon
  <2> QED
    BY <1>0, <2>1, <2>4, <2>5
<1>5. ASSUME NEW w \in Sharing, \/ json!RenameFails(w) \/ json!Aside(w) \/ json!Tidy(w)
                                \/ json!WriteFails(w)
      PROVE  Typed
  <2>1. /\ file' \in {file, 0, prev} /\ prev' \in {prev, 0, file} /\ acked' = acked
        /\ tmp' = tmp /\ running' = running /\ seen' = seen /\ missing' = missing
        /\ step' \in {[step EXCEPT ![w] = "aside"], [step EXCEPT ![w] = "again"],
                      [step EXCEPT ![w] = "idle"]}
    BY <1>5 DEF json!RenameFails, json!Aside, json!Tidy, json!WriteFails, json!Go
  <2> QED
    BY <1>0, <2>1
<1>6. ASSUME NEW w \in Sharing, json!Crash(w) \/ json!Restart(w) PROVE Typed
  BY <1>0, <1>6 DEF json!Crash, json!Restart, json!Go
<1>7. ASSUME json!Lapse PROVE Typed
  BY <1>0, <1>7 DEF json!Lapse
<1>8. ASSUME NEW w \in Sharing, json!Look(w) \/ json!Reread(w) \/ json!LeaveAlone(w)
      PROVE  Typed
  BY <1>0, <1>8 DEF json!Look, json!Reread, json!LeaveAlone, json!Go
<1>9. ASSUME NEW w \in Sharing, json!Temps(w) PROVE Typed
  <2>1. /\ file' = file /\ prev' = prev /\ acked' = acked /\ tmp' = tmp /\ running' = running
        /\ step' \in {[step EXCEPT ![w] = "reread"], [step EXCEPT ![w] = "recover"]}
        /\ seen' \in {seen, [seen EXCEPT ![w] = {t \in Temps : tmp[t] # 0}]}
        /\ missing' \in {missing, [missing EXCEPT ![w] = (file = 0)]}
    BY <1>9, TemporaryFiles DEF json!Temps, json!Go
  <2>2. missing' \in [Sharing -> BOOLEAN]
    BY <1>0, <2>1, Zenon
  <2>3. seen' \in [Sharing -> SUBSET Temps]
    BY <1>0, <2>1
  <2> QED
    BY <1>0, <2>1, <2>2, <2>3
<1>10. ASSUME NEW w \in Sharing, json!Recover(w) PROVE Typed
  <2>1. /\ file' \in {prev, file} /\ prev' = 0 /\ acked' = acked /\ tmp' = tmp
        /\ running' = running /\ seen' = seen /\ missing' = [missing EXCEPT ![w] = (file' = 0)]
        /\ step' \in {[step EXCEPT ![w] = "reread"], [step EXCEPT ![w] = "promote"]}
    BY <1>10 DEF json!Recover, json!Go
  <2>2. missing' \in [Sharing -> BOOLEAN]
    BY <1>0, <2>1, Zenon
  <2> QED
    BY <1>0, <2>1, <2>2
<1>11. ASSUME NEW w \in Sharing, json!Promote(w) PROVE Typed
  <2>1. file' \in 0..(Last + 1) /\ tmp' \in [Temps -> 0..(Last + 2)]
    <3>1. ASSUME NEW t \in Temps, json!Readable(t) PROVE tmp[t] \in 0..(Last + 1)
      BY <1>0, <3>1 DEF json!Readable
    <3>2. 0 \in 0..(Last + 2)
      BY <1>0
    <3>3. \/ file' = file /\ tmp' = tmp
          \/ \E t \in Temps : /\ json!Readable(t) /\ file' = tmp[t]
                              /\ tmp' = [tmp EXCEPT ![t] = 0]
      BY <1>11, PromoteEffect
    <3> QED
      BY <1>0, <3>1, <3>2, <3>3
  <2> QED
    BY <1>0, <1>11, <2>1, PromoteEffect
<1>12. ASSUME NEW w \in Sharing, json!RemoveTemps(w) PROVE Typed
  <2>1. tmp' = [t \in Temps |-> IF t \in seen[w] THEN 0 ELSE tmp[t]]
    BY <1>12, TemporaryFiles DEF json!RemoveTemps
  <2> QED
    BY <1>0, <1>12, <2>1 DEF json!RemoveTemps, json!Go
<1>13. Typed
  BY <1>2, <1>3, <1>4, <1>5, <1>6, <1>7, <1>8, <1>9, <1>10, <1>11, <1>12
     DEF json!Next, json!WriteNext, json!Replace, json!Reconcile, json!Orphan, json!Others, Sharing
<1> QED
  <2>1. json!Version \union {json!Partial} = 0..(Last + 2) /\ json!Version = 0..(Last + 1)
    BY <1>0 DEF json!Version
  <2> QED
    BY <1>1, <1>13, <2>1, TemporaryFiles DEF json!TypeOK, Sharing

\* What windows do and what the temporary files hold.
LEMMA ReportContentsStep ==
  ASSUME ReportInv, json!Next
  PROVE  (Resting /\ Contents)'
<1>0. /\ file \in 0..(Last + 1) /\ prev \in 0..(Last + 1) /\ acked \in 0..Last
      /\ tmp \in [Temps -> 0..(Last + 2)] /\ running \subseteq Sharing
      /\ step \in [Sharing -> {"idle", "temps", "recover", "promote", "remove", "reread",
                                 "decide", "write", "rename", "aside", "again", "tidy"}]
      /\ seen \in [Sharing -> SUBSET Temps] /\ missing \in [Sharing -> BOOLEAN]
      /\ Last \in Nat \ {0} /\ json!Partial = Last + 2 /\ json!Orphaned = Last + 1
      /\ Writer \in Sharing /\ Writer \notin Process
      /\ \A w \in Sharing : w # Writer => w \in Process
  BY ReportTypes DEF ReportInv, Sharing
<1>1. \A t : json!Readable(t) <=> tmp[t] \in 1..(Last + 1)
  BY <1>0 DEF json!Readable
<1>2. \A t : json!Readable(t)' <=> tmp'[t] \in 1..(Last + 1)
  BY <1>0 DEF json!Readable, json!Orphaned
<1> DEFINE Hold == (Resting /\ Contents)'
<1>3. ASSUME NEW w \in Sharing, json!Create(w), w = Writer => acked < Last,
             w \in running, step[w] \in {"idle", "decide"}
      PROVE  Hold
  <2>1. /\ acked' = acked /\ running' = running /\ step' = [step EXCEPT ![w] = "write"]
        /\ tmp'[New(w)] = json!Partial
        /\ tmp'[Left(w)] = (IF json!Readable(New(w)) THEN tmp[New(w)] ELSE tmp[Left(w)])
        /\ \A o \in Sharing : o # w => tmp'[New(o)] = tmp[New(o)] /\ tmp'[Left(o)] = tmp[Left(o)]
    BY <1>0, <1>3, TemporaryFiles DEF json!Create, json!Go
  <2>2. seen' = [o \in Sharing |->
               (seen[o] \ ({New(w)} \union IF json!Readable(New(w)) THEN {Left(w)} ELSE {}))
               \union IF json!Readable(New(w)) /\ New(w) \in seen[o] THEN {Left(w)} ELSE {}]
    BY <1>3, TemporaryFiles DEF json!Create, Sharing
  <2>3. Resting'
    BY <1>0, <1>3, <2>1, <2>2 DEF ReportInv, Resting
  <2>4. /\ tmp'[New(w)] \in {0, json!Partial, acked + 1} /\ tmp'[New(w)] = json!Partial
        /\ ~json!Readable(New(w))'
    BY <1>0, <1>2, <2>1
  <2>5. tmp'[Left(w)] \in (IF w = Writer THEN 0..Last ELSE {0, json!Orphaned})
    BY <1>0, <1>1, <1>3, <2>1 DEF ReportInv, Contents
  <2>6. \A o \in Sharing :
          o # w => step'[o] = step[o] /\ (json!Readable(New(o))' <=> json!Readable(New(o)))
    BY <1>0, <1>1, <1>2, <2>1
  <2>7. \A o \in Process : /\ tmp'[New(o)] \in {0, json!Partial, json!Orphaned}
                           /\ tmp'[Left(o)] \in {0, json!Orphaned}
    BY <1>0, <2>1, <2>4, <2>5 DEF ReportInv, Contents, Sharing
  <2>8. tmp'[New(Writer)] \in {0, json!Partial, acked' + 1} /\ tmp'[Left(Writer)] \in 0..Last
    BY <1>0, <2>1, <2>4, <2>5 DEF ReportInv, Contents
  <2>9. json!Readable(New(Writer))' \/ step'[Writer] = "write" => acked' < Last
    BY <1>0, <1>3, <2>1, <2>4, <2>6 DEF ReportInv, Contents
  <2>10. \A o \in Sharing : step'[o] \in {"rename", "aside", "again"} => tmp'[New(o)] # json!Partial
    BY <1>0, <2>1, <2>6 DEF ReportInv, Contents
  <2>11. Contents'
    BY <2>7, <2>8, <2>9, <2>10 DEF Contents, json!Partial, json!Orphaned
  <2> QED
    BY <2>3, <2>11
<1>4. ASSUME NEW w \in Sharing, json!Complete(w) PROVE Hold
  <2>1. /\ acked' = acked /\ running' = running /\ step' = [step EXCEPT ![w] = "rename"]
        /\ tmp' = [tmp EXCEPT ![New(w)] = IF tmp[New(w)] = 0 THEN 0 ELSE json!Content(w)]
        /\ seen' = seen /\ step[w] = "write" /\ w \in running
    BY <1>0, <1>4, TemporaryFiles DEF json!Complete, json!Go, json!At
  <2>2. /\ \A t \in Temps : t # New(w) => tmp'[t] = tmp[t]
        /\ tmp'[New(w)] \in {0, json!Content(w)} /\ json!Content(w) # json!Partial
    BY <1>0, <2>1, TemporaryFiles DEF json!Content
  <2>3. Resting'
    BY <1>0, <2>1 DEF ReportInv, Resting
  <2>4. Contents'
    BY <1>0, <1>1, <1>2, <2>1, <2>2, TemporaryFiles DEF ReportInv, Contents, json!Content
  <2> QED
    BY <2>3, <2>4
<1>5. ASSUME NEW w \in Sharing, json!Rename(w) \/ json!RenameAgain(w) PROVE Hold
  <2>1. /\ acked' = (IF w = Writer THEN tmp[New(w)] ELSE acked)
        /\ tmp' = [tmp EXCEPT ![New(w)] = 0]
        /\ step' \in {[step EXCEPT ![w] = "idle"], [step EXCEPT ![w] = "tidy"]}
        /\ running' = running /\ seen' = seen
        /\ step[w] \in {"rename", "again"} /\ w \in running /\ tmp[New(w)] # 0
    BY <1>5, TemporaryFiles DEF json!Rename, json!RenameAgain, json!Acknowledge, json!Go, json!At
  <2>2. tmp'[New(w)] = 0 /\ \A t \in Temps : t # New(w) => tmp'[t] = tmp[t]
    BY <1>0, <2>1, TemporaryFiles
  <2>3. Resting'
    BY <1>0, <2>1 DEF ReportInv, Resting
  <2>4. w = Writer => acked' = acked + 1 /\ acked' <= Last
    BY <1>0, <1>1, <2>1, TemporaryFiles DEF ReportInv, Contents
  <2>5. Contents'
    BY <1>0, <1>1, <1>2, <2>1, <2>2, <2>4, TemporaryFiles DEF ReportInv, Contents, Resting
  <2> QED
    BY <2>3, <2>5
\* The steps that leave the temporary files alone.
<1>6. ASSUME NEW w \in Sharing, NEW s, step' = [step EXCEPT ![w] = s], tmp' = tmp, acked' = acked,
             running' \in {running, running \ {w}}, w \notin running' => s = "idle",
             s # "write", s \in {"rename", "aside", "again"} => step[w] \in {"rename", "aside", "again"},
             w = Writer => s \in {"idle", "write", "rename", "aside", "again", "tidy"},
             \A o \in Sharing : o # w => seen'[o] = seen[o],
             s \notin {"recover", "promote", "remove"} => seen'[w] = {}
      PROVE  Hold
  <2>1. step'[w] = s /\ \A o \in Sharing : o # w => step'[o] = step[o]
    BY <1>0, <1>6
  <2>2. Resting'
    BY <1>0, <1>6, <2>1 DEF ReportInv, Resting
  <2>3. Contents'
    BY <1>0, <1>1, <1>2, <1>6, <2>1 DEF ReportInv, Contents
  <2> QED
    BY <2>2, <2>3
\* The steps that remove temporary files.
<1>7. ASSUME NEW w \in Process, NEW s \in {"remove", "reread"}, step' = [step EXCEPT ![w] = s],
             acked' = acked, running' = running, w \in running,
             \A t \in Temps : tmp'[t] \in {tmp[t], 0},
             \A o \in Sharing : o # w => seen'[o] = seen[o],
             s = "reread" => seen'[w] = {}
      PROVE  Hold
  <2>1. step'[w] = s /\ \A o \in Sharing : o # w => step'[o] = step[o]
    BY <1>0, <1>7 DEF Sharing
  <2>2. Resting'
    BY <1>0, <1>7, <2>1 DEF ReportInv, Resting
  <2>3. Contents'
    BY <1>0, <1>1, <1>2, <1>7, <2>1, TemporaryFiles DEF ReportInv, Contents, Sharing
  <2> QED
    BY <2>2, <2>3
<1>8. ASSUME NEW w \in Sharing, \/ json!RenameFails(w) \/ json!Aside(w) \/ json!Tidy(w)
                                \/ json!WriteFails(w) \/ json!Crash(w)
      PROVE  Hold
  <2>1. /\ tmp' = tmp /\ acked' = acked
        /\ \/ json!Crash(w) /\ running' = running \ {w} /\ step' = [step EXCEPT ![w] = "idle"]
              /\ seen' = [seen EXCEPT ![w] = {}]
           \/ /\ running' = running /\ w \in running /\ seen' = seen
              /\ step[w] \in {"rename", "aside", "again", "tidy"}
              /\ \/ step' = [step EXCEPT ![w] = "idle"]
                 \/ step[w] # "tidy" /\ step' = [step EXCEPT ![w] = "aside"]
                 \/ step[w] # "tidy" /\ step' = [step EXCEPT ![w] = "again"]
    BY <1>8 DEF json!RenameFails, json!Aside, json!Tidy, json!WriteFails, json!Crash, json!Go,
                json!At
  <2>2. step[w] \in {"rename", "aside", "again", "tidy"} => seen[w] = {}
    BY DEF ReportInv, Resting
  <2> QED
    BY <1>0, <1>6, <2>1, <2>2
<1>9. ASSUME json!Lapse PROVE Hold
  BY <1>0, <1>1, <1>2, <1>9 DEF json!Lapse, ReportInv, Resting, Contents
<1>10. ASSUME NEW w \in Process, \/ json!Look(w) \/ json!Temps(w) \/ json!Recover(w)
                                 \/ json!Reread(w) \/ json!LeaveAlone(w)
       PROVE  Hold
  <2>1. /\ tmp' = tmp /\ acked' = acked /\ running' = running /\ w \in running
        /\ \/ /\ step[w] \in {"idle", "temps", "reread", "decide"} /\ seen' = seen
              /\ \/ step' = [step EXCEPT ![w] = "idle"]
                 \/ step' = [step EXCEPT ![w] = "temps"]
                 \/ step' = [step EXCEPT ![w] = "reread"]
                 \/ step' = [step EXCEPT ![w] = "decide"]
           \/ /\ seen' = [seen EXCEPT ![w] = seen'[w]] /\ step' = [step EXCEPT ![w] = "recover"]
           \/ /\ seen' = seen
              /\ \/ step' = [step EXCEPT ![w] = "promote"]
                 \/ seen[w] = {} /\ step' = [step EXCEPT ![w] = "reread"]
    BY <1>0, <1>10 DEF json!Look, json!Temps, json!Recover, json!Reread, json!LeaveAlone,
       json!Go, json!At
  <2>3. w \in Sharing
    BY <1>0 DEF Sharing
  <2>2. step[w] \in {"idle", "temps", "reread", "decide"} => seen[w] = {}
    BY <1>0, <2>3 DEF ReportInv, Resting
  <2> QED
    BY <1>0, <1>6, <2>1, <2>2, <2>3
<1>11. ASSUME NEW w \in Process, json!Promote(w) PROVE Hold
  <2>1. w \in Sharing /\ w \in running
    BY <1>11 DEF Sharing, json!Promote, json!At
  <2> QED
    BY <1>0, <1>7, <1>11, <2>1, PromoteEffect
<1>12. ASSUME NEW w \in Process, json!RemoveTemps(w) PROVE Hold
  <2>1. tmp' = [t \in Temps |-> IF t \in seen[w] THEN 0 ELSE tmp[t]]
    BY <1>12, TemporaryFiles DEF json!RemoveTemps
  <2> QED
    BY <1>0, <1>7, <1>12, <2>1 DEF json!RemoveTemps, json!Go, json!At, Sharing
<1>13. ASSUME NEW w \in Process, json!Restart(w) PROVE Hold
  BY <1>0, <1>1, <1>2, <1>13 DEF json!Restart, ReportInv, Resting, Contents
<1>14. ASSUME json!WriteNext \/ \E w \in Process : json!Orphan(w) PROVE Hold
  BY <1>0, <1>3, <1>14 DEF json!WriteNext, json!Orphan, json!At, Sharing
<1>15. \A w : w \in json!Others => w \in Process
  BY DEF json!Others
<1>16. \A w \in Sharing : json!Replace(w) \/ json!Crash(w) => Hold
  BY <1>4, <1>5, <1>8 DEF json!Replace
<1>17. \A w \in Process : json!Reconcile(w) \/ json!Restart(w) => Hold
  BY <1>10, <1>11, <1>12, <1>13, <1>14 DEF json!Reconcile
<1> QED
  BY <1>9, <1>14, <1>15, <1>16, <1>17 DEF json!Next, Sharing

\* While no two windows handle the files of one another, every window's work stays guarded,
\* nothing is put aside where renames replace, and a readable report is not lost.
LEMMA ReportGuardedStep ==
  ASSUME ReportInv, json!Next, ~crossed'
  PROVE  Guarded' /\ InPlace' /\ (json!Held => json!Held')
<1>0. /\ file \in 0..(Last + 1) /\ prev \in 0..(Last + 1) /\ acked \in 0..Last
      /\ tmp \in [Temps -> 0..(Last + 2)] /\ running \subseteq Sharing
      /\ step \in [Sharing -> {"idle", "temps", "recover", "promote", "remove", "reread",
                                 "decide", "write", "rename", "aside", "again", "tidy"}]
      /\ seen \in [Sharing -> SUBSET Temps] /\ missing \in [Sharing -> BOOLEAN]
      /\ Last \in Nat \ {0} /\ json!Partial = Last + 2 /\ json!Orphaned = Last + 1
      /\ Writer \in Sharing /\ Writer \notin Process
      /\ \A w \in Sharing : w # Writer => w \in Process
  BY ReportTypes DEF ReportInv, Sharing
<1>1. \A t : json!Readable(t) <=> tmp[t] \in 1..(Last + 1)
  BY <1>0 DEF json!Readable
<1>2. \A t : json!Readable(t)' <=> tmp'[t] \in 1..(Last + 1)
  BY <1>0 DEF json!Readable, json!Orphaned
<1>3. ~crossed /\ ~json!Crossing /\ ~json!Crossing' /\ \A w \in Sharing : Good(w)
  BY DEF json!Next, ReportInv, Guarded
<1>4. \A w \in Sharing : step[w] # "idle" => w \in running
  BY DEF ReportInv, Resting
<1>5. \A w, o \in Sharing :
        w # o /\ step[w] \in {"aside", "again"} =>
          step[o] \notin {"recover", "promote", "remove", "aside", "again", "tidy"}
  BY <1>3, <1>4 DEF json!Crossing
<1>6. \A w, o \in Sharing :
        w # o /\ step[w] \in {"write", "rename"} /\ step[o] \in {"recover", "promote", "remove"} =>
          New(w) \notin seen[o]
  BY <1>3, <1>4, TemporaryFiles DEF json!Crossing
<1>7. (json!Held <=> file # 0 \/ prev # 0 \/ \E t \in Temps : tmp[t] \in 1..(Last + 1))
  BY <1>1, TemporaryFiles DEF json!Held, json!Written
<1>8. (json!Held' <=> file' # 0 \/ prev' # 0 \/ \E t \in Temps : tmp'[t] \in 1..(Last + 1))
  BY <1>2, TemporaryFiles DEF json!Held, json!Written
<1> DEFINE Safe == /\ \A w \in Sharing : Good(w)'
                   /\ InPlace'
                   /\ json!Held => json!Held'
\* What the others need of a step of one window.
<1>9. ASSUME NEW w \in Sharing, Good(w)', NEW s, step' = [step EXCEPT ![w] = s],
             \A o \in Sharing : o # w => missing'[o] = missing[o],
             file # 0 => file' # 0 \/ step[w] = "aside",
             \A o \in Sharing : o # w /\ step[o] = "remove" /\ file = 0 =>
               file' # 0 \/ \A t \in seen'[o] : tmp'[t] \notin 1..(Last + 1),
             \A o \in Sharing : o # w /\ step[o] \in {"write", "rename"} => tmp'[New(o)] # 0
      PROVE  \A o \in Sharing : Good(o)'
  <2> SUFFICES ASSUME NEW o \in Sharing, o # w PROVE Good(o)'
    BY <1>9
  <2>1. step'[o] = step[o] /\ missing'[o] = missing[o] /\ Good(o)
    BY <1>0, <1>3, <1>9
  <2>2. step[o] \in {"recover", "promote", "remove", "tidy"} /\ file # 0 => file' # 0
    BY <1>5, <1>9
  <2> QED
    BY <1>1, <1>2, <1>9, <2>1, <2>2 DEF Good
<1>10. ASSUME NEW w \in Sharing, json!Create(w), w \in running, step[w] \in {"idle", "decide"}
       PROVE  Safe
  <2>1. /\ file' = file /\ prev' = prev /\ acked' = acked /\ running' = running /\ atomic' = atomic
        /\ step' = [step EXCEPT ![w] = "write"] /\ missing' = missing
        /\ tmp'[New(w)] = json!Partial
        /\ tmp'[Left(w)] = (IF json!Readable(New(w)) THEN tmp[New(w)] ELSE tmp[Left(w)])
        /\ \A t \in Temps : t # New(w) /\ t # Left(w) => tmp'[t] = tmp[t]
    BY <1>0, <1>10, TemporaryFiles DEF json!Create, json!Go
  <2>2. seen' = [o \in Sharing |->
               (seen[o] \ ({New(w)} \union IF json!Readable(New(w)) THEN {Left(w)} ELSE {}))
               \union IF json!Readable(New(w)) /\ New(w) \in seen[o] THEN {Left(w)} ELSE {}]
    BY <1>10, TemporaryFiles DEF json!Create, Sharing
  <2>3. Good(w)'
    BY <1>0, <2>1 DEF Good
  <2>4. ASSUME NEW o \in Sharing, o # w, step[o] = "remove", file = 0
        PROVE  \A t \in seen'[o] : tmp'[t] \notin 1..(Last + 1)
    <3>1. \A t \in seen[o] : t \in Temps /\ tmp[t] \notin 1..(Last + 1)
      BY <1>0, <1>1, <1>3, <2>4 DEF Good
    <3>2. \A t \in seen'[o] : t \in seen[o] /\ t # New(w) /\ (t = Left(w) => ~json!Readable(New(w)))
      BY <1>1, <2>2, <3>1
    <3> QED
      BY <2>1, <3>1, <3>2
  <2>5. \A o \in Sharing : o # w => tmp'[New(o)] = tmp[New(o)]
    BY <2>1, TemporaryFiles
  <2>6. \A o \in Sharing : Good(o)'
    BY <1>3, <1>9, <2>1, <2>3, <2>4, <2>5 DEF Good
  <2>7. InPlace'
    <3>1. CASE w = Writer
      BY <1>0, <1>1, <1>3, <1>10, <2>1, <3>1 DEF ReportInv, InPlace, Resting
    <3>2. CASE w # Writer
      BY <1>0, <1>1, <1>3, <1>10, <2>1, <3>2, TemporaryFiles DEF ReportInv, InPlace, Resting
    <3> QED
      BY <3>1, <3>2
  <2>8. json!Held => json!Held'
    BY <1>1, <1>7, <1>8, <2>1, TemporaryFiles
  <2> QED
    BY <2>6, <2>7, <2>8
<1>11. ASSUME NEW w \in Sharing, json!Complete(w) PROVE Safe
  <2>1. /\ file' = file /\ prev' = prev /\ acked' = acked /\ running' = running /\ atomic' = atomic
        /\ step' = [step EXCEPT ![w] = "rename"] /\ seen' = seen /\ missing' = missing
        /\ tmp' = [tmp EXCEPT ![New(w)] = IF tmp[New(w)] = 0 THEN 0 ELSE json!Content(w)]
        /\ step[w] = "write"
    BY <1>0, <1>11, TemporaryFiles DEF json!Complete, json!Go, json!At
  <2>2. /\ \A t \in Temps : t # New(w) => tmp'[t] = tmp[t]
        /\ tmp[New(w)] # 0 /\ tmp'[New(w)] = json!Content(w)
    BY <1>0, <1>3, <2>1, TemporaryFiles DEF Good
  <2>3. json!Content(w) \in 1..(Last + 1)
    BY <1>0 DEF json!Content
  <2>4. Good(w)'
    BY <1>0, <2>1, <2>2, <2>3 DEF Good
  <2>5. ASSUME NEW o \in Sharing, o # w, step[o] = "remove", file = 0
        PROVE  \A t \in seen'[o] : tmp'[t] \notin 1..(Last + 1)
    <3>1. \A t \in seen[o] : t \in Temps /\ tmp[t] \notin 1..(Last + 1)
      BY <1>0, <1>1, <1>3, <2>5 DEF Good
    <3>2. New(w) \notin seen[o]
      BY <1>6, <2>1, <2>5
    <3> QED
      BY <2>1, <2>2, <3>1, <3>2
  <2>6. \A o \in Sharing : o # w => tmp'[New(o)] = tmp[New(o)]
    BY <2>2, TemporaryFiles
  <2>7. \A o \in Sharing : Good(o)'
    BY <1>3, <1>9, <2>1, <2>4, <2>5, <2>6 DEF Good
  <2>8. InPlace'
    BY <1>0, <1>3, <2>1, <2>2, TemporaryFiles DEF ReportInv, InPlace
  <2>9. json!Held => json!Held'
    BY <1>8, <2>1, <2>2, <2>3, TemporaryFiles
  <2> QED
    BY <2>7, <2>8, <2>9
<1>12. ASSUME NEW w \in Sharing, json!Rename(w) \/ json!RenameAgain(w) PROVE Safe
  <2>1. /\ acked' = (IF w = Writer THEN tmp[New(w)] ELSE acked)
        /\ tmp' = [tmp EXCEPT ![New(w)] = 0] /\ file' = tmp[New(w)] /\ file' # 0
        /\ step' = [step EXCEPT ![w] = IF step[w] = "rename" THEN "idle" ELSE "tidy"]
        /\ running' = running /\ seen' = seen /\ prev' = prev /\ missing' = missing
        /\ atomic' = atomic /\ step[w] \in {"rename", "again"}
    BY <1>12, TemporaryFiles DEF json!Rename, json!RenameAgain, json!Acknowledge, json!Go, json!At
  <2>2. tmp'[New(w)] = 0 /\ \A t \in Temps : t # New(w) => tmp'[t] = tmp[t]
    BY <1>0, <2>1, TemporaryFiles
  <2>3. Good(w)'
    BY <1>0, <2>1 DEF Good
  <2>4. \A o \in Sharing : o # w => tmp'[New(o)] = tmp[New(o)]
    BY <2>2, TemporaryFiles
  <2>5. \A o \in Sharing : Good(o)'
    BY <1>3, <1>9, <2>1, <2>3, <2>4 DEF Good
  <2>6. InPlace'
    <3> SUFFICES ASSUME atomic' PROVE InPlace'
      BY DEF InPlace
    <3>1. /\ prev = 0 /\ tmp[Left(Writer)] = 0 /\ step[w] = "rename" /\ file >= acked
          /\ \A o \in Sharing : step[o] \notin {"aside", "again", "tidy"}
          /\ Writer \in running /\ step[Writer] = "idle" => tmp[New(Writer)] = 0
      BY <1>3, <2>1 DEF ReportInv, InPlace
    <3>2. file' >= acked'
      <4>1. CASE w = Writer
        BY <1>0, <2>1, <4>1
      <4>2. CASE w # Writer
        BY <1>0, <2>1, <4>2 DEF ReportInv, Contents
      <4> QED
        BY <4>1, <4>2
    <3> QED
      BY <1>0, <2>1, <2>2, <3>1, <3>2, TemporaryFiles DEF InPlace
  <2> QED
    BY <1>8, <2>1, <2>5, <2>6
<1>13. ASSUME NEW w \in Sharing, json!RenameFails(w) PROVE Safe
  <2>1. /\ file' = file /\ tmp' = tmp /\ acked' = acked /\ running' = running /\ atomic' = atomic
        /\ step' = [step EXCEPT ![w] = "aside"] /\ seen' = seen /\ missing' = missing
        /\ step[w] = "rename" /\ (atomic => tmp[New(w)] = 0)
    BY <1>13, TemporaryFiles DEF json!RenameFails, json!Go, json!At
  <2>2. tmp[New(w)] # 0 /\ tmp[New(w)] # json!Partial /\ tmp[New(w)] \in 0..(Last + 2)
    BY <1>0, <1>3, <2>1, TemporaryFiles DEF Good, ReportInv, Contents
  <2>3. tmp[New(w)] \in 1..(Last + 1)
    BY <1>0, <2>2
  <2>4. Good(w)'
    BY <1>0, <2>1 DEF Good
  <2>5. \A o \in Sharing : Good(o)'
    BY <1>1, <1>3, <1>9, <2>1, <2>4 DEF Good
  <2> QED
    BY <1>8, <2>1, <2>2, <2>3, <2>5, TemporaryFiles DEF InPlace
<1>14. ASSUME NEW w \in Sharing, json!Aside(w) \/ json!Tidy(w) \/ json!WriteFails(w) PROVE Safe
  <2>1. /\ tmp' = tmp /\ acked' = acked /\ running' = running /\ atomic' = atomic
        /\ seen' = seen /\ missing' = missing /\ step[w] \in {"aside", "again", "tidy"}
        /\ \/ step[w] = "aside" /\ file # 0 /\ prev' = file /\ file' = 0
              /\ step' = [step EXCEPT ![w] = "again"]
           \/ step[w] = "tidy" /\ prev' = 0 /\ file' = file /\ step' = [step EXCEPT ![w] = "idle"]
           \/ /\ step' = [step EXCEPT ![w] = "idle"]
              /\ \/ file' = file /\ prev' = prev
                 \/ file = 0 /\ prev # 0 /\ file' = prev /\ prev' = 0
    BY <1>14 DEF json!Aside, json!Tidy, json!WriteFails, json!Go, json!At
  <2>2. Good(w)'
    BY <1>0, <2>1 DEF Good
  <2>3. \A o \in Sharing : Good(o)'
    BY <1>1, <1>3, <1>9, <2>1, <2>2 DEF Good
  <2>4. ~atomic'
    BY <1>3, <2>1 DEF ReportInv, InPlace
  <2>5. step[w] = "tidy" => file # 0
    BY <1>3 DEF Good
  <2> QED
    BY <1>7, <1>8, <2>1, <2>3, <2>4, <2>5 DEF InPlace
<1>15. ASSUME NEW w \in Sharing, json!Crash(w) PROVE Safe
  <2>1. /\ file' = file /\ prev' = prev /\ tmp' = tmp /\ acked' = acked /\ atomic' = atomic
        /\ running' = running \ {w} /\ step' = [step EXCEPT ![w] = "idle"] /\ missing' = missing
        /\ seen' = [seen EXCEPT ![w] = {}]
    BY <1>15 DEF json!Crash, json!Go
  <2>2. Good(w)'
    BY <1>0, <2>1 DEF Good
  <2>3. \A o \in Sharing : o # w => seen'[o] = seen[o]
    BY <1>0, <2>1
  <2>4. \A o \in Sharing : Good(o)'
    BY <1>1, <1>3, <1>9, <2>1, <2>2, <2>3 DEF Good
  <2>5. InPlace'
    BY <1>0, <1>3, <2>1 DEF ReportInv, InPlace
  <2> QED
    BY <1>7, <1>8, <2>1, <2>4, <2>5
<1>16. ASSUME json!Lapse \/ \E w \in Process : json!Restart(w) PROVE Safe
  <2>1. /\ file' = file /\ prev' = prev /\ tmp' = tmp /\ acked' = acked /\ atomic' = atomic
        /\ step' = step /\ missing' = missing /\ seen' = seen
        /\ Writer \in running' => Writer \in running
    BY <1>0, <1>16 DEF json!Lapse, json!Restart
  <2>2. \A o \in Sharing : Good(o)'
    BY <1>1, <1>2, <1>3, <2>1 DEF Good
  <2>3. InPlace'
    BY <1>0, <1>3, <2>1 DEF ReportInv, InPlace
  <2> QED
    BY <1>7, <1>8, <2>1, <2>2, <2>3
<1>17. ASSUME NEW w \in Process,
              json!Look(w) \/ json!Temps(w) \/ json!Reread(w) \/ json!LeaveAlone(w)
       PROVE  Safe
  <2>0. w \in Sharing /\ w # Writer
    BY <1>0 DEF Sharing
  <2>1. /\ file' = file /\ prev' = prev /\ tmp' = tmp /\ acked' = acked /\ atomic' = atomic
        /\ running' = running
        /\ \A o \in Sharing : o # w => missing'[o] = missing[o] /\ seen'[o] = seen[o]
        /\ \/ step' = [step EXCEPT ![w] = "idle"]
           \/ step' = [step EXCEPT ![w] = "temps"]
           \/ step' = [step EXCEPT ![w] = "reread"]
           \/ step' = [step EXCEPT ![w] = "decide"]
           \/ step' = [step EXCEPT ![w] = "recover"] /\ missing'[w] = (file = 0)
    BY <1>0, <1>17, <2>0 DEF json!Look, json!Temps, json!Reread, json!LeaveAlone, json!Go, json!At
  <2>2. Good(w)'
    BY <1>0, <2>0, <2>1 DEF Good
  <2>3. \A o \in Sharing : Good(o)'
    BY <1>1, <1>3, <1>9, <2>0, <2>1, <2>2 DEF Good
  <2>4. InPlace'
    BY <1>0, <1>3, <2>0, <2>1 DEF ReportInv, InPlace
  <2> QED
    BY <1>7, <1>8, <2>1, <2>3, <2>4
<1>18. ASSUME NEW w \in Process, json!Recover(w) PROVE Safe
  <2>0. w \in Sharing /\ w # Writer
    BY <1>0 DEF Sharing
  <2>1. /\ tmp' = tmp /\ acked' = acked /\ atomic' = atomic /\ running' = running /\ seen' = seen
        /\ file' = (IF missing[w] /\ prev # 0 THEN prev ELSE file) /\ prev' = 0
        /\ missing' = [missing EXCEPT ![w] = (file' = 0)] /\ step[w] = "recover"
        /\ \/ step' = [step EXCEPT ![w] = "reread"]
           \/ step' = [step EXCEPT ![w] = "promote"]
    BY <1>18 DEF json!Recover, json!Go, json!At
  <2>2. missing'[w] = (file' = 0) /\ \A o \in Sharing : o # w => missing'[o] = missing[o]
    BY <1>0, <2>0, <2>1, Zenon
  <2>3. Good(w)'
    BY <1>0, <2>0, <2>1, <2>2 DEF Good
  <2>4. \A o \in Sharing : Good(o)'
    BY <1>1, <1>3, <1>9, <2>0, <2>1, <2>2, <2>3 DEF Good
  <2>5. InPlace'
    BY <1>0, <1>3, <2>0, <2>1 DEF ReportInv, InPlace
  <2>6. ~missing[w] => file # 0
    BY <1>3, <2>0, <2>1 DEF Good
  <2> QED
    BY <1>7, <1>8, <2>1, <2>4, <2>5, <2>6
<1>19. ASSUME NEW w \in Process, json!Promote(w) PROVE Safe
  <2>0. w \in Sharing /\ w # Writer
    BY <1>0 DEF Sharing
  <2>1. /\ prev' = prev /\ acked' = acked /\ running' = running /\ seen' = seen /\ atomic' = atomic
        /\ missing' = missing /\ step' = [step EXCEPT ![w] = "remove"] /\ step[w] = "promote"
    BY <1>19, <2>0, PromoteEffect
  <2>2. CASE /\ file' = file /\ tmp' = tmp
             /\ ~missing[w] \/ \A t \in seen[w] : ~json!Readable(t)
    <3>1. Good(w)'
      BY <1>0, <1>1, <1>2, <1>3, <2>0, <2>1, <2>2 DEF Good
    <3>2. \A o \in Sharing : Good(o)'
      BY <1>1, <1>3, <1>9, <2>0, <2>1, <2>2, <3>1 DEF Good
    <3>3. InPlace'
      BY <1>0, <1>3, <2>0, <2>1, <2>2 DEF ReportInv, InPlace
    <3> QED
      BY <1>7, <1>8, <2>1, <2>2, <3>2, <3>3
  <2>3. ASSUME NEW t \in seen[w], t \in Temps, json!Readable(t),
               file' = tmp[t], tmp' = [tmp EXCEPT ![t] = 0]
        PROVE  Safe
    <3>1. file' \in 1..(Last + 1)
      BY <1>1, <2>3
    <3>2. Good(w)'
      BY <1>0, <2>0, <2>1, <3>1 DEF Good
    <3>3. ASSUME NEW o \in Sharing, o # w, step[o] \in {"write", "rename"} PROVE tmp'[New(o)] # 0
      <4>1. New(o) # t /\ New(o) \in Temps
        BY <1>6, <2>0, <2>1, <2>3, <3>3, TemporaryFiles
      <4>2. tmp'[New(o)] = tmp[New(o)]
        BY <1>0, <2>3, <4>1
      <4> QED
        BY <1>3, <3>3, <4>2 DEF Good
    <3>4. \A o \in Sharing : Good(o)'
      <4>1. file' # 0
        BY <3>1
      <4> QED
        BY <1>9, <2>0, <2>1, <3>2, <3>3, <4>1
    <3>5. InPlace'
      <4> SUFFICES ASSUME atomic' PROVE InPlace'
        BY DEF InPlace
      <4>1. /\ prev = 0 /\ tmp[Left(Writer)] = 0 /\ file >= acked
            /\ \A o \in Sharing : step[o] \notin {"aside", "again", "tidy"}
            /\ Writer \in running /\ step[Writer] = "idle" => tmp[New(Writer)] = 0
        BY <1>3, <2>1 DEF ReportInv, InPlace
      <4>2. PICK o \in Sharing : t = New(o) \/ t = Left(o)
        BY <2>3, TemporaryFiles
      <4>3. file' >= acked
        <5>1. CASE o = Writer
          BY <1>0, <1>1, <2>3, <4>1, <4>2, <5>1 DEF ReportInv, Contents
        <5>2. CASE o # Writer
          BY <1>0, <1>1, <2>3, <4>2, <5>2 DEF ReportInv, Contents
        <5> QED
          BY <5>1, <5>2
      <4>4. \A u \in Temps : tmp'[u] \in {tmp[u], 0}
        BY <1>0, <2>3
      <4> QED
        BY <1>0, <2>0, <2>1, <4>1, <4>3, <4>4, TemporaryFiles DEF InPlace
    <3> QED
      BY <1>8, <3>1, <3>4, <3>5
  <2> QED
    BY <1>19, <2>0, <2>2, <2>3, PromoteEffect
<1>20. ASSUME NEW w \in Process, json!RemoveTemps(w) PROVE Safe
  <2>0. w \in Sharing /\ w # Writer
    BY <1>0 DEF Sharing
  <2>1. /\ tmp' = [t \in Temps |-> IF t \in seen[w] THEN 0 ELSE tmp[t]]
        /\ file' = file /\ prev' = prev /\ acked' = acked /\ running' = running
        /\ atomic' = atomic /\ missing' = missing /\ seen' = [seen EXCEPT ![w] = {}]
        /\ step' = [step EXCEPT ![w] = "reread"] /\ step[w] = "remove"
    BY <1>20, TemporaryFiles DEF json!RemoveTemps, json!Go, json!At
  <2>2. \A t \in Temps : tmp'[t] \in {tmp[t], 0} /\ (t \notin seen[w] => tmp'[t] = tmp[t])
    BY <2>1
  <2>3. Good(w)'
    BY <1>0, <2>0, <2>1 DEF Good
  <2>4. ASSUME NEW o \in Sharing, o # w, step[o] \in {"write", "rename"} PROVE tmp'[New(o)] # 0
    BY <1>0, <1>3, <1>6, <2>0, <2>1, <2>2, <2>4, TemporaryFiles DEF Good
  <2>5. ASSUME NEW o \in Sharing, o # w, step[o] = "remove", file = 0
        PROVE  \A t \in seen'[o] : tmp'[t] \notin 1..(Last + 1)
    <3>1. \A t \in seen[o] : t \in Temps /\ tmp[t] \notin 1..(Last + 1)
      BY <1>0, <1>1, <1>3, <2>5 DEF Good
    <3> QED
      BY <1>0, <2>1, <2>2, <2>5, <3>1
  <2>6. \A o \in Sharing : Good(o)'
    BY <1>9, <2>0, <2>1, <2>3, <2>4, <2>5
  <2>7. InPlace'
    BY <1>0, <1>3, <2>0, <2>1, <2>2, TemporaryFiles DEF ReportInv, InPlace
  <2>8. json!Held => json!Held'
    <3>1. file # 0 \/ \A t \in seen[w] : tmp[t] \notin 1..(Last + 1)
      BY <1>1, <1>3, <2>0, <2>1 DEF Good
    <3> QED
      BY <1>7, <1>8, <2>1, <2>2, <3>1
  <2> QED
    BY <2>6, <2>7, <2>8
<1>21. ASSUME json!WriteNext \/ \E w \in Process : json!Orphan(w) PROVE Safe
  BY <1>10, <1>21 DEF json!WriteNext, json!Orphan, json!At, Sharing
<1>22. \A w : w \in json!Others => w \in Process
  BY DEF json!Others
<1>23. \A w \in Sharing : json!Replace(w) \/ json!Crash(w) => Safe
  BY <1>11, <1>12, <1>13, <1>14, <1>15 DEF json!Replace
<1>24. \A w \in Process : json!Reconcile(w) => Safe
  BY <1>17, <1>18, <1>19, <1>20, <1>21 DEF json!Reconcile
<1>25. Safe
  BY <1>16, <1>21, <1>22, <1>23, <1>24 DEF json!Next, Sharing
<1> QED
  BY <1>3, <1>25 DEF Guarded

LEMMA ReportStep == ASSUME ReportInv, [json!Next]_jsonVars PROVE ReportInv'
<1>1. CASE UNCHANGED jsonVars
  BY <1>1 DEF jsonVars, ReportInv, json!TypeOK, Resting, Contents, Guarded, Good, InPlace,
     json!Readable, json!Crossing
<1>2. CASE json!Next
  <2>1. json!TypeOK' /\ (Resting /\ Contents)'
    BY <1>2, ReportTypeStep, ReportContentsStep
  <2>2. (Guarded /\ InPlace)'
    BY <1>2, ReportGuardedStep DEF Guarded, InPlace
  <2> QED
    BY <2>1, <2>2 DEF ReportInv
<1> QED
  BY <1>1, <1>2

\* The windows of MCSharedState share a report in a part of their own.
LEMMA ReportPart ==
  /\ MCInit => json!Init
  /\ [MCNext]_<<part, vars, jsonVars, importVars, secretVars, backupVars, baselineVars>> =>
       [json!Next]_jsonVars
BY DEF MCInit, MCNext

LEMMA ReportInvariance == MCSpec => []ReportInv
<1>1. ReportInv /\ [json!Next]_jsonVars => ReportInv'
  BY ReportStep
<1> QED
  BY <1>1, ReportInit, ReportPart, PTL DEF MCSpec

\* Where a rename replaces, no window takes an acknowledged version of a report back
\* (atomicWriteJson, reconcileReportTemporaries), for any number of windows and versions,
\* unless one had listed for removal what another was writing.
THEOREM VersionsStay == MCSpec => []AcknowledgedStays
<1>1. ReportInv => AcknowledgedStays
  BY DEF ReportInv, InPlace, AcknowledgedStays, json!AcknowledgedStays
<1> QED
  BY <1>1, ReportInvariance, PTL

\* A report that can be read is never lost, wherever replacing and repairing are
\* interrupted, as long as no two windows handle the files of one another.
THEOREM ReportsKept == MCSpec => NeverLost
<1>1. ReportInv /\ [json!Next]_jsonVars => [~crossed' /\ json!Held => json!Held']_jsonVars
  BY ReportGuardedStep
<1>2. ReportInv /\ [json!Next]_jsonVars => [~crossed' /\ json!Held => json!Held']_(json!vars)
  BY <1>1 DEF jsonVars, json!vars
<1> QED
  BY <1>2, ReportInvariance, ReportPart, PTL DEF MCSpec, NeverLost, json!NeverLost

-------------------------------------------------------------------------------
(* The records of an earlier release                                         *)

Imported(r) == imported[r] \in {"bare", "full"}

\* One window imports at a time, unless two have overlapped.
Single == ~overlapped => \A v, w \in Process : import!Busy(v) /\ import!Busy(w) => v = w

\* The window has a record at hand while it copies and writes.
HasRecord ==
  \A w \in Process : importing[w].at \in {"copy", "fill", "write"} =>
                        importing[w].record \in OldRecord

\* What an importing window has dealt with is imported: all but the records still to come
\* and the one at hand, which is not; and everything once it removes the old root.
DealtWith ==
  ~overlapped =>
    \A w \in Process, r \in OldRecord :
      /\ importing[w].at = "remove" => Imported(r)
      /\ importing[w].at = "next" /\ r \notin importing[w].left => Imported(r)
      /\ importing[w].at \in {"copy", "fill", "write"} =>
           IF r = importing[w].record THEN ~Imported(r)
                                      ELSE r \in importing[w].left \/ Imported(r)

ImportInv == import!TypeOK /\ import!LegacyKept /\ Single /\ HasRecord /\ DealtWith

\* At first nothing is imported and every old directory is there.
LEMMA ImportInit == import!Init => ImportInv
<1> SUFFICES ASSUME import!Init PROVE ImportInv
  OBVIOUS
<1> USE DEF import!Init, import!Idle
<1>1. import!TypeOK
  <2>1. overlapped \in BOOLEAN
    OBVIOUS
  <2>2. importing \in [Process -> [at : {"idle", "next", "copy", "fill", "write", "remove"},
                                    left : SUBSET OldRecord, record : OldRecord \union {NoId}]]
    OBVIOUS
  <2> QED
    BY <2>1, <2>2 DEF import!TypeOK
<1>2. import!LegacyKept
  BY DEF import!LegacyKept
<1>3. Single /\ HasRecord /\ DealtWith
  BY DEF Single, HasRecord, DealtWith, import!Busy
<1> QED
  BY <1>1, <1>2, <1>3 DEF ImportInv

\* The types, the record at hand, and that windows take turns.
LEMMA ImportTypeStep ==
  ASSUME ImportInv, NEW w \in Process, import!Import(w)
  PROVE  (import!TypeOK /\ Single /\ HasRecord)'
<1> USE DEF ImportInv, import!TypeOK, Single, HasRecord, import!Busy, import!Become,
     import!Idle
<1>1. CASE import!Begin(w)
  <2>1. overlapped' \in BOOLEAN
    BY <1>1, Zenon DEF import!Begin
  <2>2. (import!TypeOK /\ HasRecord)'
    BY <1>1, <2>1 DEF import!Begin
  <2>3. Single'
    BY <1>1 DEF import!Begin
  <2> QED
    BY <2>2, <2>3
<1>2. ASSUME NEW r \in OldRecord, import!Take(w, r) \/ import!Refuse(w, r)
      PROVE  (import!TypeOK /\ Single /\ HasRecord)'
  BY <1>2 DEF import!Take, import!Refuse, import!Store
<1>3. CASE import!CopyDirectory(w)
  BY <1>3 DEF import!CopyDirectory, import!Store, import!Step
<1>4. CASE import!WriteReport(w)
  BY <1>4 DEF import!WriteReport, import!Store, import!Step
<1>5. CASE import!StartRemoval(w)
  BY <1>5 DEF import!StartRemoval, import!Step
<1>6. CASE import!RemoveFile(w)
  BY <1>6 DEF import!RemoveFile
<1>7. CASE import!End(w) \/ import!Stop(w)
  BY <1>7 DEF import!End, import!Stop
<1> QED
  BY <1>1, <1>2, <1>3, <1>4, <1>5, <1>6, <1>7 DEF import!Import

\* Nothing is lost while one window imports at a time.
LEMMA ImportKeptStep ==
  ASSUME ImportInv, NEW w \in Process, import!Import(w), ~overlapped'
  PROVE  (import!LegacyKept /\ DealtWith)'
<1> USE DEF ImportInv, import!TypeOK, import!Busy, import!Become, import!Idle,
     import!LegacyKept, DealtWith, Imported
<1>1. ~overlapped
  BY DEF import!Import, import!Begin, import!CopyDirectory, import!WriteReport,
       import!StartRemoval, import!RemoveFile, import!End, import!Stop,
         import!Take, import!Refuse
<1>2. CASE import!Begin(w)
  BY <1>1, <1>2 DEF import!Begin
<1>3. import!Busy(w) \/ import!Begin(w)
  BY DEF import!Import, import!CopyDirectory, import!WriteReport, import!StartRemoval,
       import!RemoveFile, import!End, import!Stop, import!Take, import!Refuse
<1>4. import!Busy(w) => \A v \in Process \ {w} : importing[v].at = "idle"
  BY <1>1 DEF Single
<1>5. ASSUME NEW r \in OldRecord, import!Take(w, r) PROVE (import!LegacyKept /\ DealtWith)'
  BY <1>1, <1>4, <1>5 DEF import!Take, import!Store
<1>6. ASSUME NEW r \in OldRecord, import!Refuse(w, r) PROVE (import!LegacyKept /\ DealtWith)'
  BY <1>1, <1>4, <1>6 DEF import!Refuse
<1>7. CASE import!CopyDirectory(w)
  <2>1. importing[w].record \in OldRecord
    BY <1>7 DEF HasRecord, import!CopyDirectory
  <2> QED
    BY <1>1, <1>4, <1>7, <2>1 DEF import!CopyDirectory, import!Store, import!Step
<1>8. CASE import!WriteReport(w)
  <2>1. importing[w].record \in OldRecord
    BY <1>8 DEF HasRecord, import!WriteReport
  <2> QED
    BY <1>1, <1>4, <1>8, <2>1 DEF import!WriteReport, import!Store, import!Step
<1>9. CASE import!StartRemoval(w)
  BY <1>1, <1>4, <1>9 DEF import!StartRemoval, import!Step
<1>10. CASE import!RemoveFile(w)
  BY <1>1, <1>4, <1>10 DEF import!RemoveFile
<1>11. CASE import!End(w) \/ import!Stop(w)
  BY <1>1, <1>4, <1>11 DEF import!End, import!Stop
<1> QED
  BY <1>2, <1>5, <1>6, <1>7, <1>8, <1>9, <1>10, <1>11 DEF import!Import

\* The windows import in a part of their own.
LEMMA ImportPart ==
  /\ MCInit => import!Init
  /\ [MCNext]_<<part, vars, jsonVars, importVars, secretVars, backupVars, baselineVars>> =>
       [import!Next]_importVars
BY DEF MCInit, MCNext

LEMMA ImportInvariance == MCSpec => []ImportInv
<1>1. ImportInv /\ [import!Next]_importVars => ImportInv'
  <2>1. ImportInv /\ UNCHANGED importVars => ImportInv'
    BY DEF ImportInv, import!TypeOK, import!LegacyKept, Single, HasRecord, DealtWith,
         importVars, import!Busy, Imported
  <2>2. ASSUME ImportInv, NEW w \in Process, import!Import(w) PROVE ImportInv'
    <3>1. (import!TypeOK /\ Single /\ HasRecord)'
      BY <2>2, ImportTypeStep
    <3>2. overlapped' => (import!LegacyKept /\ DealtWith)'
      BY DEF import!LegacyKept, DealtWith
    <3>3. ~overlapped' => (import!LegacyKept /\ DealtWith)'
      BY <2>2, ImportKeptStep
    <3> QED
      BY <3>1, <3>2, <3>3 DEF ImportInv
  <2> QED
    BY <2>1, <2>2 DEF import!Next
<1> QED
  BY ImportInit, <1>1, ImportPart, PTL DEF MCSpec

\* Until a record's import is complete its old directory stays (importLegacyRoot), provided
\* no two windows imported at once.
THEOREM NoRecordLost == MCSpec => []LegacyKept
<1>1. ImportInv => LegacyKept
  BY DEF ImportInv, LegacyKept, import!LegacyKept
<1> QED
  BY <1>1, ImportInvariance, PTL

-------------------------------------------------------------------------------
(* The stored credentials                                                    *)

\* A migration about to delete the old value has an endpoint that holds a value, unless
\* the user deleted one.
DeletesLast ==
  \A w \in Process :
    phase[w] = "delete" => forgotten \/ \E e \in candidates[w] : saved[e] # "none"

\* A migration that is under way has an endpoint.
HasEndpoint ==
  \A w \in Process : phase[w] \in {"read", "look", "store"} => candidates[w] # {}

SecretInv == secrets!TypeOK /\ secrets!CredentialKept /\ DeletesLast /\ HasEndpoint

\* The initial state keeps the old value and migrates nothing.
LEMMA SecretInit == secrets!Init => SecretInv
<1> SUFFICES ASSUME secrets!Init PROVE SecretInv
  OBVIOUS
<1>1. secrets!TypeOK
  <2>1. waiting \in [Process -> 0..secrets!MaxMigrations]
    <3>1. 0 \in 0..secrets!MaxMigrations
      BY DEF secrets!MaxMigrations
    <3> QED
      BY <3>1 DEF secrets!Init
  <2>2. forgotten \in BOOLEAN
    BY DEF secrets!Init
  <2> QED
    BY <2>1, <2>2, Zenon DEF secrets!Init, secrets!TypeOK
<1>2. secrets!CredentialKept
  BY DEF secrets!Init, secrets!CredentialKept
<1>3. DeletesLast /\ HasEndpoint
  BY DEF secrets!Init, DeletesLast, HasEndpoint
<1> QED
  BY <1>1, <1>2, <1>3 DEF SecretInv

\* A set with one element is not empty.
LEMMA OneIsSome == ASSUME NEW S, secrets!Cardinality(S) = 1 PROVE S # {}
<1>1. secrets!Cardinality(S) = Cardinality(S)
  BY DEF secrets!Cardinality, Cardinality
<1> QED
  BY <1>1, FS_EmptySet

\* Every step keeps the types: they are needed where functions are updated.
LEMMA SecretTypeStep == SecretInv /\ [secrets!Next]_secretVars => secrets!TypeOK'
<1> SUFFICES ASSUME SecretInv, [secrets!Next]_secretVars PROVE secrets!TypeOK'
  OBVIOUS
<1> USE DEF SecretInv, secrets!TypeOK, secrets!MaxMigrations
<1>1. ASSUME NEW w \in Process, secrets!Migrate(w) PROVE secrets!TypeOK'
  <2>1. CASE secrets!Request(w)
    BY <2>1 DEF secrets!Request
  <2>2. CASE secrets!Enter(w)
    BY <2>2 DEF secrets!Enter, secrets!Go
  <2>3. CASE \/ secrets!ReadOld(w) \/ secrets!Look(w) \/ secrets!StoreOld(w)
             \/ secrets!DeleteOld(w) \/ secrets!Fail(w)
    BY <2>3 DEF secrets!ReadOld, secrets!Look, secrets!StoreOld, secrets!DeleteOld,
         secrets!Fail, secrets!Go
  <2>4. CASE secrets!Reload(w)
    BY <2>4 DEF secrets!Reload, secrets!Go
  <2> QED
    BY <1>1, <2>1, <2>2, <2>3, <2>4 DEF secrets!Migrate
<1>2. ASSUME NEW e \in Endpoint, secrets!Save(e) \/ secrets!Delete(e) PROVE secrets!TypeOK'
  BY <1>2 DEF secrets!Save, secrets!Delete
<1>3. CASE secrets!DeleteLegacy
  BY <1>3 DEF secrets!DeleteLegacy
<1>4. CASE UNCHANGED secretVars
  BY <1>4 DEF secretVars
<1> QED
  BY <1>1, <1>2, <1>3, <1>4 DEF secrets!Next

\* A migrating window keeps a value in the storage and an endpoint for what it holds.
LEMMA MigrateStep ==
  ASSUME SecretInv, NEW w \in Process, secrets!Migrate(w)
  PROVE  (secrets!CredentialKept /\ DeletesLast /\ HasEndpoint)'
<1> USE DEF SecretInv, secrets!TypeOK, secrets!CredentialKept, DeletesLast, HasEndpoint
<1>1. CASE secrets!Request(w)
  BY <1>1 DEF secrets!Request
<1>2. CASE secrets!Enter(w)
  BY <1>2, OneIsSome DEF secrets!Enter, secrets!Go
<1>3. CASE secrets!ReadOld(w)
  BY <1>3 DEF secrets!ReadOld, secrets!Go
<1>4. CASE secrets!Look(w)
  <2>1. PICK e \in candidates[w] :
               secrets!Go(w, IF saved[e] = "none" THEN "store" ELSE "delete")
    BY <1>4 DEF secrets!Look
  <2> QED
    BY <1>4, <2>1 DEF secrets!Look, secrets!Go
<1>5. CASE secrets!StoreOld(w)
  <2>1. PICK e \in candidates[w] : saved'[e] = "old"
    BY <1>5 DEF secrets!StoreOld
  <2>2. \A e2 \in Endpoint : saved[e2] # "none" => saved'[e2] # "none"
    BY <1>5 DEF secrets!StoreOld
  <2> QED
    BY <1>5, <2>1, <2>2 DEF secrets!StoreOld, secrets!Go
<1>6. CASE secrets!DeleteOld(w)
  BY <1>6 DEF secrets!DeleteOld, secrets!Go
<1>7. CASE secrets!Fail(w)
  BY <1>7 DEF secrets!Fail, secrets!Go
<1>8. CASE secrets!Reload(w)
  BY <1>8 DEF secrets!Reload, secrets!Go
<1> QED
  BY <1>1, <1>2, <1>3, <1>4, <1>5, <1>6, <1>7, <1>8 DEF secrets!Migrate

\* So do saving and deleting, the deletions by being remembered.
LEMMA OtherUse ==
  ASSUME SecretInv,
         \/ secrets!DeleteLegacy \/ UNCHANGED secretVars
         \/ \E e \in Endpoint : secrets!Save(e) \/ secrets!Delete(e)
  PROVE  (secrets!CredentialKept /\ DeletesLast /\ HasEndpoint)'
<1> USE DEF SecretInv, secrets!TypeOK, secrets!CredentialKept, DeletesLast, HasEndpoint
<1>1. ASSUME NEW e \in Endpoint, secrets!Save(e)
      PROVE  (secrets!CredentialKept /\ DeletesLast /\ HasEndpoint)'
  <2>1. \A e2 \in Endpoint : saved[e2] # "none" => saved'[e2] # "none"
    BY <1>1 DEF secrets!Save
  <2> QED
    BY <1>1, <2>1 DEF secrets!Save
<1>2. ASSUME NEW e \in Endpoint, secrets!Delete(e)
      PROVE  (secrets!CredentialKept /\ DeletesLast /\ HasEndpoint)'
  BY <1>2 DEF secrets!Delete
<1>3. CASE secrets!DeleteLegacy
  BY <1>3 DEF secrets!DeleteLegacy
<1>4. CASE UNCHANGED secretVars
  BY <1>4 DEF secretVars
<1> QED
  BY <1>1, <1>2, <1>3, <1>4

\* The windows migrate passwords in a part of their own.
LEMMA SecretPart ==
  /\ MCInit => secrets!Init
  /\ [MCNext]_<<part, vars, jsonVars, importVars, secretVars, backupVars, baselineVars>> =>
       [secrets!Next]_secretVars
BY DEF MCInit, MCNext

LEMMA SecretInvariance == MCSpec => []SecretInv
<1>1. SecretInv /\ [secrets!Next]_secretVars => SecretInv'
  BY SecretTypeStep, MigrateStep, OtherUse DEF secrets!Next, SecretInv
<1> QED
  BY SecretInit, <1>1, SecretPart, PTL DEF MCSpec

\* Until the user deletes a secret, the old one is still there or an endpoint has one,
\* whatever windows migrate, fail or reload (migrateLegacyCredentials).
THEOREM NoCredentialLost == MCSpec => []CredentialKept
<1>1. SecretInv => CredentialKept
  BY DEF SecretInv, CredentialKept, secrets!CredentialKept
<1> QED
  BY <1>1, SecretInvariance, PTL

-------------------------------------------------------------------------------
(* The backups of remote files                                               *)

\* A backup's number tells how many had been made.
Numbered == \A x \in copies : x.number \in 1..made

\* A file that the extension is about to replace or delete does not exist, was changed by
\* others or reported as not copied, waits for its copy, or has one.
CopiedFirst ==
  versions > 1 /\ doing.name \in {"copy", "finish"} =>
    \A f \in doing.files :
      \/ content[f] = NoId \/ f \in foreign
      \/ doing.name = "copy" /\ f \in doing.left
      \/ \E x \in copies : x.file = f /\ x.text = content[f]

BackupOp == [name: {"rest", "copy", "finish"}, files: SUBSET FileName, left: SUBSET FileName,
             write: Text \union {NoId}, priority: backups!Priority]

BackupInv ==
  /\ backups!TypeOK /\ Numbered /\ CopiedFirst
  /\ doing \in BackupOp

\* The largest of a set is among its largest ones, however few are asked for.
LEMMA LargestOfAll ==
  ASSUME NEW S \in SUBSET Int, NEW m \in S, \A y \in S : y <= m, NEW n \in Nat \ {0}
  PROVE  m \in backups!Largest(S, n)
<1>1. {y \in S : y > m} = {}
  <2>1. \A y \in S : ~(y > m)
    <3>1. \A y \in S : y \in Int /\ m \in Int
      OBVIOUS
    <3> QED
      BY <3>1
  <2> QED
    BY <2>1
<1>2. backups!Cardinality({}) = 0
  <2>1. backups!Cardinality({}) = Cardinality({})
    BY DEF backups!Cardinality, Cardinality
  <2> QED
    BY <2>1, FS_EmptySet
<1>3. m \in S /\ backups!Cardinality({y \in S : y > m}) < n
  BY <1>1, <1>2
<1> QED
  BY <1>3 DEF backups!Largest

\* With two versions or more the newest backup is chosen to stay (selectBackupsToKeep).
LEMMA NewestChosen ==
  ASSUME NEW B, NEW new \in B, \A x \in B : x.number \in Nat /\ x.number <= new.number,
         versions \in Nat, versions > 1
  PROVE  new.number \in backups!Chosen(B)
<1> DEFINE all == backups!Numbers(B)
<1> DEFINE first == {backups!Min(all)}
<1> DEFINE recent == backups!Largest(all, Recent)
<1>1. all \in SUBSET Int /\ new.number \in all /\ \A y \in all : y <= new.number
  BY DEF backups!Numbers
<1>2. new.number \in recent /\ recent \subseteq all
  <2>1. Recent \in Nat \ {0}
    BY SharedAssumption
  <2> HIDE DEF all
  <2>2. new.number \in recent
    BY <1>1, <2>1, LargestOfAll
  <2> QED
    BY <2>2 DEF backups!Largest
<1>3. new.number \in backups!Fill(first, recent)
  <2>1. versions - backups!Cardinality(first) \in Nat \ {0}
    <3>1. backups!Cardinality(first) = Cardinality(first)
      BY DEF backups!Cardinality, Cardinality
    <3>2. Cardinality(first) = 1
      BY FS_Singleton
    <3> QED
      BY <3>1, <3>2
  <2> HIDE DEF all, first, recent
  <2>2. ASSUME new.number \notin first
        PROVE  new.number \in backups!Largest(recent \ first,
                                              versions - backups!Cardinality(first))
    <3>1. recent \ first \in SUBSET Int /\ new.number \in recent \ first
          /\ \A y \in recent \ first : y <= new.number
      BY <1>1, <1>2, <2>2
    <3> QED
      BY <2>1, <3>1, LargestOfAll
  <2> QED
    BY <2>2 DEF backups!Fill
<1> HIDE DEF recent
<1>4. \A more : new.number \in backups!Fill(backups!Fill(first, recent), more)
  BY <1>3 DEF backups!Fill
<1> QED
  BY <1>4 DEF backups!Chosen, recent

LEMMA RestTyped == backups!Rest \in BackupOp /\ backups!Rest.name = "rest"
BY DEF backups!Rest, backups!Priority, BackupOp

LEMMA BackupStart == backups!Init => BackupInv
<1> SUFFICES ASSUME backups!Init PROVE BackupInv
  OBVIOUS
<1>1. versions \in Limit /\ content \in [FileName -> Text] /\ made = 0 /\ copies = {}
      /\ doing = backups!Rest /\ foreign = {}
  BY DEF backups!Init
<1>2. doing \in BackupOp
  BY <1>1, RestTyped
<1>3. backups!TypeOK
  BY <1>1, <1>2, SharedAssumption DEF backups!TypeOK, BackupOp
<1>4. Numbered /\ CopiedFirst
  BY <1>1 DEF Numbered, CopiedFirst, backups!Rest
<1> QED
  BY <1>2, <1>3, <1>4 DEF BackupInv

\* A copy is among the backups after the thinning out, and those of other files stay.
LEMMA CopyEffect ==
  ASSUME BackupInv, NEW f \in FileName, backups!Copy(f)
  PROVE  /\ made' = made + 1 /\ made' \in 0..MaxMade /\ foreign' = foreign \ {f}
         /\ content[f] # NoId
         /\ copies' \in SUBSET backups!Backup /\ Numbered'
         /\ \A x \in copies : x.file # f => x \in copies'
         /\ versions > 1 => \E x \in copies' : x.file = f /\ x.text = content[f]
<1> DEFINE new == [number |-> made + 1, file |-> f, text |-> content[f],
                   priority |-> doing.priority]
<1> DEFINE all == backups!Of(f) \union {new}
<1>1. /\ made \in Nat /\ made + 1 \in 1..MaxMade /\ versions \in Nat
      /\ copies \subseteq backups!Backup
      /\ content[f] \in Text
  BY SharedAssumption DEF BackupInv, backups!TypeOK, backups!Copy
<1>2. new \in backups!Backup /\ new.number = made + 1 /\ new.file = f /\ new.text = content[f]
  BY <1>1 DEF BackupInv, backups!TypeOK, backups!Backup
<1>3. PICK gone \in SUBSET {x \in all : x.number \notin backups!Chosen(all)} :
             copies' = (copies \union {new}) \ gone
  BY DEF backups!Copy, backups!Pruned
<1>4. \A x \in all : x.file = f
  BY <1>2 DEF backups!Of
<1>5. \A x \in all : x.number \in Nat /\ x.number <= new.number
  <2>1. \A x \in copies : x.number \in Nat /\ x.number <= made + 1
    BY <1>1 DEF BackupInv, Numbered
  <2> QED
    BY <1>1, <1>2, <2>1 DEF backups!Of
<1>6. versions > 1 => new.number \in backups!Chosen(all)
  <2> HIDE DEF new
  <2> QED
    BY <1>1, <1>5, NewestChosen
<1>7. made' = made + 1 /\ foreign' = foreign \ {f} /\ content[f] # NoId
  BY DEF backups!Copy
<1> HIDE DEF new, all
<1>8. \A x \in copies' : x \in copies \/ x = new
  BY <1>3
<1>9. Numbered'
  BY <1>1, <1>2, <1>7, <1>8 DEF BackupInv, Numbered
<1>10. versions > 1 => new \in copies'
  BY <1>3, <1>6
<1> QED
  BY <1>1, <1>2, <1>3, <1>4, <1>7, <1>8, <1>9, <1>10

\* What the operation goes on with after the copy of a file.
AfterCopy(f) == [doing EXCEPT !.left = @ \ {f},
                              !.name = IF doing.left = {f} THEN "finish" ELSE "copy"]

LEMMA AfterCopyFields ==
  ASSUME BackupInv, NEW f \in FileName, f \in doing.left
  PROVE  /\ AfterCopy(f) \in BackupOp
         /\ AfterCopy(f).files = doing.files
         /\ \A g \in doing.left : g # f => /\ AfterCopy(f).name = "copy"
                                          /\ g \in AfterCopy(f).left
<1>1. DOMAIN doing = {"name", "files", "left", "write", "priority"}
  BY DEF BackupInv, BackupOp
<1> QED
  BY <1>1 DEF BackupInv, BackupOp, AfterCopy

LEMMA BackupStep == ASSUME BackupInv, [backups!Next]_backupVars PROVE BackupInv'
<1>0. /\ versions \in Nat /\ content \in [FileName -> Text \union {NoId}]
      /\ made \in 0..MaxMade /\ copies \in SUBSET backups!Backup /\ foreign \subseteq FileName
      /\ doing \in BackupOp
  BY SharedAssumption DEF BackupInv, backups!TypeOK
<1> DEFINE Typed == /\ versions' = versions /\ content' \in [FileName -> Text \union {NoId}]
                    /\ made' \in 0..MaxMade /\ copies' \in SUBSET backups!Backup
                    /\ foreign' \subseteq FileName
                    /\ doing' \in BackupOp
<1> DEFINE Goal == Typed /\ Numbered' /\ CopiedFirst'
<1>1. ASSUME NEW f \in FileName, NEW text \in Text, NEW q \in backups!Priority,
             backups!BeginReplace(f, text, q)
      PROVE  Goal
  <2>1. /\ doing' = [name |-> IF content[f] = NoId THEN "finish" ELSE "copy", files |-> {f},
                     left |-> {f}, write |-> text, priority |-> q]
        /\ versions' = versions /\ content' = content /\ made' = made /\ copies' = copies
        /\ foreign' = foreign
    BY <1>1 DEF backups!BeginReplace
  <2>2. CopiedFirst'
    BY <2>1 DEF CopiedFirst
  <2> QED
    BY <1>0, <2>1, <2>2 DEF BackupInv, BackupOp, Numbered
<1>2. ASSUME NEW f \in FileName, doing.name = "copy", f \in doing.left, backups!Copy(f),
             doing' = AfterCopy(f), versions' = versions, content' = content
      PROVE  Goal
  <2>1. ASSUME versions > 1, NEW g \in doing.files
        PROVE  \/ content'[g] = NoId \/ g \in foreign'
               \/ doing'.name = "copy" /\ g \in doing'.left
               \/ \E x \in copies' : x.file = g /\ x.text = content'[g]
    <3>1. CASE g = f
      BY <1>2, <2>1, <3>1, CopyEffect
    <3>2. CASE g # f
      <4>1. \/ content[g] = NoId \/ g \in foreign
            \/ g \in doing.left
            \/ \E x \in copies : x.file = g /\ x.text = content[g]
        BY <1>2, <2>1 DEF BackupInv, CopiedFirst
      <4>2. g \in doing.left => doing'.name = "copy" /\ g \in doing'.left
        BY <1>2, <3>2, AfterCopyFields
      <4>3. g \in foreign => g \in foreign'
        BY <1>2, <3>2, CopyEffect
      <4>4. ASSUME NEW x \in copies, x.file = g PROVE x \in copies'
        BY <1>2, <3>2, <4>4, CopyEffect
      <4> QED
        BY <1>2, <4>1, <4>2, <4>3, <4>4
    <3> QED
      BY <3>1, <3>2
  <2>2. doing'.files = doing.files /\ doing' \in BackupOp
    BY <1>2, AfterCopyFields
  <2>3. CopiedFirst'
    BY <1>2, <2>1, <2>2 DEF CopiedFirst
  <2>4. Typed
    BY <1>0, <1>2, <2>2, CopyEffect
  <2> QED
    BY <1>2, <2>3, <2>4, CopyEffect
<1>3. ASSUME NEW f \in FileName, doing.name = "copy", f \in doing.left, backups!Uncopied(f),
             doing' = backups!Rest \/ (doing' = AfterCopy(f) /\ doing.write # NoId),
             versions' = versions, content' = content
      PROVE  Goal
  <2>1. /\ made' = made /\ copies' = copies
        /\ foreign' = IF doing.write = NoId THEN foreign ELSE foreign \union {f}
    BY <1>3 DEF backups!Uncopied, backups!Deleting
  <2>2. ASSUME versions > 1, doing' # backups!Rest, NEW g \in doing.files
        PROVE  \/ content'[g] = NoId \/ g \in foreign'
               \/ doing'.name = "copy" /\ g \in doing'.left
               \/ \E x \in copies' : x.file = g /\ x.text = content'[g]
    <3>1. CASE g = f
      BY <1>3, <2>1, <2>2, <3>1
    <3>2. CASE g # f
      <4>1. \/ content[g] = NoId \/ g \in foreign
            \/ g \in doing.left
            \/ \E x \in copies : x.file = g /\ x.text = content[g]
        BY <1>3, <2>2 DEF BackupInv, CopiedFirst
      <4>2. g \in doing.left => doing'.name = "copy" /\ g \in doing'.left
        BY <1>3, <2>2, <3>2, AfterCopyFields
      <4> QED
        BY <1>3, <2>1, <4>1, <4>2
    <3> QED
      BY <3>1, <3>2
  <2>3. doing' # backups!Rest => doing'.files = doing.files
    BY <1>3, AfterCopyFields
  <2>4. doing' \in BackupOp
    BY <1>3, AfterCopyFields, RestTyped
  <2>5. CopiedFirst'
    BY <1>3, <2>2, <2>3, RestTyped DEF CopiedFirst
  <2>6. Typed
    BY <1>0, <1>3, <2>1, <2>4
  <2> QED
    BY <2>1, <2>5, <2>6 DEF BackupInv, Numbered
<1>4. ASSUME NEW f \in FileName, backups!Foreign(f) PROVE Goal
  <2>1. PICK text \in Text : content' = [content EXCEPT ![f] = text]
    BY <1>4 DEF backups!Foreign
  <2>2. /\ foreign' = foreign \union {f} /\ versions' = versions /\ made' = made
        /\ copies' = copies /\ doing' = doing
    BY <1>4 DEF backups!Foreign
  <2>3. CopiedFirst'
    BY <1>0, <2>1, <2>2 DEF BackupInv, CopiedFirst
  <2> QED
    BY <1>0, <2>1, <2>2, <2>3 DEF BackupInv, Numbered
<1>5. ASSUME NEW x \in copies, backups!Discard(x) PROVE Goal
  BY <1>0, <1>5, RestTyped DEF backups!Discard, BackupInv, Numbered, CopiedFirst
<1>6. ASSUME NEW files \in SUBSET FileName, backups!BeginDelete(files) PROVE Goal
  <2>1. /\ doing' = [name |-> "copy", files |-> files,
                     left |-> {f \in files : content[f] # NoId}, write |-> NoId,
                     priority |-> "normal"]
        /\ versions' = versions /\ content' = content /\ made' = made /\ copies' = copies
        /\ foreign' = foreign
    BY <1>6 DEF backups!BeginDelete, backups!Rest
  <2>2. CopiedFirst'
    BY <2>1 DEF CopiedFirst
  <2>3. Typed
    BY <1>0, <2>1 DEF backups!Priority, BackupOp
  <2> QED
    BY <2>1, <2>2, <2>3 DEF BackupInv, Numbered
<1>7. ASSUME backups!FinishOp PROVE Goal
  <2>1. /\ doing' = backups!Rest /\ versions' = versions /\ made' = made /\ copies' = copies
        /\ foreign' = foreign
        /\ content' = [f \in FileName |-> IF f \in doing.files THEN doing.write ELSE content[f]]
    BY <1>7 DEF backups!FinishOp
  <2> QED
    BY <1>0, <2>1, RestTyped DEF BackupInv, BackupOp, Numbered, CopiedFirst
<1>8. ASSUME UNCHANGED backupVars PROVE Goal
  BY <1>0, <1>8 DEF backupVars, BackupInv, Numbered, CopiedFirst
<1>9. Goal
  <2>1. ASSUME NEW x \in copies, backups!Restore(x) PROVE Goal
    <3>1. x.file \in FileName /\ x.text \in Text /\ "normal" \in backups!Priority
      BY <1>0 DEF backups!Backup, backups!Priority
    <3> HIDE DEF Goal
    <3> QED
      BY <1>1, <2>1, <3>1 DEF backups!Restore
  <2>2. ASSUME NEW f \in FileName, backups!Upload(f) PROVE Goal
    BY <1>1, <2>2 DEF backups!Upload
  <2>3. ASSUME NEW f \in FileName, backups!CopyNext(f) PROVE Goal
    <3>1. /\ doing.name = "copy" /\ f \in doing.left /\ versions' = versions
          /\ content' = content
          /\ \/ backups!Copy(f) /\ doing' = AfterCopy(f)
             \/ /\ backups!Uncopied(f)
                /\ doing' = backups!Rest \/ (doing' = AfterCopy(f) /\ doing.write # NoId)
      <4>1. /\ doing.name = "copy" /\ f \in doing.left /\ versions' = versions
            /\ content' = content
            /\ \/ backups!Copy(f) /\ doing' = AfterCopy(f)
               \/ /\ backups!Uncopied(f)
                  /\ doing' \in (IF backups!Deleting THEN {} ELSE {AfterCopy(f)})
                                \union {backups!Rest}
        BY <2>3, Zenon DEF backups!CopyNext, AfterCopy
      <4>2. CASE backups!Deleting
        <5>1. (IF backups!Deleting THEN {} ELSE {AfterCopy(f)}) \union {backups!Rest}
                = {backups!Rest}
          BY <4>2
        <5> QED
          BY <4>1, <5>1, Zenon
      <4>3. CASE ~backups!Deleting
        <5>1. doing.write # NoId
          BY <4>3 DEF backups!Deleting
        <5> QED
          BY <4>1, <4>3, <5>1, Zenon
      <4> QED
        BY <4>2, <4>3
    <3> HIDE DEF Goal
    <3> QED
      BY <1>2, <1>3, <2>3, <3>1
  <2> HIDE DEF Goal
  <2>4. ASSUME NEW files \in {{f} : f \in FileName} \union {FileName},
               backups!BeginDelete(files)
        PROVE  Goal
    BY <1>6, <2>4
  <2> QED
    BY <1>4, <1>5, <1>7, <1>8, <2>1, <2>2, <2>3, <2>4 DEF backups!Next
<1> QED
  <2>1. versions' \in Limit
    BY <1>9 DEF BackupInv, backups!TypeOK
  <2> QED
    BY <1>9, <2>1 DEF BackupInv, BackupOp, backups!TypeOK

\* The windows back files up in a part of their own.
LEMMA BackupPart ==
  /\ MCInit => backups!Init
  /\ [MCNext]_<<part, vars, jsonVars, importVars, secretVars, backupVars, baselineVars>> =>
       [backups!Next]_backupVars
BY DEF MCInit, MCNext

LEMMA BackupInvariance == MCSpec => []BackupInv
<1>1. BackupInv /\ [backups!Next]_backupVars => BackupInv'
  BY BackupStep
<1> QED
  BY <1>1, BackupStart, BackupPart, PTL DEF MCSpec

\* What an upload, a restore or a deletion replaces has been copied and was not thinned out
\* since (backup.ts), for any files, contents and limits of two versions or more, unless
\* others changed it after the copy or the user was warned that there is none.
THEOREM ReplacedIsCopied == MCSpec => BackupKept
<1> DEFINE Covered ==
      \A f \in FileName :
        /\ doing.name = "finish" /\ content'[f] # content[f] /\ doing' = backups!Rest
        /\ content[f] # NoId /\ versions > 1 /\ f \notin foreign
        => \E x \in copies : x.file = f /\ x.text = content[f]
<1>1. BackupInv /\ [backups!Next]_backupVars => [Covered]_(backups!vars)
  <2> SUFFICES ASSUME BackupInv, backups!Next, NEW f \in FileName,
                      doing.name = "finish", content'[f] # content[f], doing' = backups!Rest,
                      content[f] # NoId, versions > 1, f \notin foreign
               PROVE  \E x \in copies : x.file = f /\ x.text = content[f]
    BY DEF backupVars, backups!vars
  <2>1. backups!FinishOp
    BY RestTyped
       DEF backups!Next, backups!Upload, backups!Restore, backups!BeginReplace, backups!Foreign,
           backups!CopyNext, backups!Discard, backups!BeginDelete, backups!Rest
  <2>2. f \in doing.files
    BY <2>1 DEF backups!FinishOp
  <2> QED
    BY <2>2 DEF BackupInv, CopiedFirst
<1> QED
  BY <1>1, BackupInvariance, BackupPart, PTL DEF MCSpec, BackupKept, backups!BackupKept

-------------------------------------------------------------------------------
(* The baselines of uploads                                                  *)

Job == [stage : baseline!Stage, name : FileName \union {NoId}, seen : Nat, waits : Nat]
Entry == [name : FileName, version : Nat]

\* No version is newer than the last one made, and a transfer under way has its file.
Versions ==
  /\ last \in Nat /\ unseen \subseteq FileName
  /\ remote \in [FileName -> Nat] /\ local \in [FileName -> Nat] /\ baselines \in [FileName -> Nat]
  /\ writes \in Seq(Entry) /\ job \in [Transfer -> Job]
  /\ \A n \in FileName : remote[n] <= last /\ local[n] <= last /\ baselines[n] <= last
  /\ \A i \in 1..Len(writes) : writes[i].version <= last
  /\ \A t \in Transfer : job[t].seen <= last /\ (job[t].stage # "rest" => job[t].name \in FileName)

\* What nobody has seen is recorded nowhere, and who works on its file has not come further
\* than asking, or downloads it.
Unrecorded ==
  \A n \in unseen :
    /\ remote[n] # 0 /\ local[n] # remote[n] /\ baselines[n] # remote[n]
    /\ \A i \in 1..Len(writes) : writes[i].name = n => writes[i].version # remote[n]
    /\ \A t \in Transfer : job[t].stage # "rest" /\ job[t].name = n =>
                             /\ job[t].stage \in {"baseline", "ask", "get"}
                             /\ job[t].seen = remote[n]

BaselineInv == Versions /\ Unrecorded

LEMMA BaselineStart == baseline!Init => BaselineInv
<1> SUFFICES ASSUME baseline!Init PROVE BaselineInv
  OBVIOUS
<1>1. Versions
  BY DEF baseline!Init, baseline!Idle, baseline!Stage, Versions, Job, Entry
<1>2. Unrecorded
  BY DEF baseline!Init, Unrecorded
<1> QED
  BY <1>1, <1>2 DEF BaselineInv

\* The first of the writes, and what waits behind it.
LEMMA WritesTail ==
  ASSUME NEW S, NEW s \in Seq(S), s # <<>>
  PROVE  /\ Head(s) \in S /\ Tail(s) \in Seq(S) /\ Head(s) = s[1] /\ 1 \in 1..Len(s)
         /\ \A i \in 1..Len(Tail(s)) : Tail(s)[i] = s[i + 1] /\ i + 1 \in 1..Len(s)
OBVIOUS

LEMMA WritesAppend ==
  ASSUME NEW S, NEW s \in Seq(S), NEW e \in S
  PROVE  /\ Append(s, e) \in Seq(S)
         /\ \A i \in 1..Len(Append(s, e)) :
              Append(s, e)[i] = e \/ (i \in 1..Len(s) /\ Append(s, e)[i] = s[i])
OBVIOUS

\* A step that records nothing, or a version of a file that was seen.
LEMMA EnqueueStep ==
  ASSUME BaselineInv, NEW n \in FileName, n \notin unseen, NEW v \in Nat, v <= last,
         writes' = writes \/ writes' = Append(writes, [name |-> n, version |-> v])
  PROVE  /\ writes' \in Seq(Entry) /\ \A i \in 1..Len(writes') : writes'[i].version <= last
         /\ \A m \in unseen : \A i \in 1..Len(writes') :
              writes'[i].name = m => writes'[i].version # remote[m]
<1>1. writes \in Seq(Entry) /\ \A i \in 1..Len(writes) : writes[i].version <= last
  BY DEF BaselineInv, Versions
<1>2. \A m \in unseen : \A i \in 1..Len(writes) :
         writes[i].name = m => writes[i].version # remote[m]
  BY DEF BaselineInv, Unrecorded
<1>3. CASE writes' = writes
  BY <1>1, <1>2, <1>3
<1>4. CASE writes' = Append(writes, [name |-> n, version |-> v])
  <2> DEFINE e == [name |-> n, version |-> v]
  <2>1. e \in Entry /\ e.version = v /\ e.name = n
    BY DEF Entry
  <2> HIDE DEF e
  <2>2. /\ writes' \in Seq(Entry)
        /\ \A i \in 1..Len(writes') :
             writes'[i] = e \/ (i \in 1..Len(writes) /\ writes'[i] = writes[i])
    <3>1. writes' = Append(writes, e)
      BY <1>4 DEF e
    <3> QED
      BY <1>1, <2>1, <3>1, WritesAppend
  <2> QED
    BY <1>1, <1>2, <2>1, <2>2
<1> QED
  BY <1>3, <1>4

LEMMA BaselineStep == ASSUME BaselineInv, [baseline!Next]_baselineVars PROVE BaselineInv'
<1>0. /\ last \in Nat /\ unseen \subseteq FileName
      /\ remote \in [FileName -> Nat] /\ local \in [FileName -> Nat]
      /\ baselines \in [FileName -> Nat]
      /\ writes \in Seq(Entry) /\ job \in [Transfer -> Job]
      /\ \A n \in FileName : remote[n] <= last /\ local[n] <= last /\ baselines[n] <= last
      /\ \A i \in 1..Len(writes) : writes[i].version <= last
      /\ \A t \in Transfer : job[t].seen <= last
                             /\ (job[t].stage # "rest" => job[t].name \in FileName)
  BY DEF BaselineInv, Versions
<1>w. \A i \in 1..Len(writes) :
        writes[i] \in Entry /\ writes[i].version \in Nat /\ writes[i].version <= last
  <2>1. \A i \in 1..Len(writes) : writes[i] \in Entry
    BY <1>0
  <2> QED
    BY <1>0, <2>1 DEF Entry
<1> DEFINE Goal == Versions' /\ Unrecorded'
\* A transfer goes to another stage.
<1>1. ASSUME NEW t \in Transfer, NEW j \in Job, job' = [job EXCEPT ![t] = j]
      PROVE  job' \in [Transfer -> Job] /\ job'[t] = j
             /\ \A o \in Transfer : o # t => job'[o] = job[o]
  BY <1>0, <1>1
<1>2. baseline!Idle \in Job /\ baseline!Idle.stage = "rest" /\ baseline!Idle.seen = 0
  BY DEF baseline!Idle, Job, baseline!Stage
\* Nothing changes but that, what was seen, and what waits to be written.
<1>3. ASSUME NEW t \in Transfer, NEW j \in Job, job' = [job EXCEPT ![t] = j],
             unseen' \subseteq unseen, j.stage # "rest" => j.name \in FileName, j.seen <= last,
             \A n \in unseen' : j.stage # "rest" /\ j.name = n =>
                                  j.stage \in {"baseline", "ask", "get"} /\ j.seen = remote[n],
             writes' \in Seq(Entry), \A i \in 1..Len(writes') : writes'[i].version <= last,
             \A m \in unseen : \A i \in 1..Len(writes') :
               writes'[i].name = m => writes'[i].version # remote[m],
             UNCHANGED <<remote, local, last, baselines>>
      PROVE  Goal
  <2>1. job' \in [Transfer -> Job] /\ job'[t] = j
        /\ \A o \in Transfer : o # t => job'[o] = job[o]
    BY <1>1, <1>3
  <2>2. Versions'
    BY <1>0, <1>3, <2>1 DEF Versions
  <2>3. Unrecorded'
    BY <1>0, <1>3, <2>1 DEF Unrecorded, BaselineInv
  <2> QED
    BY <2>2, <2>3
<1>4. ASSUME UNCHANGED writes
      PROVE  /\ writes' \in Seq(Entry) /\ \A i \in 1..Len(writes') : writes'[i].version <= last
             /\ \A m \in unseen : \A i \in 1..Len(writes') :
                  writes'[i].name = m => writes'[i].version # remote[m]
  BY <1>0, <1>4 DEF BaselineInv, Unrecorded
<1>5. ASSUME NEW t \in Transfer, NEW n \in FileName,
             baseline!Upload(t, n) \/ baseline!Download(t, n)
      PROVE  Goal
  <2> DEFINE to == IF baseline!Download(t, n) THEN "get"
                   ELSE IF remote[n] = 0 THEN "put" ELSE "baseline"
             waits == IF baseline!Download(t, n) THEN 0 ELSE Len(writes)
             j == [stage |-> to, name |-> n, seen |-> remote[n], waits |-> waits]
  <2>1. job' = [job EXCEPT ![t] = j]
    BY <1>5 DEF baseline!Upload, baseline!Download
  <2>2. UNCHANGED <<remote, local, last, baselines, writes, unseen>>
    BY <1>5 DEF baseline!Upload, baseline!Download, baseline!files, baseline!kept
  <2>3. waits \in Nat
    BY <1>0
  <2>4. to \in baseline!Stage
    BY DEF baseline!Stage
  <2>5. n \in unseen => to \in {"baseline", "get"}
    BY DEF BaselineInv, Unrecorded
  <2> HIDE DEF to, waits
  <2>6. j \in Job /\ j.stage = to /\ j.name = n /\ j.seen = remote[n]
    BY <1>0, <2>3, <2>4 DEF Job
  <2>7. remote[n] <= last
    BY <1>0
  <2> HIDE DEF j, Goal
  <2> QED
    BY <1>3, <1>4, <2>1, <2>2, <2>5, <2>6, <2>7
<1>6. ASSUME NEW t \in Transfer, job[t].stage # "rest"
      PROVE  /\ job[t] \in Job /\ job[t].name \in FileName /\ job[t].seen <= last
             /\ \A n \in unseen : job[t].name = n =>
                  job[t].stage \in {"baseline", "ask", "get"} /\ job[t].seen = remote[n]
             /\ \A s \in baseline!Stage :
                  /\ [job[t] EXCEPT !.stage = s] \in Job
                  /\ [job[t] EXCEPT !.stage = s].stage = s
                  /\ [job[t] EXCEPT !.stage = s].name = job[t].name
                  /\ [job[t] EXCEPT !.stage = s].seen = job[t].seen
  <2>1. job[t] \in Job /\ job[t].name \in FileName /\ job[t].seen <= last
    BY <1>0, <1>6
  <2>2. \A n \in unseen : job[t].name = n =>
          job[t].stage \in {"baseline", "ask", "get"} /\ job[t].seen = remote[n]
    BY <1>6 DEF BaselineInv, Unrecorded
  <2> QED
    BY <2>1, <2>2 DEF Job
<1>7. ASSUME NEW t \in Transfer, baseline!Detect(t) PROVE Goal
  <2> DEFINE s == IF baseline!Conflicts(job[t].name, job[t].seen) THEN "ask" ELSE "put"
             j == [job[t] EXCEPT !.stage = s]
  <2>1. /\ job[t].stage = "baseline" /\ job' = [job EXCEPT ![t] = j]
        /\ UNCHANGED <<remote, local, last, baselines, writes, unseen>>
    BY <1>0, <1>7
       DEF baseline!Detect, baseline!At, baseline!Go, baseline!files, baseline!kept
  <2>2. job[t].name \in unseen => s = "ask"
    BY <1>6, <2>1 DEF BaselineInv, Unrecorded, baseline!Conflicts
  <2>3. s \in baseline!Stage
    BY DEF baseline!Stage
  <2> HIDE DEF s
  <2>4. j \in Job /\ j.stage = s /\ j.name = job[t].name /\ j.seen = job[t].seen
    BY <1>6, <2>1, <2>3
  <2>5. /\ job[t].name \in FileName /\ job[t].seen <= last
        /\ \A n \in unseen : job[t].name = n => job[t].seen = remote[n]
    BY <1>6, <2>1
  <2> HIDE DEF j, Goal
  <2>6. \A n \in unseen' : j.stage # "rest" /\ j.name = n =>
                            j.stage \in {"baseline", "ask", "get"} /\ j.seen = remote[n]
    BY <2>1, <2>2, <2>4, <2>5
  <2> QED
    BY <1>3, <1>4, <2>1, <2>4, <2>5, <2>6
<1>8. ASSUME NEW t \in Transfer, baseline!Overwrite(t) PROVE Goal
  <2> DEFINE j == [job[t] EXCEPT !.stage = "put"]
  <2>1. /\ job[t].stage = "ask" /\ job' = [job EXCEPT ![t] = j]
        /\ unseen' = unseen \ {job[t].name}
        /\ UNCHANGED <<remote, local, last, baselines, writes>>
    BY <1>0, <1>8
       DEF baseline!Overwrite, baseline!At, baseline!Go, baseline!See, baseline!files,
           baseline!kept
  <2>2. j \in Job /\ j.name = job[t].name /\ j.seen = job[t].seen
    BY <1>6, <2>1 DEF baseline!Stage
  <2>3. job[t].name \in FileName /\ job[t].seen <= last
    BY <1>6, <2>1
  <2> HIDE DEF j, Goal
  <2>4. \A n \in unseen' : ~(j.stage # "rest" /\ j.name = n)
    BY <2>1, <2>2
  <2> QED
    BY <1>3, <1>4, <2>1, <2>2, <2>3, <2>4
<1>9. ASSUME NEW t \in Transfer, baseline!ShowAgain(t) PROVE Goal
  <2> DEFINE j == [job[t] EXCEPT !.seen = remote[job[t].name]]
  <2>1. /\ job[t].stage = "ask" /\ job' = [job EXCEPT ![t] = j]
        /\ UNCHANGED <<remote, local, last, baselines, writes, unseen>>
    BY <1>0, <1>9 DEF baseline!ShowAgain, baseline!At, baseline!files, baseline!kept
  <2>2. /\ job[t] \in Job /\ job[t].name \in FileName /\ remote[job[t].name] \in Nat
        /\ remote[job[t].name] <= last
    BY <1>0, <1>6, <2>1
  <2>3. /\ j \in Job /\ j.stage = job[t].stage /\ j.name = job[t].name
        /\ j.seen = remote[job[t].name]
    BY <2>2 DEF Job
  <2> HIDE DEF j, Goal
  <2> QED
    BY <1>3, <1>4, <2>1, <2>2, <2>3
<1>10. ASSUME NEW t \in Transfer, baseline!Cancel(t) \/ baseline!Fail(t) PROVE Goal
  <2>1. /\ job' = [job EXCEPT ![t] = baseline!Idle]
        /\ UNCHANGED <<remote, local, last, baselines, writes, unseen>>
    BY <1>10 DEF baseline!Cancel, baseline!Fail, baseline!End, baseline!files, baseline!kept
  <2>2. 0 <= last
    BY <1>0
  <2> HIDE DEF Goal
  <2> QED
    BY <1>2, <1>3, <1>4, <2>1, <2>2
<1>11. ASSUME NEW t \in Transfer, baseline!After(t) \/ baseline!RecordDownload(t) PROVE Goal
  <2> DEFINE n == job[t].name
  <2>1. /\ job' = [job EXCEPT ![t] = baseline!Idle]
        /\ UNCHANGED <<remote, local, last, baselines, unseen>>
        /\ job[t].stage \in {"after", "record"}
        /\ \/ writes' = writes
           \/ writes' = Append(writes, [name |-> n, version |-> remote[n]])
           \/ writes' = Append(writes, [name |-> n, version |-> job[t].seen])
    BY <1>11 DEF baseline!After, baseline!RecordDownload, baseline!End, baseline!Enqueue,
                 baseline!At, baseline!files
  <2>2. n \in FileName /\ n \notin unseen
    BY <1>6, <2>1
  <2>3. PICK v \in Nat : /\ v <= last
                         /\ writes' = writes \/ writes' = Append(writes, [name |-> n, version |-> v])
    <3>1. remote[n] \in Nat /\ remote[n] <= last /\ job[t].seen \in Nat /\ job[t].seen <= last
      BY <1>0, <1>6, <2>1, <2>2 DEF Job
    <3> HIDE DEF n
    <3> QED
      BY <2>1, <3>1
  <2>4. 0 <= last
    BY <1>0
  <2> HIDE DEF n, Goal
  <2>5. /\ writes' \in Seq(Entry) /\ \A i \in 1..Len(writes') : writes'[i].version <= last
        /\ \A m \in unseen : \A i \in 1..Len(writes') :
             writes'[i].name = m => writes'[i].version # remote[m]
    BY <2>2, <2>3, EnqueueStep
  <2> QED
    BY <1>2, <1>3, <2>1, <2>4, <2>5
<1>12. ASSUME NEW t \in Transfer, baseline!Put(t) PROVE Goal
  <2> DEFINE n == job[t].name
  <2>1. /\ last' = last + 1 /\ remote' = [remote EXCEPT ![n] = last + 1]
        /\ local' \in {local, [local EXCEPT ![n] = last + 1]}
        /\ unseen' = unseen \ {n} /\ job[t].stage = "put"
        /\ UNCHANGED <<baselines, writes>>
        /\ \/ job' = [job EXCEPT ![t].stage = "after"]
           \/ job' = [job EXCEPT ![t] = baseline!Idle]
    BY <1>12
       DEF baseline!Put, baseline!At, baseline!Go, baseline!End, baseline!See, baseline!kept
  <2>2. PICK j \in Job : /\ job' = [job EXCEPT ![t] = j] /\ j.seen <= last
                         /\ j.stage # "rest" => j.name = n
    <3>1. CASE job' = [job EXCEPT ![t].stage = "after"]
      <4>1. job' = [job EXCEPT ![t] = [job[t] EXCEPT !.stage = "after"]]
        BY <1>0, <3>1
      <4>2. /\ [job[t] EXCEPT !.stage = "after"] \in Job
            /\ [job[t] EXCEPT !.stage = "after"].name = n
            /\ [job[t] EXCEPT !.stage = "after"].seen = job[t].seen
            /\ job[t].seen <= last
        BY <1>6, <2>1 DEF baseline!Stage
      <4> QED
        BY <4>1, <4>2
    <3>2. CASE job' = [job EXCEPT ![t] = baseline!Idle]
      <4>1. 0 <= last
        BY <1>0
      <4> QED
        BY <1>2, <3>2, <4>1
    <3> QED
      BY <2>1, <3>1, <3>2
  <2>3. n \in FileName
    BY <1>6, <2>1
  <2>4. job' \in [Transfer -> Job] /\ job'[t] = j
        /\ \A o \in Transfer : o # t => job'[o] = job[o]
    BY <1>1, <2>2
  <2>5. /\ remote' \in [FileName -> Nat] /\ local' \in [FileName -> Nat] /\ last' \in Nat
        /\ \A m \in FileName : /\ remote'[m] <= last' /\ local'[m] <= last'
                               /\ m # n => remote'[m] = remote[m] /\ local'[m] = local[m]
    <3>1. /\ remote' \in [FileName -> Nat] /\ last' \in Nat
          /\ \A m \in FileName : remote'[m] <= last' /\ (m # n => remote'[m] = remote[m])
      BY <1>0, <2>1, <2>3
    <3>2. CASE local' = local
      BY <1>0, <2>1, <3>1, <3>2
    <3>3. CASE local' = [local EXCEPT ![n] = last + 1]
      BY <1>0, <2>1, <2>3, <3>1, <3>3
    <3> QED
      BY <2>1, <3>2, <3>3
  <2> HIDE DEF n
  <2>6. Versions'
    <3>1. /\ \A i \in 1..Len(writes') : writes'[i].version <= last'
          /\ \A m \in FileName : baselines'[m] <= last'
          /\ writes' \in Seq(Entry) /\ baselines' \in [FileName -> Nat]
          /\ unseen' \subseteq FileName
      BY <1>0, <1>w, <2>1
    <3>2. \A o \in Transfer : job'[o].seen <= last'
                              /\ (job'[o].stage # "rest" => job'[o].name \in FileName)
      <4>1. \A o \in Transfer : job[o].seen \in Nat
        BY <1>0 DEF Job
      <4>2. j.seen \in Nat
        BY DEF Job
      <4> QED
        BY <1>0, <2>1, <2>2, <2>3, <2>4, <4>1, <4>2
    <3> QED
      BY <2>4, <2>5, <3>1, <3>2 DEF Versions
  <2>7. Unrecorded'
    <3> SUFFICES ASSUME NEW m \in unseen'
                 PROVE  /\ remote'[m] # 0 /\ local'[m] # remote'[m]
                        /\ baselines'[m] # remote'[m]
                        /\ \A i \in 1..Len(writes') :
                             writes'[i].name = m => writes'[i].version # remote'[m]
                        /\ \A o \in Transfer : job'[o].stage # "rest" /\ job'[o].name = m =>
                             /\ job'[o].stage \in {"baseline", "ask", "get"}
                             /\ job'[o].seen = remote'[m]
      BY DEF Unrecorded
    <3>1. m \in unseen /\ m # n /\ m \in FileName
      BY <1>0, <2>1
    <3>2. remote'[m] = remote[m] /\ local'[m] = local[m] /\ baselines' = baselines
          /\ writes' = writes
      BY <2>1, <2>5, <3>1
    <3>3. \A o \in Transfer : job'[o].stage # "rest" /\ job'[o].name = m => job'[o] = job[o]
      BY <2>2, <2>4, <3>1
    <3> QED
      BY <3>1, <3>2, <3>3 DEF BaselineInv, Unrecorded
  <2> QED
    BY <2>6, <2>7
<1>13. ASSUME NEW t \in Transfer, baseline!Get(t) PROVE Goal
  <2> DEFINE n == job[t].name
             j == [job[t] EXCEPT !.stage = "record"]
             v == IF remote[n] = job[t].seen THEN job[t].seen ELSE 0
  <2>1. /\ job' = [job EXCEPT ![t] = j] /\ local' = [local EXCEPT ![n] = v]
        /\ unseen' = unseen \ {n} /\ job[t].stage = "get"
        /\ UNCHANGED <<remote, last, baselines, writes>>
    BY <1>0, <1>13 DEF baseline!Get, baseline!At, baseline!Go, baseline!See, baseline!kept
  <2>2. j \in Job /\ j.name = n /\ j.seen = job[t].seen /\ j.seen <= last /\ n \in FileName
    BY <1>6, <2>1 DEF baseline!Stage
  <2>3. v \in Nat /\ v <= last
    BY <1>0, <2>2 DEF Job
  <2>4. job' \in [Transfer -> Job] /\ job'[t] = j
        /\ \A o \in Transfer : o # t => job'[o] = job[o]
    BY <1>1, <2>1, <2>2
  <2> HIDE DEF n, v, j
  <2>5. /\ local' \in [FileName -> Nat] /\ unseen' \subseteq unseen /\ n \notin unseen'
        /\ \A m \in FileName : local'[m] <= last /\ (m # n => local'[m] = local[m])
    BY <1>0, <2>1, <2>2, <2>3
  <2>6. Versions'
    BY <1>0, <2>1, <2>2, <2>4, <2>5 DEF Versions
  <2>7. Unrecorded'
    <3> SUFFICES ASSUME NEW m \in unseen'
                 PROVE  /\ remote'[m] # 0 /\ local'[m] # remote'[m]
                        /\ baselines'[m] # remote'[m]
                        /\ \A i \in 1..Len(writes') :
                             writes'[i].name = m => writes'[i].version # remote'[m]
                        /\ \A o \in Transfer : job'[o].stage # "rest" /\ job'[o].name = m =>
                             /\ job'[o].stage \in {"baseline", "ask", "get"}
                             /\ job'[o].seen = remote'[m]
      BY DEF Unrecorded
    <3>1. m \in unseen /\ m # n /\ m \in FileName
      BY <1>0, <2>5
    <3>2. remote' = remote /\ local'[m] = local[m] /\ baselines' = baselines
          /\ writes' = writes
      BY <2>1, <2>5, <3>1
    <3>3. \A o \in Transfer : job'[o].stage # "rest" /\ job'[o].name = m => job'[o] = job[o]
      BY <2>2, <2>4, <3>1
    <3> QED
      BY <3>1, <3>2, <3>3 DEF BaselineInv, Unrecorded
  <2> QED
    BY <2>6, <2>7
<1>14. ASSUME baseline!Write PROVE Goal
  <2> DEFINE h == Head(writes)
             s == [baselines EXCEPT ![h.name] = h.version]
             w(t) == IF job[t].waits > 0 THEN job[t].waits - 1 ELSE 0
  <2>1. /\ writes # <<>> /\ writes' = Tail(writes)
        /\ baselines' \in baseline!Newest(s) \/ baselines' = baselines
        /\ UNCHANGED <<remote, local, last, unseen>>
        /\ job' = [t \in Transfer |-> [job[t] EXCEPT !.waits = w(t)]]
    BY <1>14 DEF baseline!Write, baseline!files
  <2>2. /\ h \in Entry /\ h.name \in FileName /\ h.version \in Nat /\ h.version <= last
        /\ writes' \in Seq(Entry)
        /\ \A i \in 1..Len(writes') : writes'[i] = writes[i + 1] /\ i + 1 \in 1..Len(writes)
        /\ \A m \in unseen : h.name = m => h.version # remote[m]
    <3>1. /\ h \in Entry /\ writes' \in Seq(Entry) /\ h = writes[1] /\ 1 \in 1..Len(writes)
          /\ \A i \in 1..Len(writes') : writes'[i] = writes[i + 1] /\ i + 1 \in 1..Len(writes)
      BY <1>0, <2>1, WritesTail
    <3> HIDE DEF h
    <3>2. h.name \in FileName /\ h.version \in Nat
      BY <3>1 DEF Entry
    <3> QED
      BY <1>0, <3>1, <3>2 DEF BaselineInv, Unrecorded
  <2> HIDE DEF h
  <2>3. s \in [FileName -> Nat] /\ \A n \in FileName : s[n] <= last /\ (n \in unseen => s[n] # remote[n])
    BY <1>0, <2>2 DEF BaselineInv, Unrecorded
  <2>4. /\ baselines' \in [FileName -> Nat]
        /\ \A n \in FileName : baselines'[n] <= last /\ (n \in unseen => baselines'[n] # remote[n])
    <3>1. CASE baselines' = baselines
      BY <1>0, <3>1 DEF BaselineInv, Unrecorded
    <3>2. CASE baselines' \in baseline!Newest(s)
      <4> HIDE DEF s
      <4>1. PICK gone : baselines' = [n \in FileName |-> IF n \in gone THEN 0 ELSE s[n]]
        BY <3>2 DEF baseline!Newest
      <4>2. \A n \in FileName : baselines'[n] \in Nat /\ baselines'[n] <= last
                                /\ (n \in unseen => baselines'[n] # remote[n])
        BY <1>0, <2>3, <4>1 DEF BaselineInv, Unrecorded
      <4> QED
        BY <4>1, <4>2
    <3> QED
      BY <2>1, <3>1, <3>2
  <2>5. /\ job' \in [Transfer -> Job]
        /\ \A t \in Transfer : /\ job'[t].stage = job[t].stage /\ job'[t].name = job[t].name
                               /\ job'[t].seen = job[t].seen
    <3>1. \A t \in Transfer : job[t] \in Job /\ w(t) \in Nat
      BY <1>0 DEF Job
    <3> HIDE DEF w
    <3> QED
      BY <2>1, <3>1 DEF Job
  <2> HIDE DEF s, w
  <2>6. Versions'
    BY <1>0, <2>1, <2>2, <2>4, <2>5 DEF Versions
  <2>7. Unrecorded'
    <3>1. \A m \in unseen : m \in FileName /\ remote[m] # 0 /\ local[m] # remote[m]
      BY <1>0 DEF BaselineInv, Unrecorded
    <3>2. \A m \in unseen : \A i \in 1..Len(writes') :
             writes'[i].name = m => writes'[i].version # remote[m]
      BY <2>2 DEF BaselineInv, Unrecorded
    <3>3. \A m \in unseen : \A t \in Transfer : job'[t].stage # "rest" /\ job'[t].name = m =>
             job'[t].stage \in {"baseline", "ask", "get"} /\ job'[t].seen = remote[m]
      BY <2>5 DEF BaselineInv, Unrecorded
    <3>4. \A m \in unseen : baselines'[m] # remote[m]
      BY <2>4, <3>1
    <3>5. UNCHANGED <<remote, local, unseen>>
      BY <2>1
    <3> QED
      BY <3>1, <3>2, <3>3, <3>4, <3>5 DEF Unrecorded
  <2> QED
    BY <2>6, <2>7
<1>15. ASSUME NEW n \in FileName, baseline!Foreign(n) PROVE Goal
  <2>1. /\ last' = last + 1 /\ remote' = [remote EXCEPT ![n] = last + 1]
        /\ unseen' = IF baseline!Busy(n) THEN unseen \ {n} ELSE unseen \union {n}
        /\ UNCHANGED <<local, baselines, writes, job>>
    BY <1>15 DEF baseline!Foreign, baseline!kept
  <2>2. /\ remote' \in [FileName -> Nat] /\ last' \in Nat /\ remote'[n] = last + 1
        /\ \A m \in FileName : /\ remote'[m] <= last'
                               /\ m # n => remote'[m] = remote[m]
    BY <1>0, <2>1
  <2>3. unseen' \subseteq FileName
    BY <1>0, <2>1
  <2>4. \A i \in 1..Len(writes) : writes[i].version \in Nat /\ writes[i].version < last + 1
    BY <1>0, <1>w
  <2>5. \A t \in Transfer : job[t].seen \in Nat /\ job[t].seen < last + 1
    BY <1>0 DEF Job
  <2>6. \A m \in FileName : local[m] < last + 1 /\ baselines[m] < last + 1
    BY <1>0
  <2>7. Versions'
    <3>1. /\ \A m \in FileName : local'[m] <= last' /\ baselines'[m] <= last'
          /\ \A i \in 1..Len(writes') : writes'[i].version <= last'
          /\ \A t \in Transfer : job'[t].seen <= last'
      BY <1>0, <2>1, <2>4, <2>5, <2>6
    <3> QED
      BY <1>0, <2>1, <2>2, <2>3, <3>1 DEF Versions
  <2>8. Unrecorded'
    <3> SUFFICES ASSUME NEW m \in unseen'
                 PROVE  /\ remote'[m] # 0 /\ local'[m] # remote'[m]
                        /\ baselines'[m] # remote'[m]
                        /\ \A i \in 1..Len(writes') :
                             writes'[i].name = m => writes'[i].version # remote'[m]
                        /\ \A o \in Transfer : job'[o].stage # "rest" /\ job'[o].name = m =>
                             /\ job'[o].stage \in {"baseline", "ask", "get"}
                             /\ job'[o].seen = remote'[m]
      BY DEF Unrecorded
    <3>1. CASE m = n
      <4>1. ~baseline!Busy(n)
        BY <2>1, <3>1
      <4>2. \A o \in Transfer : ~(job[o].stage # "rest" /\ job[o].name = n)
        BY <4>1 DEF baseline!Busy, baseline!At
      <4> QED
        BY <1>0, <2>1, <2>2, <2>4, <2>6, <3>1, <4>2
    <3>2. CASE m # n
      <4>1. m \in unseen /\ m \in FileName
        BY <1>0, <2>1, <3>2
      <4>2. remote'[m] = remote[m]
        BY <2>2, <3>2, <4>1
      <4> QED
        BY <2>1, <4>1, <4>2 DEF BaselineInv, Unrecorded
    <3> QED
      BY <3>1, <3>2
  <2> QED
    BY <2>7, <2>8
<1>16. ASSUME NEW n \in FileName, baseline!Edit(n) PROVE Goal
  <2>1. /\ local' = [local EXCEPT ![n] = 0]
        /\ UNCHANGED <<remote, last, baselines, writes, job, unseen>>
    BY <1>16 DEF baseline!Edit, baseline!kept
  <2>2. /\ local' \in [FileName -> Nat]
        /\ \A m \in FileName : local'[m] <= last /\ local'[m] \in {0, local[m]}
    BY <1>0, <2>1
  <2>3. Versions'
    BY <1>0, <2>1, <2>2 DEF Versions
  <2>4. Unrecorded'
    BY <1>0, <2>1, <2>2 DEF BaselineInv, Unrecorded
  <2> QED
    BY <2>3, <2>4
<1>17. CASE UNCHANGED baselineVars
  BY <1>0, <1>17 DEF baselineVars, BaselineInv, Versions, Unrecorded
<1>18. CASE baseline!Next
  <2> HIDE DEF Goal
  <2>1. Goal
    BY <1>5, <1>7, <1>8, <1>9, <1>10, <1>11, <1>12, <1>13, <1>14, <1>15, <1>16, <1>18
       DEF baseline!Next
  <2> QED
    BY <2>1 DEF Goal, BaselineInv
<1> QED
  BY <1>17, <1>18

\* The baselines are a part of their own.
LEMMA BaselinePart ==
  /\ MCInit => baseline!Init
  /\ [MCNext]_<<part, vars, jsonVars, importVars, secretVars, backupVars, baselineVars>> =>
       [baseline!Next]_baselineVars
BY DEF MCInit, MCNext

LEMMA BaselineInvariance == MCSpec => []BaselineInv
<1>1. BaselineInv /\ [baseline!Next]_baselineVars => BaselineInv'
  BY BaselineStep
<1> QED
  BY <1>1, BaselineStart, BaselinePart, PTL DEF MCSpec

\* No upload overwrites unseen what others made of a remote file while it was not being
\* transferred (conflictCheck.ts, remoteBaseline.ts), for any files, transfers, versions and
\* limits, whatever was recorded, failed to be recorded or was evicted, and whether or not
\* the server dates its files.
THEOREM OverwrittenSeen == MCSpec => RemoteEditSeen
<1> DEFINE InSight == \A t \in Transfer :
      baseline!At(t, "put") /\ last' # last /\ job'[t] # job[t] => job[t].name \notin unseen
<1>1. BaselineInv /\ [baseline!Next]_baselineVars => [InSight]_(baseline!vars)
  BY DEF BaselineInv, Unrecorded, baseline!At
<1> QED
  BY <1>1, BaselineInvariance, BaselinePart, PTL DEF MCSpec, RemoteEditSeen, baseline!RemoteEditSeen

-------------------------------------------------------------------------------
(* The types of the parts                                                    *)

\* The store of baselines stays within its limit, and so do the versions.
Bounded == last <= MaxVersion /\ baseline!Cardinality(baseline!Recorded(baselines)) <= MaxEntries

\* The two ways to count are one.
LEMMA SameCount == \A S : baseline!Cardinality(S) = Cardinality(S)
BY DEF baseline!Cardinality, Cardinality

LEMMA RecordedFinite ==
  ASSUME NEW s PROVE IsFiniteSet(baseline!Recorded(s)) /\ Cardinality(baseline!Recorded(s)) \in Nat
<1>1. IsFiniteSet(FileName) /\ baseline!Recorded(s) \subseteq FileName
  BY SharedAssumption DEF baseline!Recorded
<1>2. IsFiniteSet(baseline!Recorded(s))
  BY <1>1, FS_Subset
<1> QED
  BY <1>2, FS_CardinalityType

LEMMA BoundedStart == baseline!Init => Bounded
<1> SUFFICES ASSUME baseline!Init PROVE Bounded
  OBVIOUS
<1>1. baseline!Recorded(baselines) = {}
  BY DEF baseline!Init, baseline!Recorded
<1>2. Cardinality(baseline!Recorded(baselines)) = 0
  BY <1>1, FS_EmptySet
<1> QED
  BY <1>2, SameCount, SharedAssumption DEF baseline!Init, Bounded

\* What is left of the records beyond the limit is within it.
LEMMA NewestFit ==
  ASSUME NEW s, NEW new \in baseline!Newest(s)
  PROVE  Cardinality(baseline!Recorded(new)) <= MaxEntries
<1> DEFINE R == baseline!Recorded(s)
           over == Cardinality(R) - MaxEntries
<1>1. IsFiniteSet(R) /\ Cardinality(R) \in Nat /\ MaxEntries \in Nat
  BY RecordedFinite, SharedAssumption
<1>2. PICK gone \in SUBSET R :
         /\ Cardinality(gone) = IF over > 0 THEN over ELSE 0
         /\ new = [n \in FileName |-> IF n \in gone THEN 0 ELSE s[n]]
  BY SameCount DEF baseline!Newest
<1>3. baseline!Recorded(new) = R \ gone
  BY <1>2 DEF baseline!Recorded
<1>4. R \intersect gone = gone
  BY <1>2
<1> HIDE DEF R
<1>5. Cardinality(R \ gone) = Cardinality(R) - Cardinality(gone)
  BY <1>1, <1>4, FS_Difference
<1>6. Cardinality(R) - Cardinality(gone) <= MaxEntries
  BY <1>1, <1>2
<1>7. Cardinality(baseline!Recorded(new)) = Cardinality(R \ gone)
  BY <1>3
<1> QED
  BY <1>5, <1>6, <1>7

LEMMA BoundedStep == ASSUME BaselineInv, Bounded, [baseline!Next]_baselineVars PROVE Bounded'
<1>0. last \in Nat /\ MaxVersion \in Nat
  BY SharedAssumption DEF BaselineInv, Versions
<1>1. last' <= MaxVersion
  <2>1. last' = last \/ (last < MaxVersion /\ last' = last + 1)
    BY DEF baseline!Next, baseline!Write, baseline!Foreign, baseline!Edit, baseline!Upload,
           baseline!Download, baseline!Detect, baseline!Overwrite, baseline!ShowAgain,
           baseline!Cancel, baseline!Put, baseline!After, baseline!Get,
           baseline!RecordDownload, baseline!Fail, baseline!files, baselineVars
  <2> QED
    BY <1>0, <2>1 DEF Bounded
<1>2. Cardinality(baseline!Recorded(baselines)) <= MaxEntries
  BY SameCount DEF Bounded
<1>3. Cardinality(baseline!Recorded(baselines')) <= MaxEntries
  <2>1. CASE baselines' = baselines
    BY <1>2, <2>1
  <2>2. CASE baselines' # baselines
    <3>1. baseline!Write
      BY <2>2 DEF baseline!Next, baseline!Foreign, baseline!Edit, baseline!Upload,
           baseline!Download, baseline!Detect, baseline!Overwrite, baseline!ShowAgain,
           baseline!Cancel, baseline!Put, baseline!After, baseline!Get,
           baseline!RecordDownload, baseline!Fail, baseline!kept, baselineVars
    <3>2. \E s : baselines' \in baseline!Newest(s)
      BY <2>2, <3>1 DEF baseline!Write
    <3> QED
      BY <3>2, NewestFit
  <2> QED
    BY <2>1, <2>2
<1>4. baseline!Recorded(baselines') = baseline!Recorded(baselines)'
  BY DEF baseline!Recorded
<1> QED
  BY <1>1, <1>3, <1>4, SameCount DEF Bounded

\* The records that wait are of files, and of versions there were.
LEMMA WritesTyped ==
  ASSUME NEW S, NEW T, NEW s \in Seq(S), \A i \in 1..Len(s) : s[i] \in T PROVE s \in Seq(T)
OBVIOUS

LEMMA BaselinesTyped == ASSUME BaselineInv, Bounded PROVE baseline!TypeOK
<1>1. /\ last \in Nat /\ last <= MaxVersion /\ MaxVersion \in Nat /\ unseen \subseteq FileName
      /\ remote \in [FileName -> Nat] /\ local \in [FileName -> Nat]
      /\ baselines \in [FileName -> Nat] /\ writes \in Seq(Entry) /\ job \in [Transfer -> Job]
      /\ \A n \in FileName : remote[n] <= last /\ local[n] <= last /\ baselines[n] <= last
      /\ \A i \in 1..Len(writes) : writes[i].version <= last
      /\ \A t \in Transfer : job[t].seen <= last
  BY SharedAssumption DEF BaselineInv, Versions, Bounded
<1>2. \A v \in Nat : v <= last => v \in baseline!Version
  BY <1>1 DEF baseline!Version
<1>3. /\ remote \in [FileName -> baseline!Version] /\ local \in [FileName -> baseline!Version]
      /\ baselines \in [FileName -> baseline!Version] /\ last \in baseline!Version
  BY <1>1, <1>2
<1>4. writes \in Seq(baseline!Record)
  <2>1. \A i \in 1..Len(writes) : writes[i] \in baseline!Record
    <3> SUFFICES ASSUME NEW i \in 1..Len(writes) PROVE writes[i] \in baseline!Record
      OBVIOUS
    <3>1. writes[i] \in Entry /\ writes[i].version <= last
      BY <1>1
    <3> QED
      BY <1>2, <3>1 DEF Entry, baseline!Record
  <2> QED
    BY <1>1, <2>1, WritesTyped
<1>5. job \in [Transfer -> [stage : baseline!Stage, name : FileName \union {NoId},
                            seen : baseline!Version, waits : Nat]]
  <2>1. \A t \in Transfer : job[t] \in [stage : baseline!Stage, name : FileName \union {NoId},
                                        seen : baseline!Version, waits : Nat]
    BY <1>1, <1>2 DEF Job
  <2> QED
    BY <1>1, <2>1
<1> QED
  BY <1>1, <1>3, <1>4, <1>5 DEF Bounded, baseline!TypeOK

LEMMA BoundedInvariance == MCSpec => []Bounded
<1>1. BaselineInv /\ Bounded /\ [baseline!Next]_baselineVars => Bounded'
  BY BoundedStep
<1> QED
  BY <1>1, BoundedStart, BaselineInvariance, BaselinePart, PTL DEF MCSpec

\* The conflict state is a part of its own.
LEMMA StorePart ==
  /\ MCInit => Init
  /\ [MCNext]_<<part, vars, jsonVars, importVars, secretVars, backupVars, baselineVars>> =>
       [Next]_vars
BY DEF MCInit, MCNext

\* Every part keeps its types, for any windows, conflicts, versions, records, endpoints, files
\* and limits: the baselines kept are within their limit, whichever are evicted, and so are the
\* snapshots and backups (conflictStateStore.ts, secrets.ts, backup.ts, remoteBaseline.ts).
THEOREM StateTyped == MCSpec => []StateTypeOK
<1>1. ASSUME TypeOK, ReportInv, ImportInv, SecretInv, BackupInv, BaselineInv, Bounded
      PROVE  StateTypeOK
  <2>1. baseline!TypeOK
    BY <1>1, BaselinesTyped
  <2> QED
    BY <1>1, <2>1 DEF StateTypeOK, ReportInv, ImportInv, SecretInv, BackupInv
<1>2. MCSpec => Spec
  BY StorePart, PTL DEF MCSpec, Spec
<1> QED
  BY <1>1, <1>2, TypeCorrect, ReportInvariance, ImportInvariance, SecretInvariance,
     BackupInvariance, BaselineInvariance, BoundedInvariance, PTL
===============================================================================
