--------------------- MODULE UploadConflict_proofs ---------------------
(***************************************************************************)
(* UploadConflict for any contents, files, requests, menus and bounds:     *)
(* type correctness, what the statuses say, what an accepted decision was  *)
(* made on, whose candidate is uploaded, and that an open conflict is held *)
(* and a terminal one final.                                               *)
(*                                                                         *)
(* IInv is the inductive invariant, in nine parts. Each action gets the    *)
(* effect of its step on the fields of record and probe (the lemmas named  *)
(* ...Effect and ...Step), and each part is then shown to be kept, action  *)
(* by action, in the groups of Next.                                       *)
(***************************************************************************)
EXTENDS UploadConflict, TLAPS

\* What a record and a probe may be.
RecType ==
  [status : RecordStatus, revision : Nat, local : Hash, remote : Hash, stamp : Nat,
   stale : SUBSET {"local", "remote", "missing"},
   candidate : Hash, recovery : Hash, decision : Decisions \union {None}]
ProbeType ==
  [local : Hash, remote : Hash, stamp : Nat, allowed : Hash, saw : SawType \union {None}]

\* A step that writes the status or the decision only.
SameContents(r, n) ==
  /\ n.revision = r.revision /\ n.local = r.local /\ n.remote = r.remote
  /\ n.stamp = r.stamp /\ n.candidate = r.candidate /\ n.recovery = r.recovery

MenuType == [revision : Nat, saw : SawType]
ChoiceType == [action : {"overwrite", "cancel"}, revision : Nat, saw : SawType]
Put == {"none", "running", "done", "failed"}

\* TypeOK, with a name for every type.
Typed ==
  /\ local \in Content /\ remote \in Content \union {Missing}
  /\ stamp \in Nat /\ changes \in 0..MaxChanges /\ menus \in 0..MaxMenus
  /\ rec \in RecType /\ stored \in RecordStatus \union {None}
  /\ held \in BOOLEAN /\ live \in BOOLEAN
  /\ menu \in MenuType \union {None} /\ choice \in ChoiceType \union {None}
  /\ requests \subseteq RequestType /\ batch \subseteq RequestType /\ posted \in 0..MaxRequests
  /\ cur \in RequestType \union {None}
  /\ caller \in Caller /\ probe \in ProbeType
  /\ put \in Put /\ cancelRequested \in BOOLEAN /\ expired \in BOOLEAN

-------------------------------------------------------------------------------
(* The inductive invariant.                                               *)

\* Where the coroutine can be.
Label == {"capture", "recovery", "snapshot", "captured", "hash", "stat", "fetch", "valid",
          "invalid", "accepted", "answer", "mark", "marked", "queued", "putting", "report",
          "loop", "poll", "serve", "submit", "recover", "replace", "record", "ack", "ended"}

\* What each kind of request carries.
GoodRequest(request) ==
  /\ request \in RequestType
  /\ request.kind = "upload" => request.saw \in SawType
  /\ request.kind = "submit" => request.content \in Content

\* Requests and probe have the fields the labels that read them need.
ProtocolTypeOK ==
  /\ pc \in Label
  /\ \A request \in requests \union batch : GoodRequest(request)
  /\ cur # None => GoodRequest(cur)
  /\ pc \in {"submit", "recover", "replace", "record"} =>
       GoodRequest(cur) /\ cur.kind = "submit"
  /\ pc \in {"hash", "stat", "fetch", "valid", "invalid"} => caller # "none"
  /\ pc \in {"stat", "fetch", "valid", "putting"} => probe.local \in Content

\* Before the record is published there is nothing to decide.
Capturing == {"capture", "recovery", "snapshot"}

CaptureInv ==
  /\ pc \in Capturing => /\ rec.revision = 1 /\ rec.remote = None /\ rec.candidate = None
                         /\ rec.decision = None
  /\ pc \in {"capture", "recovery"} => ~live /\ menu = None /\ choice = None
  /\ pc = "capture" => stored = None /\ ~held /\ requests = {} /\ batch = {} /\ cur = None

CancelDecided == rec.decision # None /\ rec.decision.action = "cancel"
OverwriteDecided == rec.decision # None /\ rec.decision.action = "overwrite"
BatchDecided == OverwriteDecided /\ rec.decision.source = "batch"

\* What the records say follows the coroutine.
StatusInv ==
  /\ pc \in {"accepted", "mark", "marked", "queued", "putting", "report"} => OverwriteDecided
  /\ pc = "answer" => OverwriteDecided \/ CancelDecided
  /\ pc = "putting" => put = "running"
  /\ pc = "report" => put \in {"done", "failed"}
  /\ pc \notin {"putting", "report", "ended"} => put = "none"
  /\ put # "none" => OverwriteDecided
  /\ stored \in Terminal => pc = "ended" \/ (pc = "answer" /\ CancelDecided)
  /\ rec.status \in Terminal => rec.status = "cancelled" /\ stored = "cancelled"
  /\ stored = "cancelled" => put = "none"
  /\ stored = "uploaded" => put = "done"
  /\ stored = "failed" => put = "failed"

\* When no menu can touch the record any more.
MenuInv ==
  /\ pc \in {"answer", "mark", "marked", "queued", "putting", "report"} /\ ~BatchDecided =>
       ~live /\ menu = None
  /\ stored \in Terminal /\ ~BatchDecided => ~live /\ menu = None
  /\ ~expired /\ pc # "capture" /\ ~held => stored \in Terminal \/ (pc = "ended" /\ BatchDecided)
  /\ caller = "batch" \/ BatchDecided => Batch

\* A candidate stands for content that was recoverable before.
CandidateInv ==
  /\ rec.candidate # None => rec.recovery # None
  /\ pc \in {"replace", "record", "ack"} => rec.recovery # None
  /\ pc \in {"hash", "stat", "fetch", "valid"} /\ caller = "ack" => rec.recovery # None
  /\ pc = "valid" => probe.local = rec.local
  /\ Overwriting("manual") \/ Overwriting("upload") \/ Overwriting("batch") =>
       /\ rec.decision.source = caller
       /\ probe.local = rec.local /\ probe.local \in Content
       /\ caller = "upload" => rec.candidate = probe.local

\* Who decides on the record's revision has seen its remote side or none.
RemoteSeen(decider) == decider.revision = rec.revision => decider.saw.remote \in {rec.remote, None}

\* So have the menu, the pending choice, and the requests to upload.
DecidersSeen ==
  /\ menu # None => menu.revision <= rec.revision /\ RemoteSeen(menu)
  /\ choice # None => choice.revision <= rec.revision /\ RemoteSeen(choice)
  /\ \A request \in requests \union batch :
       /\ request.revision <= rec.revision
       /\ request.kind = "upload" => RemoteSeen(request)

\* What a revalidation compares with is what the decider saw, and the stamp tells versions
\* apart.
SeenInv ==
  /\ pc \in {"hash", "stat", "fetch"} /\ caller \in {"manual", "upload"} =>
       probe.saw \in SawType /\ probe.saw.remote \in {rec.remote, None}
  /\ pc = "valid" /\ caller \in {"manual", "upload"} => probe.saw \in SawType /\ SawRemote
  /\ Overwriting("manual") \/ Overwriting("upload") => SawRemote
  /\ rec.stamp <= stamp
  /\ rec.stamp = stamp /\ rec.remote # None => rec.remote = remote
  /\ pc = "fetch" => probe.stamp <= stamp

\* An ack moves the local hash under a revision; the record is not yet a candidate's.
Acknowledging == pc = "valid" /\ caller = "ack"

\* Without an agent the local content moves with the revision only; an agent's request to
\* upload is for the content of its candidate's revision.
LocalInv ==
  /\ pc \in {"hash", "stat", "fetch", "valid", "invalid"} /\ caller # "ack" => probe.allowed = None
  /\ posted = 0 => requests = {} /\ batch = {} /\ cur = None
  /\ pc \in {"submit", "ack"} => posted # 0
  /\ caller \in {"upload", "ack", "refuse"} => posted # 0
  /\ posted = 0 /\ menu # None /\ menu.revision = rec.revision => menu.saw.local = rec.local
  /\ posted = 0 /\ choice # None /\ choice.revision = rec.revision => choice.saw.local = rec.local
  /\ ~expired /\ ~Acknowledging /\ rec.candidate # None =>
       \A request \in requests \union batch :
         request.kind = "upload" /\ request.revision = rec.revision =>
           request.saw.local = rec.local
  /\ pc \in {"hash", "stat", "fetch", "valid"} =>
       (caller = "upload" \/ (caller = "manual" /\ posted = 0) => probe.saw.local = rec.local)
  /\ Overwriting("upload") \/ (Overwriting("manual") /\ posted = 0) => SawLocal

\* The inductive invariant: no property of the runs is inductive by itself.
IInv ==
  /\ TypeOK /\ ProtocolTypeOK /\ CaptureInv /\ StatusInv /\ MenuInv /\ CandidateInv
  /\ DecidersSeen /\ SeenInv /\ LocalInv

-------------------------------------------------------------------------------
(* The records that a revalidation writes.                                 *)

\* The record of a failed revalidation.
LEMMA TypedSuperseded ==
  ASSUME NEW r \in RecType, NEW stale \in SUBSET {"local", "remote", "missing"},
         probe.local \in Hash
  PROVE  LET n == Superseded(r, stale) IN
         /\ n \in RecType /\ n.revision = r.revision + 1 /\ n.local = probe.local
         /\ n.status = "pending" /\ n.decision = None /\ n.candidate = None /\ n.stale = stale
         /\ n.remote = r.remote /\ n.stamp = r.stamp /\ n.recovery = r.recovery
<1>1. "pending" \in RecordStatus /\ None \in Hash
  BY DEF RecordStatus, Mutable, Hash
<1>2. r.revision + 1 \in Nat
  BY DEF RecType
<1> QED
  BY <1>1, <1>2 DEF RecType, Superseded

\* The record of a revalidation that found nothing changed.
LEMMA TypedValid ==
  ASSUME NEW r \in RecType, NEW hash \in Hash
  PROVE  LET n == [r EXCEPT !.local = hash, !.stale = {}] IN
         /\ n \in RecType /\ n.revision = r.revision /\ n.local = hash /\ n.candidate = r.candidate
         /\ n.status = r.status /\ n.decision = r.decision
         /\ n.remote = r.remote /\ n.stamp = r.stamp /\ n.recovery = r.recovery
  BY DEF RecType

-------------------------------------------------------------------------------
(* What the steps that write the record do to its fields.                   *)

\* The types of the fields the steps read.
LEMMA TypedState ==
  ASSUME TypeOK
  PROVE  /\ rec \in RecType /\ probe \in ProbeType /\ Saw \in SawType
         /\ rec.status \in RecordStatus /\ rec.revision \in Nat /\ rec.local \in Hash
         /\ rec.remote \in Hash /\ rec.stamp \in Nat /\ rec.candidate \in Hash
         /\ rec.recovery \in Hash /\ rec.decision \in Decisions \union {None}
         /\ probe.local \in Hash /\ probe.remote \in Hash /\ probe.stamp \in Nat
         /\ probe.allowed \in Hash /\ probe.saw \in SawType \union {None}
         /\ local \in Content /\ local \in Hash /\ None \in Hash
  BY DEF TypeOK, RecType, ProbeType, Saw, SawType, Hash

\* The first save: the record takes the local hash.
LEMMA CaptureRecordEffect ==
  ASSUME TypeOK, CaptureRecord
  PROVE  /\ rec' \in RecType /\ rec'.revision = rec.revision /\ rec'.local = local
         /\ rec'.status = rec.status /\ rec'.decision = rec.decision
         /\ rec'.candidate = rec.candidate /\ rec'.remote = rec.remote
         /\ rec'.stamp = rec.stamp /\ rec'.recovery = rec.recovery
  BY TypedState DEF CaptureRecord, RecType

\* The local snapshot changes nothing but the recovery.
LEMMA CaptureLocalEffect ==
  ASSUME TypeOK, CaptureLocal
  PROVE  /\ rec' \in RecType /\ rec'.revision = rec.revision /\ rec'.local = rec.local
         /\ rec'.status = rec.status /\ rec'.decision = rec.decision
         /\ rec'.candidate = rec.candidate /\ rec'.remote = rec.remote
         /\ rec'.stamp = rec.stamp
  BY TypedState DEF CaptureLocal, RecType

\* The record is published, with the remote hash or without.
LEMMA CaptureRemoteEffect ==
  ASSUME TypeOK, CaptureRemote
  PROVE  /\ rec' \in RecType /\ rec'.revision = rec.revision /\ rec'.local = rec.local
         /\ rec'.remote \in {remote, None} \ {Missing}
         /\ rec'.status = "pending" /\ rec'.decision = rec.decision
         /\ rec'.candidate = rec.candidate
         /\ rec'.stamp = rec.stamp /\ rec'.recovery = rec.recovery
<1>1. PICK hash \in {remote, None} \ {Missing} :
        rec' = [rec EXCEPT !.remote = hash, !.status = "pending"]
  BY DEF CaptureRemote
<1>2. hash \in Hash /\ "pending" \in RecordStatus
  BY DEF TypeOK, Hash, RecordStatus, Mutable
<1> QED
  BY <1>1, <1>2, TypedState DEF RecType

\* A failed revalidation: a revision no decision was made on, with nothing prepared.
Supersedes ==
  /\ rec' \in RecType /\ rec'.local = probe.local
  /\ rec'.status = "pending" /\ rec'.decision = None /\ rec'.candidate = None
  /\ rec'.recovery = rec.recovery /\ stored' = "pending" /\ pc' = "invalid"

\* A revalidation that found the record still true of both sides.
Confirms ==
  /\ rec' \in RecType /\ rec'.local = probe.local
  /\ probe.local = rec.local \/ probe.local = probe.allowed
  /\ rec'.revision = rec.revision
  /\ rec'.status = rec.status /\ rec'.decision = rec.decision
  /\ rec'.candidate = rec.candidate /\ rec'.recovery = rec.recovery
  /\ stored' = rec.status /\ pc' = "valid"

\* A missing remote never validates, and is a new revision unless told before.
LEMMA MissingEffect ==
  ASSUME TypeOK, RevalidateMissing
  PROVE  /\ Supersedes /\ rec'.remote = rec.remote /\ rec'.stamp = rec.stamp
         /\ \/ rec'.revision = rec.revision + 1
            \/ /\ rec'.revision = rec.revision /\ rec.candidate = None
               /\ probe.local = rec.local \/ probe.local = probe.allowed
<1> DEFINE stale == {"missing"} \union (IF LocalChanged THEN {"local"} ELSE {})
           next == Superseded(rec, stale)
           told == ~LocalChanged /\ rec.candidate = None /\ rec.stale = stale
<1>1. /\ rec' = [next EXCEPT !.revision = IF told THEN rec.revision ELSE @]
      /\ stored' = "pending" /\ pc' = "invalid"
  BY DEF RevalidateMissing, Goto
<1> HIDE DEF stale
<1>2. stale \in SUBSET {"local", "remote", "missing"}
  BY DEF stale
<1>3. /\ next \in RecType /\ next.revision = rec.revision + 1 /\ next.local = probe.local
      /\ next.status = "pending" /\ next.decision = None /\ next.candidate = None
      /\ next.remote = rec.remote /\ next.stamp = rec.stamp /\ next.recovery = rec.recovery
  BY <1>2, TypedSuperseded, TypedState
<1> DEFINE revision == IF told THEN rec.revision ELSE next.revision
<1> HIDE DEF next
<1>4. revision \in Nat
  BY <1>3, TypedState
<1>5. rec' = [next EXCEPT !.revision = revision]
  BY <1>1
<1> HIDE DEF revision
<1>6. /\ Supersedes /\ rec'.remote = rec.remote /\ rec'.stamp = rec.stamp
      /\ rec'.revision = revision
  BY <1>1, <1>3, <1>4, <1>5 DEF Supersedes, RecType
<1> QED
  BY <1>3, <1>6 DEF revision, LocalChanged

\* The two ends of a revalidation, on the record the remote side left.
LEMMA ConcludeEffect ==
  ASSUME TypeOK, NEW r \in RecType, NEW remoteChanged \in BOOLEAN, Conclude(r, remoteChanged)
  PROVE  \/ /\ rec' \in RecType /\ rec'.local = probe.local /\ rec'.revision = r.revision + 1
            /\ rec'.status = "pending" /\ rec'.decision = None /\ rec'.candidate = None
            /\ rec'.remote = r.remote /\ rec'.stamp = r.stamp /\ rec'.recovery = r.recovery
            /\ stored' = "pending" /\ pc' = "invalid"
         \/ /\ rec' \in RecType /\ rec'.local = probe.local /\ rec'.revision = r.revision
            /\ rec'.status = r.status /\ rec'.decision = r.decision
            /\ rec'.candidate = r.candidate
            /\ rec'.remote = r.remote /\ rec'.stamp = r.stamp /\ rec'.recovery = r.recovery
            /\ stored' = r.status /\ pc' = "valid"
            /\ ~remoteChanged
            /\ probe.local = rec.local \/ probe.local = probe.allowed
<1> DEFINE stale == (IF LocalChanged THEN {"local"} ELSE {})
                      \union (IF remoteChanged THEN {"remote"} ELSE {})
<1>1. /\ rec' = IF stale # {} THEN Superseded(r, stale)
                             ELSE [r EXCEPT !.local = probe.local, !.stale = {}]
      /\ stored' = rec'.status
      /\ pc' = IF stale # {} THEN "invalid" ELSE "valid"
  BY DEF Conclude, Goto
<1>2. stale \in SUBSET {"local", "remote", "missing"}
  OBVIOUS
<1>3. stale = {} => ~LocalChanged /\ ~remoteChanged
  OBVIOUS
<1> HIDE DEF stale
<1>4. CASE stale # {}
  BY <1>1, <1>2, <1>4, TypedSuperseded, TypedState
<1>5. CASE stale = {}
  BY <1>1, <1>3, <1>5, TypedValid, TypedState DEF LocalChanged
<1> QED
  BY <1>4, <1>5

\* With the metadata of the record, the remote side is taken for unchanged.
LEMMA UnchangedEffect ==
  ASSUME TypeOK, RevalidateUnchanged
  PROVE  /\ Confirms \/ (Supersedes /\ rec'.revision = rec.revision + 1)
         /\ rec'.remote = rec.remote /\ rec'.stamp = rec.stamp
         /\ probe' \in ProbeType /\ probe'.local = probe.local /\ probe'.remote = remote
         /\ probe'.allowed = probe.allowed /\ probe'.saw = probe.saw
<1>1. remote \in Hash
  BY DEF RevalidateUnchanged, TypeOK, Hash
<1>2. probe' = [probe EXCEPT !.remote = remote]
  BY DEF RevalidateUnchanged
<1>3. /\ probe' \in ProbeType /\ probe'.local = probe.local /\ probe'.remote = remote
      /\ probe'.allowed = probe.allowed /\ probe'.saw = probe.saw
  BY <1>1, <1>2, TypedState DEF ProbeType
<1>4. Conclude(rec, FALSE)
  BY DEF RevalidateUnchanged
<1> QED
  BY <1>3, <1>4, ConcludeEffect, TypedState DEF Confirms, Supersedes

\* A download replaces the remote side; without one the revalidation fails.
LEMMA FetchEffect ==
  ASSUME TypeOK, RevalidateFetch
  PROVE  \/ /\ remote # Missing
            /\ \/ Confirms /\ rec.remote = remote
               \/ Supersedes /\ rec'.revision = rec.revision + 1
            /\ rec'.remote = remote /\ rec'.stamp = probe.stamp
            /\ probe' \in ProbeType /\ probe'.local = probe.local /\ probe'.remote = remote
            /\ probe'.allowed = probe.allowed /\ probe'.saw = probe.saw
         \/ /\ Supersedes /\ rec'.revision = rec.revision + 1
            /\ rec'.remote = rec.remote /\ rec'.stamp = rec.stamp
            /\ probe' = probe
<1>1. CASE /\ remote # Missing
           /\ probe' = [probe EXCEPT !.remote = remote]
           /\ Conclude([rec EXCEPT !.remote = remote, !.stamp = probe.stamp],
                       remote # rec.remote)
  <2>1. remote \in Hash
    BY <1>1 DEF TypeOK, Hash
  <2>2. /\ probe' \in ProbeType /\ probe'.local = probe.local /\ probe'.remote = remote
        /\ probe'.allowed = probe.allowed /\ probe'.saw = probe.saw
    BY <1>1, <2>1, TypedState DEF ProbeType
  <2> DEFINE r == [rec EXCEPT !.remote = remote, !.stamp = probe.stamp]
  <2>3. /\ r \in RecType /\ r.revision = rec.revision /\ r.status = rec.status
        /\ r.decision = rec.decision /\ r.candidate = rec.candidate
        /\ r.remote = remote /\ r.stamp = probe.stamp /\ r.recovery = rec.recovery
    BY <2>1, TypedState DEF RecType
  <2>4. Conclude(r, remote # rec.remote)
    BY <1>1
  <2> HIDE DEF r
  <2> QED
    BY <1>1, <2>2, <2>3, <2>4, ConcludeEffect DEF Confirms, Supersedes
<1>2. CASE Conclude(rec, TRUE) /\ UNCHANGED probe
  BY <1>2, ConcludeEffect, TypedState DEF Supersedes
<1> QED
  BY <1>1, <1>2 DEF RevalidateFetch

\* An accepted overwrite writes decision and status only.
LEMMA AcceptEffect ==
  ASSUME TypeOK, Accept
  PROVE  /\ rec' \in RecType /\ rec'.status = "resolving" /\ SameContents(rec, rec')
         /\ rec'.decision # None /\ rec'.decision.action = "overwrite"
         /\ rec'.decision.source = caller
<1>1. "resolving" \in RecordStatus /\ [action |-> "overwrite", source |-> caller] \in Decisions
  BY DEF Accept, RecordStatus, Decisions
<1> QED
  BY <1>1, TypedState, NoneAssumption DEF Accept, RecType, SameContents

\* So does a cancel.
LEMMA CancelledEffect ==
  ASSUME TypeOK, NEW source \in {"manual", "agent", "activity"}, Cancelled(source)
  PROVE  /\ rec' \in RecType /\ rec'.status = "cancelled" /\ SameContents(rec, rec')
         /\ rec'.decision # None /\ rec'.decision.action = "cancel"
         /\ rec'.decision.source = source
<1>1. "cancelled" \in RecordStatus /\ [action |-> "cancel", source |-> source] \in Decisions
  BY DEF RecordStatus, Terminal, Decisions
<1> QED
  BY <1>1, TypedState, NoneAssumption DEF Cancelled, RecType, SameContents

\* A preparation goes on only with a snapshot.
LEMMA RecoverEffect ==
  ASSUME TypeOK, SubmitRecover
  PROVE  \/ /\ rec' \in RecType /\ rec'.revision = rec.revision /\ rec'.local = rec.local
            /\ rec'.status = rec.status /\ rec'.decision = rec.decision
            /\ rec'.candidate = rec.candidate /\ rec'.remote = rec.remote
            /\ rec'.stamp = rec.stamp /\ rec'.recovery # None /\ pc' = "replace"
         \/ rec' = rec /\ pc' = "serve"
<1>1. local # None
  BY ContentAssumption DEF TypeOK
<1>2. CASE /\ rec' = [rec EXCEPT !.recovery = IF @ = None THEN local ELSE @]
           /\ pc' = "replace"
  BY <1>1, <1>2, TypedState DEF RecType
<1>3. CASE rec' = rec /\ pc' = "serve"
  BY <1>3
<1> QED
  BY <1>2, <1>3 DEF SubmitRecover, AnswerAndGoOn, Goto

\* A prepared candidate is a new revision.
LEMMA PreparedEffect ==
  ASSUME TypeOK, NEW hash \in Hash, Prepared(hash)
  PROVE  /\ rec' \in RecType /\ rec'.revision = rec.revision + 1
         /\ rec'.local = hash /\ rec'.candidate = hash
         /\ rec'.status = "pending" /\ rec'.decision = rec.decision
         /\ rec'.remote = rec.remote /\ rec'.stamp = rec.stamp /\ rec'.recovery = rec.recovery
<1>1. "pending" \in RecordStatus
  BY DEF RecordStatus, Mutable
<1>2. rec.revision + 1 \in Nat
  BY TypedState
<1>3. rec' = [rec EXCEPT !.revision = @ + 1, !.local = hash, !.candidate = hash,
                        !.stale = {}, !.status = "pending"]
  BY DEF Prepared
<1>4. rec \in RecType
  BY TypedState
<1> QED
  BY <1>1, <1>2, <1>3, <1>4 DEF RecType

\* Marking the upload writes the status only.
LEMMA MarkEffect ==
  ASSUME TypeOK, MarkUploading
  PROVE  \/ /\ rec' \in RecType /\ rec'.status = "uploading" /\ SameContents(rec, rec')
            /\ rec'.decision = rec.decision /\ stored' = "uploading" /\ pc' = "marked"
         \/ rec' = rec /\ stored' = stored /\ pc' = "ended"
<1>1. "uploading" \in RecordStatus
  BY DEF RecordStatus
<1> QED
  BY <1>1, TypedState DEF MarkUploading, Goto, RecType, SameContents

\* So does opening the diff.
LEMMA DiffEffect ==
  ASSUME TypeOK, OpenDiff
  PROVE  /\ rec' \in RecType /\ rec'.status = "reviewing" /\ SameContents(rec, rec')
         /\ rec'.decision = rec.decision
<1>1. "reviewing" \in RecordStatus
  BY DEF RecordStatus, Mutable
<1> QED
  BY <1>1, TypedState DEF OpenDiff, RecType, SameContents

\* What a revalidation starts with.
LEMMA RevalidateEffect ==
  ASSUME NEW who, NEW allowed \in Hash, NEW saw \in SawType \union {None},
         Revalidate(who, allowed, saw)
  PROVE  /\ pc' = "hash" /\ caller' = who
         /\ probe' \in ProbeType /\ probe'.allowed = allowed /\ probe'.saw = saw
<1>1. probe' = [local |-> None, remote |-> None, stamp |-> 0, allowed |-> allowed, saw |-> saw]
  BY DEF Revalidate, NoProbe
<1>2. None \in Hash /\ 0 \in Nat /\ pc' = "hash" /\ caller' = who
  BY DEF Hash, Revalidate
<1> QED
  BY <1>1, <1>2 DEF ProbeType

\* What the transfer task starts with.
LEMMA TypedStart ==
  ASSUME NEW hash \in Hash
  PROVE  LET n == [NoProbe EXCEPT !.local = hash] IN n \in ProbeType /\ n.local = hash
  BY DEF ProbeType, NoProbe, Hash

\* The local hash is read.
LEMMA HashEffect ==
  ASSUME TypeOK, RevalidateHash
  PROVE  /\ probe' \in ProbeType /\ probe'.local = local /\ probe'.remote = probe.remote
         /\ probe'.stamp = probe.stamp /\ probe'.allowed = probe.allowed /\ probe'.saw = probe.saw
  BY TypedState DEF RevalidateHash, ProbeType

\* The stamp is read.
LEMMA StatEffect ==
  ASSUME TypeOK, RevalidateStat
  PROVE  /\ probe' \in ProbeType /\ probe'.local = probe.local /\ probe'.remote = probe.remote
         /\ probe'.stamp = stamp /\ probe'.allowed = probe.allowed /\ probe'.saw = probe.saw
<1>1. stamp \in Nat
  BY DEF TypeOK
<1>2. probe' = [probe EXCEPT !.stamp = stamp]
  BY DEF RevalidateStat
<1> QED
  BY <1>1, <1>2, TypedState DEF ProbeType

-------------------------------------------------------------------------------
(* Types, by name.                                                         *)

\* The two forms of the type invariant agree,
LEMMA TypedIsTypeOK == TypeOK <=> Typed
  BY DEF TypeOK, Typed, RecType, ProbeType, MenuType, ChoiceType, Put
\* also in the next state.
LEMMA TypedIsTypeOKNext == TypeOK' <=> Typed'
  BY DEF TypeOK, Typed, RecType, ProbeType, MenuType, ChoiceType, Put

\* Members of the sets of labels.
LEMMA StatusTyped ==
  /\ Mutable \subseteq RecordStatus /\ Terminal \subseteq RecordStatus
  /\ {"pending", "resolving", "uploading", "reviewing", "cancelled", "capturing"}
       \subseteq RecordStatus
  /\ {"uploaded", "failed"} \subseteq RecordStatus
  /\ None \in Hash /\ Content \subseteq Hash
  /\ {"none", "manual", "upload", "batch", "ack", "refuse"} \subseteq Caller
  BY DEF RecordStatus, Mutable, Terminal, Hash, Caller

\* A reset probe.
LEMMA NoProbeTyped == NoProbe \in ProbeType /\ NoProbe.allowed = None
  BY DEF NoProbe, ProbeType, Hash

\* A menu shows the record as it is.
LEMMA MenuTyped == ASSUME TypeOK
  PROVE [revision |-> rec.revision, saw |-> Saw] \in MenuType
  BY TypedState DEF MenuType

\* A choice repeats its menu.
LEMMA ChoiceTyped == ASSUME menu \in MenuType, NEW action \in {"overwrite", "cancel"}
  PROVE [action |-> action, revision |-> menu.revision, saw |-> menu.saw] \in ChoiceType
  BY DEF MenuType, ChoiceType

-------------------------------------------------------------------------------
(* The steps with several outcomes, outcome by outcome.                     *)

\* Publishing the record.
LEMMA CaptureRemoteStep ==
  ASSUME TypeOK, CaptureRemote
  PROVE  /\ pc = "snapshot" /\ pc' = "captured" /\ stored' = "pending"
         /\ rec' \in RecType /\ rec'.revision = rec.revision /\ rec'.local = rec.local
         /\ rec'.remote \in Hash /\ (rec'.remote # None => rec'.remote = remote)
         /\ rec'.status = "pending" /\ rec'.decision = rec.decision
         /\ rec'.candidate = rec.candidate
         /\ rec'.stamp = rec.stamp /\ rec'.recovery = rec.recovery
         /\ UNCHANGED <<local, remote, stamp, changes, held, live, menu, choice, menus, requests,
                        posted, batch, cur, caller, probe, put, cancelRequested, expired>>
<1>1. rec'.remote \in {remote, None} \ {Missing} /\ rec'.remote \in Hash
  BY CaptureRemoteEffect DEF TypeOK, Hash
<1>2. /\ pc = "snapshot" /\ pc' = "captured" /\ stored' = "pending"
      /\ UNCHANGED <<local, remote, stamp, changes, held, live, menu, choice, menus, requests,
                     posted, batch, cur, caller, probe, put, cancelRequested, expired>>
  BY DEF CaptureRemote, Goto, files, ui, agent
<1> QED
  BY <1>1, <1>2, CaptureRemoteEffect

\* A choice is outdated, cancels, or is revalidated.
LEMMA LoopManualStep ==
  ASSUME TypeOK, LoopManual
  PROVE  /\ pc = "loop" /\ ~expired /\ choice # None
         /\ UNCHANGED <<local, remote, stamp, changes, menus, requests, posted, batch, cur, put,
                        cancelRequested, expired>>
         /\ \/ /\ pc' = "poll" /\ choice' = None
               /\ UNCHANGED <<rec, stored, held, live, menu, caller, probe>>
            \/ /\ choice.revision = rec.revision /\ pc' = "answer"
               /\ Cancelled("manual") /\ UNCHANGED <<caller, probe>>
            \/ /\ choice.revision = rec.revision /\ choice' = None /\ pc' = "hash"
               /\ caller' = "manual" /\ probe' \in ProbeType /\ probe'.allowed = None
               /\ probe'.saw = choice.saw /\ choice.saw \in SawType
               /\ UNCHANGED <<rec, stored, held, live, menu>>
<1>1. /\ pc = "loop" /\ ~expired /\ choice # None
      /\ UNCHANGED <<local, remote, stamp, changes, menus, requests, posted, batch, cur, put,
                     cancelRequested, expired>>
  BY DEF LoopManual, files, agent
<1>2. choice.saw \in SawType
  BY <1>1, TypedIsTypeOK DEF Typed, ChoiceType
<1>3. CASE /\ choice.revision = rec.revision
           /\ choice' = None /\ Revalidate("manual", None, choice.saw)
           /\ UNCHANGED <<rec, stored, held, live, menu>>
  BY <1>1, <1>2, <1>3, RevalidateEffect, TypedState
<1>4. CASE /\ choice' = None /\ Goto("poll")
           /\ UNCHANGED <<rec, stored, held, live, menu, caller, probe>>
  BY <1>1, <1>4 DEF Goto
<1>5. CASE /\ choice.revision = rec.revision
           /\ Cancelled("manual") /\ Goto("answer") /\ UNCHANGED <<caller, probe>>
  BY <1>1, <1>5 DEF Goto
<1> QED
  BY <1>3, <1>4, <1>5 DEF LoopManual

\* A served request prepares, acknowledges, or is revalidated.
LEMMA ServeStep ==
  ASSUME TypeOK, ProtocolTypeOK, NEW request \in batch, Serve(request)
  PROVE  /\ pc = "serve" /\ ~expired /\ request.revision = rec.revision
         /\ batch' = batch \ {request} /\ cur' = request
         /\ GoodRequest(request)
         /\ UNCHANGED <<local, remote, stamp, changes, rec, stored, held, live, menu, choice, menus,
                        requests, posted, put, cancelRequested, expired>>
         /\ \/ request.kind = "submit" /\ pc' = "submit" /\ UNCHANGED <<caller, probe>>
            \/ pc' = "ack" /\ rec.recovery # None /\ UNCHANGED <<caller, probe>>
            \/ /\ request.kind = "upload" /\ rec.candidate # None /\ pc' = "hash"
               /\ caller' = "upload" /\ probe' \in ProbeType /\ probe'.allowed = None
               /\ probe'.saw = request.saw /\ request.saw \in SawType
<1>1. /\ pc = "serve" /\ ~expired /\ request.revision = rec.revision
      /\ batch' = batch \ {request} /\ cur' = request
      /\ UNCHANGED <<local, remote, stamp, changes, rec, stored, held, live, menu, choice, menus,
                     requests, posted, put, cancelRequested, expired>>
  BY DEF Serve, UpToDate, files, ui
<1>2. GoodRequest(request)
  BY DEF ProtocolTypeOK
<1>3. CASE /\ request.kind = "upload" /\ rec.candidate # None
           /\ Revalidate("upload", None, request.saw)
  BY <1>1, <1>2, <1>3, RevalidateEffect, TypedState DEF GoodRequest
<1>4. CASE request.kind = "submit" /\ Goto("submit") /\ UNCHANGED <<caller, probe>>
  BY <1>1, <1>2, <1>4 DEF Goto
<1>5. CASE rec.recovery # None /\ Goto("ack") /\ UNCHANGED <<caller, probe>>
  BY <1>1, <1>2, <1>5 DEF Goto
<1> QED
  BY <1>3, <1>4, <1>5 DEF Serve

\* A preparation that ends, with a new candidate or without.
LEMMA SubmitRecordStep ==
  ASSUME TypeOK, SubmitRecord
  PROVE  /\ pc = "record" /\ AnswerAndGoOn
         /\ UNCHANGED <<local, remote, stamp, changes, held, live, menu, choice, menus, posted, batch,
                        put, cancelRequested, expired>>
         /\ \/ /\ rec' \in RecType /\ rec'.revision = rec.revision + 1
               /\ rec'.local = local /\ rec'.candidate = local
               /\ rec'.status = "pending" /\ rec'.decision = rec.decision
               /\ rec'.remote = rec.remote /\ rec'.stamp = rec.stamp
               /\ rec'.recovery = rec.recovery /\ stored' = "pending"
            \/ UNCHANGED <<rec, stored>>
<1>1. /\ pc = "record" /\ AnswerAndGoOn
      /\ UNCHANGED <<local, remote, stamp, changes, held, live, menu, choice, menus, posted, batch,
                     put, cancelRequested, expired>>
  BY DEF SubmitRecord, Prepared, files, ui
<1>2. CASE Prepared(local)
  <2>1. stored' = "pending"
    BY <1>2 DEF Prepared
  <2> QED
    BY <1>1, <1>2, <2>1, PreparedEffect, TypedState
<1>3. CASE UNCHANGED <<rec, stored>>
  BY <1>1, <1>3
<1> QED
  BY <1>2, <1>3 DEF SubmitRecord

\* An acknowledgement that was confirmed.
LEMMA AckRecordStep ==
  ASSUME TypeOK, AckRecord
  PROVE  /\ pc = "valid" /\ caller = "ack" /\ AnswerAndGoOn
         /\ UNCHANGED <<local, remote, stamp, changes, held, live, menu, choice, menus, posted, batch,
                        put, cancelRequested, expired>>
         /\ rec' \in RecType /\ rec'.revision = rec.revision + 1
         /\ rec'.local = probe.allowed /\ rec'.candidate = probe.allowed
         /\ rec'.status = "pending" /\ rec'.decision = rec.decision
         /\ rec'.remote = rec.remote /\ rec'.stamp = rec.stamp
         /\ rec'.recovery = rec.recovery /\ stored' = "pending"
<1>1. /\ pc = "valid" /\ caller = "ack" /\ AnswerAndGoOn
      /\ UNCHANGED <<local, remote, stamp, changes, held, live, menu, choice, menus, posted, batch,
                     put, cancelRequested, expired>>
      /\ Prepared(probe.allowed) /\ stored' = "pending"
  BY DEF AckRecord, Prepared, files, ui
<1> QED
  BY <1>1, PreparedEffect, TypedState

\* An acknowledgement is revalidated either way.
LEMMA AckHashStep ==
  ASSUME TypeOK, AckHash
  PROVE  /\ pc = "ack" /\ pc' = "hash" /\ probe' \in ProbeType
         /\ \/ caller' = "ack"
            \/ caller' = "refuse" /\ probe'.allowed = None
         /\ UNCHANGED <<local, remote, stamp, changes, rec, stored, held, live, menu, choice, menus,
                        requests, posted, batch, cur, put, cancelRequested, expired>>
<1>1. /\ pc = "ack"
      /\ UNCHANGED <<local, remote, stamp, changes, rec, stored, held, live, menu, choice, menus,
                     requests, posted, batch, cur, put, cancelRequested, expired>>
  BY DEF AckHash, files, ui, agent
<1>2. Revalidate("ack", local, None) \/ Revalidate("refuse", None, None)
  BY DEF AckHash
<1> QED
  BY <1>1, <1>2, RevalidateEffect, TypedState

\* A submission goes on or is revalidated.
LEMMA SubmitHashStep ==
  ASSUME TypeOK, SubmitHash
  PROVE  /\ pc = "submit"
         /\ \/ pc' = "recover" /\ UNCHANGED <<caller, probe>>
            \/ /\ pc' = "hash" /\ caller' = "refuse"
               /\ probe' \in ProbeType /\ probe'.allowed = None
         /\ UNCHANGED <<local, remote, stamp, changes, rec, stored, held, live, menu, choice, menus,
                        requests, posted, batch, cur, put, cancelRequested, expired>>
<1>1. /\ pc = "submit"
      /\ UNCHANGED <<local, remote, stamp, changes, rec, stored, held, live, menu, choice, menus,
                     requests, posted, batch, cur, put, cancelRequested, expired>>
  BY DEF SubmitHash, files, ui, agent
<1>2. \/ Goto("recover") /\ UNCHANGED <<caller, probe>>
      \/ Revalidate("refuse", None, None)
  BY DEF SubmitHash
<1> QED
  BY <1>1, <1>2, RevalidateEffect, TypedState DEF Goto

\* A request as it is posted: what it carries, and that its revision is the record's.
LEMMA PostStep ==
  ASSUME TypeOK, PostAny
  PROVE  /\ pc # "ended" /\ ~expired /\ stored \in Mutable /\ posted' = posted + 1
         /\ UNCHANGED <<local, remote, stamp, changes, rec, stored, held, live, menu, choice, menus,
                        batch, cur, pc, caller, probe, put, cancelRequested, expired>>
         /\ \E request :
              /\ requests' = requests \union {request}
              /\ request.revision = rec.revision
              /\ request.kind = "upload" =>
                   request.saw.remote = rec.remote /\ request.saw.local = rec.local
<1>1. PICK kind, expected, content, saw :
        /\ Post(kind, expected, content, saw)
        /\ kind = "upload" => saw = Saw
  BY DEF PostAny
<1> DEFINE request == [id |-> posted', kind |-> kind, revision |-> rec.revision,
                       expected |-> expected, content |-> content, saw |-> saw]
<1>2. requests' = requests \union {request}
  BY <1>1 DEF Post
<1>3. /\ request.revision = rec.revision
      /\ request.kind = "upload" =>
           request.saw.remote = rec.remote /\ request.saw.local = rec.local
  BY <1>1 DEF Saw
<1> HIDE DEF request
<1>4. /\ pc # "ended" /\ ~expired /\ stored \in Mutable /\ posted' = posted + 1
      /\ UNCHANGED <<local, remote, stamp, changes, rec, stored, held, live, menu, choice, menus,
                     batch, cur, pc, caller, probe, put, cancelRequested, expired>>
  BY <1>1 DEF Post, files, ui, coroutine
<1> QED
  BY <1>2, <1>3, <1>4

-------------------------------------------------------------------------------
(* Deciders and the revisions they decide on.                              *)

\* Deciders carry revisions.
LEMMA RevisionsTyped ==
  ASSUME TypeOK
  PROVE  /\ menu # None => menu.revision \in Nat
         /\ choice # None => choice.revision \in Nat
         /\ \A request \in requests \union batch : request.revision \in Nat
  BY TypedIsTypeOK DEF Typed, MenuType, ChoiceType, RequestType

\* Nobody new decides; the record keeps its revision and its remote side, or has a later one.
LEMMA DecidersStay ==
  ASSUME TypeOK, DecidersSeen,
         menu' \in {menu, None}, choice' \in {choice, None},
         requests' \union batch' \subseteq requests \union batch,
         \/ rec'.revision = rec.revision + 1
         \/ rec'.revision = rec.revision /\ (rec'.remote = rec.remote \/ rec.remote = None)
  PROVE  DecidersSeen'
<1>1. rec.revision \in Nat
  BY TypedState
<1> QED
  BY <1>1, RevisionsTyped DEF DecidersSeen, RemoteSeen

\* Stamps are numbers.
LEMMA StampsTyped ==
  ASSUME TypeOK
  PROVE  stamp \in Nat /\ rec.stamp \in Nat /\ probe.stamp \in Nat
  BY TypedState DEF TypeOK

\* A choice on an earlier revision is none on the next.
LEMMA NewRevision ==
  ASSUME TypeOK, DecidersSeen, rec'.revision = rec.revision + 1
  PROVE  /\ menu # None => menu.revision # rec'.revision
         /\ choice # None => choice.revision # rec'.revision
         /\ \A request \in requests \union batch : request.revision # rec'.revision
<1>1. rec.revision \in Nat
  BY TypedState
<1> QED
  BY <1>1, RevisionsTyped DEF DecidersSeen

\* Only an acknowledgement lets the local content move under a revision.
LEMMA LocalUnchanged ==
  ASSUME ProtocolTypeOK, LocalInv, pc \in {"stat", "fetch"}, caller # "ack",
         probe.local = rec.local \/ probe.local = probe.allowed
  PROVE  probe.local = rec.local
  BY ContentAssumption DEF ProtocolTypeOK, LocalInv

-------------------------------------------------------------------------------
(* Types.                                                                  *)

\* The capture keeps the types.
LEMMA TypedByCapture ==
  ASSUME TypeOK, ProtocolTypeOK, Capture
  PROVE  Typed'
<1> USE TypedIsTypeOK, StatusTyped, NoProbeTyped, BoundsAssumption
         DEF Typed, Put, Goto, files, ui, agent, coroutine
<1>1. CASE CaptureRecord
  BY <1>1, CaptureRecordEffect DEF CaptureRecord
<1>2. CASE CaptureLocal
  BY <1>2, CaptureLocalEffect DEF CaptureLocal
<1>3. CASE CaptureRemote
  <2>1. rec' \in RecType
    BY <1>3, CaptureRemoteEffect
  <2> QED
    BY <1>3, <2>1 DEF CaptureRemote
<1>4. CASE CaptureThrows
  BY <1>4 DEF CaptureThrows
<1>5. CASE Captured
  BY <1>5, RevalidateEffect DEF Captured
<1> QED
  BY <1>1, <1>2, <1>3, <1>4, <1>5 DEF Capture

\* A revalidation keeps the types.
LEMMA TypedByRevalidation ==
  ASSUME TypeOK, ProtocolTypeOK, Revalidation
  PROVE  Typed'
<1> USE TypedIsTypeOK, StatusTyped, NoProbeTyped, BoundsAssumption
         DEF Typed, Put, Goto, files, ui, agent, coroutine
<1>1. CASE RevalidateHash
  <2>1. probe' \in ProbeType
    BY <1>1, HashEffect
  <2> QED
    BY <1>1, <2>1 DEF RevalidateHash
<1>2. CASE RevalidateMissing
  BY <1>2, MissingEffect DEF RevalidateMissing, Supersedes
<1>3. CASE RevalidateUnchanged
  <2>1. /\ rec' \in RecType /\ probe' \in ProbeType
        /\ stored' \in RecordStatus
    BY <1>3, UnchangedEffect, TypedState DEF Confirms, Supersedes
  <2> QED
    BY <1>3, <2>1 DEF RevalidateUnchanged
<1>4. CASE RevalidateStat
  <2>1. probe' \in ProbeType
    BY <1>4, StatEffect
  <2> QED
    BY <1>4, <2>1 DEF RevalidateStat
<1>5. CASE RevalidateFetch
  <2>1. /\ rec' \in RecType /\ probe' \in ProbeType
        /\ stored' \in RecordStatus
    BY <1>5, FetchEffect, TypedState DEF Confirms, Supersedes
  <2> QED
    BY <1>5, <2>1 DEF RevalidateFetch
<1>6. CASE RevalidateThrows
  BY <1>6 DEF RevalidateThrows, AnswerAndGoOn, Answer, Forget, Leave
<1>7. CASE Invalid
  BY <1>7 DEF Invalid, AnswerAndGoOn, Answer, Forget, Leave
<1> QED
  BY <1>1, <1>2, <1>3, <1>4, <1>5, <1>6, <1>7 DEF Revalidation

\* The wait for a decision keeps the types.
LEMMA TypedByLoop ==
  ASSUME TypeOK, ProtocolTypeOK, Loop
  PROVE  Typed'
<1> USE TypedIsTypeOK, StatusTyped, NoProbeTyped, BoundsAssumption
         DEF Typed, Put, Goto, files, ui, agent, coroutine
<1>1. CASE LoopExpired
  BY <1>1 DEF LoopExpired
<1>2. CASE LoopCancelled
  BY <1>2, CancelledEffect DEF LoopCancelled, Cancelled, CloseManualUi
<1>3. CASE LoopManual
  <2>1. rec' \in RecType /\ stored' \in RecordStatus \union {None}
    BY <1>3, CancelledEffect DEF LoopManual, Cancelled
  <2>2. choice.saw \in SawType
    BY <1>3 DEF LoopManual, ChoiceType
  <2>3. probe' \in ProbeType /\ caller' \in Caller
    BY <1>3, <2>2, RevalidateEffect DEF LoopManual
  <2>4. /\ held' \in BOOLEAN /\ live' \in BOOLEAN /\ menu' \in MenuType \union {None}
        /\ choice' = None
    BY <1>3 DEF LoopManual, Cancelled, CloseManualUi
  <2> QED
    BY <1>3, <2>1, <2>3, <2>4 DEF LoopManual
<1>4. CASE LoopPoll
  BY <1>4 DEF LoopPoll
<1>5. CASE Poll
  BY <1>5 DEF Poll
<1>6. CASE ServeDone
  BY <1>6 DEF ServeDone
<1>7. ASSUME NEW request \in batch, ServeRefused(request) PROVE Typed'
  BY <1>7 DEF ServeRefused
<1>8. ASSUME NEW request \in batch, Serve(request) PROVE Typed'
  <2>1. request \in RequestType /\ (request.kind = "upload" => request.saw \in SawType)
    BY DEF ProtocolTypeOK, GoodRequest
  <2>2. probe' \in ProbeType /\ caller' \in Caller
    BY <1>8, <2>1, RevalidateEffect DEF Serve
  <2> QED
    BY <1>8, <2>1, <2>2 DEF Serve
<1>9. ASSUME NEW request \in batch, ServeCancel(request) PROVE Typed'
  BY <1>9, CancelledEffect DEF ServeCancel, Cancelled, CloseManualUi
<1> QED
  BY <1>1, <1>2, <1>3, <1>4, <1>5, <1>6, <1>7, <1>8, <1>9 DEF Loop

\* A preparation keeps the types.
LEMMA TypedByCandidate ==
  ASSUME TypeOK, ProtocolTypeOK, Candidate
  PROVE  Typed'
<1> USE TypedIsTypeOK, StatusTyped, NoProbeTyped, BoundsAssumption
         DEF Typed, Put, Goto, files, ui, agent, coroutine
<1>1. CASE SubmitHash
  BY <1>1, RevalidateEffect DEF SubmitHash
<1>2. CASE SubmitRecover
  BY <1>2, RecoverEffect DEF SubmitRecover, AnswerAndGoOn, Answer, Forget
<1>3. CASE SubmitReplace
  <2>1. cur.content \in Content
    BY <1>3 DEF SubmitReplace, ProtocolTypeOK, GoodRequest
  <2> QED
    BY <1>3, <2>1 DEF SubmitReplace, AnswerAndGoOn, Answer, Forget
<1>4. CASE SubmitRecord
  <2>1. CASE Prepared(local)
    <3>1. rec' \in RecType
      BY <2>1, PreparedEffect, TypedState
    <3> QED
      BY <1>4, <2>1, <3>1 DEF SubmitRecord, Prepared, AnswerAndGoOn, Answer, Forget
  <2>2. CASE AnswerAndGoOn /\ UNCHANGED <<rec, stored>>
    BY <1>4, <2>2 DEF SubmitRecord, AnswerAndGoOn, Answer, Forget
  <2> QED
    BY <1>4, <2>1, <2>2 DEF SubmitRecord
<1>5. CASE AckHash
  BY <1>5, RevalidateEffect, TypedState DEF AckHash
<1>6. CASE AckRecord
  <2>1. Prepared(probe.allowed)
    BY <1>6 DEF AckRecord
  <2>2. rec' \in RecType
    BY <2>1, PreparedEffect, TypedState
  <2> QED
    BY <1>6, <2>1, <2>2 DEF AckRecord, Prepared, AnswerAndGoOn, Answer, Forget
<1> QED
  BY <1>1, <1>2, <1>3, <1>4, <1>5, <1>6 DEF Candidate

\* The acceptance of a decision keeps the types.
LEMMA TypedByAcceptance ==
  ASSUME TypeOK, ProtocolTypeOK, Acceptance
  PROVE  Typed'
<1> USE TypedIsTypeOK, StatusTyped, NoProbeTyped, BoundsAssumption
         DEF Typed, Put, Goto, files, ui, agent, coroutine
<1>1. CASE Accept
  BY <1>1, AcceptEffect DEF Accept
<1>2. CASE RefuseValid
  BY <1>2 DEF RefuseValid, AnswerAndGoOn, Answer, Forget
<1>3. CASE CloseAccepted
  BY <1>3 DEF CloseAccepted, CloseManualUi, Answer
<1>4. CASE AnswerSuperseded
  BY <1>4 DEF AnswerSuperseded
<1> QED
  BY <1>1, <1>2, <1>3, <1>4 DEF Acceptance

\* The upload or its report keeps the types.
LEMMA TypedByUpload ==
  ASSUME TypeOK, ProtocolTypeOK, Upload
  PROVE  Typed'
<1> USE TypedIsTypeOK, StatusTyped, NoProbeTyped, BoundsAssumption
         DEF Typed, Put, Goto, files, ui, agent, coroutine
<1>1. CASE MarkUploading
  BY <1>1, MarkEffect DEF MarkUploading
<1>2. CASE Queue
  BY <1>2 DEF Queue
<1>3. CASE DropTask
  BY <1>3 DEF DropTask
<1>4. CASE StartPut
  BY <1>4, TypedStart DEF StartPut
<1>5. CASE PutDone
  <2>1. probe.local \in Content
    BY <1>5 DEF PutDone, ProtocolTypeOK
  <2> QED
    BY <1>5, <2>1 DEF PutDone, Forget
<1>6. CASE PutFails
  BY <1>6 DEF PutFails, Forget
<1>7. CASE Report
  BY <1>7 DEF Report, Reported
<1> QED
  BY <1>1, <1>2, <1>3, <1>4, <1>5, <1>6, <1>7 DEF Upload

\* The menu keeps the types.
LEMMA TypedByPerson ==
  ASSUME TypeOK, ProtocolTypeOK, Person
  PROVE  Typed'
<1> USE TypedIsTypeOK, StatusTyped, NoProbeTyped, BoundsAssumption
         DEF Typed, Put, Goto, files, ui, agent, coroutine
<1>1. CASE OpenMenu
  <2>1. menu' \in MenuType
    BY <1>1, MenuTyped DEF OpenMenu
  <2> QED
    BY <1>1, <2>1 DEF OpenMenu
<1>2. CASE CloseMenu
  BY <1>2 DEF CloseMenu
<1>3. CASE OpenDiff
  BY <1>3, DiffEffect DEF OpenDiff
<1>4. ASSUME NEW action \in {"overwrite", "cancel"}, Choose(action) PROVE Typed'
  <2>1. choice' \in ChoiceType
    BY <1>4, ChoiceTyped DEF Choose
  <2> QED
    BY <1>4, <2>1 DEF Choose
<1> QED
  BY <1>1, <1>2, <1>3, <1>4 DEF Person

\* An agent's call keeps the types.
LEMMA TypedByAgent ==
  ASSUME TypeOK, ProtocolTypeOK, Agent
  PROVE  Typed'
<1> USE TypedIsTypeOK, StatusTyped, NoProbeTyped, BoundsAssumption
         DEF Typed, Put, Goto, files, ui, agent, coroutine
<1>1. CASE PostAny
  <2>1. PICK kind \in {"submit", "ack", "upload", "cancel"}, expected \in Hash, content \in Hash,
             saw \in SawType \union {None} :
          Post(kind, expected, content, saw)
    BY <1>1, TypedState DEF PostAny
  <2>2. posted' \in 1..MaxRequests
    BY <2>1 DEF Post
  <2>3. [id |-> posted', kind |-> kind, revision |-> rec.revision, expected |-> expected,
         content |-> content, saw |-> saw] \in RequestType
    BY <2>2, TypedState DEF RequestType
  <2> QED
    BY <2>1, <2>2, <2>3 DEF Post
<1>2. ASSUME NEW request \in requests, Withdraw(request) PROVE Typed'
  BY <1>2 DEF Withdraw
<1> QED
  BY <1>1, <1>2 DEF Agent

\* A write by another keeps the types.
LEMMA TypedByOthers ==
  ASSUME TypeOK, ProtocolTypeOK, Others
  PROVE  Typed'
<1> USE TypedIsTypeOK, StatusTyped, NoProbeTyped, BoundsAssumption
         DEF Typed, Put, Goto, files, ui, agent, coroutine
<1>1. ASSUME NEW content \in Content, LocalEdit(content) PROVE Typed'
  BY <1>1 DEF LocalEdit
<1>2. ASSUME NEW content \in Content \union {Missing}, RemoteChange(content) PROVE Typed'
  BY <1>2 DEF RemoteChange
<1> QED
  BY <1>1, <1>2 DEF Others

\* Cancelling or disposing keeps the types.
LEMMA TypedByStop ==
  ASSUME TypeOK, ProtocolTypeOK, CancelOperation \/ Dispose
  PROVE  Typed'
<1> USE TypedIsTypeOK, StatusTyped, NoProbeTyped, BoundsAssumption
         DEF Typed, Put, Goto, files, ui, agent, coroutine
<1>1. CASE CancelOperation
  BY <1>1 DEF CancelOperation
<1>2. CASE Dispose
  BY <1>2 DEF Dispose
<1> QED
  BY <1>1, <1>2

-------------------------------------------------------------------------------
(* What the coroutine finds where it reads requests and probe.             *)

\* The capture keeps the requests and the probe in the shape its readers rely on.
LEMMA ProtocolByCapture ==
  ASSUME TypeOK, ProtocolTypeOK, Capture
  PROVE  ProtocolTypeOK'
<1> USE StatusTyped DEF ProtocolTypeOK, Label, Goto, files, ui, agent, coroutine
<1>1. CASE CaptureRecord
  BY <1>1, CaptureRecordEffect DEF CaptureRecord
<1>2. CASE CaptureLocal
  BY <1>2, CaptureLocalEffect DEF CaptureLocal
<1>3. CASE CaptureRemote
  BY <1>3 DEF CaptureRemote
<1>4. CASE CaptureThrows
  BY <1>4 DEF CaptureThrows
<1>5. CASE Captured
  BY <1>5, RevalidateEffect DEF Captured
<1> QED
  BY <1>1, <1>2, <1>3, <1>4, <1>5 DEF Capture

\* A revalidation keeps the requests and the probe in the shape its readers rely on.
LEMMA ProtocolByRevalidation ==
  ASSUME TypeOK, ProtocolTypeOK, Revalidation
  PROVE  ProtocolTypeOK'
<1> USE StatusTyped DEF ProtocolTypeOK, Label, Goto, files, ui, agent, coroutine
<1>1. CASE RevalidateHash
  BY <1>1, HashEffect, TypedState DEF RevalidateHash
<1>2. CASE RevalidateMissing
  BY <1>2, MissingEffect DEF RevalidateMissing, Supersedes
<1>3. CASE RevalidateUnchanged
  BY <1>3, UnchangedEffect DEF RevalidateUnchanged, Confirms, Supersedes
<1>4. CASE RevalidateStat
  BY <1>4, StatEffect DEF RevalidateStat
<1>5. CASE RevalidateFetch
  BY <1>5, FetchEffect DEF RevalidateFetch, Confirms, Supersedes
<1>6. CASE RevalidateThrows
  BY <1>6 DEF RevalidateThrows, AnswerAndGoOn, Answer, Forget, Leave
<1>7. CASE Invalid
  BY <1>7 DEF Invalid, AnswerAndGoOn, Answer, Forget, Leave
<1> QED
  BY <1>1, <1>2, <1>3, <1>4, <1>5, <1>6, <1>7 DEF Revalidation

\* The wait for a decision keeps the requests and the probe in the shape its readers rely on.
LEMMA ProtocolByLoop ==
  ASSUME TypeOK, ProtocolTypeOK, Loop
  PROVE  ProtocolTypeOK'
<1> USE StatusTyped DEF ProtocolTypeOK, Label, Goto, files, ui, agent, coroutine
<1>1. CASE LoopExpired
  BY <1>1 DEF LoopExpired
<1>2. CASE LoopCancelled
  BY <1>2, CancelledEffect DEF LoopCancelled, Cancelled, CloseManualUi
<1>3. CASE LoopManual
  <2>1. CASE pc' = "hash" /\ caller' = "manual"
    BY <1>3, <2>1 DEF LoopManual
  <2>2. CASE pc' \in {"poll", "answer"} /\ UNCHANGED caller
    BY <1>3, <2>2 DEF LoopManual
  <2> QED
    BY <1>3, <2>1, <2>2 DEF LoopManual, Revalidate
<1>4. CASE LoopPoll
  BY <1>4 DEF LoopPoll
<1>5. CASE Poll
  BY <1>5 DEF Poll
<1>6. CASE ServeDone
  BY <1>6 DEF ServeDone
<1>7. ASSUME NEW request \in batch, ServeRefused(request) PROVE ProtocolTypeOK'
  BY <1>7 DEF ServeRefused
<1>8. ASSUME NEW request \in batch, Serve(request) PROVE ProtocolTypeOK'
  <2>1. GoodRequest(request) /\ (request.kind = "submit" \/ pc' # "submit")
    BY <1>8 DEF Serve, Revalidate
  <2>2. /\ pc' \in {"submit", "ack", "hash"} /\ (pc' = "hash" => caller' # "none")
        /\ cur' = request /\ requests' = requests /\ batch' \subseteq batch
    BY <1>8 DEF Serve, Revalidate
  <2> QED
    BY <2>1, <2>2
<1>9. ASSUME NEW request \in batch, ServeCancel(request) PROVE ProtocolTypeOK'
  BY <1>9, CancelledEffect DEF ServeCancel, Cancelled, CloseManualUi
<1> QED
  BY <1>1, <1>2, <1>3, <1>4, <1>5, <1>6, <1>7, <1>8, <1>9 DEF Loop

\* A preparation keeps the requests and the probe in the shape its readers rely on.
LEMMA ProtocolByCandidate ==
  ASSUME TypeOK, ProtocolTypeOK, Candidate
  PROVE  ProtocolTypeOK'
<1> USE StatusTyped DEF ProtocolTypeOK, Label, Goto, files, ui, agent, coroutine
<1>1. CASE SubmitHash
  BY <1>1, RevalidateEffect DEF SubmitHash
<1>2. CASE SubmitRecover
  BY <1>2, RecoverEffect DEF SubmitRecover, AnswerAndGoOn, Answer, Forget
<1>3. CASE SubmitReplace
  BY <1>3 DEF SubmitReplace, AnswerAndGoOn, Answer, Forget
<1>4. CASE SubmitRecord
  BY <1>4 DEF SubmitRecord, Prepared, AnswerAndGoOn, Answer, Forget
<1>5. CASE AckHash
  BY <1>5 DEF AckHash, Revalidate
<1>6. CASE AckRecord
  BY <1>6 DEF AckRecord, Prepared, AnswerAndGoOn, Answer, Forget
<1> QED
  BY <1>1, <1>2, <1>3, <1>4, <1>5, <1>6 DEF Candidate

\* The acceptance of a decision keeps the requests and the probe in the shape its readers
\* rely on.
LEMMA ProtocolByAcceptance ==
  ASSUME TypeOK, ProtocolTypeOK, Acceptance
  PROVE  ProtocolTypeOK'
<1> USE StatusTyped DEF ProtocolTypeOK, Label, Goto, files, ui, agent, coroutine
<1>1. CASE Accept
  BY <1>1, AcceptEffect DEF Accept
<1>2. CASE RefuseValid
  BY <1>2 DEF RefuseValid, AnswerAndGoOn, Answer, Forget
<1>3. CASE CloseAccepted
  BY <1>3 DEF CloseAccepted, CloseManualUi, Answer
<1>4. CASE AnswerSuperseded
  BY <1>4 DEF AnswerSuperseded
<1> QED
  BY <1>1, <1>2, <1>3, <1>4 DEF Acceptance

\* The upload or its report keeps the requests and the probe in the shape its readers rely on.
LEMMA ProtocolByUpload ==
  ASSUME TypeOK, ProtocolTypeOK, Upload
  PROVE  ProtocolTypeOK'
<1> USE StatusTyped DEF ProtocolTypeOK, Label, Goto, files, ui, agent, coroutine
<1>1. CASE MarkUploading
  BY <1>1, MarkEffect DEF MarkUploading
<1>2. CASE Queue
  BY <1>2 DEF Queue
<1>3. CASE DropTask
  BY <1>3 DEF DropTask
<1>4. CASE StartPut
  BY <1>4, TypedStart, TypedState DEF StartPut
<1>5. CASE PutDone
  BY <1>5 DEF PutDone, Forget
<1>6. CASE PutFails
  BY <1>6 DEF PutFails, Forget
<1>7. CASE Report
  BY <1>7 DEF Report, Reported
<1> QED
  BY <1>1, <1>2, <1>3, <1>4, <1>5, <1>6, <1>7 DEF Upload

\* The menu keeps the requests and the probe in the shape its readers rely on.
LEMMA ProtocolByPerson ==
  ASSUME TypeOK, ProtocolTypeOK, Person
  PROVE  ProtocolTypeOK'
<1> USE StatusTyped DEF ProtocolTypeOK, Label, Goto, files, ui, agent, coroutine
<1>1. CASE OpenMenu
  BY <1>1 DEF OpenMenu
<1>2. CASE CloseMenu
  BY <1>2 DEF CloseMenu
<1>3. CASE OpenDiff
  BY <1>3, DiffEffect DEF OpenDiff
<1>4. ASSUME NEW action \in {"overwrite", "cancel"}, Choose(action) PROVE ProtocolTypeOK'
  BY <1>4 DEF Choose
<1> QED
  BY <1>1, <1>2, <1>3, <1>4 DEF Person

\* An agent's call keeps the requests and the probe in the shape its readers rely on.
LEMMA ProtocolByAgent ==
  ASSUME TypeOK, ProtocolTypeOK, Agent
  PROVE  ProtocolTypeOK'
<1> USE StatusTyped DEF ProtocolTypeOK, Label, Goto, files, ui, agent, coroutine
<1>1. CASE PostAny
  <2>1. PICK kind \in {"submit", "ack", "upload", "cancel"}, expected \in Hash, content \in Hash,
             saw \in SawType \union {None} :
          /\ Post(kind, expected, content, saw)
          /\ kind = "upload" => saw \in SawType
          /\ kind = "submit" => content \in Content
    BY <1>1, TypedState, StatusTyped DEF PostAny
  <2>2. posted' \in 1..MaxRequests
    BY <2>1, BoundsAssumption, TypedIsTypeOK DEF Post, Typed
  <2> DEFINE request == [id |-> posted', kind |-> kind, revision |-> rec.revision,
                         expected |-> expected, content |-> content, saw |-> saw]
  <2>3. GoodRequest(request)
    BY <2>1, <2>2, TypedState DEF RequestType, GoodRequest
  <2>4. requests' = requests \union {request}
    BY <2>1 DEF Post
  <2> HIDE DEF request
  <2> QED
    BY <2>1, <2>3, <2>4 DEF Post
<1>2. ASSUME NEW request \in requests, Withdraw(request) PROVE ProtocolTypeOK'
  BY <1>2 DEF Withdraw
<1> QED
  BY <1>1, <1>2 DEF Agent

\* A write by another keeps the requests and the probe in the shape its readers rely on.
LEMMA ProtocolByOthers ==
  ASSUME TypeOK, ProtocolTypeOK, Others
  PROVE  ProtocolTypeOK'
<1> USE StatusTyped DEF ProtocolTypeOK, Label, Goto, files, ui, agent, coroutine
<1>1. ASSUME NEW content \in Content, LocalEdit(content) PROVE ProtocolTypeOK'
  BY <1>1 DEF LocalEdit
<1>2. ASSUME NEW content \in Content \union {Missing}, RemoteChange(content) PROVE ProtocolTypeOK'
  BY <1>2 DEF RemoteChange
<1> QED
  BY <1>1, <1>2 DEF Others

\* Cancelling or disposing keeps the requests and the probe in the shape its readers rely on.
LEMMA ProtocolByStop ==
  ASSUME TypeOK, ProtocolTypeOK, CancelOperation \/ Dispose
  PROVE  ProtocolTypeOK'
<1> USE StatusTyped DEF ProtocolTypeOK, Label, Goto, files, ui, agent, coroutine
<1>1. CASE CancelOperation
  BY <1>1 DEF CancelOperation
<1>2. CASE Dispose
  BY <1>2 DEF Dispose
<1> QED
  BY <1>1, <1>2

-------------------------------------------------------------------------------
(* The capture.                                                            *)

\* The capture keeps the record as bare as it is before it is published.
LEMMA CaptureByCapture ==
  ASSUME TypeOK, ProtocolTypeOK, CaptureInv, Capture
  PROVE  CaptureInv'
<1> USE StatusTyped DEF CaptureInv, Capturing, Goto, files, ui, agent, coroutine
<1>1. CASE CaptureRecord
  BY <1>1, CaptureRecordEffect DEF CaptureRecord
<1>2. CASE CaptureLocal
  BY <1>2, CaptureLocalEffect DEF CaptureLocal
<1>3. CASE CaptureRemote
  BY <1>3, CaptureRemoteStep
<1>4. CASE CaptureThrows
  BY <1>4 DEF CaptureThrows
<1>5. CASE Captured
  BY <1>5, RevalidateEffect DEF Captured
<1> QED
  BY <1>1, <1>2, <1>3, <1>4, <1>5 DEF Capture

\* A revalidation keeps the record as bare as it is before it is published.
LEMMA CaptureByRevalidation ==
  ASSUME TypeOK, ProtocolTypeOK, CaptureInv, Revalidation
  PROVE  CaptureInv'
<1> USE StatusTyped DEF CaptureInv, Capturing, Goto, files, ui, agent, coroutine
<1>1. CASE RevalidateHash
  BY <1>1, HashEffect DEF RevalidateHash
<1>2. CASE RevalidateMissing
  BY <1>2, MissingEffect DEF RevalidateMissing, Supersedes
<1>3. CASE RevalidateUnchanged
  BY <1>3, UnchangedEffect DEF RevalidateUnchanged, Confirms, Supersedes
<1>4. CASE RevalidateStat
  BY <1>4, StatEffect DEF RevalidateStat
<1>5. CASE RevalidateFetch
  BY <1>5, FetchEffect DEF RevalidateFetch, Confirms, Supersedes
<1>6. CASE RevalidateThrows
  BY <1>6 DEF RevalidateThrows, AnswerAndGoOn, Answer, Forget, Leave
<1>7. CASE Invalid
  BY <1>7 DEF Invalid, AnswerAndGoOn, Answer, Forget, Leave
<1> QED
  BY <1>1, <1>2, <1>3, <1>4, <1>5, <1>6, <1>7 DEF Revalidation

\* The wait for a decision keeps the record as bare as it is before it is published.
LEMMA CaptureByLoop ==
  ASSUME TypeOK, ProtocolTypeOK, CaptureInv, Loop
  PROVE  CaptureInv'
<1> USE StatusTyped DEF CaptureInv, Capturing, Goto, files, ui, agent, coroutine
<1>1. CASE LoopExpired
  BY <1>1 DEF LoopExpired
<1>2. CASE LoopCancelled
  BY <1>2, CancelledEffect DEF LoopCancelled, Cancelled, CloseManualUi
<1>3. CASE LoopManual
  BY <1>3, LoopManualStep, CancelledEffect DEF Cancelled, CloseManualUi
<1>4. CASE LoopPoll
  BY <1>4 DEF LoopPoll
<1>5. CASE Poll
  BY <1>5 DEF Poll
<1>6. CASE ServeDone
  BY <1>6 DEF ServeDone
<1>7. ASSUME NEW request \in batch, ServeRefused(request) PROVE CaptureInv'
  BY <1>7 DEF ServeRefused
<1>8. ASSUME NEW request \in batch, Serve(request) PROVE CaptureInv'
  BY <1>8, ServeStep
<1>9. ASSUME NEW request \in batch, ServeCancel(request) PROVE CaptureInv'
  BY <1>9, CancelledEffect DEF ServeCancel, Cancelled, CloseManualUi
<1> QED
  BY <1>1, <1>2, <1>3, <1>4, <1>5, <1>6, <1>7, <1>8, <1>9 DEF Loop

\* A preparation keeps the record as bare as it is before it is published.
LEMMA CaptureByCandidate ==
  ASSUME TypeOK, ProtocolTypeOK, CaptureInv, Candidate
  PROVE  CaptureInv'
<1> USE StatusTyped DEF CaptureInv, Capturing, Goto, files, ui, agent, coroutine
<1>1. CASE SubmitHash
  BY <1>1, SubmitHashStep
<1>2. CASE SubmitRecover
  BY <1>2, RecoverEffect DEF SubmitRecover, AnswerAndGoOn, Answer, Forget
<1>3. CASE SubmitReplace
  BY <1>3 DEF SubmitReplace, AnswerAndGoOn, Answer, Forget
<1>4. CASE SubmitRecord
  BY <1>4, SubmitRecordStep DEF AnswerAndGoOn, Answer, Forget
<1>5. CASE AckHash
  BY <1>5, AckHashStep
<1>6. CASE AckRecord
  BY <1>6, AckRecordStep DEF AnswerAndGoOn, Answer, Forget
<1> QED
  BY <1>1, <1>2, <1>3, <1>4, <1>5, <1>6 DEF Candidate

\* The acceptance of a decision keeps the record as bare as it is before it is published.
LEMMA CaptureByAcceptance ==
  ASSUME TypeOK, ProtocolTypeOK, CaptureInv, Acceptance
  PROVE  CaptureInv'
<1> USE StatusTyped DEF CaptureInv, Capturing, Goto, files, ui, agent, coroutine
<1>1. CASE Accept
  BY <1>1, AcceptEffect DEF Accept
<1>2. CASE RefuseValid
  BY <1>2 DEF RefuseValid, AnswerAndGoOn, Answer, Forget
<1>3. CASE CloseAccepted
  BY <1>3 DEF CloseAccepted, CloseManualUi, Answer
<1>4. CASE AnswerSuperseded
  BY <1>4 DEF AnswerSuperseded
<1> QED
  BY <1>1, <1>2, <1>3, <1>4 DEF Acceptance

\* The upload or its report keeps the record as bare as it is before it is published.
LEMMA CaptureByUpload ==
  ASSUME TypeOK, ProtocolTypeOK, CaptureInv, Upload
  PROVE  CaptureInv'
<1> USE StatusTyped DEF CaptureInv, Capturing, Goto, files, ui, agent, coroutine
<1>1. CASE MarkUploading
  BY <1>1, MarkEffect DEF MarkUploading
<1>2. CASE Queue
  BY <1>2 DEF Queue
<1>3. CASE DropTask
  BY <1>3 DEF DropTask
<1>4. CASE StartPut
  BY <1>4, TypedStart DEF StartPut
<1>5. CASE PutDone
  BY <1>5 DEF PutDone, Forget
<1>6. CASE PutFails
  BY <1>6 DEF PutFails, Forget
<1>7. CASE Report
  BY <1>7 DEF Report, Reported
<1> QED
  BY <1>1, <1>2, <1>3, <1>4, <1>5, <1>6, <1>7 DEF Upload

\* The menu keeps the record as bare as it is before it is published.
LEMMA CaptureByPerson ==
  ASSUME TypeOK, ProtocolTypeOK, CaptureInv, Person
  PROVE  CaptureInv'
<1> USE StatusTyped DEF CaptureInv, Capturing, Goto, files, ui, agent, coroutine
<1>1. CASE OpenMenu
  BY <1>1 DEF OpenMenu
<1>2. CASE CloseMenu
  BY <1>2 DEF CloseMenu
<1>3. CASE OpenDiff
  BY <1>3, DiffEffect DEF OpenDiff
<1>4. ASSUME NEW action \in {"overwrite", "cancel"}, Choose(action) PROVE CaptureInv'
  BY <1>4 DEF Choose
<1> QED
  BY <1>1, <1>2, <1>3, <1>4 DEF Person

\* An agent's call keeps the record as bare as it is before it is published.
LEMMA CaptureByAgent ==
  ASSUME TypeOK, ProtocolTypeOK, CaptureInv, Agent
  PROVE  CaptureInv'
<1> USE StatusTyped DEF CaptureInv, Capturing, Goto, files, ui, agent, coroutine
<1>1. CASE PostAny
  BY <1>1, NoneAssumption DEF PostAny, Post
<1>2. ASSUME NEW request \in requests, Withdraw(request) PROVE CaptureInv'
  BY <1>2 DEF Withdraw
<1> QED
  BY <1>1, <1>2 DEF Agent

\* A write by another keeps the record as bare as it is before it is published.
LEMMA CaptureByOthers ==
  ASSUME TypeOK, ProtocolTypeOK, CaptureInv, Others
  PROVE  CaptureInv'
<1> USE StatusTyped DEF CaptureInv, Capturing, Goto, files, ui, agent, coroutine
<1>1. ASSUME NEW content \in Content, LocalEdit(content) PROVE CaptureInv'
  BY <1>1 DEF LocalEdit
<1>2. ASSUME NEW content \in Content \union {Missing}, RemoteChange(content) PROVE CaptureInv'
  BY <1>2 DEF RemoteChange
<1> QED
  BY <1>1, <1>2 DEF Others

\* Cancelling or disposing keeps the record as bare as it is before it is published.
LEMMA CaptureByStop ==
  ASSUME TypeOK, ProtocolTypeOK, CaptureInv, CancelOperation \/ Dispose
  PROVE  CaptureInv'
<1> USE StatusTyped DEF CaptureInv, Capturing, Goto, files, ui, agent, coroutine
<1>1. CASE CancelOperation
  BY <1>1 DEF CancelOperation
<1>2. CASE Dispose
  BY <1>2 DEF Dispose
<1> QED
  BY <1>1, <1>2

-------------------------------------------------------------------------------
(* Statuses.                                                               *)

\* The capture keeps the statuses in step with the coroutine.
LEMMA StatusByCapture ==
  ASSUME TypeOK, ProtocolTypeOK, CaptureInv, StatusInv, Capture
  PROVE  StatusInv'
<1> USE StatusTyped, NoneAssumption DEF StatusInv, OverwriteDecided, CancelDecided, Terminal,
       Goto, files, ui, agent, coroutine
<1>1. CASE CaptureRecord
  BY <1>1, CaptureRecordEffect DEF CaptureRecord
<1>2. CASE CaptureLocal
  BY <1>2, CaptureLocalEffect DEF CaptureLocal
<1>3. CASE CaptureRemote
  BY <1>3, CaptureRemoteStep
<1>4. CASE CaptureThrows
  BY <1>4 DEF CaptureThrows
<1>5. CASE Captured
  BY <1>5, RevalidateEffect DEF Captured
<1> QED
  BY <1>1, <1>2, <1>3, <1>4, <1>5 DEF Capture

\* A revalidation keeps the statuses in step with the coroutine.
LEMMA StatusByRevalidation ==
  ASSUME TypeOK, ProtocolTypeOK, CaptureInv, StatusInv, Revalidation
  PROVE  StatusInv'
<1> USE StatusTyped, NoneAssumption DEF StatusInv, OverwriteDecided, CancelDecided, Terminal,
       Goto, files, ui, agent, coroutine
<1>1. CASE RevalidateHash
  BY <1>1, HashEffect DEF RevalidateHash
<1>2. CASE RevalidateMissing
  BY <1>2, MissingEffect DEF RevalidateMissing, Supersedes
<1>3. CASE RevalidateUnchanged
  BY <1>3, UnchangedEffect DEF RevalidateUnchanged, Confirms, Supersedes
<1>4. CASE RevalidateStat
  BY <1>4, StatEffect DEF RevalidateStat
<1>5. CASE RevalidateFetch
  BY <1>5, FetchEffect DEF RevalidateFetch, Confirms, Supersedes
<1>6. CASE RevalidateThrows
  BY <1>6 DEF RevalidateThrows, AnswerAndGoOn, Answer, Forget, Leave
<1>7. CASE Invalid
  BY <1>7 DEF Invalid, AnswerAndGoOn, Answer, Forget, Leave
<1> QED
  BY <1>1, <1>2, <1>3, <1>4, <1>5, <1>6, <1>7 DEF Revalidation

\* The wait for a decision keeps the statuses in step with the coroutine.
LEMMA StatusByLoop ==
  ASSUME TypeOK, ProtocolTypeOK, CaptureInv, StatusInv, Loop
  PROVE  StatusInv'
<1> USE StatusTyped, NoneAssumption DEF StatusInv, OverwriteDecided, CancelDecided, Terminal,
       Goto, files, ui, agent, coroutine
<1>1. CASE LoopExpired
  BY <1>1 DEF LoopExpired
<1>2. CASE LoopCancelled
  BY <1>2, CancelledEffect DEF LoopCancelled, Cancelled, CloseManualUi
<1>3. CASE LoopManual
  BY <1>3, LoopManualStep, CancelledEffect DEF Cancelled, CloseManualUi
<1>4. CASE LoopPoll
  BY <1>4 DEF LoopPoll
<1>5. CASE Poll
  BY <1>5 DEF Poll
<1>6. CASE ServeDone
  BY <1>6 DEF ServeDone
<1>7. ASSUME NEW request \in batch, ServeRefused(request) PROVE StatusInv'
  BY <1>7 DEF ServeRefused
<1>8. ASSUME NEW request \in batch, Serve(request) PROVE StatusInv'
  BY <1>8, ServeStep
<1>9. ASSUME NEW request \in batch, ServeCancel(request) PROVE StatusInv'
  BY <1>9, CancelledEffect DEF ServeCancel, Cancelled, CloseManualUi
<1> QED
  BY <1>1, <1>2, <1>3, <1>4, <1>5, <1>6, <1>7, <1>8, <1>9 DEF Loop

\* A preparation keeps the statuses in step with the coroutine.
LEMMA StatusByCandidate ==
  ASSUME TypeOK, ProtocolTypeOK, CaptureInv, StatusInv, Candidate
  PROVE  StatusInv'
<1> USE StatusTyped, NoneAssumption DEF StatusInv, OverwriteDecided, CancelDecided, Terminal,
       Goto, files, ui, agent, coroutine
<1>1. CASE SubmitHash
  BY <1>1, SubmitHashStep
<1>2. CASE SubmitRecover
  BY <1>2, RecoverEffect DEF SubmitRecover, AnswerAndGoOn, Answer, Forget
<1>3. CASE SubmitReplace
  BY <1>3 DEF SubmitReplace, AnswerAndGoOn, Answer, Forget
<1>4. CASE SubmitRecord
  BY <1>4, SubmitRecordStep DEF AnswerAndGoOn, Answer, Forget
<1>5. CASE AckHash
  BY <1>5, AckHashStep
<1>6. CASE AckRecord
  BY <1>6, AckRecordStep DEF AnswerAndGoOn, Answer, Forget
<1> QED
  BY <1>1, <1>2, <1>3, <1>4, <1>5, <1>6 DEF Candidate

\* The acceptance of a decision keeps the statuses in step with the coroutine.
LEMMA StatusByAcceptance ==
  ASSUME TypeOK, ProtocolTypeOK, CaptureInv, StatusInv, Acceptance
  PROVE  StatusInv'
<1> USE StatusTyped, NoneAssumption DEF StatusInv, OverwriteDecided, CancelDecided, Terminal,
       Goto, files, ui, agent, coroutine
<1>1. CASE Accept
  BY <1>1, AcceptEffect DEF Accept
<1>2. CASE RefuseValid
  BY <1>2 DEF RefuseValid, AnswerAndGoOn, Answer, Forget
<1>3. CASE CloseAccepted
  BY <1>3 DEF CloseAccepted, CloseManualUi, Answer
<1>4. CASE AnswerSuperseded
  BY <1>4 DEF AnswerSuperseded
<1> QED
  BY <1>1, <1>2, <1>3, <1>4 DEF Acceptance

\* The upload or its report keeps the statuses in step with the coroutine.
LEMMA StatusByUpload ==
  ASSUME TypeOK, ProtocolTypeOK, CaptureInv, StatusInv, Upload
  PROVE  StatusInv'
<1> USE StatusTyped, NoneAssumption DEF StatusInv, OverwriteDecided, CancelDecided, Terminal,
       Goto, files, ui, agent, coroutine
<1>1. CASE MarkUploading
  BY <1>1, MarkEffect DEF MarkUploading
<1>2. CASE Queue
  BY <1>2 DEF Queue
<1>3. CASE DropTask
  BY <1>3 DEF DropTask
<1>4. CASE StartPut
  BY <1>4, TypedStart DEF StartPut
<1>5. CASE PutDone
  BY <1>5 DEF PutDone, Forget
<1>6. CASE PutFails
  BY <1>6 DEF PutFails, Forget
<1>7. CASE Report
  BY <1>7 DEF Report, Reported
<1> QED
  BY <1>1, <1>2, <1>3, <1>4, <1>5, <1>6, <1>7 DEF Upload

\* The menu keeps the statuses in step with the coroutine.
LEMMA StatusByPerson ==
  ASSUME TypeOK, ProtocolTypeOK, CaptureInv, StatusInv, Person
  PROVE  StatusInv'
<1> USE StatusTyped, NoneAssumption DEF StatusInv, OverwriteDecided, CancelDecided, Terminal,
       Goto, files, ui, agent, coroutine
<1>1. CASE OpenMenu
  BY <1>1 DEF OpenMenu
<1>2. CASE CloseMenu
  BY <1>2 DEF CloseMenu
<1>3. CASE OpenDiff
  BY <1>3, DiffEffect DEF OpenDiff
<1>4. ASSUME NEW action \in {"overwrite", "cancel"}, Choose(action) PROVE StatusInv'
  BY <1>4 DEF Choose
<1> QED
  BY <1>1, <1>2, <1>3, <1>4 DEF Person

\* An agent's call keeps the statuses in step with the coroutine.
LEMMA StatusByAgent ==
  ASSUME TypeOK, ProtocolTypeOK, CaptureInv, StatusInv, Agent
  PROVE  StatusInv'
<1> USE StatusTyped, NoneAssumption DEF StatusInv, OverwriteDecided, CancelDecided, Terminal,
       Goto, files, ui, agent, coroutine
<1>1. CASE PostAny
  BY <1>1, NoneAssumption DEF PostAny, Post
<1>2. ASSUME NEW request \in requests, Withdraw(request) PROVE StatusInv'
  BY <1>2 DEF Withdraw
<1> QED
  BY <1>1, <1>2 DEF Agent

\* A write by another keeps the statuses in step with the coroutine.
LEMMA StatusByOthers ==
  ASSUME TypeOK, ProtocolTypeOK, CaptureInv, StatusInv, Others
  PROVE  StatusInv'
<1> USE StatusTyped, NoneAssumption DEF StatusInv, OverwriteDecided, CancelDecided, Terminal,
       Goto, files, ui, agent, coroutine
<1>1. ASSUME NEW content \in Content, LocalEdit(content) PROVE StatusInv'
  BY <1>1 DEF LocalEdit
<1>2. ASSUME NEW content \in Content \union {Missing}, RemoteChange(content) PROVE StatusInv'
  BY <1>2 DEF RemoteChange
<1> QED
  BY <1>1, <1>2 DEF Others

\* Cancelling or disposing keeps the statuses in step with the coroutine.
LEMMA StatusByStop ==
  ASSUME TypeOK, ProtocolTypeOK, CaptureInv, StatusInv, CancelOperation \/ Dispose
  PROVE  StatusInv'
<1> USE StatusTyped, NoneAssumption DEF StatusInv, OverwriteDecided, CancelDecided, Terminal,
       Goto, files, ui, agent, coroutine
<1>1. CASE CancelOperation
  BY <1>1 DEF CancelOperation
<1>2. CASE Dispose
  BY <1>2 DEF Dispose
<1> QED
  BY <1>1, <1>2

-------------------------------------------------------------------------------
(* Menus and held paths.                                                   *)

\* The capture closes every menu on a decided record, and leaves no open one unheld.
LEMMA MenuByCapture ==
  ASSUME TypeOK, ProtocolTypeOK, CaptureInv, StatusInv, MenuInv, Capture
  PROVE  MenuInv'
<1> USE StatusTyped, NoneAssumption DEF MenuInv, BatchDecided, OverwriteDecided, Terminal, Goto,
       files, ui, agent, coroutine
<1>1. CASE CaptureRecord
  BY <1>1, CaptureRecordEffect DEF CaptureRecord
<1>2. CASE CaptureLocal
  BY <1>2, CaptureLocalEffect DEF CaptureLocal, StatusInv, CancelDecided
<1>3. CASE CaptureRemote
  BY <1>3, CaptureRemoteStep DEF StatusInv, CancelDecided
<1>4. CASE CaptureThrows
  BY <1>4 DEF CaptureThrows
<1>5. CASE Captured
  BY <1>5, RevalidateEffect DEF Captured
<1> QED
  BY <1>1, <1>2, <1>3, <1>4, <1>5 DEF Capture

\* A revalidation closes every menu on a decided record, and leaves no open one unheld.
LEMMA MenuByRevalidation ==
  ASSUME TypeOK, ProtocolTypeOK, CaptureInv, StatusInv, MenuInv, Revalidation
  PROVE  MenuInv'
<1> USE StatusTyped, NoneAssumption DEF MenuInv, BatchDecided, OverwriteDecided, Terminal, Goto,
       files, ui, agent, coroutine
<1>1. CASE RevalidateHash
  BY <1>1, HashEffect DEF RevalidateHash
<1>2. CASE RevalidateMissing
  BY <1>2, MissingEffect DEF RevalidateMissing, Supersedes, StatusInv, CancelDecided
<1>3. CASE RevalidateUnchanged
  BY <1>3, UnchangedEffect DEF RevalidateUnchanged, Confirms, Supersedes, StatusInv, CancelDecided
<1>4. CASE RevalidateStat
  BY <1>4, StatEffect DEF RevalidateStat
<1>5. CASE RevalidateFetch
  BY <1>5, FetchEffect DEF RevalidateFetch, Confirms, Supersedes, StatusInv, CancelDecided
<1>6. CASE RevalidateThrows
  BY <1>6 DEF RevalidateThrows, AnswerAndGoOn, Answer, Forget, Leave
<1>7. CASE Invalid
  BY <1>7 DEF Invalid, AnswerAndGoOn, Answer, Forget, Leave
<1> QED
  BY <1>1, <1>2, <1>3, <1>4, <1>5, <1>6, <1>7 DEF Revalidation

\* The wait for a decision closes every menu on a decided record, and leaves no open one unheld.
LEMMA MenuByLoop ==
  ASSUME TypeOK, ProtocolTypeOK, CaptureInv, StatusInv, MenuInv, Loop
  PROVE  MenuInv'
<1> USE StatusTyped, NoneAssumption DEF MenuInv, BatchDecided, OverwriteDecided, Terminal, Goto,
       files, ui, agent, coroutine
<1>1. CASE LoopExpired
  BY <1>1 DEF LoopExpired
<1>2. CASE LoopCancelled
  BY <1>2, CancelledEffect DEF LoopCancelled, Cancelled, CloseManualUi
<1>3. CASE LoopManual
  BY <1>3, LoopManualStep, CancelledEffect DEF Cancelled, CloseManualUi, StatusInv, CancelDecided
<1>4. CASE LoopPoll
  BY <1>4 DEF LoopPoll
<1>5. CASE Poll
  BY <1>5 DEF Poll
<1>6. CASE ServeDone
  BY <1>6 DEF ServeDone
<1>7. ASSUME NEW request \in batch, ServeRefused(request) PROVE MenuInv'
  BY <1>7 DEF ServeRefused
<1>8. ASSUME NEW request \in batch, Serve(request) PROVE MenuInv'
  BY <1>8, ServeStep
<1>9. ASSUME NEW request \in batch, ServeCancel(request) PROVE MenuInv'
  BY <1>9, CancelledEffect DEF ServeCancel, Cancelled, CloseManualUi
<1> QED
  BY <1>1, <1>2, <1>3, <1>4, <1>5, <1>6, <1>7, <1>8, <1>9 DEF Loop

\* A preparation closes every menu on a decided record, and leaves no open one unheld.
LEMMA MenuByCandidate ==
  ASSUME TypeOK, ProtocolTypeOK, CaptureInv, StatusInv, MenuInv, Candidate
  PROVE  MenuInv'
<1> USE StatusTyped, NoneAssumption DEF MenuInv, BatchDecided, OverwriteDecided, Terminal, Goto,
       files, ui, agent, coroutine
<1>1. CASE SubmitHash
  BY <1>1, SubmitHashStep
<1>2. CASE SubmitRecover
  BY <1>2, RecoverEffect DEF SubmitRecover, AnswerAndGoOn, Answer, Forget
<1>3. CASE SubmitReplace
  BY <1>3 DEF SubmitReplace, AnswerAndGoOn, Answer, Forget
<1>4. CASE SubmitRecord
  BY <1>4, SubmitRecordStep DEF AnswerAndGoOn, Answer, Forget, StatusInv, CancelDecided
<1>5. CASE AckHash
  BY <1>5, AckHashStep
<1>6. CASE AckRecord
  BY <1>6, AckRecordStep DEF AnswerAndGoOn, Answer, Forget, StatusInv, CancelDecided
<1> QED
  BY <1>1, <1>2, <1>3, <1>4, <1>5, <1>6 DEF Candidate

\* The acceptance of a decision closes every menu on a decided record, and leaves no open
\* one unheld.
LEMMA MenuByAcceptance ==
  ASSUME TypeOK, ProtocolTypeOK, CaptureInv, StatusInv, MenuInv, Acceptance
  PROVE  MenuInv'
<1> USE StatusTyped, NoneAssumption DEF MenuInv, BatchDecided, OverwriteDecided, Terminal, Goto,
       files, ui, agent, coroutine
<1>1. CASE Accept
  BY <1>1, AcceptEffect DEF Accept, StatusInv, CancelDecided
<1>2. CASE RefuseValid
  BY <1>2 DEF RefuseValid, AnswerAndGoOn, Answer, Forget
<1>3. CASE CloseAccepted
  BY <1>3 DEF CloseAccepted, CloseManualUi, Answer
<1>4. CASE AnswerSuperseded
  BY <1>4 DEF AnswerSuperseded
<1> QED
  BY <1>1, <1>2, <1>3, <1>4 DEF Acceptance

\* The upload or its report closes every menu on a decided record, and leaves no open one
\* unheld.
LEMMA MenuByUpload ==
  ASSUME TypeOK, ProtocolTypeOK, CaptureInv, StatusInv, MenuInv, Upload
  PROVE  MenuInv'
<1> USE StatusTyped, NoneAssumption DEF MenuInv, BatchDecided, OverwriteDecided, Terminal, Goto,
       files, ui, agent, coroutine
<1>1. CASE MarkUploading
  BY <1>1, MarkEffect DEF MarkUploading, StatusInv, CancelDecided
<1>2. CASE Queue
  BY <1>2 DEF Queue
<1>3. CASE DropTask
  BY <1>3 DEF DropTask
<1>4. CASE StartPut
  BY <1>4, TypedStart DEF StartPut
<1>5. CASE PutDone
  BY <1>5 DEF PutDone, Forget
<1>6. CASE PutFails
  BY <1>6 DEF PutFails, Forget
<1>7. CASE Report
  BY <1>7 DEF Report, Reported
<1> QED
  BY <1>1, <1>2, <1>3, <1>4, <1>5, <1>6, <1>7 DEF Upload

\* The menu closes every menu on a decided record, and leaves no open one unheld.
LEMMA MenuByPerson ==
  ASSUME TypeOK, ProtocolTypeOK, CaptureInv, StatusInv, MenuInv, Person
  PROVE  MenuInv'
<1> USE StatusTyped, NoneAssumption DEF MenuInv, BatchDecided, OverwriteDecided, Terminal, Goto,
       files, ui, agent, coroutine
<1>1. CASE OpenMenu
  BY <1>1 DEF OpenMenu
<1>2. CASE CloseMenu
  BY <1>2 DEF CloseMenu
<1>3. CASE OpenDiff
  BY <1>3, DiffEffect DEF OpenDiff, StatusInv, CancelDecided
<1>4. ASSUME NEW action \in {"overwrite", "cancel"}, Choose(action) PROVE MenuInv'
  BY <1>4 DEF Choose
<1> QED
  BY <1>1, <1>2, <1>3, <1>4 DEF Person

\* An agent's call closes every menu on a decided record, and leaves no open one unheld.
LEMMA MenuByAgent ==
  ASSUME TypeOK, ProtocolTypeOK, CaptureInv, StatusInv, MenuInv, Agent
  PROVE  MenuInv'
<1> USE StatusTyped, NoneAssumption DEF MenuInv, BatchDecided, OverwriteDecided, Terminal, Goto,
       files, ui, agent, coroutine
<1>1. CASE PostAny
  BY <1>1, NoneAssumption DEF PostAny, Post
<1>2. ASSUME NEW request \in requests, Withdraw(request) PROVE MenuInv'
  BY <1>2 DEF Withdraw
<1> QED
  BY <1>1, <1>2 DEF Agent

\* A write by another closes every menu on a decided record, and leaves no open one unheld.
LEMMA MenuByOthers ==
  ASSUME TypeOK, ProtocolTypeOK, CaptureInv, StatusInv, MenuInv, Others
  PROVE  MenuInv'
<1> USE StatusTyped, NoneAssumption DEF MenuInv, BatchDecided, OverwriteDecided, Terminal, Goto,
       files, ui, agent, coroutine
<1>1. ASSUME NEW content \in Content, LocalEdit(content) PROVE MenuInv'
  BY <1>1 DEF LocalEdit
<1>2. ASSUME NEW content \in Content \union {Missing}, RemoteChange(content) PROVE MenuInv'
  BY <1>2 DEF RemoteChange
<1> QED
  BY <1>1, <1>2 DEF Others

\* Cancelling or disposing closes every menu on a decided record, and leaves no open one unheld.
LEMMA MenuByStop ==
  ASSUME TypeOK, ProtocolTypeOK, CaptureInv, StatusInv, MenuInv, CancelOperation \/ Dispose
  PROVE  MenuInv'
<1> USE StatusTyped, NoneAssumption DEF MenuInv, BatchDecided, OverwriteDecided, Terminal, Goto,
       files, ui, agent, coroutine
<1>1. CASE CancelOperation
  BY <1>1 DEF CancelOperation
<1>2. CASE Dispose
  BY <1>2 DEF Dispose
<1> QED
  BY <1>1, <1>2

-------------------------------------------------------------------------------
(* Candidates and decisions.                                               *)

\* The capture keeps what a candidate and a decision stand for.
LEMMA CandidateByCapture ==
  ASSUME TypeOK, ProtocolTypeOK, CaptureInv, StatusInv, MenuInv, CandidateInv, Capture
  PROVE  CandidateInv'
<1> USE StatusTyped, NoneAssumption DEF CandidateInv, Overwriting, Deciding, Goto, files, ui,
       agent, coroutine
<1>1. CASE CaptureRecord
  BY <1>1, CaptureRecordEffect DEF CaptureRecord
<1>2. CASE CaptureLocal
  BY <1>2, CaptureLocalEffect DEF CaptureLocal, CaptureInv, Capturing
<1>3. CASE CaptureRemote
  BY <1>3, CaptureRemoteStep
<1>4. CASE CaptureThrows
  BY <1>4 DEF CaptureThrows
<1>5. CASE Captured
  BY <1>5, RevalidateEffect DEF Captured
<1> QED
  BY <1>1, <1>2, <1>3, <1>4, <1>5 DEF Capture

\* A revalidation keeps what a candidate and a decision stand for.
LEMMA CandidateByRevalidation ==
  ASSUME TypeOK, ProtocolTypeOK, CaptureInv, StatusInv, MenuInv, CandidateInv, Revalidation
  PROVE  CandidateInv'
<1> USE StatusTyped, NoneAssumption DEF CandidateInv, Overwriting, Deciding, Goto, files, ui,
       agent, coroutine
<1>1. CASE RevalidateHash
  BY <1>1, HashEffect DEF RevalidateHash
<1>2. CASE RevalidateMissing
  BY <1>2, MissingEffect DEF RevalidateMissing, Supersedes
<1>3. CASE RevalidateUnchanged
  BY <1>3, UnchangedEffect DEF RevalidateUnchanged, Confirms, Supersedes
<1>4. CASE RevalidateStat
  BY <1>4, StatEffect DEF RevalidateStat
<1>5. CASE RevalidateFetch
  BY <1>5, FetchEffect DEF RevalidateFetch, Confirms, Supersedes
<1>6. CASE RevalidateThrows
  BY <1>6 DEF RevalidateThrows, AnswerAndGoOn, Answer, Forget, Leave
<1>7. CASE Invalid
  BY <1>7 DEF Invalid, AnswerAndGoOn, Answer, Forget, Leave
<1> QED
  BY <1>1, <1>2, <1>3, <1>4, <1>5, <1>6, <1>7 DEF Revalidation

\* The wait for a decision keeps what a candidate and a decision stand for.
LEMMA CandidateByLoop ==
  ASSUME TypeOK, ProtocolTypeOK, CaptureInv, StatusInv, MenuInv, CandidateInv, Loop
  PROVE  CandidateInv'
<1> USE StatusTyped, NoneAssumption DEF CandidateInv, Overwriting, Deciding, Goto, files, ui,
       agent, coroutine
<1>1. CASE LoopExpired
  BY <1>1 DEF LoopExpired
<1>2. CASE LoopCancelled
  BY <1>2, CancelledEffect DEF LoopCancelled, Cancelled, CloseManualUi
<1>3. CASE LoopManual
  BY <1>3, LoopManualStep, CancelledEffect DEF Cancelled, CloseManualUi, SameContents
<1>4. CASE LoopPoll
  BY <1>4 DEF LoopPoll
<1>5. CASE Poll
  BY <1>5 DEF Poll
<1>6. CASE ServeDone
  BY <1>6 DEF ServeDone
<1>7. ASSUME NEW request \in batch, ServeRefused(request) PROVE CandidateInv'
  BY <1>7 DEF ServeRefused
<1>8. ASSUME NEW request \in batch, Serve(request) PROVE CandidateInv'
  BY <1>8, ServeStep
<1>9. ASSUME NEW request \in batch, ServeCancel(request) PROVE CandidateInv'
  BY <1>9, CancelledEffect DEF ServeCancel, Cancelled, CloseManualUi
<1> QED
  BY <1>1, <1>2, <1>3, <1>4, <1>5, <1>6, <1>7, <1>8, <1>9 DEF Loop

\* A preparation keeps what a candidate and a decision stand for.
LEMMA CandidateByCandidate ==
  ASSUME TypeOK, ProtocolTypeOK, CaptureInv, StatusInv, MenuInv, CandidateInv, Candidate
  PROVE  CandidateInv'
<1> USE StatusTyped, NoneAssumption DEF CandidateInv, Overwriting, Deciding, Goto, files, ui,
       agent, coroutine
<1>1. CASE SubmitHash
  BY <1>1, SubmitHashStep
<1>2. CASE SubmitRecover
  BY <1>2, RecoverEffect DEF SubmitRecover, AnswerAndGoOn, Answer, Forget
<1>3. CASE SubmitReplace
  BY <1>3 DEF SubmitReplace, AnswerAndGoOn, Answer, Forget
<1>4. CASE SubmitRecord
  BY <1>4, SubmitRecordStep DEF AnswerAndGoOn, Answer, Forget
<1>5. CASE AckHash
  BY <1>5, AckHashStep
<1>6. CASE AckRecord
  BY <1>6, AckRecordStep DEF AnswerAndGoOn, Answer, Forget
<1> QED
  BY <1>1, <1>2, <1>3, <1>4, <1>5, <1>6 DEF Candidate

\* The acceptance of a decision keeps what a candidate and a decision stand for.
LEMMA CandidateByAcceptance ==
  ASSUME TypeOK, ProtocolTypeOK, CaptureInv, StatusInv, MenuInv, CandidateInv, Acceptance
  PROVE  CandidateInv'
<1> USE StatusTyped, NoneAssumption DEF CandidateInv, Overwriting, Deciding, Goto, files, ui,
       agent, coroutine
<1>1. CASE Accept
  BY <1>1, AcceptEffect DEF Accept, SameContents, ProtocolTypeOK
<1>2. CASE RefuseValid
  BY <1>2 DEF RefuseValid, AnswerAndGoOn, Answer, Forget
<1>3. CASE CloseAccepted
  BY <1>3 DEF CloseAccepted, CloseManualUi, Answer
<1>4. CASE AnswerSuperseded
  BY <1>4 DEF AnswerSuperseded
<1> QED
  BY <1>1, <1>2, <1>3, <1>4 DEF Acceptance

\* The upload or its report keeps what a candidate and a decision stand for.
LEMMA CandidateByUpload ==
  ASSUME TypeOK, ProtocolTypeOK, CaptureInv, StatusInv, MenuInv, CandidateInv, Upload
  PROVE  CandidateInv'
<1> USE StatusTyped, NoneAssumption DEF CandidateInv, Overwriting, Deciding, Goto, files, ui,
       agent, coroutine
<1>1. CASE MarkUploading
  BY <1>1, MarkEffect DEF MarkUploading, SameContents
<1>2. CASE Queue
  BY <1>2 DEF Queue
<1>3. CASE DropTask
  BY <1>3 DEF DropTask
<1>4. CASE StartPut
  BY <1>4, TypedStart DEF StartPut
<1>5. CASE PutDone
  BY <1>5 DEF PutDone, Forget
<1>6. CASE PutFails
  BY <1>6 DEF PutFails, Forget
<1>7. CASE Report
  BY <1>7 DEF Report, Reported
<1> QED
  BY <1>1, <1>2, <1>3, <1>4, <1>5, <1>6, <1>7 DEF Upload

\* The menu keeps what a candidate and a decision stand for.
LEMMA CandidateByPerson ==
  ASSUME TypeOK, ProtocolTypeOK, CaptureInv, StatusInv, MenuInv, CandidateInv, Person
  PROVE  CandidateInv'
<1> USE StatusTyped, NoneAssumption DEF CandidateInv, Overwriting, Deciding, Goto, files, ui,
       agent, coroutine
<1>1. CASE OpenMenu
  BY <1>1 DEF OpenMenu
<1>2. CASE CloseMenu
  BY <1>2 DEF CloseMenu
<1>3. CASE OpenDiff
  BY <1>3, DiffEffect DEF OpenDiff
<1>4. ASSUME NEW action \in {"overwrite", "cancel"}, Choose(action) PROVE CandidateInv'
  BY <1>4 DEF Choose
<1> QED
  BY <1>1, <1>2, <1>3, <1>4 DEF Person

\* An agent's call keeps what a candidate and a decision stand for.
LEMMA CandidateByAgent ==
  ASSUME TypeOK, ProtocolTypeOK, CaptureInv, StatusInv, MenuInv, CandidateInv, Agent
  PROVE  CandidateInv'
<1> USE StatusTyped, NoneAssumption DEF CandidateInv, Overwriting, Deciding, Goto, files, ui,
       agent, coroutine
<1>1. CASE PostAny
  BY <1>1, NoneAssumption DEF PostAny, Post
<1>2. ASSUME NEW request \in requests, Withdraw(request) PROVE CandidateInv'
  BY <1>2 DEF Withdraw
<1> QED
  BY <1>1, <1>2 DEF Agent

\* A write by another keeps what a candidate and a decision stand for.
LEMMA CandidateByOthers ==
  ASSUME TypeOK, ProtocolTypeOK, CaptureInv, StatusInv, MenuInv, CandidateInv, Others
  PROVE  CandidateInv'
<1> USE StatusTyped, NoneAssumption DEF CandidateInv, Overwriting, Deciding, Goto, files, ui,
       agent, coroutine
<1>1. ASSUME NEW content \in Content, LocalEdit(content) PROVE CandidateInv'
  BY <1>1 DEF LocalEdit
<1>2. ASSUME NEW content \in Content \union {Missing}, RemoteChange(content) PROVE CandidateInv'
  BY <1>2 DEF RemoteChange
<1> QED
  BY <1>1, <1>2 DEF Others

\* Cancelling or disposing keeps what a candidate and a decision stand for.
LEMMA CandidateByStop ==
  ASSUME TypeOK, ProtocolTypeOK, CaptureInv, StatusInv, MenuInv, CandidateInv, CancelOperation \/ Dispose
  PROVE  CandidateInv'
<1> USE StatusTyped, NoneAssumption DEF CandidateInv, Overwriting, Deciding, Goto, files, ui,
       agent, coroutine
<1>1. CASE CancelOperation
  BY <1>1 DEF CancelOperation
<1>2. CASE Dispose
  BY <1>2 DEF Dispose
<1> QED
  BY <1>1, <1>2

-------------------------------------------------------------------------------
(* What deciders saw.                                                      *)

\* The capture keeps what the deciders saw of the remote side.
LEMMA DecidersByCapture ==
  ASSUME TypeOK, ProtocolTypeOK, CaptureInv, DecidersSeen, Capture
  PROVE  DecidersSeen'
<1> USE DEF files, ui, agent, coroutine
<1>1. CASE CaptureRecord
  BY <1>1, CaptureRecordEffect, DecidersStay DEF CaptureRecord
<1>2. CASE CaptureLocal
  BY <1>2, CaptureLocalEffect, DecidersStay DEF CaptureLocal
<1>3. CASE CaptureRemote
  BY <1>3, CaptureRemoteStep, DecidersStay DEF CaptureInv, Capturing
<1>4. CASE CaptureThrows
  BY <1>4, DecidersStay DEF CaptureThrows
<1>5. CASE Captured
  BY <1>5, DecidersStay DEF Captured
<1> QED
  BY <1>1, <1>2, <1>3, <1>4, <1>5 DEF Capture

\* A revalidation keeps what the deciders saw of the remote side.
LEMMA DecidersByRevalidation ==
  ASSUME TypeOK, ProtocolTypeOK, CaptureInv, DecidersSeen, Revalidation
  PROVE  DecidersSeen'
<1> USE DEF files, ui, agent, coroutine
<1>1. CASE RevalidateHash
  BY <1>1, DecidersStay DEF RevalidateHash
<1>2. CASE RevalidateMissing
  BY <1>2, MissingEffect, DecidersStay DEF RevalidateMissing
<1>3. CASE RevalidateUnchanged
  <2>1. \/ rec'.revision = rec.revision + 1
        \/ rec'.revision = rec.revision /\ rec'.remote = rec.remote
    BY <1>3, UnchangedEffect DEF Confirms
  <2> QED
    BY <1>3, <2>1, DecidersStay DEF RevalidateUnchanged
<1>4. CASE RevalidateStat
  BY <1>4, DecidersStay DEF RevalidateStat
<1>5. CASE RevalidateFetch
  <2>1. \/ rec'.revision = rec.revision + 1
        \/ rec'.revision = rec.revision /\ rec'.remote = rec.remote
    BY <1>5, FetchEffect DEF Confirms
  <2> QED
    BY <1>5, <2>1, DecidersStay DEF RevalidateFetch
<1>6. CASE RevalidateThrows
  BY <1>6, DecidersStay DEF RevalidateThrows, AnswerAndGoOn, Answer, Leave
<1>7. CASE Invalid
  BY <1>7, DecidersStay DEF Invalid, AnswerAndGoOn, Answer, Leave
<1> QED
  BY <1>1, <1>2, <1>3, <1>4, <1>5, <1>6, <1>7 DEF Revalidation

\* The wait for a decision keeps what the deciders saw of the remote side.
LEMMA DecidersByLoop ==
  ASSUME TypeOK, ProtocolTypeOK, CaptureInv, DecidersSeen, Loop
  PROVE  DecidersSeen'
<1> USE DEF files, ui, agent, coroutine
<1>1. CASE LoopExpired
  BY <1>1, DecidersStay DEF LoopExpired
<1>2. CASE LoopCancelled
  <2>1. rec'.revision = rec.revision /\ rec'.remote = rec.remote
    BY <1>2, CancelledEffect DEF LoopCancelled, SameContents
  <2> QED
    BY <1>2, <2>1, DecidersStay DEF LoopCancelled, Cancelled, CloseManualUi
<1>3. CASE LoopManual
  <2>1. rec'.revision = rec.revision /\ rec'.remote = rec.remote
    BY <1>3, LoopManualStep, CancelledEffect DEF SameContents
  <2>2. menu' \in {menu, None} /\ choice' \in {choice, None}
    BY <1>3, LoopManualStep DEF Cancelled, CloseManualUi
  <2> QED
    BY <1>3, <2>1, <2>2, LoopManualStep, DecidersStay
<1>4. CASE LoopPoll
  BY <1>4, DecidersStay DEF LoopPoll
<1>5. CASE Poll
  BY <1>5, DecidersStay DEF Poll
<1>6. CASE ServeDone
  BY <1>6, DecidersStay DEF ServeDone
<1>7. ASSUME NEW request \in batch, ServeRefused(request) PROVE DecidersSeen'
  BY <1>7, DecidersStay DEF ServeRefused
<1>8. ASSUME NEW request \in batch, Serve(request) PROVE DecidersSeen'
  BY <1>8, ServeStep, DecidersStay
<1>9. ASSUME NEW request \in batch, ServeCancel(request) PROVE DecidersSeen'
  <2>1. rec'.revision = rec.revision /\ rec'.remote = rec.remote
    BY <1>9, CancelledEffect DEF ServeCancel, SameContents
  <2> QED
    BY <1>9, <2>1, DecidersStay DEF ServeCancel, Cancelled, CloseManualUi
<1> QED
  BY <1>1, <1>2, <1>3, <1>4, <1>5, <1>6, <1>7, <1>8, <1>9 DEF Loop

\* A preparation keeps what the deciders saw of the remote side.
LEMMA DecidersByCandidate ==
  ASSUME TypeOK, ProtocolTypeOK, CaptureInv, DecidersSeen, Candidate
  PROVE  DecidersSeen'
<1> USE DEF files, ui, agent, coroutine
<1>1. CASE SubmitHash
  BY <1>1, DecidersStay DEF SubmitHash
<1>2. CASE SubmitRecover
  BY <1>2, RecoverEffect, DecidersStay DEF SubmitRecover, AnswerAndGoOn, Answer
<1>3. CASE SubmitReplace
  BY <1>3, DecidersStay DEF SubmitReplace, AnswerAndGoOn, Answer
<1>4. CASE SubmitRecord
  BY <1>4, SubmitRecordStep, DecidersStay DEF AnswerAndGoOn, Answer
<1>5. CASE AckHash
  BY <1>5, DecidersStay DEF AckHash
<1>6. CASE AckRecord
  BY <1>6, AckRecordStep, DecidersStay DEF AnswerAndGoOn, Answer
<1> QED
  BY <1>1, <1>2, <1>3, <1>4, <1>5, <1>6 DEF Candidate

\* The acceptance of a decision keeps what the deciders saw of the remote side.
LEMMA DecidersByAcceptance ==
  ASSUME TypeOK, ProtocolTypeOK, CaptureInv, DecidersSeen, Acceptance
  PROVE  DecidersSeen'
<1> USE DEF files, ui, agent, coroutine
<1>1. CASE Accept
  BY <1>1, AcceptEffect, DecidersStay DEF Accept, SameContents
<1>2. CASE RefuseValid
  BY <1>2, DecidersStay DEF RefuseValid, AnswerAndGoOn, Answer
<1>3. CASE CloseAccepted
  BY <1>3, DecidersStay DEF CloseAccepted, CloseManualUi, Answer
<1>4. CASE AnswerSuperseded
  BY <1>4, DecidersStay DEF AnswerSuperseded
<1> QED
  BY <1>1, <1>2, <1>3, <1>4 DEF Acceptance

\* The upload or its report keeps what the deciders saw of the remote side.
LEMMA DecidersByUpload ==
  ASSUME TypeOK, ProtocolTypeOK, CaptureInv, DecidersSeen, Upload
  PROVE  DecidersSeen'
<1> USE DEF files, ui, agent, coroutine
<1>1. CASE MarkUploading
  BY <1>1, MarkEffect, DecidersStay DEF MarkUploading, SameContents
<1>2. CASE Queue
  BY <1>2, DecidersStay DEF Queue
<1>3. CASE DropTask
  BY <1>3, DecidersStay DEF DropTask
<1>4. CASE StartPut
  BY <1>4, DecidersStay DEF StartPut
<1>5. CASE PutDone
  BY <1>5, DecidersStay DEF PutDone
<1>6. CASE PutFails
  BY <1>6, DecidersStay DEF PutFails
<1>7. CASE Report
  BY <1>7, DecidersStay DEF Report
<1> QED
  BY <1>1, <1>2, <1>3, <1>4, <1>5, <1>6, <1>7 DEF Upload

\* The menu keeps what the deciders saw of the remote side.
LEMMA DecidersByPerson ==
  ASSUME TypeOK, ProtocolTypeOK, CaptureInv, DecidersSeen, Person
  PROVE  DecidersSeen'
<1> USE DEF files, ui, agent, coroutine
<1>1. CASE OpenMenu
  <2>1. menu'.revision = rec.revision /\ menu'.saw.remote = rec.remote
    BY <1>1 DEF OpenMenu, Saw
  <2> QED
    BY <1>1, <2>1, TypedState DEF OpenMenu, DecidersSeen, RemoteSeen
<1>2. CASE CloseMenu
  BY <1>2, DecidersStay DEF CloseMenu
<1>3. CASE OpenDiff
  BY <1>3, DiffEffect, DecidersStay DEF OpenDiff, SameContents
<1>4. ASSUME NEW action \in {"overwrite", "cancel"}, Choose(action) PROVE DecidersSeen'
  BY <1>4 DEF Choose, DecidersSeen, RemoteSeen
<1> QED
  BY <1>1, <1>2, <1>3, <1>4 DEF Person

\* An agent's call keeps what the deciders saw of the remote side.
LEMMA DecidersByAgent ==
  ASSUME TypeOK, ProtocolTypeOK, CaptureInv, DecidersSeen, Agent
  PROVE  DecidersSeen'
<1> USE DEF files, ui, agent, coroutine
<1>1. CASE PostAny
  BY <1>1, PostStep, TypedState DEF DecidersSeen, RemoteSeen
<1>2. ASSUME NEW request \in requests, Withdraw(request) PROVE DecidersSeen'
  BY <1>2, DecidersStay DEF Withdraw
<1> QED
  BY <1>1, <1>2 DEF Agent

\* A write by another keeps what the deciders saw of the remote side.
LEMMA DecidersByOthers ==
  ASSUME TypeOK, ProtocolTypeOK, CaptureInv, DecidersSeen, Others
  PROVE  DecidersSeen'
<1> USE DEF files, ui, agent, coroutine
<1>1. ASSUME NEW content \in Content, LocalEdit(content) PROVE DecidersSeen'
  BY <1>1, DecidersStay DEF LocalEdit
<1>2. ASSUME NEW content \in Content \union {Missing}, RemoteChange(content) PROVE DecidersSeen'
  BY <1>2, DecidersStay DEF RemoteChange
<1> QED
  BY <1>1, <1>2 DEF Others

\* Cancelling or disposing keeps what the deciders saw of the remote side.
LEMMA DecidersByStop ==
  ASSUME TypeOK, ProtocolTypeOK, CaptureInv, DecidersSeen, CancelOperation \/ Dispose
  PROVE  DecidersSeen'
<1> USE DEF files, ui, agent, coroutine
<1>1. CASE CancelOperation
  BY <1>1, DecidersStay DEF CancelOperation
<1>2. CASE Dispose
  BY <1>2, DecidersStay DEF Dispose
<1> QED
  BY <1>1, <1>2

-------------------------------------------------------------------------------
(* The remote side.                                                        *)

\* The capture keeps what a revalidation compares with.
LEMMA SeenByCapture ==
  ASSUME TypeOK, ProtocolTypeOK, CaptureInv, StatusInv, CandidateInv,
         DecidersSeen, SeenInv, Capture
  PROVE  SeenInv'
<1> USE TypedState DEF SeenInv, SawRemote, Overwriting, Deciding, Goto, files, ui, agent, coroutine
<1>1. CASE CaptureRecord
  BY <1>1, CaptureRecordEffect DEF CaptureRecord
<1>2. CASE CaptureLocal
  BY <1>2, CaptureLocalEffect DEF CaptureLocal
<1>3. CASE CaptureRemote
  BY <1>3, CaptureRemoteStep
<1>4. CASE CaptureThrows
  BY <1>4 DEF CaptureThrows
<1>5. CASE Captured
  BY <1>5, RevalidateEffect DEF Captured
<1> QED
  BY <1>1, <1>2, <1>3, <1>4, <1>5 DEF Capture

\* A revalidation keeps what a revalidation compares with.
LEMMA SeenByRevalidation ==
  ASSUME TypeOK, ProtocolTypeOK, CaptureInv, StatusInv, CandidateInv,
         DecidersSeen, SeenInv, Revalidation
  PROVE  SeenInv'
<1> USE TypedState DEF SeenInv, SawRemote, Overwriting, Deciding, Goto, files, ui, agent, coroutine
<1>1. CASE RevalidateHash
  BY <1>1, HashEffect DEF RevalidateHash
<1>2. CASE RevalidateMissing
  BY <1>2, MissingEffect DEF RevalidateMissing, Supersedes
<1>3. CASE RevalidateUnchanged
  BY <1>3, UnchangedEffect DEF RevalidateUnchanged, Confirms, Supersedes
<1>4. CASE RevalidateStat
  BY <1>4, StampsTyped, StatEffect DEF RevalidateStat
<1>5. CASE RevalidateFetch
  BY <1>5, FetchEffect DEF RevalidateFetch, Confirms, Supersedes
<1>6. CASE RevalidateThrows
  BY <1>6 DEF RevalidateThrows, AnswerAndGoOn, Answer, Forget, Leave
<1>7. CASE Invalid
  BY <1>7 DEF Invalid, AnswerAndGoOn, Answer, Forget, Leave
<1> QED
  BY <1>1, <1>2, <1>3, <1>4, <1>5, <1>6, <1>7 DEF Revalidation

\* The wait for a decision keeps what a revalidation compares with.
LEMMA SeenByLoop ==
  ASSUME TypeOK, ProtocolTypeOK, CaptureInv, StatusInv, CandidateInv,
         DecidersSeen, SeenInv, Loop
  PROVE  SeenInv'
<1> USE TypedState DEF SeenInv, SawRemote, Overwriting, Deciding, Goto, files, ui, agent, coroutine
<1>1. CASE LoopExpired
  BY <1>1 DEF LoopExpired
<1>2. CASE LoopCancelled
  BY <1>2, CancelledEffect DEF LoopCancelled, SameContents
<1>3. CASE LoopManual
  <2>1. /\ rec'.revision = rec.revision /\ rec'.remote = rec.remote /\ rec'.stamp = rec.stamp
        /\ pc' = "answer" => rec'.decision.action = "cancel"
    BY <1>3, LoopManualStep, CancelledEffect DEF SameContents
  <2>2. pc' = "hash" => probe'.saw \in SawType /\ probe'.saw.remote \in {rec.remote, None}
    BY <1>3, LoopManualStep DEF DecidersSeen, RemoteSeen
  <2> QED
    BY <1>3, <2>1, <2>2, LoopManualStep
<1>4. CASE LoopPoll
  BY <1>4 DEF LoopPoll
<1>5. CASE Poll
  BY <1>5 DEF Poll
<1>6. CASE ServeDone
  BY <1>6 DEF ServeDone
<1>7. ASSUME NEW request \in batch, ServeRefused(request) PROVE SeenInv'
  BY <1>7 DEF ServeRefused
<1>8. ASSUME NEW request \in batch, Serve(request) PROVE SeenInv'
  <2>1. pc' = "hash" => probe'.saw \in SawType /\ probe'.saw.remote \in {rec.remote, None}
    BY <1>8, ServeStep DEF DecidersSeen, RemoteSeen
  <2> QED
    BY <1>8, <2>1, ServeStep
<1>9. ASSUME NEW request \in batch, ServeCancel(request) PROVE SeenInv'
  BY <1>9, CancelledEffect DEF ServeCancel, SameContents
<1> QED
  BY <1>1, <1>2, <1>3, <1>4, <1>5, <1>6, <1>7, <1>8, <1>9 DEF Loop

\* A preparation keeps what a revalidation compares with.
LEMMA SeenByCandidate ==
  ASSUME TypeOK, ProtocolTypeOK, CaptureInv, StatusInv, CandidateInv,
         DecidersSeen, SeenInv, Candidate
  PROVE  SeenInv'
<1> USE TypedState DEF SeenInv, SawRemote, Overwriting, Deciding, Goto, files, ui, agent, coroutine
<1>1. CASE SubmitHash
  BY <1>1, SubmitHashStep
<1>2. CASE SubmitRecover
  BY <1>2, RecoverEffect DEF SubmitRecover, AnswerAndGoOn, Answer, Forget
<1>3. CASE SubmitReplace
  BY <1>3 DEF SubmitReplace, AnswerAndGoOn, Answer, Forget
<1>4. CASE SubmitRecord
  BY <1>4, SubmitRecordStep DEF AnswerAndGoOn, Answer, Forget
<1>5. CASE AckHash
  BY <1>5, AckHashStep
<1>6. CASE AckRecord
  BY <1>6, AckRecordStep DEF AnswerAndGoOn, Answer, Forget
<1> QED
  BY <1>1, <1>2, <1>3, <1>4, <1>5, <1>6 DEF Candidate

\* The acceptance of a decision keeps what a revalidation compares with.
LEMMA SeenByAcceptance ==
  ASSUME TypeOK, ProtocolTypeOK, CaptureInv, StatusInv, CandidateInv,
         DecidersSeen, SeenInv, Acceptance
  PROVE  SeenInv'
<1> USE TypedState DEF SeenInv, SawRemote, Overwriting, Deciding, Goto, files, ui, agent, coroutine
<1>1. CASE Accept
  BY <1>1, AcceptEffect DEF Accept, SameContents
<1>2. CASE RefuseValid
  BY <1>2 DEF RefuseValid, AnswerAndGoOn, Answer, Forget
<1>3. CASE CloseAccepted
  BY <1>3 DEF CloseAccepted, CloseManualUi, Answer
<1>4. CASE AnswerSuperseded
  BY <1>4 DEF AnswerSuperseded
<1> QED
  BY <1>1, <1>2, <1>3, <1>4 DEF Acceptance

\* The upload or its report keeps what a revalidation compares with.
LEMMA SeenByUpload ==
  ASSUME TypeOK, ProtocolTypeOK, CaptureInv, StatusInv, CandidateInv,
         DecidersSeen, SeenInv, Upload
  PROVE  SeenInv'
<1> USE TypedState DEF SeenInv, SawRemote, Overwriting, Deciding, Goto, files, ui, agent, coroutine
<1>1. CASE MarkUploading
  BY <1>1, MarkEffect DEF MarkUploading, SameContents
<1>2. CASE Queue
  BY <1>2 DEF Queue
<1>3. CASE DropTask
  BY <1>3 DEF DropTask
<1>4. CASE StartPut
  BY <1>4, TypedStart DEF StartPut
<1>5. CASE PutDone
  BY <1>5, StampsTyped DEF PutDone, Forget
<1>6. CASE PutFails
  BY <1>6, StampsTyped DEF PutFails, Forget
<1>7. CASE Report
  BY <1>7 DEF Report, Reported
<1> QED
  BY <1>1, <1>2, <1>3, <1>4, <1>5, <1>6, <1>7 DEF Upload

\* The menu keeps what a revalidation compares with.
LEMMA SeenByPerson ==
  ASSUME TypeOK, ProtocolTypeOK, CaptureInv, StatusInv, CandidateInv,
         DecidersSeen, SeenInv, Person
  PROVE  SeenInv'
<1> USE TypedState DEF SeenInv, SawRemote, Overwriting, Deciding, Goto, files, ui, agent, coroutine
<1>1. CASE OpenMenu
  BY <1>1 DEF OpenMenu
<1>2. CASE CloseMenu
  BY <1>2 DEF CloseMenu
<1>3. CASE OpenDiff
  BY <1>3, DiffEffect DEF OpenDiff, SameContents
<1>4. ASSUME NEW action \in {"overwrite", "cancel"}, Choose(action) PROVE SeenInv'
  BY <1>4 DEF Choose
<1> QED
  BY <1>1, <1>2, <1>3, <1>4 DEF Person

\* An agent's call keeps what a revalidation compares with.
LEMMA SeenByAgent ==
  ASSUME TypeOK, ProtocolTypeOK, CaptureInv, StatusInv, CandidateInv,
         DecidersSeen, SeenInv, Agent
  PROVE  SeenInv'
<1> USE TypedState DEF SeenInv, SawRemote, Overwriting, Deciding, Goto, files, ui, agent, coroutine
<1>1. CASE PostAny
  BY <1>1, PostStep
<1>2. ASSUME NEW request \in requests, Withdraw(request) PROVE SeenInv'
  BY <1>2 DEF Withdraw
<1> QED
  BY <1>1, <1>2 DEF Agent

\* A write by another keeps what a revalidation compares with.
LEMMA SeenByOthers ==
  ASSUME TypeOK, ProtocolTypeOK, CaptureInv, StatusInv, CandidateInv,
         DecidersSeen, SeenInv, Others
  PROVE  SeenInv'
<1> USE TypedState DEF SeenInv, SawRemote, Overwriting, Deciding, Goto, files, ui, agent, coroutine
<1>1. ASSUME NEW content \in Content, LocalEdit(content) PROVE SeenInv'
  BY <1>1 DEF LocalEdit
<1>2. ASSUME NEW content \in Content \union {Missing}, RemoteChange(content) PROVE SeenInv'
  BY <1>2, StampsTyped DEF RemoteChange
<1> QED
  BY <1>1, <1>2 DEF Others

\* Cancelling or disposing keeps what a revalidation compares with.
LEMMA SeenByStop ==
  ASSUME TypeOK, ProtocolTypeOK, CaptureInv, StatusInv, CandidateInv,
         DecidersSeen, SeenInv, CancelOperation \/ Dispose
  PROVE  SeenInv'
<1> USE TypedState DEF SeenInv, SawRemote, Overwriting, Deciding, Goto, files, ui, agent, coroutine
<1>1. CASE CancelOperation
  BY <1>1 DEF CancelOperation
<1>2. CASE Dispose
  BY <1>2 DEF Dispose
<1> QED
  BY <1>1, <1>2

-------------------------------------------------------------------------------
(* The local side.                                                         *)

\* The capture keeps the local side under its revision.
LEMMA LocalByCapture ==
  ASSUME TypeOK, ProtocolTypeOK, CaptureInv, StatusInv, CandidateInv,
         DecidersSeen, LocalInv, Capture
  PROVE  LocalInv'
<1> USE TypedState DEF LocalInv, Acknowledging, SawLocal, Overwriting, Deciding, Goto, files, ui,
       agent, coroutine
<1>1. CASE CaptureRecord
  BY <1>1, CaptureRecordEffect DEF CaptureRecord, CaptureInv, Capturing
<1>2. CASE CaptureLocal
  BY <1>2, CaptureLocalEffect DEF CaptureLocal
<1>3. CASE CaptureRemote
  BY <1>3, CaptureRemoteStep
<1>4. CASE CaptureThrows
  BY <1>4 DEF CaptureThrows
<1>5. CASE Captured
  BY <1>5, RevalidateEffect DEF Captured
<1> QED
  BY <1>1, <1>2, <1>3, <1>4, <1>5 DEF Capture

\* A revalidation keeps the local side under its revision.
LEMMA LocalByRevalidation ==
  ASSUME TypeOK, ProtocolTypeOK, CaptureInv, StatusInv, CandidateInv,
         DecidersSeen, LocalInv, Revalidation
  PROVE  LocalInv'
<1> USE TypedState DEF LocalInv, Acknowledging, SawLocal, Overwriting, Deciding, Goto, files, ui,
       agent, coroutine
<1>1. CASE RevalidateHash
  BY <1>1, HashEffect DEF RevalidateHash
<1>2. CASE RevalidateMissing
  BY <1>2, MissingEffect, NewRevision, LocalUnchanged DEF RevalidateMissing, Supersedes
<1>3. CASE RevalidateUnchanged
  BY <1>3, UnchangedEffect, NewRevision, LocalUnchanged DEF RevalidateUnchanged, Confirms,
     Supersedes
<1>4. CASE RevalidateStat
  BY <1>4, StatEffect DEF RevalidateStat
<1>5. CASE RevalidateFetch
  BY <1>5, FetchEffect, NewRevision, LocalUnchanged DEF RevalidateFetch, Confirms, Supersedes
<1>6. CASE RevalidateThrows
  BY <1>6 DEF RevalidateThrows, AnswerAndGoOn, Answer, Forget, Leave
<1>7. CASE Invalid
  BY <1>7 DEF Invalid, AnswerAndGoOn, Answer, Forget, Leave
<1> QED
  BY <1>1, <1>2, <1>3, <1>4, <1>5, <1>6, <1>7 DEF Revalidation

\* The wait for a decision keeps the local side under its revision.
LEMMA LocalByLoop ==
  ASSUME TypeOK, ProtocolTypeOK, CaptureInv, StatusInv, CandidateInv,
         DecidersSeen, LocalInv, Loop
  PROVE  LocalInv'
<1> USE TypedState DEF LocalInv, Acknowledging, SawLocal, Overwriting, Deciding, Goto, files, ui,
       agent, coroutine
<1>1. CASE LoopExpired
  BY <1>1 DEF LoopExpired
<1>2. CASE LoopCancelled
  BY <1>2, CancelledEffect DEF LoopCancelled, SameContents, Cancelled, CloseManualUi
<1>3. CASE LoopManual
  <2>1. /\ rec'.revision = rec.revision /\ rec'.local = rec.local
        /\ rec'.candidate = rec.candidate
        /\ pc' = "answer" => rec'.decision.action = "cancel"
    BY <1>3, LoopManualStep, CancelledEffect DEF SameContents
  <2>2. /\ menu' \in {menu, None} /\ choice' \in {choice, None}
    BY <1>3, LoopManualStep DEF Cancelled, CloseManualUi
  <2> QED
    BY <1>3, <2>1, <2>2, LoopManualStep
<1>4. CASE LoopPoll
  BY <1>4 DEF LoopPoll
<1>5. CASE Poll
  BY <1>5 DEF Poll
<1>6. CASE ServeDone
  BY <1>6 DEF ServeDone
<1>7. ASSUME NEW request \in batch, ServeRefused(request) PROVE LocalInv'
  BY <1>7 DEF ServeRefused
<1>8. ASSUME NEW request \in batch, Serve(request) PROVE LocalInv'
  BY <1>8, ServeStep
<1>9. ASSUME NEW request \in batch, ServeCancel(request) PROVE LocalInv'
  BY <1>9, CancelledEffect DEF ServeCancel, SameContents, Cancelled, CloseManualUi
<1> QED
  BY <1>1, <1>2, <1>3, <1>4, <1>5, <1>6, <1>7, <1>8, <1>9 DEF Loop

\* A preparation keeps the local side under its revision.
LEMMA LocalByCandidate ==
  ASSUME TypeOK, ProtocolTypeOK, CaptureInv, StatusInv, CandidateInv,
         DecidersSeen, LocalInv, Candidate
  PROVE  LocalInv'
<1> USE TypedState DEF LocalInv, Acknowledging, SawLocal, Overwriting, Deciding, Goto, files, ui,
       agent, coroutine
<1>1. CASE SubmitHash
  BY <1>1, SubmitHashStep
<1>2. CASE SubmitRecover
  BY <1>2, RecoverEffect DEF SubmitRecover, AnswerAndGoOn, Answer, Forget
<1>3. CASE SubmitReplace
  BY <1>3 DEF SubmitReplace, AnswerAndGoOn, Answer, Forget
<1>4. CASE SubmitRecord
  BY <1>4, SubmitRecordStep, NewRevision DEF AnswerAndGoOn, Answer, Forget
<1>5. CASE AckHash
  BY <1>5, AckHashStep
<1>6. CASE AckRecord
  BY <1>6, AckRecordStep, NewRevision DEF AnswerAndGoOn, Answer, Forget
<1> QED
  BY <1>1, <1>2, <1>3, <1>4, <1>5, <1>6 DEF Candidate

\* The acceptance of a decision keeps the local side under its revision.
LEMMA LocalByAcceptance ==
  ASSUME TypeOK, ProtocolTypeOK, CaptureInv, StatusInv, CandidateInv,
         DecidersSeen, LocalInv, Acceptance
  PROVE  LocalInv'
<1> USE TypedState DEF LocalInv, Acknowledging, SawLocal, Overwriting, Deciding, Goto, files, ui,
       agent, coroutine
<1>1. CASE Accept
  BY <1>1, AcceptEffect DEF Accept, SameContents, CandidateInv
<1>2. CASE RefuseValid
  BY <1>2 DEF RefuseValid, AnswerAndGoOn, Answer, Forget
<1>3. CASE CloseAccepted
  BY <1>3 DEF CloseAccepted, CloseManualUi, Answer
<1>4. CASE AnswerSuperseded
  BY <1>4 DEF AnswerSuperseded
<1> QED
  BY <1>1, <1>2, <1>3, <1>4 DEF Acceptance

\* The upload or its report keeps the local side under its revision.
LEMMA LocalByUpload ==
  ASSUME TypeOK, ProtocolTypeOK, CaptureInv, StatusInv, CandidateInv,
         DecidersSeen, LocalInv, Upload
  PROVE  LocalInv'
<1> USE TypedState DEF LocalInv, Acknowledging, SawLocal, Overwriting, Deciding, Goto, files, ui,
       agent, coroutine
<1>1. CASE MarkUploading
  BY <1>1, MarkEffect DEF MarkUploading, SameContents
<1>2. CASE Queue
  BY <1>2 DEF Queue
<1>3. CASE DropTask
  BY <1>3 DEF DropTask
<1>4. CASE StartPut
  BY <1>4, TypedStart DEF StartPut
<1>5. CASE PutDone
  BY <1>5 DEF PutDone, Forget
<1>6. CASE PutFails
  BY <1>6 DEF PutFails, Forget
<1>7. CASE Report
  BY <1>7 DEF Report, Reported
<1> QED
  BY <1>1, <1>2, <1>3, <1>4, <1>5, <1>6, <1>7 DEF Upload

\* The menu keeps the local side under its revision.
LEMMA LocalByPerson ==
  ASSUME TypeOK, ProtocolTypeOK, CaptureInv, StatusInv, CandidateInv,
         DecidersSeen, LocalInv, Person
  PROVE  LocalInv'
<1> USE TypedState DEF LocalInv, Acknowledging, SawLocal, Overwriting, Deciding, Goto, files, ui,
       agent, coroutine
<1>1. CASE OpenMenu
  BY <1>1 DEF OpenMenu, Saw
<1>2. CASE CloseMenu
  BY <1>2 DEF CloseMenu
<1>3. CASE OpenDiff
  BY <1>3, DiffEffect DEF OpenDiff, SameContents
<1>4. ASSUME NEW action \in {"overwrite", "cancel"}, Choose(action) PROVE LocalInv'
  BY <1>4 DEF Choose
<1> QED
  BY <1>1, <1>2, <1>3, <1>4 DEF Person

\* An agent's call keeps the local side under its revision.
LEMMA LocalByAgent ==
  ASSUME TypeOK, ProtocolTypeOK, CaptureInv, StatusInv, CandidateInv,
         DecidersSeen, LocalInv, Agent
  PROVE  LocalInv'
<1> USE TypedState DEF LocalInv, Acknowledging, SawLocal, Overwriting, Deciding, Goto, files, ui,
       agent, coroutine
<1>1. CASE PostAny
  <2>1. posted' # 0
    BY <1>1, PostStep DEF TypeOK
  <2> QED
    BY <1>1, <2>1, PostStep
<1>2. ASSUME NEW request \in requests, Withdraw(request) PROVE LocalInv'
  BY <1>2 DEF Withdraw
<1> QED
  BY <1>1, <1>2 DEF Agent

\* A write by another keeps the local side under its revision.
LEMMA LocalByOthers ==
  ASSUME TypeOK, ProtocolTypeOK, CaptureInv, StatusInv, CandidateInv,
         DecidersSeen, LocalInv, Others
  PROVE  LocalInv'
<1> USE TypedState DEF LocalInv, Acknowledging, SawLocal, Overwriting, Deciding, Goto, files, ui,
       agent, coroutine
<1>1. ASSUME NEW content \in Content, LocalEdit(content) PROVE LocalInv'
  BY <1>1 DEF LocalEdit
<1>2. ASSUME NEW content \in Content \union {Missing}, RemoteChange(content) PROVE LocalInv'
  BY <1>2 DEF RemoteChange
<1> QED
  BY <1>1, <1>2 DEF Others

\* Cancelling or disposing keeps the local side under its revision.
LEMMA LocalByStop ==
  ASSUME TypeOK, ProtocolTypeOK, CaptureInv, StatusInv, CandidateInv,
         DecidersSeen, LocalInv, CancelOperation \/ Dispose
  PROVE  LocalInv'
<1> USE TypedState DEF LocalInv, Acknowledging, SawLocal, Overwriting, Deciding, Goto, files, ui,
       agent, coroutine
<1>1. CASE CancelOperation
  BY <1>1 DEF CancelOperation
<1>2. CASE Dispose
  BY <1>2 DEF Dispose
<1> QED
  BY <1>1, <1>2

-------------------------------------------------------------------------------
(* The invariant holds initially, and every step preserves it.             *)

\* The invariant holds at the start,
LEMMA InitialInvariant ==
  ASSUME Init
  PROVE  IInv
<1>1. rec \in RecType /\ rec.status = "capturing" /\ rec.revision = 1 /\ rec.local = None
      /\ rec.remote = None /\ rec.stamp = 1 /\ rec.candidate = None /\ rec.decision = None
  BY DEF Init, RecType, RecordStatus, Mutable, Hash
<1>2. 0 \in 0..MaxChanges /\ 0 \in 0..MaxRequests /\ 0 \in 0..MaxMenus
  BY BoundsAssumption
<1>3. TypeOK
  BY <1>1, <1>2, NoProbeTyped, TypedIsTypeOK DEF Init, Typed, Caller, Put
<1>4. ProtocolTypeOK /\ CaptureInv
  BY <1>1 DEF Init, ProtocolTypeOK, Label, CaptureInv, Capturing
<1>5. StatusInv /\ MenuInv /\ CandidateInv
  BY <1>1, NoneAssumption, StatusTyped DEF Init, StatusInv, MenuInv, CandidateInv,
     OverwriteDecided, CancelDecided,
     BatchDecided, Overwriting, Terminal
<1>6. DecidersSeen /\ SeenInv /\ LocalInv
  BY <1>1 DEF Init, DecidersSeen, SeenInv, LocalInv, Overwriting
<1> QED
  BY <1>3, <1>4, <1>5, <1>6 DEF IInv

\* a stuttering step keeps it,
LEMMA UnchangedInvariant ==
  ASSUME IInv, UNCHANGED vars
  PROVE  IInv'
<1> USE DEF vars, Overwriting, OverwriteDecided, CancelDecided, BatchDecided
<1>1. TypeOK'
  BY DEF IInv, TypeOK, Saw
<1>2. ProtocolTypeOK' /\ CaptureInv'
  BY DEF IInv, ProtocolTypeOK, CaptureInv, GoodRequest
<1>3. StatusInv' /\ MenuInv' /\ CandidateInv'
  BY DEF IInv, StatusInv, MenuInv, CandidateInv
<1>4. DecidersSeen' /\ SeenInv' /\ LocalInv'
  BY DEF IInv, DecidersSeen, RemoteSeen, SeenInv, SawRemote, LocalInv, SawLocal, Acknowledging
<1> QED
  BY <1>1, <1>2, <1>3, <1>4 DEF IInv

\* and so does every step.
LEMMA NextInvariant ==
  ASSUME IInv, Next
  PROVE  IInv'
<1> USE TypedIsTypeOKNext DEF IInv
<1>1. CASE Capture
  BY <1>1, TypedByCapture, ProtocolByCapture, CaptureByCapture, StatusByCapture, MenuByCapture,
     CandidateByCapture, DecidersByCapture, SeenByCapture, LocalByCapture
<1>2. CASE Revalidation
  BY <1>2, TypedByRevalidation, ProtocolByRevalidation, CaptureByRevalidation,
     StatusByRevalidation, MenuByRevalidation,
     CandidateByRevalidation, DecidersByRevalidation, SeenByRevalidation, LocalByRevalidation
<1>3. CASE Loop
  BY <1>3, TypedByLoop, ProtocolByLoop, CaptureByLoop, StatusByLoop, MenuByLoop,
     CandidateByLoop, DecidersByLoop, SeenByLoop, LocalByLoop
<1>4. CASE Candidate
  BY <1>4, TypedByCandidate, ProtocolByCandidate, CaptureByCandidate, StatusByCandidate,
     MenuByCandidate,
     CandidateByCandidate, DecidersByCandidate, SeenByCandidate, LocalByCandidate
<1>5. CASE Acceptance
  BY <1>5, TypedByAcceptance, ProtocolByAcceptance, CaptureByAcceptance, StatusByAcceptance,
     MenuByAcceptance,
     CandidateByAcceptance, DecidersByAcceptance, SeenByAcceptance, LocalByAcceptance
<1>6. CASE Upload
  BY <1>6, TypedByUpload, ProtocolByUpload, CaptureByUpload, StatusByUpload, MenuByUpload,
     CandidateByUpload, DecidersByUpload, SeenByUpload, LocalByUpload
<1>7. CASE Person
  BY <1>7, TypedByPerson, ProtocolByPerson, CaptureByPerson, StatusByPerson, MenuByPerson,
     CandidateByPerson, DecidersByPerson, SeenByPerson, LocalByPerson
<1>8. CASE Agent
  BY <1>8, TypedByAgent, ProtocolByAgent, CaptureByAgent, StatusByAgent, MenuByAgent,
     CandidateByAgent, DecidersByAgent, SeenByAgent, LocalByAgent
<1>9. CASE Others
  BY <1>9, TypedByOthers, ProtocolByOthers, CaptureByOthers, StatusByOthers, MenuByOthers,
     CandidateByOthers, DecidersByOthers, SeenByOthers, LocalByOthers
<1>10. CASE CancelOperation \/ Dispose
  BY <1>10, TypedByStop, ProtocolByStop, CaptureByStop, StatusByStop, MenuByStop,
     CandidateByStop, DecidersByStop, SeenByStop, LocalByStop
<1> QED
  BY <1>1, <1>2, <1>3, <1>4, <1>5, <1>6, <1>7, <1>8, <1>9, <1>10 DEF Next, Coroutine

\* The inductive invariant holds of every reachable state.
THEOREM InvariantHolds == Spec => []IInv
<1>1. Init => IInv
  BY InitialInvariant
<1>2. IInv /\ [Next]_vars => IInv'
  BY NextInvariant, UnchangedInvariant
<1> QED
  BY <1>1, <1>2, PTL DEF Spec

-------------------------------------------------------------------------------
(* What follows.                                                            *)

\* Type correctness: every variable stays in its domain, whatever the actors do.
THEOREM TypeCorrect == Spec => []TypeOK
<1>1. IInv => TypeOK
  BY DEF IInv
<1> QED
  BY <1>1, InvariantHolds, PTL

\* "Only uploaded confirms success": the status on disk never claims more than the
\* transfer task did to the remote file, and nothing is uploaded without an overwrite.
THEOREM StatusTruth == Spec => []StatusTellsTruth
<1>1. IInv => StatusTellsTruth
  BY DEF IInv, StatusInv, StatusTellsTruth, OverwriteDecided
<1> QED
  BY <1>1, InvariantHolds, PTL

\* An agent's upload is accepted only of the content it prepared, and the person's own
\* content was recoverable before that.
THEOREM CandidateUploads == Spec => []AgentUploadsItsCandidate
<1>1. IInv => AgentUploadsItsCandidate
  <2> SUFFICES ASSUME IInv, Overwriting("upload") PROVE AgentUploadsItsCandidate
    BY DEF AgentUploadsItsCandidate
  <2>1. rec.candidate = probe.local /\ probe.local \in Content
    BY DEF IInv, CandidateInv, Overwriting
  <2>2. rec.recovery # None
    BY <2>1, ContentAssumption DEF IInv, CandidateInv
  <2> QED
    BY <2>1, <2>2 DEF AgentUploadsItsCandidate
<1> QED
  BY <1>1, InvariantHolds, PTL

\* "If either side changes during review, the extension refreshes the conflict instead
\* of applying an outdated decision", as far as the code keeps it.
THEOREM DecisionsReviewed == Spec => []ReviewedVersions
<1>1. IInv => ReviewedVersions
  BY DEF IInv, SeenInv, LocalInv, ReviewedVersions
<1> QED
  BY <1>1, InvariantHolds, PTL

\* An open conflict keeps saves and watchers off its file: whatever the files, the agents'
\* requests and the menus, unless the conflict was answered by another file of its batch.
THEOREM OpenIsHeld == Spec => [](~expired /\ stored \in Active /\ ~BatchDecided => held)
<1>1. IInv => (~expired /\ stored \in Active /\ ~BatchDecided => held)
  BY NoneAssumption DEF IInv, TypeOK, CaptureInv, MenuInv, Active
<1> QED
  BY <1>1, InvariantHolds, PTL

\* The same for a file transferred by itself, where nothing is left out.
THEOREM SingleIsHeld ==
  ASSUME ~Batch
  PROVE  Spec => []ActiveIsHeld
<1>1. IInv => ActiveIsHeld
  BY NoneAssumption DEF IInv, TypeOK, CaptureInv, MenuInv, Active, ActiveIsHeld
<1> QED
  BY <1>1, InvariantHolds, PTL

\* No step writes a terminal record that no batch decided.
LEMMA TerminalStays ==
  ASSUME IInv, Next, stored \in Terminal, ~BatchDecided
  PROVE  stored' = stored
<1>1. pc \in {"ended", "answer"} /\ menu = None
  BY DEF IInv, StatusInv, MenuInv
<1>2. Capture => pc \in {"capture", "recovery", "snapshot", "captured"}
  <2>1. CaptureRecord \/ CaptureLocal => pc \in {"capture", "recovery"}
    BY DEF CaptureRecord, CaptureLocal
  <2>2. CaptureRemote => pc = "snapshot"
    BY DEF CaptureRemote
  <2>3. CaptureThrows \/ Captured => pc \in {"capture", "recovery", "snapshot", "captured"}
    BY DEF CaptureThrows, Captured
  <2> QED
    BY <2>1, <2>2, <2>3 DEF Capture
<1>3. CASE Revalidation
  BY <1>1, <1>3 DEF Revalidation, RevalidateHash, RevalidateMissing, RevalidateUnchanged,
     RevalidateStat, RevalidateFetch, RevalidateThrows, Invalid
<1>4. CASE Loop
  BY <1>1, <1>4 DEF Loop, LoopExpired, LoopCancelled, LoopManual, LoopPoll, Poll, ServeDone,
     ServeRefused, Serve, ServeCancel
<1>5. CASE Candidate
  BY <1>1, <1>5 DEF Candidate, SubmitHash, SubmitRecover, SubmitReplace, SubmitRecord, AckHash,
     AckRecord
<1>6. CASE Acceptance
  BY <1>1, <1>6 DEF Acceptance, Accept, RefuseValid, CloseAccepted, AnswerSuperseded
<1>7. CASE Upload
  BY <1>1, <1>7 DEF Upload, MarkUploading, Queue, DropTask, StartPut, PutDone, PutFails, Report
<1>8. CASE Person
  BY <1>1, <1>8 DEF Person, OpenMenu, CloseMenu, OpenDiff, Choose
<1>9. CASE Agent
  BY <1>9 DEF Agent, PostAny, Post, Withdraw
<1>10. CASE Others \/ CancelOperation \/ Dispose
  BY <1>10 DEF Others, LocalEdit, RemoteChange, CancelOperation, Dispose
<1> QED
  BY <1>1, <1>2, <1>3, <1>4, <1>5, <1>6, <1>7, <1>8, <1>9, <1>10 DEF Next, Coroutine

\* A terminal record is final, unless the conflict was answered by another file of its batch.
THEOREM TerminalRecordStays ==
  Spec => [][(stored \in Terminal /\ ~BatchDecided) => stored' = stored]_vars
<1>1. IInv /\ [Next]_vars => [(stored \in Terminal /\ ~BatchDecided) => stored' = stored]_vars
  BY TerminalStays
<1> QED
  BY <1>1, InvariantHolds, PTL DEF Spec

\* The same for a file transferred by itself: no late write of the session, of the menu or
\* of a report opens the record again.
THEOREM SingleIsFinal ==
  ASSUME ~Batch
  PROVE  Spec => TerminalIsFinal
<1>1. IInv /\ [Next]_vars => [(stored \in Terminal) => stored' = stored]_vars
  BY TerminalStays DEF IInv, MenuInv
<1> QED
  BY <1>1, InvariantHolds, PTL DEF Spec, TerminalIsFinal
===============================================================================
