--------------------------- MODULE FileTransfer_proofs ---------------------------
(***************************************************************************)
(* What a download wrote is not uploaded again (fileWatcher.ts and         *)
(* watcherSuppression.ts), an agent is told what was uploaded, no more and *)
(* no less (uploadBridge.ts), and a path is served and watched as the      *)
(* configurations in force say (serviceManager): for any downloads, edits, *)
(* jobs, files, workspaces, documents and paths, however far they          *)
(* interleave.                                                             *)
(***************************************************************************)
EXTENDS MCFileTransfer, TransferTask_proofs, FiniteSetTheorems, WellFoundedInduction, TLAPS

-------------------------------------------------------------------------------
(* The watcher's claims                                                     *)

\* The downloads whose claims are or were in the table of the watcher that is there now,
\* those whose claim has not resolved, and whether the claim a download waits for has.
Live == {d \in Task : stage[d] # "new"} \ released
Unresolved == {d \in Live : version[d] = "open"}
Settled(d) == prior[d] = None \/ version[prior[d]] # "open"

ClaimTypes ==
  /\ file \in Task \union Edit \union {None} /\ claim \in Task \union {None}
  /\ prior \in [Task -> Task \union {None}]
  /\ version \in [Task -> Task \union {None, "open"}]
  /\ stage \in [Task -> {"new", "wait", "rename", "done"}]
  /\ drain \in [at : {"rest", "claim", "read", "compare"},
                awaits : Task \union {None}, read : Task \union Edit \union {None}]
  /\ sent \subseteq Task \union Edit /\ released \subseteq Task

\* A download that has not begun has left no trace.
Untouched ==
  \A d \in Task : stage[d] = "new" =>
    /\ d # file /\ d # claim /\ d # drain.awaits /\ d \notin released
    /\ \A c \in Task : prior[c] # d

\* A claim is open until its download has ended, which renames only after the claim it
\* found has resolved; the claim in the table and the claims found are of one watcher.
OpenClaims ==
  /\ \A d \in Task : stage[d] \in {"new", "wait", "rename"} => version[d] = "open"
  /\ \A d \in Task : stage[d] = "rename" => Settled(d)
  /\ claim \in Live \union {None}
  /\ \A d \in Live : prior[d] \in Live \union {None}

\* The unresolved claims stand in line: each found the one before it, the first found none
\* that is open, and the last is in the table.
Line(s) ==
  /\ Unresolved = {s[i] : i \in 1..Len(s)}
  /\ \A i, j \in 1..Len(s) : s[i] = s[j] => i = j
  /\ s # <<>> => claim = s[Len(s)] /\ Settled(s[1])
  /\ \A i \in 1..Len(s) : i > 1 => prior[s[i]] = s[i - 1]
InLine == \E s \in Seq(Task) : Line(s)

\* The content of a download is in the file only under a claim that tells it, or will
\* unless another download puts its own there.
Covered ==
  file \in Live =>
    /\ claim # None /\ (version[claim] # "open" => version[claim] = file)
    /\ \A c \in Unresolved : Settled(c) => prior[c] # None /\ version[prior[c]] = file

\* The drain compares what it read after the claim it awaits had resolved; as long as that
\* claim stays in the table, no other download has written since.
ReadUnderClaim ==
  /\ drain.at \in {"read", "compare"} => drain.awaits \in Task
  /\ drain.at = "compare" =>
       /\ version[drain.awaits] # "open"
       /\ drain.awaits = claim /\ file \in Live => drain.read = file

ClaimInv ==
  ClaimTypes /\ Untouched /\ OpenClaims /\ InLine /\ Covered /\ ReadUnderClaim /\ NoEcho

\* If a claim is open, so is the one in the table; and only one finds no other open.
LEMMA LineFacts ==
  ASSUME NEW s \in Seq(Task), Line(s)
  PROVE  /\ Unresolved # {} => claim \in Unresolved
         /\ s = <<>> <=> Unresolved = {}
         /\ \A d \in Unresolved : Settled(d) => s # <<>> /\ d = s[1]
<1>1. s = <<>> <=> Unresolved = {}
  BY DEF Line
<1>2. Unresolved # {} => claim \in Unresolved
  BY <1>1 DEF Line
<1>3. ASSUME NEW d \in Unresolved, Settled(d) PROVE s # <<>> /\ d = s[1]
  <2>1. PICK i \in 1..Len(s) : d = s[i]
    BY DEF Line
  <2>2. i > 1 => prior[d] = s[i - 1] /\ s[i - 1] \in Unresolved
    BY <2>1 DEF Line
  <2>3. \A c \in Unresolved : c # None /\ version[c] = "open"
    BY WriterAssumption DEF Unresolved, Live
  <2> QED
    BY <2>1, <2>2, <2>3, <1>3 DEF Settled
<1> QED
  BY <1>1, <1>2, <1>3

LEMMA OneSettled ==
  ASSUME InLine
  PROVE  /\ Unresolved # {} => claim \in Unresolved
         /\ \A c, d \in Unresolved : Settled(c) /\ Settled(d) => c = d
  BY LineFacts DEF InLine

\* A download begins: its claim goes to the end of the line.
LEMMA JoinLine ==
  ASSUME ClaimInv, NEW d \in Task, watcher!Claim(d)
  PROVE  InLine'
<1>1. /\ stage[d] = "new" /\ claim' = d /\ prior' = [prior EXCEPT ![d] = claim]
      /\ stage' = [stage EXCEPT ![d] = "wait"]
      /\ version' = version /\ released' = released
  BY DEF watcher!Claim, watcher!Set, watcher!queues, watcher!marks
<1>2. PICK s \in Seq(Task) : Line(s)
  BY DEF ClaimInv, InLine
<1> DEFINE t == Append(s, d)
<1>3. Unresolved' = Unresolved \union {d} /\ d \notin Unresolved
  BY <1>1 DEF ClaimInv, ClaimTypes, Untouched, OpenClaims, Unresolved, Live
<1>4. /\ t \in Seq(Task) /\ t # <<>> /\ Len(t) = Len(s) + 1 /\ t[Len(t)] = d
      /\ \A i \in 1..Len(s) : t[i] = s[i]
  OBVIOUS
<1>5. \A c \in Task : (c # d => prior'[c] = prior[c]) /\ (c = d => prior'[c] = claim)
  BY <1>1 DEF ClaimInv, ClaimTypes
<1>6. Unresolved' = {t[i] : i \in 1..Len(t)}
  BY <1>2, <1>3, <1>4 DEF Line
<1>7. \A i, j \in 1..Len(t) : t[i] = t[j] => i = j
  <2>1. \A i \in 1..Len(s) : t[i] # d
    BY <1>2, <1>3, <1>4 DEF Line
  <2> QED
    BY <1>2, <1>4, <2>1 DEF Line
<1>8. claim' = t[Len(t)] /\ Settled(t[1])'
  <2>1. CASE s = <<>>
    <3>1. t[1] = d
      BY <1>4, <2>1
    <3>2. claim = None \/ version[claim] # "open"
      BY <1>2, <2>1, LineFacts DEF ClaimInv, OpenClaims, Unresolved
    <3> QED
      BY <1>1, <1>4, <1>5, <3>1, <3>2 DEF Settled
  <2>2. CASE s # <<>>
    <3>1. t[1] = s[1] /\ s[1] \in Unresolved /\ s[1] \in Task
      BY <1>2, <1>4, <2>2 DEF Line
    <3> QED
      BY <1>1, <1>2, <1>3, <1>4, <1>5, <2>2, <3>1 DEF Settled, Line
  <2> QED
    BY <2>1, <2>2
<1>9. ASSUME NEW i \in 1..Len(t), i > 1 PROVE prior'[t[i]] = t[i - 1]
  <2>1. CASE i = Len(t)
    <3>1. s # <<>> /\ t[i - 1] = s[Len(s)] /\ t[i] = d
      BY <1>4, <1>9, <2>1
    <3> QED
      BY <1>2, <1>5, <3>1 DEF Line
  <2>2. CASE i # Len(t)
    <3>1. i \in 1..Len(s) /\ i - 1 \in 1..Len(s)
      BY <1>4, <1>9, <2>2
    <3>2. t[i] = s[i] /\ t[i - 1] = s[i - 1] /\ s[i] \in Unresolved /\ s[i] \in Task
      BY <1>2, <1>4, <3>1 DEF Line
    <3> QED
      BY <1>2, <1>3, <1>5, <1>9, <3>1, <3>2 DEF Line
  <2> QED
    BY <2>1, <2>2
<1> HIDE DEF t
<1>10. Line(t)'
  BY <1>6, <1>7, <1>8, <1>9 DEF Line
<1> QED
  BY <1>4, <1>10 DEF InLine

\* A download ends, however: if its claim is in the line, it leaves it in front.
LEMMA LeaveLine ==
  ASSUME ClaimInv, NEW d \in Task, stage[d] = "rename",
         NEW v, v # "open", version' = [version EXCEPT ![d] = v],
         stage' = [stage EXCEPT ![d] = "done"],
         prior' = prior, released' = released,
         claim' = claim \/ (claim = d /\ claim' = None)
  PROVE  InLine'
<1>1. PICK s \in Seq(Task) : Line(s)
  BY DEF ClaimInv, InLine
<1>2. Unresolved' = Unresolved \ {d}
  BY DEF ClaimInv, ClaimTypes, Unresolved, Live
<1>3. \A c \in Task : Settled(c) => Settled(c)'
  BY DEF ClaimInv, ClaimTypes, Settled
<1>4. \A c \in Task : prior[c] = d => Settled(c)'
  BY DEF ClaimInv, ClaimTypes, Settled
<1>5. CASE d \notin Unresolved
  <2>1. claim' = claim \/ s = <<>>
    <3>1. claim = d => d \notin Unresolved
      BY <1>5
    <3> QED
      BY <1>1, <3>1, LineFacts
  <2>2. s # <<>> => s[1] \in Task
    OBVIOUS
  <2>3. s # <<>> => Settled(s[1])'
    BY <1>1, <1>3, <2>2 DEF Line
  <2>4. Unresolved' = Unresolved
    BY <1>2, <1>5
  <2>5. Line(s)'
    BY <1>1, <2>1, <2>3, <2>4 DEF Line
  <2> QED
    BY <2>5 DEF InLine
<1>6. CASE d \in Unresolved
  <2>1. s # <<>> /\ d = s[1]
    BY <1>1, <1>6, LineFacts, Zenon DEF ClaimInv, OpenClaims
  <2>2. PICK t \in Seq(Task) :
          /\ Len(t) = Len(s) - 1
          /\ \A i \in 1..Len(t) : t[i] = s[i + 1] /\ t[i] \in Task /\ i + 1 \in 1..Len(s)
    <3> DEFINE t == Tail(s)
    <3>1. /\ t \in Seq(Task) /\ Len(t) = Len(s) - 1
          /\ \A i \in 1..Len(t) : t[i] = s[i + 1] /\ t[i] \in Task /\ i + 1 \in 1..Len(s)
      BY <2>1
    <3> HIDE DEF t
    <3> QED
      BY <3>1
  <2>3. \A i \in 1..Len(t) : t[i] # d
    BY <1>1, <2>1, <2>2 DEF Line
  <2>4. Unresolved' = {t[i] : i \in 1..Len(t)}
    <3>1. \A i \in 1..Len(t) : t[i] \in Unresolved
      BY <1>1, <2>2 DEF Line
    <3>2. ASSUME NEW c \in Unresolved, c # d PROVE \E i \in 1..Len(t) : t[i] = c
      <4>1. PICK i \in 1..Len(s) : s[i] = c
        BY <1>1 DEF Line
      <4>2. i # 1 /\ i - 1 \in 1..Len(t)
        BY <2>1, <2>2, <3>2, <4>1
      <4>3. t[i - 1] = s[(i - 1) + 1] /\ (i - 1) + 1 = i
        BY <2>2, <4>2
      <4> QED
        BY <4>1, <4>2, <4>3
    <3> QED
      BY <1>2, <2>3, <3>1, <3>2
  <2>5. \A i, j \in 1..Len(t) : t[i] = t[j] => i = j
    BY <1>1, <2>2 DEF Line
  <2>6. t # <<>> => claim' = t[Len(t)] /\ Settled(t[1])'
    <3> SUFFICES ASSUME t # <<>> PROVE claim' = t[Len(t)] /\ Settled(t[1])'
      OBVIOUS
    <3>1. 1 \in 1..Len(t) /\ Len(t) \in 1..Len(t) /\ Len(s) > 1
      BY <2>2
    <3>2. t[Len(t)] = s[Len(s)] /\ t[Len(t)] # d /\ t[1] = s[2] /\ t[1] \in Task
      <4>1. t[Len(t)] = s[Len(t) + 1] /\ t[1] = s[1 + 1] /\ t[1] \in Task
        BY <2>2, <3>1
      <4>2. Len(t) + 1 = Len(s)
        BY <2>2
      <4> QED
        BY <2>3, <3>1, <4>1, <4>2
    <3>3. claim = s[Len(s)]
      BY <1>1, <2>1 DEF Line
    <3>4. prior[t[1]] = d
      BY <1>1, <2>1, <2>2, <3>1, <3>2 DEF Line
    <3> QED
      BY <1>4, <3>2, <3>3, <3>4
  <2>7. ASSUME NEW i \in 1..Len(t), i > 1 PROVE prior'[t[i]] = t[i - 1]
    <3>1. i - 1 \in 1..Len(t) /\ i + 1 \in 1..Len(s) /\ i + 1 > 1
      BY <2>2, <2>7
    <3>2. t[i] = s[i + 1]
      BY <2>2
    <3>3. t[i - 1] = s[i]
      <4>1. t[i - 1] = s[(i - 1) + 1] /\ (i - 1) + 1 = i
        BY <2>2, <3>1
      <4> QED
        BY <4>1
    <3>4. prior[s[i + 1]] = s[i]
      <4>1. prior[s[i + 1]] = s[(i + 1) - 1] /\ (i + 1) - 1 = i
        BY <1>1, <3>1 DEF Line
      <4> QED
        BY <4>1
    <3> QED
      BY <3>2, <3>3, <3>4
  <2>8. Line(t)'
    BY <2>4, <2>5, <2>6, <2>7 DEF Line
  <2> QED
    BY <2>2, <2>8 DEF InLine
<1> QED
  BY <1>5, <1>6

\* Whatever else happens, the line stays as it is, or was empty.
LEMMA StayInLine ==
  ASSUME ClaimInv, version' = version, prior' = prior,
         Unresolved' = Unresolved, claim' = claim \/ Unresolved = {}
  PROVE  InLine'
<1>1. PICK s \in Seq(Task) : Line(s)
  BY DEF ClaimInv, InLine
<1>2. claim' = claim \/ s = <<>>
  BY <1>1, LineFacts
<1>3. \A c : Settled(c)' <=> Settled(c)
  BY DEF Settled
<1>4. Line(s)'
  BY <1>1, <1>2, <1>3 DEF Line
<1> QED
  BY <1>4 DEF InLine

LEMMA ClaimInit == watcher!Init => ClaimInv
<1> SUFFICES ASSUME watcher!Init PROVE ClaimInv
  OBVIOUS
<1> USE DEF watcher!Init, watcher!Resting
<1>1. ClaimTypes /\ Untouched /\ OpenClaims
  <2>1. Live = {}
    BY DEF Live
  <2>2. ClaimTypes
    BY DEF ClaimTypes
  <2> QED
    BY <2>1, <2>2, WriterAssumption DEF Untouched, OpenClaims
<1>2. Unresolved = {}
  BY DEF Unresolved, Live
<1>3. InLine
  <2>1. Line(<<>>) /\ <<>> \in Seq(Task)
    BY <1>2 DEF Line
  <2> QED
    BY <2>1 DEF InLine
<1>4. Covered /\ ReadUnderClaim /\ NoEcho
  BY DEF Covered, Live, ReadUnderClaim, NoEcho, watcher!NoEcho
<1> QED
  BY <1>1, <1>3, <1>4 DEF ClaimInv

\* A download claims the path, or gets its turn to rename.
LEMMA ClaimStep == ASSUME ClaimInv, NEW d \in Task, watcher!Claim(d) PROVE ClaimInv'
<1>1. /\ stage[d] = "new" /\ claim' = d /\ prior' = [prior EXCEPT ![d] = claim]
      /\ stage' = [stage EXCEPT ![d] = "wait"]
      /\ UNCHANGED <<file, version, drain, sent, released>>
  BY DEF watcher!Claim, watcher!Set, watcher!queues, watcher!marks
<1>2. Live' = Live \union {d} /\ Unresolved' = Unresolved \union {d}
  BY <1>1 DEF ClaimInv, ClaimTypes, Untouched, OpenClaims, Unresolved, Live
<1>3. ClaimTypes'
  BY <1>1 DEF ClaimInv, ClaimTypes
<1>4. Untouched'
  BY <1>1, WriterAssumption DEF ClaimInv, ClaimTypes, Untouched
<1>5. OpenClaims'
  BY <1>1, <1>2 DEF ClaimInv, ClaimTypes, Untouched, OpenClaims, Settled
<1>6. InLine'
  BY JoinLine
<1>7. Covered'
  <2>1. file \in Live' => file \in Live /\ claim # None
    BY <1>1, <1>2 DEF ClaimInv, Untouched, Covered
  <2>2. version[d] = "open"
    BY <1>1 DEF ClaimInv, OpenClaims
  <2>3. ASSUME file \in Live, NEW c \in Unresolved', Settled(c)'
        PROVE  prior'[c] # None /\ version[prior'[c]] = file
    <3>1. CASE c = d
      BY <1>1, <2>1, <2>3, <3>1 DEF ClaimInv, ClaimTypes, Covered, Settled, Live
    <3>2. CASE c # d
      BY <1>1, <1>2, <2>1, <2>3, <3>2 DEF ClaimInv, ClaimTypes, Covered, Settled, Live
    <3> QED
      BY <3>1, <3>2
  <2> QED
    BY <1>1, <2>1, <2>2, <2>3, WriterAssumption DEF Covered
<1>8. ReadUnderClaim'
  BY <1>1, <1>2 DEF ClaimInv, Untouched, ReadUnderClaim
<1>9. NoEcho'
  BY <1>1 DEF ClaimInv, NoEcho, watcher!NoEcho
<1> QED
  BY <1>3, <1>4, <1>5, <1>6, <1>7, <1>8, <1>9 DEF ClaimInv

LEMMA TurnStep == ASSUME ClaimInv, NEW d \in Task, watcher!Turn(d) PROVE ClaimInv'
<1>1. /\ stage[d] = "wait" /\ Settled(d) /\ stage' = [stage EXCEPT ![d] = "rename"]
      /\ UNCHANGED <<file, claim, prior, version, drain, sent, released>>
  BY DEF watcher!Turn, watcher!Set, watcher!queues, watcher!marks, Settled
<1>2. Live' = Live /\ Unresolved' = Unresolved
  BY <1>1 DEF ClaimInv, ClaimTypes, Unresolved, Live
<1>3. ClaimTypes' /\ Untouched'
  BY <1>1 DEF ClaimInv, ClaimTypes, Untouched
<1>4. OpenClaims'
  BY <1>1, <1>2 DEF ClaimInv, ClaimTypes, OpenClaims, Settled
<1>5. InLine'
  BY <1>1, <1>2, StayInLine
<1>6. Covered' /\ ReadUnderClaim' /\ NoEcho'
  BY <1>1, <1>2 DEF ClaimInv, Covered, Settled, ReadUnderClaim, NoEcho, watcher!NoEcho
<1> QED
  BY <1>3, <1>4, <1>5, <1>6 DEF ClaimInv

\* What a download that ends leaves of the line.
LEMMA EndFacts ==
  ASSUME ClaimInv, NEW d \in Task, stage[d] = "rename",
         NEW v \in Task \union {None}, version' = [version EXCEPT ![d] = v],
         stage' = [stage EXCEPT ![d] = "done"],
         UNCHANGED <<prior, released>>
  PROVE  /\ Live' = Live /\ Unresolved' = Unresolved \ {d} /\ Settled(d) /\ version[d] = "open"
         /\ d \in Live => d \in Unresolved
         /\ \A c \in Unresolved' :
              /\ Settled(c)' => Settled(c) \/ prior[c] = d
              /\ prior[c] = d => d \in Live
              /\ prior[c] \notin {None, d} => version'[prior[c]] = version[prior[c]]
<1>1. Live' = Live /\ Unresolved' = Unresolved \ {d} /\ Settled(d) /\ version[d] = "open"
  BY WriterAssumption DEF ClaimInv, ClaimTypes, OpenClaims, Live, Unresolved
<1>2. d \in Live => d \in Unresolved
  BY <1>1 DEF Unresolved
<1>3. ASSUME NEW c \in Unresolved'
      PROVE  /\ Settled(c)' => Settled(c) \/ prior[c] = d
             /\ prior[c] = d => d \in Live
             /\ prior[c] \notin {None, d} => version'[prior[c]] = version[prior[c]]
  <2>1. c \in Live /\ c \in Task
    BY <1>1 DEF Unresolved, Live
  <2>2. prior[c] \in Live \union {None}
    BY <2>1 DEF ClaimInv, OpenClaims
  <2>3. prior[c] \notin {None, d} => version'[prior[c]] = version[prior[c]]
    BY <2>2 DEF ClaimInv, ClaimTypes, Live
  <2> QED
    BY <2>2, <2>3, WriterAssumption DEF Settled, Live
<1> QED
  BY <1>1, <1>2, <1>3

LEMMA CommitStep == ASSUME ClaimInv, NEW d \in Task, watcher!Commit(d) PROVE ClaimInv'
<1>1. /\ stage[d] = "rename" /\ file' = d /\ version' = [version EXCEPT ![d] = d]
      /\ stage' = [stage EXCEPT ![d] = "done"]
      /\ UNCHANGED <<claim, prior, drain, sent, released>>
  BY DEF watcher!Commit, watcher!Set, watcher!marks
<1>2. d # "open" /\ d # None
  BY WriterAssumption
<1>3. /\ Live' = Live /\ Unresolved' = Unresolved \ {d} /\ Settled(d) /\ version[d] = "open"
      /\ d \in Live => d \in Unresolved
      /\ \A c \in Unresolved' :
           /\ Settled(c)' => Settled(c) \/ prior[c] = d
           /\ prior[c] \notin {None, d} => version'[prior[c]] = version[prior[c]]
  BY <1>1, EndFacts
<1>4. ClaimTypes' /\ Untouched'
  BY <1>1 DEF ClaimInv, ClaimTypes, Untouched
<1>5. OpenClaims'
  BY <1>1, <1>2, <1>3 DEF ClaimInv, ClaimTypes, OpenClaims, Settled
<1>6. InLine'
  BY <1>1, <1>2, LeaveLine
<1>7. Covered' /\ ReadUnderClaim'
  <2> SUFFICES ASSUME d \in Live PROVE Covered' /\ ReadUnderClaim'
    BY <1>1, <1>2, <1>3 DEF ClaimInv, ClaimTypes, Covered, ReadUnderClaim
  <2>1. claim \in Unresolved /\ \A c \in Unresolved : Settled(c) => c = d
    BY <1>3, OneSettled DEF ClaimInv
  <2>2. claim # None /\ claim \in Task /\ version[claim] = "open"
    BY <2>1, WriterAssumption DEF Unresolved, Live
  <2>3. version'[claim] # "open" => claim = d
    BY <1>1, <2>2 DEF ClaimInv, ClaimTypes
  <2>4. version'[d] = d
    BY <1>1 DEF ClaimInv, ClaimTypes
  <2>5. \A c \in Unresolved' : Settled(c)' => prior[c] = d
    BY <1>3, <2>1
  <2>6. Covered'
    BY <1>1, <1>2, <2>2, <2>3, <2>4, <2>5 DEF Covered
  <2>7. ReadUnderClaim'
    BY <1>1, <1>2, <2>2 DEF ClaimInv, ClaimTypes, ReadUnderClaim
  <2> QED
    BY <2>6, <2>7
<1>8. NoEcho'
  BY <1>1 DEF ClaimInv, NoEcho, watcher!NoEcho
<1> QED
  BY <1>4, <1>5, <1>6, <1>7, <1>8 DEF ClaimInv

LEMMA FailCommitStep == ASSUME ClaimInv, NEW d \in Task, watcher!FailCommit(d) PROVE ClaimInv'
<1> DEFINE v == watcher!Before(d)
<1>1. /\ stage[d] = "rename" /\ version' = [version EXCEPT ![d] = v]
      /\ stage' = [stage EXCEPT ![d] = "done"]
      /\ claim' = (IF v = None /\ claim = d THEN None ELSE claim)
      /\ UNCHANGED <<file, prior, drain, sent, released>>
  BY DEF watcher!FailCommit, watcher!Set, watcher!queues, watcher!marks
<1>2. /\ prior[d] = None => v = None
      /\ prior[d] # None => v = version[prior[d]] /\ prior[d] \in Task
  BY DEF watcher!Before, ClaimInv, ClaimTypes
<1>3. v # "open" /\ v \in Task \union {None}
  BY <1>1, <1>2, WriterAssumption DEF ClaimInv, ClaimTypes, OpenClaims, Settled
<1> HIDE DEF v
<1>4. /\ Live' = Live /\ Unresolved' = Unresolved \ {d} /\ Settled(d) /\ version[d] = "open"
      /\ d \in Live => d \in Unresolved
      /\ \A c \in Unresolved' :
           /\ Settled(c)' => Settled(c) \/ prior[c] = d
           /\ prior[c] = d => d \in Live
           /\ prior[c] \notin {None, d} => version'[prior[c]] = version[prior[c]]
  BY <1>1, <1>3, EndFacts
<1>5. ClaimTypes' /\ Untouched'
  BY <1>1, <1>3, WriterAssumption DEF ClaimInv, ClaimTypes, Untouched
<1>6. OpenClaims'
  BY <1>1, <1>3, <1>4 DEF ClaimInv, ClaimTypes, OpenClaims, Settled
<1>7. InLine'
  BY <1>1, <1>3, LeaveLine
<1>8. ASSUME file \in Live, d \in Live PROVE v = file
  BY <1>2, <1>4, <1>8 DEF ClaimInv, Covered
<1>9. file \in Live => file # None
  BY WriterAssumption DEF Live
<1>10. Covered'
  <2> SUFFICES ASSUME file \in Live PROVE Covered'
    BY <1>1, <1>4 DEF Covered
  <2>1. claim # None /\ claim \in Live /\ claim \in Task
    BY DEF ClaimInv, Covered, OpenClaims, Live
  <2>2. claim' = claim
    BY <1>1, <1>8, <1>9, <2>1
  <2>3. version'[d] = v /\ (claim # d => version'[claim] = version[claim])
    BY <1>1, <2>1 DEF ClaimInv, ClaimTypes
  <2>4. version'[claim] # "open" => version'[claim] = file
    BY <1>8, <2>1, <2>3 DEF ClaimInv, Covered
  <2>5. ASSUME NEW c \in Unresolved', Settled(c)' PROVE prior[c] # None /\ version'[prior[c]] = file
    <3>1. CASE prior[c] = d
      BY <1>4, <1>8, <2>3, <3>1, WriterAssumption
    <3>2. CASE prior[c] # d
      BY <1>4, <2>5, <3>2 DEF ClaimInv, Covered
    <3> QED
      BY <3>1, <3>2
  <2> QED
    BY <1>1, <2>1, <2>2, <2>4, <2>5 DEF Covered
<1>11. ReadUnderClaim'
  BY <1>1, <1>4, WriterAssumption DEF ClaimInv, ClaimTypes, ReadUnderClaim
<1>12. NoEcho'
  BY <1>1 DEF ClaimInv, NoEcho, watcher!NoEcho
<1> QED
  BY <1>5, <1>6, <1>7, <1>10, <1>11, <1>12 DEF ClaimInv

\* The other steps neither open nor resolve a claim: such a one keeps the invariant if it
\* keeps what is said of the file, the claim in the table and the drain.
LEMMA KeepStep ==
  ASSUME ClaimInv, ClaimTypes', Untouched', UNCHANGED <<prior, version, stage>>,
         released \subseteq released', claim' \in Live' \union {None},
         \/ Live' = Live /\ (claim' = claim \/ Unresolved = {})
         \/ Live' = {},
         Covered', ReadUnderClaim', NoEcho'
  PROVE  ClaimInv'
<1>1. Unresolved' = {c \in Live' : version[c] = "open"}
  BY DEF Unresolved
<1>2. InLine'
  <2>1. CASE Live' = {}
    <3>1. Line(<<>>)' /\ <<>> \in Seq(Task)
      BY <1>1, <2>1 DEF Line
    <3> QED
      BY <3>1 DEF InLine
  <2>2. CASE Live' = Live /\ (claim' = claim \/ Unresolved = {})
    <3>1. Unresolved' = Unresolved
      BY <1>1, <2>2 DEF Unresolved
    <3> QED
      BY <2>2, <3>1, StayInLine
  <2> QED
    BY <2>1, <2>2
<1>3. OpenClaims'
  BY DEF ClaimInv, OpenClaims, Settled
<1> QED
  BY <1>2, <1>3 DEF ClaimInv

\* Where the file, the table and the drain stay, so does everything.
LEMMA SameStep ==
  ASSUME ClaimInv,
         UNCHANGED <<file, claim, prior, version, stage, drain, sent, released>>
  PROVE  ClaimInv'
<1>1. Live' = Live /\ Unresolved' = Unresolved
  BY DEF Live, Unresolved
<1>2. InLine'
  BY <1>1, StayInLine
<1> QED
  BY <1>1, <1>2 DEF ClaimInv, ClaimTypes, Untouched, OpenClaims, Settled, Covered,
                    ReadUnderClaim, NoEcho, watcher!NoEcho

LEMMA WriteStep == ASSUME ClaimInv, NEW d \in Task, watcher!Write(d) PROVE ClaimInv'
<1>1. /\ stage[d] = "new" /\ stage' = [stage EXCEPT ![d] = "done"]
      /\ file' = d /\ released' = released \union {d}
      /\ UNCHANGED <<claim, prior, version, drain, sent>>
  BY DEF watcher!Write, watcher!Set, watcher!queues
<1>2. Live' = Live /\ Unresolved' = Unresolved /\ d \notin Live'
  BY <1>1 DEF ClaimInv, ClaimTypes, Unresolved, Live
<1>3. ClaimTypes' /\ Untouched'
  BY <1>1 DEF ClaimInv, ClaimTypes, Untouched
<1>4. OpenClaims'
  BY <1>1, <1>2 DEF ClaimInv, ClaimTypes, OpenClaims, Settled
<1>5. InLine'
  BY <1>1, <1>2, StayInLine
<1>6. Covered' /\ ReadUnderClaim' /\ NoEcho'
  BY <1>1, <1>2 DEF ClaimInv, Covered, ReadUnderClaim, NoEcho, watcher!NoEcho
<1> QED
  BY <1>3, <1>4, <1>5, <1>6 DEF ClaimInv

\* A claim that has resolved leaves the table once the file does not hold what it tells.
LEMMA ForgetStep ==
  ASSUME ClaimInv, claim' = None, claim # None => version[claim] # "open",
         claim = None \/ version[claim] # file \/ file \notin Live,
         UNCHANGED <<file, prior, version, stage, drain, sent, released>>
  PROVE  ClaimInv'
<1>1. Live' = Live /\ (claim = None \/ claim \notin Unresolved)
  BY DEF Live, Unresolved
<1>2. Unresolved = {}
  BY <1>1, OneSettled, WriterAssumption DEF ClaimInv, Unresolved, Live
<1>3. file \notin Live
  BY DEF ClaimInv, Covered
<1>4. ClaimTypes' /\ Untouched'
  BY WriterAssumption DEF ClaimInv, ClaimTypes, Untouched
<1>5. Covered' /\ ReadUnderClaim' /\ NoEcho'
  BY <1>1, <1>3 DEF ClaimInv, Covered, ReadUnderClaim, NoEcho, watcher!NoEcho
<1> QED
  BY <1>1, <1>2, <1>4, <1>5, KeepStep

LEMMA RemovalStep == ASSUME ClaimInv, watcher!Sweep \/ watcher!TakeDelete PROVE ClaimInv'
<1>1. CASE watcher!Sweep
  <2>1. /\ claim' = None /\ version[claim] # "open" /\ file = None
        /\ UNCHANGED <<file, prior, version, stage, drain, sent, released>>
    BY <1>1 DEF watcher!Sweep, watcher!commits, watcher!queues, watcher!marks
  <2> QED
    BY <2>1, ForgetStep, WriterAssumption DEF Live
<1>2. CASE watcher!TakeDelete
  <2>1. /\ claim # None => version[claim] # "open"
        /\ claim' = IF claim # None /\ version[claim] = file /\ file # None THEN claim ELSE None
        /\ UNCHANGED <<file, prior, version, stage, drain, sent, released>>
    BY <1>2 DEF watcher!TakeDelete, watcher!commits, watcher!marks
  <2>2. CASE claim' = claim
    BY <2>1, <2>2, SameStep
  <2>3. CASE claim' # claim
    <3>1. claim' = None /\ (claim = None \/ version[claim] # file \/ file \notin Live)
      BY <2>1, <2>3, WriterAssumption DEF Live
    <3> QED
      BY <2>1, <3>1, ForgetStep
  <2> QED
    BY <2>2, <2>3
<1> QED
  BY <1>1, <1>2

\* Somebody else writes the file or deletes it.
LEMMA OthersStep ==
  ASSUME ClaimInv, (\E e \in Edit : watcher!Change(e) \/ watcher!Save(e)) \/ watcher!Delete
  PROVE  ClaimInv'
<1>1. /\ file' \in Edit \union {None}
      /\ UNCHANGED <<claim, prior, version, stage, drain, sent, released>>
  BY DEF watcher!Change, watcher!Save, watcher!Delete, watcher!commits, watcher!marks
<1>2. Live' = Live /\ file' \notin Live'
  BY <1>1, WriterAssumption DEF Live
<1>3. ClaimTypes' /\ Untouched'
  BY <1>1, WriterAssumption DEF ClaimInv, ClaimTypes, Untouched
<1>4. Covered' /\ ReadUnderClaim' /\ NoEcho'
  BY <1>1, <1>2 DEF ClaimInv, Covered, ReadUnderClaim, NoEcho, watcher!NoEcho
<1> QED
  BY <1>1, <1>2, <1>3, <1>4, KeepStep DEF ClaimInv, OpenClaims

\* The watcher goes, and every claim with it.
LEMMA RemoveWatcherStep == ASSUME ClaimInv, watcher!RemoveWatcher PROVE ClaimInv'
<1>1. /\ claim' = None /\ released' = released \union {d \in Task : stage[d] # "new"}
      /\ UNCHANGED <<file, prior, version, stage, drain, sent>>
  BY DEF watcher!RemoveWatcher, watcher!commits
<1>2. Live' = {}
  BY <1>1 DEF Live
<1>3. ClaimTypes' /\ Untouched'
  BY <1>1, WriterAssumption DEF ClaimInv, ClaimTypes, Untouched
<1>4. Covered' /\ ReadUnderClaim' /\ NoEcho'
  BY <1>1, <1>2 DEF ClaimInv, Covered, ReadUnderClaim, NoEcho, watcher!NoEcho
<1> QED
  BY <1>1, <1>2, <1>3, <1>4, KeepStep

\* An upload is dispatched only when the file holds no download whose claim was kept.
LEMMA DispatchStep ==
  ASSUME ClaimInv, file \notin Live,
         drain' = watcher!Resting, sent' \subseteq sent \union ({file} \ {None}),
         UNCHANGED <<file, claim, prior, version, stage, released>>
  PROVE  ClaimInv'
<1>1. Live' = Live
  BY DEF Live
<1>2. ClaimTypes' /\ Untouched'
  <2>1. drain' = [at |-> "rest", awaits |-> None, read |-> None]
    BY DEF watcher!Resting
  <2>2. \A d \in Task : d # None
    BY WriterAssumption
  <2> QED
    BY <2>1, <2>2 DEF ClaimInv, ClaimTypes, Untouched
<1>3. Covered' /\ ReadUnderClaim'
  BY <1>1 DEF Covered, ReadUnderClaim, watcher!Resting
<1>4. file \in Task => file \in released
  BY DEF ClaimInv, Untouched, Live
<1>5. NoEcho'
  BY <1>4 DEF ClaimInv, NoEcho, watcher!NoEcho
<1> QED
  BY <1>1, <1>2, <1>3, <1>5, KeepStep DEF ClaimInv, OpenClaims

\* The drain goes on without an upload.
LEMMA DrainStep ==
  ASSUME ClaimInv, drain' \in [at : {"rest", "claim", "read", "compare"},
                               awaits : {d \in Task : stage[d] # "new"} \union {None},
                               read : Task \union Edit \union {None}],
         ReadUnderClaim',
         UNCHANGED <<file, claim, prior, version, stage, sent, released>>
  PROVE  ClaimInv'
<1>1. Live' = Live
  BY DEF Live
<1>2. ClaimTypes'
  BY DEF ClaimInv, ClaimTypes
<1>3. Untouched'
  <2>1. drain'.awaits \in {d \in Task : stage[d] # "new"} \union {None}
    OBVIOUS
  <2> QED
    BY <2>1, WriterAssumption DEF ClaimInv, Untouched
<1>4. Covered' /\ NoEcho'
  BY <1>1 DEF ClaimInv, Covered, Settled, Unresolved, NoEcho, watcher!NoEcho
<1> QED
  BY <1>1, <1>2, <1>3, <1>4, KeepStep DEF ClaimInv, OpenClaims

\* What a claim may await, and what may have been read.
LEMMA DrainTypes ==
  ASSUME ClaimInv
  PROVE  /\ claim \in {d \in Task : stage[d] # "new"} \union {None}
         /\ drain.awaits \in {d \in Task : stage[d] # "new"} \union {None}
         /\ watcher!Resting \in [at : {"rest"}, awaits : {None}, read : {None}]
  BY DEF ClaimInv, ClaimTypes, Untouched, OpenClaims, Live, watcher!Resting

LEMMA TakeStep == ASSUME ClaimInv, watcher!Take PROVE ClaimInv'
<1>1. /\ drain' = drain \/ drain' = [watcher!Resting EXCEPT !.at = "claim"]
      /\ UNCHANGED <<file, claim, prior, version, stage, sent, released>>
  BY DEF watcher!Take, watcher!commits
<1>2. CASE drain' = drain
  BY <1>1, <1>2, SameStep
<1>3. CASE drain' = [watcher!Resting EXCEPT !.at = "claim"]
  <2>1. drain' = [at |-> "claim", awaits |-> None, read |-> None]
    BY <1>3 DEF watcher!Resting
  <2> QED
    BY <1>1, <2>1, DrainStep DEF ReadUnderClaim
<1> QED
  BY <1>1, <1>2, <1>3

LEMMA LookUpStep == ASSUME ClaimInv, watcher!LookUp PROVE ClaimInv'
<1>1. UNCHANGED <<file, claim, prior, version, stage, released>>
  BY DEF watcher!LookUp, watcher!commits
<1>2. CASE claim = None
  <2>1. drain' = watcher!Resting /\ sent' \subseteq sent \union ({file} \ {None})
    BY <1>2 DEF watcher!LookUp, watcher!Dispatch
  <2>2. file \notin Live
    BY <1>2 DEF ClaimInv, Covered
  <2> QED
    BY <1>1, <2>1, <2>2, DispatchStep
<1>3. CASE claim # None
  <2>1. drain' = [watcher!Resting EXCEPT !.at = "read", !.awaits = claim] /\ sent' = sent
    BY <1>3 DEF watcher!LookUp
  <2>2. drain' = [at |-> "read", awaits |-> claim, read |-> None]
    BY <2>1 DEF watcher!Resting
  <2>3. drain' \in [at : {"rest", "claim", "read", "compare"},
                           awaits : {d \in Task : stage[d] # "new"} \union {None},
                           read : Task \union Edit \union {None}]
    BY <2>2, DrainTypes
  <2>4. ReadUnderClaim'
    BY <1>3, <2>2, DrainTypes DEF ReadUnderClaim
  <2>5. UNCHANGED <<file, claim, prior, version, stage, sent, released>>
    BY <1>1, <2>1
  <2> QED
    BY <2>3, <2>4, <2>5, DrainStep
<1> QED
  BY <1>2, <1>3

\* Once the claim it awaits has resolved, the drain reads what the file holds.
LEMMA ReadStep == ASSUME ClaimInv, watcher!Read PROVE ClaimInv'
<1>1. /\ drain' = [drain EXCEPT !.at = "compare", !.read = file]
      /\ version[drain.awaits] # "open"
      /\ UNCHANGED <<file, claim, prior, version, stage, sent, released>>
  BY DEF watcher!Read, watcher!commits, watcher!marks
<1>2. drain' = [at |-> "compare", awaits |-> drain.awaits, read |-> file]
  BY <1>1 DEF ClaimInv, ClaimTypes
<1>3. /\ drain.awaits \in {d \in Task : stage[d] # "new"} /\ drain.awaits \in Task
      /\ file \in Task \union Edit \union {None}
  BY DrainTypes, WriterAssumption DEF ClaimInv, ClaimTypes, ReadUnderClaim, watcher!Read
<1>4. ReadUnderClaim'
  BY <1>1, <1>2, <1>3 DEF ReadUnderClaim
<1> QED
  BY <1>1, <1>2, <1>3, <1>4, DrainStep

LEMMA CompareStep == ASSUME ClaimInv, watcher!Compare PROVE ClaimInv'
<1>1. /\ drain.at = "compare"
      /\ claim' = IF watcher!Fresh /\ ~watcher!Told THEN None ELSE claim
      /\ UNCHANGED <<file, prior, version, stage, released>>
  BY DEF watcher!Compare, watcher!commits
<1>2. drain.awaits \in Task /\ version[drain.awaits] # "open"
  BY <1>1 DEF ClaimInv, ReadUnderClaim
<1>3. CASE watcher!Told
  <2>1. claim' = claim /\ sent' = sent /\ drain' = watcher!Resting
    <3>1. watcher!Fresh
      BY <1>3 DEF watcher!Told
    <3> QED
      BY <1>1, <1>3, <3>1 DEF watcher!Compare
  <2>2. drain' = [at |-> "rest", awaits |-> None, read |-> None]
    BY <2>1 DEF watcher!Resting
  <2>3. drain' \in [at : {"rest", "claim", "read", "compare"},
                           awaits : {d \in Task : stage[d] # "new"} \union {None},
                           read : Task \union Edit \union {None}]
    BY <2>2
  <2>4. ReadUnderClaim'
    BY <2>2 DEF ReadUnderClaim
  <2>5. UNCHANGED <<file, claim, prior, version, stage, sent, released>>
    BY <1>1, <2>1
  <2> QED
    BY <2>3, <2>4, <2>5, DrainStep
<1>4. CASE ~watcher!Fresh /\ claim # None
  <2>1. /\ claim' = claim /\ sent' = sent /\ drain' = [watcher!Resting EXCEPT !.at = "claim"]
    BY <1>1, <1>4 DEF watcher!Compare, watcher!Told
  <2>2. drain' = [at |-> "claim", awaits |-> None, read |-> None]
    BY <2>1 DEF watcher!Resting
  <2>3. drain' \in [at : {"rest", "claim", "read", "compare"},
                           awaits : {d \in Task : stage[d] # "new"} \union {None},
                           read : Task \union Edit \union {None}]
    BY <2>2
  <2>4. ReadUnderClaim'
    BY <2>2 DEF ReadUnderClaim
  <2>5. UNCHANGED <<file, claim, prior, version, stage, sent, released>>
    BY <1>1, <2>1
  <2> QED
    BY <2>3, <2>4, <2>5, DrainStep
<1>5. CASE ~watcher!Told /\ (watcher!Fresh \/ claim = None)
  <2>1. drain' = watcher!Resting /\ sent' \subseteq sent \union ({file} \ {None})
    BY <1>5 DEF watcher!Compare, watcher!Dispatch
  <2>2. file \notin Live
    <3> SUFFICES ASSUME file \in Live PROVE FALSE
      OBVIOUS
    <3>1. claim # None /\ (version[claim] # "open" => version[claim] = file)
      BY DEF ClaimInv, Covered
    <3>2. claim = drain.awaits
      BY <1>5, <3>1 DEF watcher!Fresh
    <3>3. drain.read = file /\ file # None
      BY <1>1, <3>2, WriterAssumption DEF ClaimInv, ReadUnderClaim, Live
    <3> QED
      BY <1>2, <1>5, <3>1, <3>2, <3>3 DEF watcher!Told, watcher!Fresh
  \* The claim that the drain awaited goes before the upload is dispatched.
  <2>3. ClaimTypes' /\ Untouched'
    <3>1. drain' = [at |-> "rest", awaits |-> None, read |-> None]
      BY <2>1 DEF watcher!Resting
    <3>2. claim' = claim \/ claim' = None
      BY <1>1
    <3>3. sent' \subseteq Task \union Edit
      BY <2>1 DEF ClaimInv, ClaimTypes
    <3>4. \A d \in Task : d # None
      BY WriterAssumption
    <3>5. ClaimTypes'
      BY <1>1, <3>1, <3>2, <3>3 DEF ClaimInv, ClaimTypes
    <3>6. Untouched'
      BY <1>1, <3>1, <3>2, <3>4 DEF ClaimInv, Untouched
    <3> QED
      BY <3>5, <3>6
  <2>4. Live' = Live /\ claim' \in Live' \union {None}
    BY <1>1 DEF Live, ClaimInv, OpenClaims
  <2>5. claim' = claim \/ Unresolved = {}
    <3>1. claim' # claim => claim = drain.awaits /\ claim \notin Unresolved
      BY <1>1, <1>2 DEF watcher!Fresh, Unresolved
    <3> QED
      BY <3>1, OneSettled DEF ClaimInv
  <2>6. Covered' /\ ReadUnderClaim'
    BY <1>1, <2>1, <2>2, <2>4 DEF Covered, ReadUnderClaim, watcher!Resting
  <2>7. NoEcho'
    <3>1. file \in Task => file \in released
      BY <2>2 DEF ClaimInv, Untouched, Live
    <3> QED
      BY <1>1, <2>1, <3>1 DEF ClaimInv, NoEcho, watcher!NoEcho
  <2> QED
    BY <1>1, <2>3, <2>4, <2>5, <2>6, <2>7, KeepStep
<1> QED
  BY <1>3, <1>4, <1>5

LEMMA OtherWatching ==
  ASSUME ClaimInv, \/ watcher!ReportChange \/ watcher!ReportDelete \/ watcher!Hold
                   \/ watcher!CreateWatcher \/ UNCHANGED watcherVars
  PROVE  ClaimInv'
<1>1. UNCHANGED <<file, claim, prior, version, stage, drain, sent, released>>
  BY DEF watcher!ReportChange, watcher!ReportDelete, watcher!Hold, watcher!CreateWatcher,
         watcher!commits, watcher!queues, watcher!marks, watcherVars
<1> QED
  BY <1>1, SameStep

LEMMA WatcherStep == ASSUME ClaimInv, [watcher!Next]_watcherVars PROVE ClaimInv'
<1>1. ASSUME NEW d \in Task, watcher!Committing(d) PROVE ClaimInv'
  BY <1>1, ClaimStep, TurnStep, CommitStep, FailCommitStep, WriteStep DEF watcher!Committing
<1>2. CASE watcher!Watching
  BY <1>2, OtherWatching, TakeStep, LookUpStep, ReadStep, CompareStep, RemovalStep
     DEF watcher!Watching
<1> QED
  BY <1>1, <1>2, OthersStep, RemovalStep, RemoveWatcherStep, OtherWatching DEF watcher!Next

-------------------------------------------------------------------------------
(* The uploads an agent requests                                            *)

BridgeTypes ==
  /\ request \subseteq Task /\ seen \subseteq Task
  /\ items \in [Task -> [File -> bridge!Status]] /\ saved \in [Task -> bridge!Result]
  /\ told \in [Task -> bridge!Result]
  /\ queue \in Seq(Task) /\ transferred \in [Task -> SUBSET File]
  /\ running \subseteq File /\ \A f, g \in running : f = g

\* A job is in the queue once, after its request was seen and until its result is terminal;
\* before that there is nothing of it.
Queued ==
  /\ \A i, k \in 1..Len(queue) : queue[i] = queue[k] => i = k
  /\ \A i \in 1..Len(queue) : queue[i] \in seen /\ ~saved[queue[i]].terminal
  /\ \A j \in Task \ seen : saved[j] = bridge!Nothing /\ transferred[j] = {}

\* What was transferred is reported as uploaded, or about to be.
Accounted ==
  \A j \in Task : \A f \in transferred[j] :
    \/ items[j][f] = "uploaded"
    \/ queue # <<>> /\ Head(queue) = j /\ running = {f}

\* What a result says is true: only what was transferred is called uploaded, and a terminal
\* one says all.
True(r, j) ==
  /\ \A f \in File : r.files[f] = "uploaded" => f \in transferred[j]
  /\ r.terminal => /\ \A f \in File : r.files[f] \in bridge!Final
                   /\ \A f \in transferred[j] : r.files[f] = "uploaded"
ResultsTrue ==
  \A j \in Task :
    /\ True(saved[j], j) /\ True(told[j], j)
    /\ \A f \in File : items[j][f] = "uploaded" => f \in transferred[j]
    /\ told[j].terminal => saved[j].terminal

BridgeInv == BridgeTypes /\ Queued /\ Accounted /\ ResultsTrue

LEMMA BridgeInit == bridge!Init => BridgeInv
<1> SUFFICES ASSUME bridge!Init PROVE BridgeInv
  OBVIOUS
<1> USE DEF bridge!Init, bridge!Nothing, bridge!Status, bridge!Final, bridge!Result
<1>1. BridgeTypes
  BY DEF BridgeTypes
<1>2. Queued /\ Accounted
  BY DEF Queued, Accounted
<1>3. ResultsTrue
  BY DEF ResultsTrue, True
<1> QED
  BY <1>1, <1>2, <1>3 DEF BridgeInv

\* What the steps have in common.

\* Steps that leave the queue, the jobs and the results alone.
LEMMA BridgeSame ==
  ASSUME BridgeInv, UNCHANGED <<seen, items, saved, queue, running, transferred, told>>,
         request' \subseteq Task
  PROVE  BridgeInv'
  BY DEF BridgeInv, BridgeTypes, Queued, Accounted, ResultsTrue, True

\* The job that is worked off: it was seen, and its result is not terminal.
LEMMA CurrentJob ==
  ASSUME BridgeInv, NEW j \in Task, bridge!Current(j)
  PROVE  /\ queue # <<>> /\ Head(queue) = j /\ queue[1] = j /\ j \in seen
         /\ ~saved[j].terminal /\ ~told[j].terminal
<1>1. queue # <<>> /\ Head(queue) = j /\ queue \in Seq(Task)
  BY DEF bridge!Current, BridgeInv, BridgeTypes
<1>2. queue[1] = j /\ 1 \in 1..Len(queue)
  BY <1>1
<1> QED
  BY <1>1, <1>2 DEF BridgeInv, Queued, ResultsTrue

\* A status of one file of the current job is noted and saved, and another file, or none,
\* runs afterwards.
LEMMA MarkStep ==
  ASSUME BridgeInv, NEW j \in Task, NEW f \in File, bridge!Current(j),
         NEW status \in bridge!Status, bridge!Mark(j, f, status),
         running = {} \/ running = {f}, running' \in {{}, {f}},
         status = "uploaded" => f \in transferred[j],
         f \in transferred[j] => status = "uploaded" \/ running' = {f},
         UNCHANGED <<request, seen, queue, transferred, told>>
  PROVE  BridgeInv'
<1> DEFINE files == [items[j] EXCEPT ![f] = status]
<1>1. items' = [items EXCEPT ![j] = files]
      /\ saved' = [saved EXCEPT ![j] = [files |-> files, terminal |-> FALSE]]
  BY DEF bridge!Mark, bridge!Save
<1>2. files \in [File -> bridge!Status]
      /\ \A g \in File : files[g] = IF g = f THEN status ELSE items[j][g]
  BY DEF BridgeInv, BridgeTypes
<1> HIDE DEF files
<1>3. /\ items'[j] = files /\ \A k \in Task : k # j => items'[k] = items[k]
      /\ saved'[j] = [files |-> files, terminal |-> FALSE]
      /\ \A k \in Task : k # j => saved'[k] = saved[k]
  BY <1>1 DEF BridgeInv, BridgeTypes
<1>4. queue # <<>> /\ Head(queue) = j /\ j \in seen /\ ~saved[j].terminal /\ ~told[j].terminal
  BY CurrentJob
<1>5. BridgeTypes'
  <2>1. [files |-> files, terminal |-> FALSE] \in bridge!Result
    BY <1>2 DEF bridge!Result
  <2> QED
    BY <1>1, <1>2, <2>1 DEF BridgeInv, BridgeTypes
<1>6. Queued'
  <2>1. ASSUME NEW i \in 1..Len(queue) PROVE ~saved'[queue[i]].terminal
    <3>1. queue[i] \in Task
      BY DEF BridgeInv, BridgeTypes
    <3> QED
      BY <1>3, <3>1 DEF BridgeInv, Queued
  <2> QED
    BY <1>3, <1>4, <2>1 DEF BridgeInv, Queued
<1>7. Accounted'
  <2>1. ASSUME NEW k \in Task, NEW g \in transferred[k]
        PROVE  items'[k][g] = "uploaded" \/ (Head(queue) = k /\ running' = {g})
    <3>1. g \in File
      BY DEF BridgeInv, BridgeTypes
    <3>2. items[k][g] = "uploaded" \/ (k = j /\ running = {g})
      BY <1>4 DEF BridgeInv, Accounted
    <3> QED
      BY <1>2, <1>3, <1>4, <3>1, <3>2
  <2> QED
    BY <1>4, <2>1 DEF Accounted
<1>8. ResultsTrue'
  <2>1. \A g \in File : files[g] = "uploaded" => g \in transferred[j]
    BY <1>2 DEF BridgeInv, ResultsTrue
  <2> QED
    BY <1>3, <1>4, <2>1 DEF BridgeInv, ResultsTrue, True
<1> QED
  BY <1>5, <1>6, <1>7, <1>8 DEF BridgeInv

\* Every step of the loop on one file.
LEMMA HandleStep ==
  ASSUME BridgeInv, NEW j \in Task, NEW f \in File, bridge!Handle(j, f)
  PROVE  BridgeInv'
<1> USE DEF bridge!Status, bridge!Final
<1>1. running = {} => \A g \in transferred[j] : items[j][g] = "uploaded"
  BY DEF BridgeInv, Accounted
<1>2. CASE bridge!Begin(j, f)
  <2>1. /\ bridge!Current(j) /\ running = {} /\ items[j][f] = "pending"
        /\ bridge!Mark(j, f, "uploading") /\ running' = {f}
        /\ UNCHANGED <<request, seen, queue, transferred, told>>
    BY <1>2 DEF bridge!Begin, bridge!Idle
  <2> QED
    BY <1>1, <2>1, MarkStep
<1>3. CASE bridge!Refuse(j, f)
  <2>1. PICK status \in {"failed", "skipped"} : bridge!Mark(j, f, status)
    BY <1>3 DEF bridge!Refuse
  <2>2. /\ bridge!Current(j) /\ running = {} /\ items[j][f] = "pending" /\ running' = {}
        /\ UNCHANGED <<request, seen, queue, transferred, told>>
    BY <1>3 DEF bridge!Refuse, bridge!Idle
  <2> QED
    BY <1>1, <2>1, <2>2, MarkStep
<1>4. CASE bridge!MeetConflict(j, f)
  <2>1. /\ bridge!Current(j) /\ running = {f} /\ bridge!Mark(j, f, "conflict")
        /\ running' = running
        /\ UNCHANGED <<request, seen, queue, transferred, told>>
    BY <1>4 DEF bridge!MeetConflict, BridgeInv, BridgeTypes
  <2> QED
    BY <2>1, MarkStep
<1>5. CASE bridge!Finish(j, f)
  <2>1. PICK status \in bridge!Outcome(j, f) : bridge!Mark(j, f, status)
    BY <1>5 DEF bridge!Finish
  <2>2. /\ bridge!Current(j) /\ running = {f} /\ running' = {}
        /\ UNCHANGED <<request, seen, queue, transferred, told>>
    BY <1>5 DEF bridge!Finish, BridgeInv, BridgeTypes
  <2>3. IF f \in transferred[j] THEN status = "uploaded" ELSE status \in {"failed", "cancelled"}
    BY <2>1 DEF bridge!Outcome
  <2> QED
    BY <2>1, <2>2, <2>3, MarkStep
<1>6. CASE bridge!CancelRest(j, f)
  <2>1. /\ bridge!Current(j) /\ running = {} /\ items[j][f] = "pending"
        /\ items' = [items EXCEPT ![j][f] = "cancelled"]
        /\ UNCHANGED <<request, seen, saved, queue, running, transferred, told>>
    BY <1>6 DEF bridge!CancelRest, bridge!Idle
  <2>2. \A k \in Task : \A g \in File :
          items'[k][g] = IF k = j /\ g = f THEN "cancelled" ELSE items[k][g]
    BY <2>1 DEF BridgeInv, BridgeTypes
  <2>3. BridgeTypes'
    BY <2>1 DEF BridgeInv, BridgeTypes
  <2>4. Queued'
    BY <2>1 DEF BridgeInv, Queued
  <2>5. Accounted'
    <3>1. ASSUME NEW k \in Task, NEW g \in transferred[k] PROVE items'[k][g] = "uploaded"
      <4>1. g \in File /\ items[k][g] = "uploaded"
        BY <2>1 DEF BridgeInv, BridgeTypes, Accounted
      <4> QED
        BY <2>1, <2>2, <4>1
    <3> QED
      BY <2>1, <3>1 DEF Accounted
  <2>6. ResultsTrue'
    BY <2>1, <2>2 DEF BridgeInv, ResultsTrue, True
  <2> QED
    BY <2>3, <2>4, <2>5, <2>6 DEF BridgeInv
<1>7. CASE bridge!Transfer(j, f)
  <2>1. /\ bridge!Current(j) /\ running = {f}
        /\ transferred' = [transferred EXCEPT ![j] = @ \union {f}]
        /\ UNCHANGED <<request, seen, items, saved, queue, running, told>>
    BY <1>7 DEF bridge!Transfer, BridgeInv, BridgeTypes
  <2>2. queue # <<>> /\ Head(queue) = j /\ j \in seen /\ ~saved[j].terminal /\ ~told[j].terminal
    BY <2>1, CurrentJob
  <2>3. \A k \in Task : transferred'[k] = IF k = j THEN transferred[k] \union {f} ELSE transferred[k]
    BY <2>1 DEF BridgeInv, BridgeTypes
  <2>4. BridgeTypes'
    BY <2>1, <2>3 DEF BridgeInv, BridgeTypes
  <2>5. Queued'
    BY <2>1, <2>2, <2>3 DEF BridgeInv, Queued
  <2>6. Accounted'
    <3>1. ASSUME NEW k \in Task, NEW g \in transferred'[k]
          PROVE  items[k][g] = "uploaded" \/ (Head(queue) = k /\ running = {g})
      <4>1. g \in transferred[k] \/ (k = j /\ g = f)
        BY <2>3
      <4> QED
        BY <2>1, <2>2, <4>1 DEF BridgeInv, Accounted
    <3> QED
      BY <2>1, <2>2, <3>1 DEF Accounted
  <2>7. ResultsTrue'
    BY <2>1, <2>2, <2>3 DEF BridgeInv, ResultsTrue, True
  <2> QED
    BY <2>4, <2>5, <2>6, <2>7 DEF BridgeInv
<1> QED
  BY <1>2, <1>3, <1>4, <1>5, <1>6, <1>7 DEF bridge!Handle

\* A job leaves the queue, with or without its terminal result.
LEMMA DequeueStep ==
  ASSUME BridgeInv, NEW j \in Task, bridge!Terminate(j) \/ bridge!GiveUp(j)
  PROVE  BridgeInv'
<1>1. /\ bridge!Current(j) /\ running = {} /\ queue' = Tail(queue)
      /\ UNCHANGED <<request, seen, items, running, transferred, told>>
  BY DEF bridge!Terminate, bridge!GiveUp, bridge!Idle
<1>2. queue # <<>> /\ queue[1] = j /\ j \in seen /\ queue \in Seq(Task)
  BY <1>1, CurrentJob DEF BridgeInv, BridgeTypes
<1>3. /\ queue' \in Seq(Task) /\ Len(queue') = Len(queue) - 1
      /\ \A i \in 1..Len(queue') : queue'[i] = queue[i + 1] /\ i + 1 \in 1..Len(queue)
  BY <1>1, <1>2
<1>4. \A g \in transferred[j] : items[j][g] = "uploaded"
  BY <1>1 DEF BridgeInv, Accounted
<1>5. \/ saved' = saved
      \/ /\ saved' = [saved EXCEPT ![j] = [files |-> items[j], terminal |-> TRUE]]
         /\ \A f \in File : items[j][f] \in bridge!Final
  BY DEF bridge!Terminate, bridge!GiveUp, bridge!Save
<1>6. \A k \in Task : k # j => saved'[k] = saved[k]
  BY <1>5 DEF BridgeInv, BridgeTypes
<1>7. BridgeTypes'
  <2>1. [files |-> items[j], terminal |-> TRUE] \in bridge!Result
    BY DEF bridge!Result, BridgeInv, BridgeTypes
  <2> QED
    BY <1>1, <1>3, <1>5, <2>1 DEF BridgeInv, BridgeTypes
<1>8. Queued'
  <2>1. ASSUME NEW i \in 1..Len(queue'), NEW k \in 1..Len(queue'), queue'[i] = queue'[k]
        PROVE  i = k
    <3>1. i + 1 = k + 1
      BY <1>3, <2>1 DEF BridgeInv, Queued
    <3> QED
      BY <3>1
  <2>2. ASSUME NEW i \in 1..Len(queue') PROVE queue'[i] \in seen /\ ~saved'[queue'[i]].terminal
    <3>1. i + 1 \in 1..Len(queue) /\ queue'[i] = queue[i + 1] /\ i + 1 # 1
      BY <1>3
    <3>2. queue[i + 1] \in seen /\ ~saved[queue[i + 1]].terminal /\ queue[i + 1] # j
      BY <1>2, <3>1 DEF BridgeInv, Queued
    <3>3. queue[i + 1] \in Task
      BY <1>2, <3>1
    <3> QED
      BY <1>6, <3>1, <3>2, <3>3
  <2>3. \A k \in Task \ seen : k # j
    BY <1>2
  <2> QED
    BY <1>1, <1>6, <2>1, <2>2, <2>3 DEF BridgeInv, Queued
<1>9. Accounted'
  BY <1>1 DEF BridgeInv, Accounted
<1>10. ResultsTrue'
  <2>1. saved'[j] = saved[j] \/ (/\ saved'[j] = [files |-> items[j], terminal |-> TRUE]
                                 /\ \A f \in File : items[j][f] \in bridge!Final)
    BY <1>5 DEF BridgeInv, BridgeTypes
  <2>2. True(saved'[j], j)
    BY <1>4, <2>1 DEF BridgeInv, ResultsTrue, True
  <2>3. told[j].terminal => saved'[j].terminal
    BY <2>1 DEF BridgeInv, ResultsTrue
  <2>4. \A r : \A k \in Task : True(r, k)' <=> True(r', k)
    BY <1>1 DEF True
  <2> QED
    BY <1>1, <1>6, <2>2, <2>3 DEF BridgeInv, ResultsTrue, True
<1> QED
  BY <1>7, <1>8, <1>9, <1>10 DEF BridgeInv

\* A request is taken up: the job is queued, or not.
LEMMA FoundStep ==
  ASSUME BridgeInv, NEW j \in Task, bridge!Accept(j) \/ bridge!Ignore(j) \/ bridge!SaveThenFail(j)
  PROVE  BridgeInv'
<1>1. /\ j \notin seen /\ seen' = seen \union {j} /\ request' \subseteq request
      /\ UNCHANGED <<running, transferred, told>>
  BY DEF bridge!Accept, bridge!Ignore, bridge!SaveThenFail, bridge!Found
<1>2. saved[j] = bridge!Nothing /\ transferred[j] = {} /\ ~saved[j].terminal
  <2>1. saved[j] = bridge!Nothing /\ transferred[j] = {}
    BY <1>1 DEF BridgeInv, Queued
  <2> QED
    BY <2>1 DEF bridge!Nothing
<1>3. items' = items \/ items' = [items EXCEPT ![j] = bridge!Pending]
  BY DEF bridge!Accept, bridge!Ignore, bridge!SaveThenFail
<1>4. saved' = saved \/ saved' = [saved EXCEPT ![j] = [files |-> bridge!Pending, terminal |-> FALSE]]
  BY DEF bridge!Accept, bridge!Ignore, bridge!SaveThenFail, bridge!Save
<1>5. queue' = queue \/ queue' = Append(queue, j)
  BY DEF bridge!Accept, bridge!Ignore, bridge!SaveThenFail
<1>6. bridge!Pending \in [File -> {"pending"}]
  BY DEF bridge!Pending
<1>7. /\ \A k \in Task : k # j => items'[k] = items[k] /\ saved'[k] = saved[k]
      /\ ~saved'[j].terminal
      /\ \A f \in File : items'[j][f] = items[j][f] \/ items'[j][f] = "pending"
      /\ \A f \in File : saved'[j].files[f] = saved[j].files[f] \/ saved'[j].files[f] = "pending"
  BY <1>2, <1>3, <1>4, <1>6 DEF BridgeInv, BridgeTypes
<1>8. BridgeTypes'
  <2>1. bridge!Pending \in [File -> bridge!Status]
    BY <1>6 DEF bridge!Status
  <2>2. [files |-> bridge!Pending, terminal |-> FALSE] \in bridge!Result
    BY <2>1 DEF bridge!Result
  <2>3. items' \in [Task -> [File -> bridge!Status]]
    BY <1>3, <2>1 DEF BridgeInv, BridgeTypes
  <2>4. saved' \in [Task -> bridge!Result]
    BY <1>4, <2>2 DEF BridgeInv, BridgeTypes
  <2>5. queue' \in Seq(Task)
    BY <1>5 DEF BridgeInv, BridgeTypes
  <2> QED
    BY <1>1, <2>3, <2>4, <2>5 DEF BridgeInv, BridgeTypes
<1>9. queue \in Seq(Task) /\ \A i \in 1..Len(queue) : queue[i] \in Task /\ queue[i] # j
  <2>1. queue \in Seq(Task)
    BY DEF BridgeInv, BridgeTypes
  <2>2. \A i \in 1..Len(queue) : queue[i] \in seen
    BY DEF BridgeInv, Queued
  <2> QED
    BY <1>1, <2>1, <2>2
<1>10. /\ \A i \in 1..Len(queue') :
            \/ queue'[i] = j /\ i = Len(queue) + 1
            \/ i \in 1..Len(queue) /\ queue'[i] = queue[i]
       /\ queue # <<>> => queue' # <<>> /\ Head(queue') = Head(queue)
  BY <1>5, <1>9
<1>11. Queued'
  <2>1. \A i, k \in 1..Len(queue') : queue'[i] = queue'[k] => i = k
    BY <1>9, <1>10 DEF BridgeInv, Queued
  <2>2. \A i \in 1..Len(queue') : queue'[i] \in seen' /\ ~saved'[queue'[i]].terminal
    BY <1>1, <1>7, <1>9, <1>10 DEF BridgeInv, Queued
  <2>3. \A k \in Task \ seen' : saved'[k] = bridge!Nothing /\ transferred'[k] = {}
    BY <1>1, <1>7 DEF BridgeInv, Queued
  <2> QED
    BY <2>1, <2>2, <2>3 DEF Queued, bridge!Nothing
<1>12. Accounted'
  BY <1>1, <1>2, <1>7, <1>10 DEF BridgeInv, Accounted
<1>13. ResultsTrue'
  BY <1>1, <1>2, <1>7 DEF BridgeInv, ResultsTrue, True
<1> QED
  BY <1>8, <1>11, <1>12, <1>13 DEF BridgeInv

\* A tool answers with the result as it is.
LEMMA AnswerStep == ASSUME BridgeInv, NEW j \in Task, bridge!Answer(j) PROVE BridgeInv'
<1>1. /\ told' = [told EXCEPT ![j] = saved[j]]
      /\ UNCHANGED <<request, seen, items, saved, queue, running, transferred>>
  BY DEF bridge!Answer
<1>2. \A k \in Task : told'[k] = IF k = j THEN saved[k] ELSE told[k]
  BY <1>1 DEF BridgeInv, BridgeTypes
<1>3. BridgeTypes' /\ Queued' /\ Accounted'
  BY <1>1 DEF BridgeInv, BridgeTypes, Queued, Accounted
<1>4. ResultsTrue'
  BY <1>1, <1>2 DEF BridgeInv, ResultsTrue, True
<1> QED
  BY <1>3, <1>4 DEF BridgeInv

LEMMA BridgeStep == ASSUME BridgeInv, [bridge!Next]_bridgeVars PROVE BridgeInv'
<1>1. CASE bridge!Dispose \/ bridge!EndProcess \/ UNCHANGED bridgeVars
  <2>1. UNCHANGED <<request, seen, items, saved, queue, running, transferred, told>>
    BY <1>1 DEF bridge!Dispose, bridge!EndProcess, bridgeVars
  <2> QED
    BY <2>1, BridgeSame DEF BridgeInv, BridgeTypes
<1>2. ASSUME NEW j \in Task, bridge!Submit(j) PROVE BridgeInv'
  <2>1. /\ request' = request \union {j}
        /\ UNCHANGED <<seen, items, saved, queue, running, transferred, told>>
    BY <1>2 DEF bridge!Submit
  <2> QED
    BY <2>1, BridgeSame DEF BridgeInv, BridgeTypes
<1> QED
  BY <1>1, <1>2, AnswerStep, FoundStep, DequeueStep, HandleStep DEF bridge!Next

-------------------------------------------------------------------------------
(* The behaviours of watcher and bridge                                     *)

LEMMA Parts ==
  /\ MCInit => watcher!Init /\ bridge!Init
  /\ [MCNext]_<<part, vars, watcherVars, bridgeVars, registryVars>> =>
       [watcher!Next]_watcherVars /\ [bridge!Next]_bridgeVars
<1>1. MCInit => watcher!Init /\ bridge!Init
  BY DEF MCInit
<1>2. ASSUME MCNext PROVE [watcher!Next]_watcherVars /\ [bridge!Next]_bridgeVars
  BY <1>2 DEF MCNext
<1> QED
  BY <1>1, <1>2

\* What a download wrote is never uploaded again, whatever the order of downloads, edits,
\* reports and decisions, unless its claim went with the watcher (watcherSuppression.ts).
THEOREM EchoesSuppressed == MCSpec => []NoEcho
<1>1. MCInit => ClaimInv
  BY Parts, ClaimInit
<1>2. ClaimInv /\ [MCNext]_<<part, vars, watcherVars, bridgeVars, registryVars>> => ClaimInv'
  BY Parts, WatcherStep
<1>3. ClaimInv => NoEcho
  BY DEF ClaimInv
<1> QED
  BY <1>1, <1>2, <1>3, PTL DEF MCSpec

\* An answer about an upload never says more than was uploaded, and a last one no less,
\* also when cancelling races the upload (uploadBridge.ts).
THEOREM AnswersTrue == MCSpec => []ReportsTruth
<1>1. MCInit => BridgeInv
  BY Parts, BridgeInit
<1>2. BridgeInv /\ [MCNext]_<<part, vars, watcherVars, bridgeVars, registryVars>> => BridgeInv'
  BY Parts, BridgeStep
<1>3. BridgeInv => ReportsTruth
  BY DEF BridgeInv, ResultsTrue, True, ReportsTruth, bridge!ReportsTruth
<1> QED
  BY <1>1, <1>2, <1>3, PTL DEF MCSpec

-------------------------------------------------------------------------------
(* The services                                                              *)

Cfg == [base : Path, profiles : SUBSET Profile, default : Profile \union {None}]
ConfigsOf(w) == UNION {registry!Range(d) : d \in Document[w]}
Services == {s \in [workspace : Workspace, config : Cfg] : s.config \in ConfigsOf(s.workspace)}
Watchers == [service : Services, profile : Profile \union {None}]

\* What a configuration names is looked up, and by nobody else; what is a service or a
\* watcher is not missing.
LEMMA ConfigFacts ==
  /\ \A w \in Workspace : ConfigsOf(w) \subseteq Cfg /\ ConfigsOf(w) \subseteq registry!Configs
  /\ \A w, v \in Workspace : \A c \in ConfigsOf(w), e \in ConfigsOf(v) :
       w # v => c.base # e.base
  /\ \A w \in Workspace : \A d \in Document[w] :
       d \in Seq(Cfg) /\ (\A i \in DOMAIN d : d[i] \in ConfigsOf(w))
       /\ registry!Range(d) \subseteq ConfigsOf(w)
<1>1. \A w \in Workspace : \A d \in Document[w] :
        d \in Seq(Cfg) /\ registry!Range(d) \subseteq ConfigsOf(w)
  BY RegistryAssumption DEF Cfg, ConfigsOf
<1>2. \A w \in Workspace : \A d \in Document[w] : \A i \in DOMAIN d :
        d[i] \in ConfigsOf(w) /\ d[i] \in Cfg
  <2> SUFFICES ASSUME NEW w \in Workspace, NEW d \in Document[w], NEW i \in DOMAIN d
               PROVE  d[i] \in ConfigsOf(w) /\ d[i] \in Cfg
    OBVIOUS
  <2>1. d[i] \in registry!Range(d)
    BY DEF registry!Range
  <2>2. d \in Seq(Cfg) /\ i \in 1..Len(d)
    BY <1>1
  <2> QED
    BY <1>1, <2>1, <2>2
<1>3. \A w \in Workspace : \A c \in ConfigsOf(w) : \E d \in Document[w] : \E i \in DOMAIN d : c = d[i]
  BY DEF ConfigsOf, registry!Range
<1>4. \A w \in Workspace : ConfigsOf(w) \subseteq Cfg
  BY <1>2, <1>3
<1>5. \A w \in Workspace : ConfigsOf(w) \subseteq registry!Configs
  BY DEF ConfigsOf, registry!Configs
<1>6. ASSUME NEW w \in Workspace, NEW v \in Workspace, NEW c \in ConfigsOf(w),
             NEW e \in ConfigsOf(v), w # v
      PROVE  c.base # e.base
  <2>1. PICK d \in Document[w] : \E i \in DOMAIN d : c = d[i]
    BY <1>3
  <2>2. PICK f \in Document[v] : \E i \in DOMAIN f : e = f[i]
    BY <1>3
  <2> QED
    BY <1>6, <2>1, <2>2, RegistryAssumption
<1> QED
  BY <1>1, <1>2, <1>4, <1>5, <1>6

LEMMA ServiceFacts ==
  /\ \A s \in Services : /\ s # None /\ s.workspace \in Workspace /\ s.config \in Cfg
                         /\ s.config \in ConfigsOf(s.workspace) /\ registry!Base(s) \in Path
                         /\ s.config.base = registry!Base(s) /\ s.config.default \in Profile \union {None}
                         /\ s = [workspace |-> s.workspace, config |-> s.config]
  /\ \A w \in Workspace : \A c \in ConfigsOf(w) : [workspace |-> w, config |-> c] \in Services
  /\ \A x \in Watchers : x # None /\ x.service \in Services
  /\ Services \subseteq registry!Service /\ Watchers \subseteq registry!Watcher
<1>1. Services \subseteq registry!Service
  BY ConfigFacts DEF Services, registry!Service
<1>2. Watchers \subseteq registry!Watcher
  BY <1>1 DEF Watchers, registry!Watcher
<1>3. None \notin Services /\ None \notin Watchers
  BY <1>1, <1>2, RegistryAssumption
<1>4. \A s \in Services : /\ s.workspace \in Workspace /\ s.config \in Cfg
                          /\ s.config \in ConfigsOf(s.workspace) /\ registry!Base(s) \in Path
                          /\ s.config.base = registry!Base(s)
                          /\ s.config.default \in Profile \union {None}
                          /\ s = [workspace |-> s.workspace, config |-> s.config]
  BY DEF Services, Cfg, registry!Base
<1>5. \A w \in Workspace : \A c \in ConfigsOf(w) : [workspace |-> w, config |-> c] \in Services
  BY ConfigFacts DEF Services
<1>6. \A x \in Watchers : x.service \in Services
  BY DEF Watchers
<1> QED
  BY <1>1, <1>2, <1>3, <1>4, <1>5, <1>6

\* The way to a path is the prefixes of it, save the root.
LEMMA WayFacts ==
  /\ \A p \in Path : p \in registry!Way(p)
  /\ \A p \in Path : \A n \in registry!Way(p) : registry!IsPrefix(n, p)
  /\ \A n, p \in Path : registry!IsPrefix(n, p) => n \in registry!Way(p)
  /\ \A p \in Path : Len(p) \in Nat
<1>1. \A p \in Path : p \in Seq(Name) /\ p # <<>> /\ Len(p) \in Nat
  BY RegistryAssumption
<1>2. \A p \in Path : SubSeq(p, 1, Len(p)) = p
  BY <1>1
<1>3. \A p \in Path : p \in registry!Way(p)
  BY <1>1, <1>2 DEF registry!Way, registry!Prefixes
<1>4. ASSUME NEW p \in Path, NEW n \in registry!Way(p) PROVE registry!IsPrefix(n, p)
  <2>1. PICK l \in 0..Len(p) : n = SubSeq(p, 1, l)
    BY DEF registry!Way, registry!Prefixes
  <2>2. n \in Seq(Name) /\ Len(n) = l /\ \A i \in 1..l : n[i] = p[i]
    BY <1>1, <2>1
  <2>3. SubSeq(n, 1, Len(n)) = n
    BY <2>2
  <2> QED
    BY <1>1, <2>1, <2>2, <2>3 DEF registry!IsPrefix
<1>5. ASSUME NEW n \in Path, NEW p \in Path, registry!IsPrefix(n, p) PROVE n \in registry!Way(p)
  <2>1. n = SubSeq(p, 1, Len(n)) /\ Len(n) \in 0..Len(p) /\ n # <<>>
    BY <1>1, <1>2, <1>5 DEF registry!IsPrefix
  <2> QED
    BY <2>1 DEF registry!Way, registry!Prefixes
<1> QED
  BY <1>1, <1>3, <1>4, <1>5

\* A state of the registry: a service is at the folder its configuration names, and the
\* nodes on the way to it are there.
Steps == UNION {registry!Way(p) : p \in Path}
RegState == [nodes : SUBSET Steps, held : [Path -> Services \union {None}],
             watch : [Path -> Watchers \union {None}], active : Profile \union {None}, ok : BOOLEAN]
Rooted(st) == \A p \in Path : st.held[p] # None =>
                registry!Base(st.held[p]) = p /\ registry!Way(p) \subseteq st.nodes
Fitting(st) == st \in RegState /\ Rooted(st)

\* A folder is watched as its service and the profile in force want it; or it belongs to one
\* of the workspaces B and has the watcher of a service it replaced.
Wanted(st, p) == IF st.held[p] # None /\ registry!Resolves(st.held[p], st.active)
                   THEN [service |-> st.held[p], profile |-> st.active] ELSE None
InOrder(st, p) == st.watch[p] = Wanted(st, p)
Odd(st, p, B) == /\ st.held[p] # None /\ st.held[p].workspace \in B
                 /\ st.watch[p] # None /\ st.watch[p].service # st.held[p]

LEMMA FittingFields ==
  ASSUME NEW st, Fitting(st)
  PROVE  /\ st.nodes \subseteq Steps /\ st.held \in [Path -> Services \union {None}]
         /\ st.watch \in [Path -> Watchers \union {None}] /\ st.active \in Profile \union {None}
         /\ st.ok \in BOOLEAN /\ st \in RegState
         /\ \A p \in Path : st.held[p] # None =>
              registry!Base(st.held[p]) = p /\ registry!Way(p) \subseteq st.nodes
BY DEF Fitting, RegState, Rooted

LEMMA AddFits ==
  ASSUME NEW st, Fitting(st), NEW s \in Services
  PROVE  /\ Fitting(registry!Add(st, s))
         /\ registry!Add(st, s).held = [st.held EXCEPT ![registry!Base(s)] = s]
         /\ registry!Add(st, s).watch = st.watch /\ registry!Add(st, s).active = st.active
         /\ registry!Add(st, s).ok = st.ok
<1> DEFINE b == registry!Base(s)
           new == registry!Add(st, s)
<1>0. b \in Path /\ s # None
  BY ServiceFacts
<1>1. /\ st.nodes \subseteq Steps /\ st.held \in [Path -> Services \union {None}]
      /\ st.watch \in [Path -> Watchers \union {None}] /\ st.active \in Profile \union {None}
      /\ st.ok \in BOOLEAN /\ st \in RegState
      /\ \A p \in Path : st.held[p] # None =>
           registry!Base(st.held[p]) = p /\ registry!Way(p) \subseteq st.nodes
  BY FittingFields
<1>2. new = [st EXCEPT !.nodes = @ \union registry!Way(b), !.held[b] = s]
  BY DEF registry!Add
<1>3. registry!Way(b) \subseteq Steps
  BY <1>0 DEF Steps
<1>bb. registry!Base(s) = b
  OBVIOUS
<1> HIDE DEF new, b
<1>4. /\ new.nodes = st.nodes \union registry!Way(b) /\ new.held = [st.held EXCEPT ![b] = s]
      /\ new.watch = st.watch /\ new.active = st.active /\ new.ok = st.ok
  BY <1>1, <1>2 DEF RegState
<1>5. new = [nodes |-> st.nodes \union registry!Way(b), held |-> [st.held EXCEPT ![b] = s],
             watch |-> st.watch, active |-> st.active, ok |-> st.ok]
  BY <1>1, <1>2 DEF RegState
<1>6. [st.held EXCEPT ![b] = s] \in [Path -> Services \union {None}]
  BY <1>1
<1>7. new \in RegState
  BY <1>1, <1>3, <1>5, <1>6 DEF RegState
<1>8. Rooted(new)
  BY <1>0, <1>1, <1>4, <1>bb DEF Rooted
<1> QED
  BY <1>4, <1>7, <1>8, <1>bb DEF Fitting, new

\* Another profile makes every watcher anew.
LEMMA SwitchFits ==
  ASSUME NEW st, Fitting(st), NEW a \in Profile \union {None}
  PROVE  LET new == registry!Switched(st, a) IN
         /\ Fitting(new) /\ new.nodes = st.nodes /\ new.held = st.held /\ new.ok = st.ok
         /\ new.active = a
         /\ \A p \in Path : InOrder(st, p) => InOrder(new, p)
         /\ \A B : \A p \in Path : Odd(st, p, B) => InOrder(new, p) \/ Odd(new, p, B)
<1> DEFINE new == registry!Switched(st, a)
           w == [p \in Path |-> IF st.held[p] = None THEN st.watch[p]
                                ELSE IF registry!Resolves(st.held[p], a)
                                  THEN [service |-> st.held[p], profile |-> a] ELSE None]
<1>1. /\ st.nodes \subseteq Steps /\ st.held \in [Path -> Services \union {None}]
      /\ st.watch \in [Path -> Watchers \union {None}] /\ st.active \in Profile \union {None}
      /\ st.ok \in BOOLEAN /\ st \in RegState
  BY FittingFields
<1>2. CASE a = st.active
  <2>1. new = st
    BY <1>2 DEF registry!Switched
  <2> QED
    BY <1>2, <2>1
<1>3. CASE a # st.active
  <2>1. new = [st EXCEPT !.active = a, !.watch = w]
    BY <1>3 DEF registry!Switched
  <2>2. w \in [Path -> Watchers \union {None}]
    <3>1. \A p \in Path : st.held[p] # None => [service |-> st.held[p], profile |-> a] \in Watchers
      BY <1>1 DEF Watchers
    <3> QED
      BY <1>1, <3>1
  <2>w. \A p \in Path : w[p] = IF st.held[p] = None THEN st.watch[p]
                               ELSE IF registry!Resolves(st.held[p], a)
                                  THEN [service |-> st.held[p], profile |-> a] ELSE None
    OBVIOUS
  <2>n. new = registry!Switched(st, a)
    OBVIOUS
  <2> HIDE DEF new, w
  <2>3. /\ new.nodes = st.nodes /\ new.held = st.held /\ new.watch = w /\ new.active = a
        /\ new.ok = st.ok /\ new \in RegState
    BY <1>1, <2>1, <2>2 DEF RegState
  <2>4. Fitting(new)
    BY <2>3 DEF Fitting, Rooted
  <2>5. \A p \in Path : st.held[p] # None => InOrder(new, p)
    BY <2>3, <2>w DEF InOrder, Wanted
  <2>6. \A p \in Path : st.held[p] = None => (InOrder(st, p) => InOrder(new, p))
    BY <2>3, <2>w DEF InOrder, Wanted
  <2>7. \A p \in Path : InOrder(st, p) => InOrder(new, p)
    BY <2>5, <2>6
  <2>8. \A B : \A p \in Path : Odd(st, p, B) => InOrder(new, p)
    BY <2>5 DEF Odd
  <2> QED
    BY <2>3, <2>4, <2>7, <2>8, <2>n
<1> QED
  BY <1>2, <1>3

\* A service is created: it is at its folder, which is watched unless the configuration does
\* not fit the profile.
LEMMA CreateFits ==
  ASSUME NEW st, Fitting(st), st.ok, NEW s \in Services
  PROVE  LET new == registry!Created(st, s)
             b == registry!Base(s) IN
         /\ Fitting(new) /\ new.held = [st.held EXCEPT ![b] = s]
         /\ \A p \in Path : p # b /\ InOrder(st, p) => InOrder(new, p)
         /\ \A B : \A p \in Path : p # b /\ Odd(st, p, B) => InOrder(new, p) \/ Odd(new, p, B)
         /\ new.ok => InOrder(new, b)
         /\ InOrder(st, b) => InOrder(new, b) \/ (st.held[b] # None /\ Odd(new, b, {s.workspace}))
<1> DEFINE b == registry!Base(s)
           new == registry!Created(st, s)
           prof == IF s.config.default = None THEN st ELSE registry!Switched(st, s.config.default)
           added == registry!Add(prof, s)
<1>0. /\ b \in Path /\ s # None /\ s.workspace \in Workspace
      /\ s.config.default \in Profile \union {None}
  BY ServiceFacts
<1>1. /\ Fitting(prof) /\ prof.held = st.held /\ prof.ok = st.ok
      /\ \A p \in Path : InOrder(st, p) => InOrder(prof, p)
      /\ \A B : \A p \in Path : Odd(st, p, B) => InOrder(prof, p) \/ Odd(prof, p, B)
  <2>1. CASE s.config.default = None
    BY <2>1
  <2>2. CASE s.config.default # None
    <3>1. prof = registry!Switched(st, s.config.default)
      BY <2>2
    <3> HIDE DEF prof
    <3> QED
      BY <1>0, <3>1, SwitchFits
  <2> QED
    BY <2>1, <2>2
<1>2. new = IF registry!Resolves(s, added.active) THEN registry!Watched(added, s)
            ELSE [added EXCEPT !.ok = FALSE]
  BY DEF registry!Created
<1>n. new = registry!Created(st, s) /\ b = registry!Base(s) /\ added = registry!Add(prof, s)
  OBVIOUS
<1> HIDE DEF prof, added, new, b
<1>3. /\ Fitting(added) /\ added.held = [prof.held EXCEPT ![b] = s] /\ added.watch = prof.watch
      /\ added.active = prof.active /\ added.ok = prof.ok
  <2>1. /\ Fitting(registry!Add(prof, s))
        /\ registry!Add(prof, s).held = [prof.held EXCEPT ![registry!Base(s)] = s]
        /\ registry!Add(prof, s).watch = prof.watch /\ registry!Add(prof, s).active = prof.active
        /\ registry!Add(prof, s).ok = prof.ok
    BY <1>1, AddFits
  <2> QED
    BY <1>n, <2>1
<1>4. /\ added.held = [st.held EXCEPT ![b] = s] /\ added.ok
      /\ added.held \in [Path -> Services \union {None}]
      /\ added.watch \in [Path -> Watchers \union {None}]
      /\ added.active \in Profile \union {None} /\ added \in RegState
      /\ st.held \in [Path -> Services \union {None}]
  BY <1>1, <1>3, FittingFields
<1>5. \A p \in Path : p # b =>
        /\ InOrder(prof, p) => InOrder(added, p)
        /\ \A B : Odd(prof, p, B) => Odd(added, p, B)
  BY <1>1, <1>3, <1>4 DEF InOrder, Wanted, Odd
<1>6. added.held[b] = s
  BY <1>0, <1>4
<1>7. CASE registry!Resolves(s, added.active)
  <2> DEFINE x == [service |-> s, profile |-> added.active]
  <2>1. new = [added EXCEPT !.watch[b] = x]
    BY <1>2, <1>7, <1>n DEF registry!Watched
  <2>2. x \in Watchers /\ x.service = s /\ x.profile = added.active
    BY <1>4 DEF Watchers
  <2>x. x = [service |-> s, profile |-> added.active]
    OBVIOUS
  <2> HIDE DEF x
  <2>3. /\ new.nodes = added.nodes /\ new.held = added.held /\ new.active = added.active
        /\ new.watch = [added.watch EXCEPT ![b] = x] /\ new.ok = added.ok
    BY <1>4, <2>1 DEF RegState
  <2>4. new \in RegState
    <3>1. [added.watch EXCEPT ![b] = x] \in [Path -> Watchers \union {None}]
      BY <1>4, <2>2
    <3>2. new = [nodes |-> added.nodes, held |-> added.held, watch |-> [added.watch EXCEPT ![b] = x],
                 active |-> added.active, ok |-> added.ok]
      BY <1>4, <2>1 DEF RegState
    <3> QED
      BY <1>4, <3>1, <3>2 DEF RegState
  <2>5. Fitting(new)
    BY <1>3, <2>3, <2>4 DEF Fitting, Rooted
  <2>6. \A p \in Path : p # b => new.watch[p] = added.watch[p]
    BY <1>4, <2>3
  <2>7. \A p \in Path : p # b =>
          /\ InOrder(added, p) => InOrder(new, p)
          /\ \A B : Odd(added, p, B) => Odd(new, p, B)
    BY <2>3, <2>6 DEF InOrder, Wanted, Odd
  <2>8. new.watch[b] = x
    BY <1>0, <1>4, <2>3
  <2>9. InOrder(new, b)
    BY <1>0, <1>6, <1>7, <2>3, <2>8, <2>x DEF InOrder, Wanted
  <2>10. new.held = [st.held EXCEPT ![b] = s]
    BY <1>4, <2>3
  <2>11. \A p \in Path : p # b /\ InOrder(st, p) => InOrder(new, p)
    BY <1>1, <1>5, <2>7
  <2>12. \A B : \A p \in Path : p # b /\ Odd(st, p, B) => InOrder(new, p) \/ Odd(new, p, B)
    BY <1>1, <1>5, <2>7
  <2> QED
    BY <1>n, <2>5, <2>9, <2>10, <2>11, <2>12
<1>8. CASE ~registry!Resolves(s, added.active)
  <2>1. new = [added EXCEPT !.ok = FALSE]
    BY <1>2, <1>8
  <2>3. /\ new.nodes = added.nodes /\ new.held = added.held /\ new.active = added.active
        /\ new.watch = added.watch /\ new.ok = FALSE
    BY <1>4, <2>1 DEF RegState
  <2>4. new \in RegState
    BY <1>4, <2>1 DEF RegState
  <2>5. Fitting(new)
    BY <1>3, <2>3, <2>4 DEF Fitting, Rooted
  <2>7. \A p \in Path : p # b =>
          /\ InOrder(added, p) => InOrder(new, p)
          /\ \A B : Odd(added, p, B) => Odd(new, p, B)
    BY <2>3 DEF InOrder, Wanted, Odd
  <2>8. ASSUME InOrder(st, b)
        PROVE  InOrder(new, b) \/ (st.held[b] # None /\ Odd(new, b, {s.workspace}))
    <3>1. InOrder(prof, b)
      BY <1>0, <1>1, <2>8
    <3>2. new.watch[b] = Wanted(prof, b)
      BY <1>3, <2>3, <3>1 DEF InOrder
    <3>3. Wanted(new, b) = None
      BY <1>3, <1>6, <1>8, <2>3 DEF Wanted
    <3>4. CASE Wanted(prof, b) = None
      BY <3>2, <3>3, <3>4 DEF InOrder
    <3>5. CASE Wanted(prof, b) # None
      <4>1. /\ st.held[b] # None /\ registry!Resolves(st.held[b], added.active)
            /\ Wanted(prof, b) = [service |-> st.held[b], profile |-> added.active]
        BY <1>1, <1>3, <3>5 DEF Wanted
      <4>2. new.watch[b].service = st.held[b]
        BY <3>2, <4>1
      <4>3. st.held[b] # s
        BY <1>8, <4>1
      <4>4. Odd(new, b, {s.workspace})
        BY <1>0, <1>6, <2>3, <3>2, <3>5, <4>2, <4>3 DEF Odd
      <4> QED
        BY <4>1, <4>4
    <3> QED
      BY <3>4, <3>5
  <2>10. new.held = [st.held EXCEPT ![b] = s]
    BY <1>4, <2>3
  <2>11. \A p \in Path : p # b /\ InOrder(st, p) => InOrder(new, p)
    BY <1>1, <1>5, <2>7
  <2>12. \A B : \A p \in Path : p # b /\ Odd(st, p, B) => InOrder(new, p) \/ Odd(new, p, B)
    BY <1>1, <1>5, <2>7
  <2> QED
    BY <1>n, <2>3, <2>5, <2>8, <2>10, <2>11, <2>12
<1> QED
  BY <1>7, <1>8

\* A service is disposed of: its folder has no service and no watcher, and the nodes on the
\* way to other services stay.
LEMMA DisposeFits ==
  ASSUME NEW st, Fitting(st), st.ok, NEW s \in Services
  PROVE  LET new == registry!Disposed(st, s)
             b == registry!Base(s) IN
         /\ Fitting(new) /\ new.active = st.active
         /\ new.held = [st.held EXCEPT ![b] = None] /\ new.watch = [st.watch EXCEPT ![b] = None]
<1> DEFINE b == registry!Base(s)
           new == registry!Disposed(st, s)
           cleared == [st EXCEPT !.held[b] = None]
           taken == registry!Take(st, b)
<1>0. b \in Path
  BY ServiceFacts
<1>1. /\ st.nodes \subseteq Steps /\ st.held \in [Path -> Services \union {None}]
      /\ st.watch \in [Path -> Watchers \union {None}] /\ st.active \in Profile \union {None}
      /\ st.ok \in BOOLEAN /\ st \in RegState
      /\ \A p \in Path : st.held[p] # None =>
           registry!Base(st.held[p]) = p /\ registry!Way(p) \subseteq st.nodes
  BY FittingFields
<1>3. taken = IF b \in st.nodes
                THEN [cleared EXCEPT !.nodes = @ \ registry!Pruned(cleared, b)] ELSE st
  BY DEF registry!Take
<1>4. new = [registry!Unwatched(taken, s) EXCEPT !.ok = registry!Resolves(s, st.active)]
  BY DEF registry!Disposed
<1>5. registry!Unwatched(taken, s) = [taken EXCEPT !.watch[b] = None]
  BY DEF registry!Unwatched
<1>n. new = registry!Disposed(st, s) /\ b = registry!Base(s)
  OBVIOUS
<1>c. cleared = [st EXCEPT !.held[b] = None]
  OBVIOUS
<1> HIDE DEF b, new, cleared, taken
<1>2. /\ cleared.nodes = st.nodes /\ cleared.held = [st.held EXCEPT ![b] = None]
      /\ cleared.watch = st.watch /\ cleared.active = st.active /\ cleared.ok = st.ok
      /\ cleared \in RegState
  <2>1. [st.held EXCEPT ![b] = None] \in [Path -> Services \union {None}]
    BY <1>1
  <2>2. cleared = [nodes |-> st.nodes, held |-> [st.held EXCEPT ![b] = None], watch |-> st.watch,
                   active |-> st.active, ok |-> st.ok]
    BY <1>1, <1>c DEF RegState
  <2> QED
    BY <1>1, <2>1, <2>2 DEF RegState
<1>6. /\ taken.held = [st.held EXCEPT ![b] = None] /\ taken.watch = st.watch
      /\ taken.active = st.active /\ taken.ok = st.ok /\ taken \in RegState
      /\ taken.nodes \subseteq st.nodes
      /\ b \in st.nodes => taken.nodes = st.nodes \ registry!Pruned(cleared, b)
      /\ b \notin st.nodes => taken.nodes = st.nodes
  <2>1. CASE b \in st.nodes
    BY <1>2, <1>3, <2>1 DEF RegState
  <2>2. CASE b \notin st.nodes
    <3>1. st.held[b] = None
      BY <1>0, <1>1, <2>2, WayFacts
    <3>2. st.held = [st.held EXCEPT ![b] = None]
      BY <1>1, <3>1
    <3> QED
      BY <1>1, <1>3, <2>2, <3>2
  <2> QED
    BY <2>1, <2>2
<1>7. \A q \in Path : taken.held[q] # None =>
        registry!Base(taken.held[q]) = q /\ registry!Way(q) \subseteq taken.nodes
  <2> SUFFICES ASSUME NEW q \in Path, taken.held[q] # None
               PROVE  registry!Base(taken.held[q]) = q /\ registry!Way(q) \subseteq taken.nodes
    OBVIOUS
  <2>1. q # b /\ taken.held[q] = st.held[q] /\ cleared.held[q] = st.held[q]
    BY <1>0, <1>1, <1>2, <1>6
  <2>2. registry!Base(st.held[q]) = q /\ registry!Way(q) \subseteq st.nodes
    BY <1>1, <2>1
  <2>3. q \in st.nodes
    BY <2>2, WayFacts
  <2>4. \A n \in registry!Way(q) : n \notin registry!Pruned(cleared, b)
    <3> SUFFICES ASSUME NEW n \in registry!Way(q), n \in registry!Pruned(cleared, b) PROVE FALSE
      OBVIOUS
    <3>1. registry!IsPrefix(n, q)
      BY WayFacts
    <3>2. \A o \in cleared.nodes : registry!IsPrefix(n, o) => (o \in Path => cleared.held[o] = None)
      BY DEF registry!Pruned
    <3> QED
      BY <1>2, <2>1, <2>3, <3>1, <3>2
  <2> QED
    BY <1>6, <2>1, <2>2, <2>4
<1>8. new = [nodes |-> taken.nodes, held |-> taken.held, watch |-> [taken.watch EXCEPT ![b] = None],
             active |-> taken.active, ok |-> registry!Resolves(s, st.active)]
  BY <1>4, <1>5, <1>6 DEF RegState
<1>9. [taken.watch EXCEPT ![b] = None] \in [Path -> Watchers \union {None}]
  BY <1>1, <1>6
<1>10. registry!Resolves(s, st.active) \in BOOLEAN
  BY DEF registry!Resolves
<1>11. new \in RegState
  BY <1>6, <1>8, <1>9, <1>10 DEF RegState
<1>12. Rooted(new)
  BY <1>7, <1>8 DEF Rooted
<1> QED
  BY <1>6, <1>8, <1>11, <1>12, <1>n DEF Fitting

-------------------------------------------------------------------------------
\* What holds at first and with each number for the next one holds for all.
LEMMA FromStepToStep ==
  ASSUME NEW n \in Nat, NEW Bad \in SUBSET (0..n), 0 \notin Bad,
         \A m \in 1..n : m - 1 \notin Bad => m \notin Bad
  PROVE  Bad = {}
<1> SUFFICES ASSUME Bad # {} PROVE FALSE
  OBVIOUS
<1>1. Bad \subseteq Nat
  OBVIOUS
<1>2. PICK m \in Bad : \A k \in Bad : <<k, m>> \notin OpToRel(<, Nat)
  BY <1>1, WFMin, NatLessThanWellFounded
<1>3. \A k \in Bad : ~(k < m)
  BY <1>1, <1>2 DEF OpToRel
<1>4. m \in 1..n /\ m - 1 \in Nat /\ m - 1 < m
  <2>1. m \in 0..n /\ m # 0
    OBVIOUS
  <2> QED
    BY <2>1
<1> QED
  BY <1>3, <1>4

\* Services are created one after the other.
LEMMA CreatedInTurn ==
  ASSUME NEW st, NEW S, NEW new \in Seq(S)
  PROVE  \E f : /\ f[0] = st /\ \A i \in 1..Len(new) : f[i] = registry!Created(f[i - 1], new[i])
                /\ registry!AllCreated(st, new) = f[Len(new)]
<1> DEFINE n == Len(new)
           Turns(f, m) == f = [i \in 0..m |-> IF i = 0 THEN st ELSE registry!Created(f[i - 1], new[i])]
           Bad == {m \in 0..n : ~\E f : Turns(f, m)}
<1>0. n \in Nat
  OBVIOUS
<1>1. 0 \notin Bad
  <2> DEFINE f == [i \in 0..0 |-> st]
  <2>1. Turns(f, 0)
    OBVIOUS
  <2> QED
    BY <2>1
<1>2. ASSUME NEW m \in 1..n, m - 1 \notin Bad PROVE m \notin Bad
  <2>1. m - 1 \in 0..n /\ m \in Nat /\ m - 1 \in Nat
    BY <1>0
  <2>2. PICK f : Turns(f, m - 1)
    BY <1>2, <2>1
  <2> DEFINE g == [i \in 0..m |-> IF i = m THEN registry!Created(f[m - 1], new[m]) ELSE f[i]]
  <2>3. \A i \in 0..(m - 1) : g[i] = f[i]
    BY <2>1
  <2>4. \A i \in 0..m : g[i] = IF i = 0 THEN st ELSE registry!Created(g[i - 1], new[i])
    <3> SUFFICES ASSUME NEW i \in 0..m
                 PROVE  g[i] = IF i = 0 THEN st ELSE registry!Created(g[i - 1], new[i])
      OBVIOUS
    <3>1. CASE i = m
      <4>1. g[i - 1] = f[m - 1] /\ g[i] = registry!Created(f[m - 1], new[m]) /\ i # 0
        BY <2>1, <2>3, <3>1
      <4> QED
        BY <3>1, <4>1
    <3>2. CASE i # m
      <4>1. i \in 0..(m - 1) /\ (i # 0 => i - 1 \in 0..(m - 1))
        BY <2>1, <3>2
      <4>2. f[i] = IF i = 0 THEN st ELSE registry!Created(f[i - 1], new[i])
        BY <2>2, <4>1
      <4> QED
        BY <2>3, <4>1, <4>2
    <3> QED
      BY <3>1, <3>2
  <2>5. Turns(g, m)
    BY <2>4
  <2> QED
    BY <2>5
<1>3. \E f : Turns(f, n)
  <2> HIDE DEF Turns, n
  <2>1. Bad \in SUBSET (0..n)
    OBVIOUS
  <2>2. 0 \notin Bad /\ \A m \in 1..n : m - 1 \notin Bad => m \notin Bad
    BY <1>1, <1>2
  <2>b. \A m \in 0..n : m \notin Bad => \E f : Turns(f, m)
    OBVIOUS
  <2> HIDE DEF Bad
  <2>3. Bad = {}
    BY <1>0, <2>1, <2>2, FromStepToStep
  <2> QED
    BY <1>0, <2>3, <2>b
<1> DEFINE f == CHOOSE f : Turns(f, n)
<1>4. Turns(f, n)
  BY <1>3
<1>5. registry!AllCreated(st, new) = f[Len(new)]
  BY DEF registry!AllCreated
<1> HIDE DEF f
<1>6. f[0] = st /\ \A i \in 1..Len(new) : f[i] = registry!Created(f[i - 1], new[i])
  BY <1>4
<1> QED
  BY <1>5, <1>6
\* Services are disposed of one after the other.
LEMMA DisposedInTurn ==
  ASSUME NEW st, NEW S, NEW old \in Seq(S)
  PROVE  \E f : /\ f[0] = st /\ \A i \in 1..Len(old) : f[i] = registry!Disposed(f[i - 1], old[i])
                /\ registry!AllDisposed(st, old) = f[Len(old)]
<1> DEFINE n == Len(old)
           Turns(f, m) == f = [i \in 0..m |-> IF i = 0 THEN st ELSE registry!Disposed(f[i - 1], old[i])]
           Bad == {m \in 0..n : ~\E f : Turns(f, m)}
<1>0. n \in Nat
  OBVIOUS
<1>1. 0 \notin Bad
  <2> DEFINE f == [i \in 0..0 |-> st]
  <2>1. Turns(f, 0)
    OBVIOUS
  <2> QED
    BY <2>1
<1>2. ASSUME NEW m \in 1..n, m - 1 \notin Bad PROVE m \notin Bad
  <2>1. m - 1 \in 0..n /\ m \in Nat /\ m - 1 \in Nat
    BY <1>0
  <2>2. PICK f : Turns(f, m - 1)
    BY <1>2, <2>1
  <2> DEFINE g == [i \in 0..m |-> IF i = m THEN registry!Disposed(f[m - 1], old[m]) ELSE f[i]]
  <2>3. \A i \in 0..(m - 1) : g[i] = f[i]
    BY <2>1
  <2>4. \A i \in 0..m : g[i] = IF i = 0 THEN st ELSE registry!Disposed(g[i - 1], old[i])
    <3> SUFFICES ASSUME NEW i \in 0..m
                 PROVE  g[i] = IF i = 0 THEN st ELSE registry!Disposed(g[i - 1], old[i])
      OBVIOUS
    <3>1. CASE i = m
      <4>1. g[i - 1] = f[m - 1] /\ g[i] = registry!Disposed(f[m - 1], old[m]) /\ i # 0
        BY <2>1, <2>3, <3>1
      <4> QED
        BY <3>1, <4>1
    <3>2. CASE i # m
      <4>1. i \in 0..(m - 1) /\ (i # 0 => i - 1 \in 0..(m - 1))
        BY <2>1, <3>2
      <4>2. f[i] = IF i = 0 THEN st ELSE registry!Disposed(f[i - 1], old[i])
        BY <2>2, <4>1
      <4> QED
        BY <2>3, <4>1, <4>2
    <3> QED
      BY <3>1, <3>2
  <2>5. Turns(g, m)
    BY <2>4
  <2> QED
    BY <2>5
<1>3. \E f : Turns(f, n)
  <2> HIDE DEF Turns, n
  <2>1. Bad \in SUBSET (0..n)
    OBVIOUS
  <2>2. 0 \notin Bad /\ \A m \in 1..n : m - 1 \notin Bad => m \notin Bad
    BY <1>1, <1>2
  <2>b. \A m \in 0..n : m \notin Bad => \E f : Turns(f, m)
    OBVIOUS
  <2> HIDE DEF Bad
  <2>3. Bad = {}
    BY <1>0, <2>1, <2>2, FromStepToStep
  <2> QED
    BY <1>0, <2>3, <2>b
<1> DEFINE f == CHOOSE f : Turns(f, n)
<1>4. Turns(f, n)
  BY <1>3
<1>5. registry!AllDisposed(st, old) = f[Len(old)]
  BY DEF registry!AllDisposed
<1> HIDE DEF f
<1>6. f[0] = st /\ \A i \in 1..Len(old) : f[i] = registry!Disposed(f[i - 1], old[i])
  BY <1>4
<1> QED
  BY <1>5, <1>6

\* All services of a document are created, or as many as the profile fits.
Meant(st, w, d, new, B) ==
  /\ Fitting(st) /\ w \in Workspace /\ d \in Document[w]
  /\ new \in Seq(Services) /\ Len(new) = Len(d)
  /\ \A i \in 1..Len(d) : new[i] = [workspace |-> w, config |-> d[i]]
  /\ st.ok => \A p \in Path : InOrder(st, p) \/ (Odd(st, p, B) /\ st.held[p].workspace # w)
Brought(st, fin, w, d, new, B) ==
  /\ Fitting(fin) /\ (~st.ok => fin = st)
  /\ \A p \in Path : (\A i \in 1..Len(d) : d[i].base # p) => fin.held[p] = st.held[p]
  /\ \A i \in 1..Len(d) : /\ fin.held[d[i].base] \in {st.held[d[i].base], new[i]}
                          /\ fin.ok => fin.held[d[i].base] = new[i]
  /\ st.ok => \A p \in Path :
       \/ InOrder(fin, p)
       \/ Odd(fin, p, B) /\ fin.held[p].workspace # w
       \/ ~fin.ok /\ st.held[p] # None /\ st.held[p].workspace = w /\ Odd(fin, p, {w})

LEMMA AllCreatedFit ==
  ASSUME NEW st, NEW w, NEW d, NEW new, NEW B, Meant(st, w, d, new, B)
  PROVE  Brought(st, registry!AllCreated(st, new), w, d, new, B)
<1>m. /\ Fitting(st) /\ w \in Workspace /\ d \in Document[w]
      /\ new \in Seq(Services) /\ Len(new) = Len(d)
      /\ \A i \in 1..Len(d) : new[i] = [workspace |-> w, config |-> d[i]]
      /\ st.ok => \A p \in Path : InOrder(st, p) \/ (Odd(st, p, B) /\ st.held[p].workspace # w)
  BY DEF Meant
<1> USE <1>m
<1> DEFINE n == Len(d)
           Stands(x, p) == \/ InOrder(x, p)
                           \/ Odd(x, p, B) /\ x.held[p].workspace # w
                           \/ ~x.ok /\ st.held[p] # None /\ st.held[p].workspace = w /\ Odd(x, p, {w})
           J(x, m) == /\ Fitting(x) /\ (~st.ok => x = st)
                      /\ \A p \in Path : (\A i \in 1..m : d[i].base # p) => x.held[p] = st.held[p]
                      /\ \A i \in 1..m : /\ x.held[d[i].base] \in {st.held[d[i].base], new[i]}
                                         /\ x.ok => x.held[d[i].base] = new[i]
                      /\ st.ok => \A p \in Path : Stands(x, p)
<1>0. n \in Nat /\ Len(new) = n /\ d \in Seq(Cfg) /\ \A i \in 1..n : d[i] \in ConfigsOf(w)
  BY ConfigFacts
<1>1. PICK f : /\ f[0] = st /\ \A i \in 1..n : f[i] = registry!Created(f[i - 1], new[i])
               /\ registry!AllCreated(st, new) = f[n]
  <2>1. \E f : /\ f[0] = st /\ \A i \in 1..Len(new) : f[i] = registry!Created(f[i - 1], new[i])
               /\ registry!AllCreated(st, new) = f[Len(new)]
    BY CreatedInTurn
  <2> QED
    BY <1>0, <2>1
<1>2. J(f[0], 0)
  <2>1. J(st, 0)
    OBVIOUS
  <2> QED
    BY <1>1, <2>1
<1>3. ASSUME NEW m \in 1..n, J(f[m - 1], m - 1) PROVE J(f[m], m)
  <2> DEFINE x == f[m - 1]
             y == f[m]
             b == d[m].base
  <2>0. m - 1 \in 0..n /\ m \in Nat /\ m - 1 \in Nat /\ \A i \in 1..m : i \in 1..n
    BY <1>0
  <2>1. y = registry!Created(x, new[m]) /\ J(x, m - 1)
    BY <1>1, <1>3
  <2>b. b = d[m].base
    OBVIOUS
  <2> HIDE DEF x, y, b
  <2>2. /\ Fitting(x) /\ (~st.ok => x = st)
        /\ \A p \in Path : (\A i \in 1..(m - 1) : d[i].base # p) => x.held[p] = st.held[p]
        /\ \A i \in 1..(m - 1) : /\ x.held[d[i].base] \in {st.held[d[i].base], new[i]}
                                 /\ x.ok => x.held[d[i].base] = new[i]
        /\ st.ok => \A p \in Path : Stands(x, p)
    BY <2>1
  <2>3. /\ new[m] \in Services /\ registry!Base(new[m]) = b /\ b \in Path
        /\ new[m].workspace = w /\ new[m] # None
    <3>1. new[m] \in Services
      BY <1>0
    <3>2. new[m] = [workspace |-> w, config |-> d[m]]
      BY <1>0
    <3>3. registry!Base(new[m]) = b
      BY <2>b, <3>2 DEF registry!Base
    <3> QED
      BY <3>1, <3>2, <3>3, ServiceFacts
  <2>4. \A i \in 1..(m - 1) : d[i].base # b /\ d[i].base \in Path
    <3>1. \A i \in 1..(m - 1) : i \in DOMAIN d /\ i # m /\ m \in DOMAIN d
      BY <1>0, <2>0
    <3>2. \A i, j \in DOMAIN d : d[i].base = d[j].base => i = j
      BY RegistryAssumption
    <3>3. \A i \in DOMAIN d : d[i].base \in Path
      BY ConfigFacts DEF Cfg
    <3> QED
      BY <2>b, <3>1, <3>2, <3>3
  <2>5. x.held[b] = st.held[b]
    BY <2>2, <2>3, <2>4
  <2>6. /\ x.ok \in BOOLEAN /\ x.held \in [Path -> Services \union {None}]
        /\ \A p \in Path : x.held[p] # None => registry!Base(x.held[p]) = p
    BY <2>2, FittingFields
  <2>7. CASE ~x.ok
    <3>1. y = x
      BY <2>1, <2>7 DEF registry!Created
    <3>2. \A i \in 1..m : i \in 1..(m - 1) \/ i = m
      BY <2>0
    <3>3. \A p \in Path : (\A i \in 1..m : d[i].base # p) => y.held[p] = st.held[p]
      BY <2>0, <2>2, <3>1
    <3>4. \A i \in 1..m : /\ y.held[d[i].base] \in {st.held[d[i].base], new[i]}
                          /\ y.ok => y.held[d[i].base] = new[i]
      BY <2>2, <2>5, <2>7, <2>b, <3>1, <3>2
    <3>5. J(y, m)
      BY <2>2, <3>1, <3>3, <3>4
    <3> QED
      BY <3>5 DEF y
  <2>8. CASE x.ok
    <3>0. st.ok
      BY <2>2, <2>8
    <3>1. /\ Fitting(y) /\ y.held = [x.held EXCEPT ![b] = new[m]]
          /\ \A p \in Path : p # b /\ InOrder(x, p) => InOrder(y, p)
          /\ \A C : \A p \in Path : p # b /\ Odd(x, p, C) => InOrder(y, p) \/ Odd(y, p, C)
          /\ y.ok => InOrder(y, b)
          /\ InOrder(x, b) => InOrder(y, b) \/ (x.held[b] # None /\ Odd(y, b, {w}))
      <4>1. LET z == registry!Created(x, new[m])
                c == registry!Base(new[m]) IN
            /\ Fitting(z) /\ z.held = [x.held EXCEPT ![c] = new[m]]
            /\ \A p \in Path : p # c /\ InOrder(x, p) => InOrder(z, p)
            /\ \A C : \A p \in Path : p # c /\ Odd(x, p, C) => InOrder(z, p) \/ Odd(z, p, C)
            /\ z.ok => InOrder(z, c)
            /\ InOrder(x, c) => InOrder(z, c) \/ (x.held[c] # None /\ Odd(z, c, {new[m].workspace}))
        BY <2>2, <2>3, <2>8, CreateFits
      <4> QED
        BY <2>1, <2>3, <4>1
    <3>2. \A p \in Path : y.held[p] = IF p = b THEN new[m] ELSE x.held[p]
      BY <2>3, <2>6, <3>1
    <3>3. x.held[b] # None => x.held[b].workspace = w
      <4> SUFFICES ASSUME x.held[b] # None, x.held[b].workspace # w PROVE FALSE
        OBVIOUS
      <4>1. x.held[b] \in Services /\ registry!Base(x.held[b]) = b
        BY <2>3, <2>6
      <4>2. /\ x.held[b].config \in ConfigsOf(x.held[b].workspace) /\ x.held[b].config.base = b
            /\ x.held[b].workspace \in Workspace
        BY <4>1, ServiceFacts
      <4>3. d[m] \in ConfigsOf(w) /\ d[m].base = b
        BY <1>0, <2>b
      <4> QED
        BY <4>2, <4>3, ConfigFacts
    <3>4. InOrder(x, b)
      <4>1. Stands(x, b)
        BY <2>2, <2>3, <3>0
      <4> QED
        BY <2>8, <3>3, <4>1 DEF Odd
    <3>5. ASSUME NEW p \in Path PROVE Stands(y, p)
      <4>1. CASE p = b
        <5>1. InOrder(y, b) \/ (~y.ok /\ x.held[b] # None /\ Odd(y, b, {w}))
          BY <3>1, <3>4
        <5> QED
          BY <2>5, <3>3, <4>1, <5>1
      <4>2. CASE p # b
        <5>1. InOrder(x, p) \/ (Odd(x, p, B) /\ x.held[p].workspace # w)
          <6>1. Stands(x, p)
            BY <2>2, <3>0
          <6> QED
            BY <2>8, <6>1
        <5>2. CASE InOrder(x, p)
          BY <3>1, <4>2, <5>2
        <5>3. CASE Odd(x, p, B) /\ x.held[p].workspace # w
          <6>1. InOrder(y, p) \/ Odd(y, p, B)
            BY <3>1, <4>2, <5>3
          <6> QED
            BY <3>2, <4>2, <5>3, <6>1
        <5> QED
          BY <5>1, <5>2, <5>3
      <4> QED
        BY <4>1, <4>2
    <3>6. \A p \in Path : (\A i \in 1..m : d[i].base # p) => y.held[p] = st.held[p]
      <4> SUFFICES ASSUME NEW p \in Path, \A i \in 1..m : d[i].base # p
                   PROVE  y.held[p] = st.held[p]
        OBVIOUS
      <4>1. p # b /\ \A i \in 1..(m - 1) : d[i].base # p
        BY <2>0, <2>b
      <4> QED
        BY <2>2, <3>2, <4>1
    <3>7. \A i \in 1..m : /\ y.held[d[i].base] \in {st.held[d[i].base], new[i]}
                          /\ y.ok => y.held[d[i].base] = new[i]
      <4> SUFFICES ASSUME NEW i \in 1..m
                   PROVE  /\ y.held[d[i].base] \in {st.held[d[i].base], new[i]}
                          /\ y.ok => y.held[d[i].base] = new[i]
        OBVIOUS
      <4>1. CASE i = m
        BY <2>3, <2>b, <3>2, <4>1
      <4>2. CASE i # m
        <5>1. i \in 1..(m - 1)
          BY <2>0, <4>2
        <5>2. y.held[d[i].base] = x.held[d[i].base]
          BY <2>4, <3>2, <5>1
        <5> QED
          BY <2>2, <2>8, <5>1, <5>2
      <4> QED
        BY <4>1, <4>2
    <3>8. J(y, m)
      BY <3>0, <3>1, <3>5, <3>6, <3>7
    <3> QED
      BY <3>8 DEF y
  <2> QED
    BY <2>6, <2>7, <2>8
<1> DEFINE Bad == {m \in 0..n : ~J(f[m], m)}
<1>4. J(f[n], n)
  <2> HIDE DEF J, n
  <2>1. Bad \in SUBSET (0..n) /\ 0 \notin Bad
    BY <1>2
  <2>2. \A m \in 1..n : m - 1 \notin Bad => m \notin Bad
    <3> SUFFICES ASSUME NEW m \in 1..n, m - 1 \notin Bad PROVE m \notin Bad
      OBVIOUS
    <3>1. m - 1 \in 0..n
      BY <1>0
    <3>2. J(f[m - 1], m - 1)
      BY <3>1
    <3> QED
      BY <1>3, <3>2
  <2>b. n \notin Bad /\ n \in 0..n => J(f[n], n)
    OBVIOUS
  <2> HIDE DEF Bad
  <2>3. Bad = {}
    BY <1>0, <2>1, <2>2, FromStepToStep
  <2> QED
    BY <1>0, <2>3, <2>b
<1> QED
  BY <1>1, <1>4 DEF Brought

\* Services are disposed of, or as many as the profile fits: the others stay as they are.
LEMMA AllDisposedFit ==
  ASSUME NEW st, Fitting(st), NEW old \in Seq(Services)
  PROVE  LET fin == registry!AllDisposed(st, old) IN
         /\ Fitting(fin) /\ fin.active = st.active
         /\ \A p \in Path :
              \/ fin.held[p] = st.held[p] /\ fin.watch[p] = st.watch[p]
              \/ /\ fin.held[p] = None /\ fin.watch[p] = None
                 /\ \E i \in 1..Len(old) : p = registry!Base(old[i])
         /\ fin.ok => \A i \in 1..Len(old) : fin.held[registry!Base(old[i])] = None
<1> DEFINE n == Len(old)
           Gone(x, p) == /\ x.held[p] = None /\ x.watch[p] = None
                         /\ \E i \in 1..n : p = registry!Base(old[i])
           J(x, m) == /\ Fitting(x) /\ x.active = st.active
                      /\ \A p \in Path : \/ x.held[p] = st.held[p] /\ x.watch[p] = st.watch[p]
                                         \/ Gone(x, p)
                      /\ x.ok => \A i \in 1..m : x.held[registry!Base(old[i])] = None
<1>0. n \in Nat
  OBVIOUS
<1>1. PICK f : /\ f[0] = st /\ \A i \in 1..n : f[i] = registry!Disposed(f[i - 1], old[i])
               /\ registry!AllDisposed(st, old) = f[n]
  BY DisposedInTurn
<1>2. J(f[0], 0)
  <2>1. J(st, 0)
    OBVIOUS
  <2> QED
    BY <1>1, <2>1
<1>3. ASSUME NEW m \in 1..n, J(f[m - 1], m - 1) PROVE J(f[m], m)
  <2> DEFINE x == f[m - 1]
             y == f[m]
             b == registry!Base(old[m])
  <2>0. m - 1 \in 0..n /\ m \in Nat /\ \A i \in 1..m : i \in 1..(m - 1) \/ i = m
    BY <1>0
  <2>1. y = registry!Disposed(x, old[m]) /\ J(x, m - 1)
    BY <1>1, <1>3
  <2>b. b = registry!Base(old[m])
    OBVIOUS
  <2> HIDE DEF x, y, b
  <2>2. old[m] \in Services /\ b \in Path
    BY <1>0, <2>b, ServiceFacts
  <2>3. /\ Fitting(x) /\ x.active = st.active
        /\ \A p \in Path : (x.held[p] = st.held[p] /\ x.watch[p] = st.watch[p]) \/ Gone(x, p)
        /\ x.ok => \A i \in 1..(m - 1) : x.held[registry!Base(old[i])] = None
    BY <2>1
  <2>4. /\ x.ok \in BOOLEAN /\ x.held \in [Path -> Services \union {None}]
        /\ x.watch \in [Path -> Watchers \union {None}]
    BY <2>3, FittingFields
  <2>5. CASE ~x.ok
    <3>1. y = x
      BY <2>1, <2>5 DEF registry!Disposed
    <3>2. J(y, m)
      BY <2>3, <2>5, <3>1
    <3> QED
      BY <3>2 DEF y
  <2>6. CASE x.ok
    <3>1. /\ Fitting(y) /\ y.active = x.active
          /\ y.held = [x.held EXCEPT ![b] = None] /\ y.watch = [x.watch EXCEPT ![b] = None]
      <4>1. LET z == registry!Disposed(x, old[m])
                c == registry!Base(old[m]) IN
            /\ Fitting(z) /\ z.active = x.active
            /\ z.held = [x.held EXCEPT ![c] = None] /\ z.watch = [x.watch EXCEPT ![c] = None]
        BY <2>2, <2>3, <2>6, DisposeFits
      <4> QED
        BY <2>1, <2>b, <4>1
    <3>2. \A p \in Path : /\ y.held[p] = IF p = b THEN None ELSE x.held[p]
                          /\ y.watch[p] = IF p = b THEN None ELSE x.watch[p]
      BY <2>4, <3>1
    <3>3. \A p \in Path : (y.held[p] = st.held[p] /\ y.watch[p] = st.watch[p]) \/ Gone(y, p)
      <4> SUFFICES ASSUME NEW p \in Path
                   PROVE  (y.held[p] = st.held[p] /\ y.watch[p] = st.watch[p]) \/ Gone(y, p)
        OBVIOUS
      <4>1. CASE p = b
        BY <2>b, <3>2, <4>1
      <4>2. CASE p # b
        BY <2>3, <3>2, <4>2
      <4> QED
        BY <4>1, <4>2
    <3>4. \A i \in 1..m : y.held[registry!Base(old[i])] = None
      <4>1. \A i \in 1..n : registry!Base(old[i]) \in Path
        BY ServiceFacts
      <4>2. \A i \in 1..m : i \in 1..n
        BY <1>0
      <4> QED
        BY <2>0, <2>3, <2>6, <2>b, <3>2, <4>1, <4>2
    <3>5. J(y, m)
      BY <2>3, <3>1, <3>3, <3>4
    <3> QED
      BY <3>5 DEF y
  <2> QED
    BY <2>4, <2>5, <2>6
<1> DEFINE Bad == {m \in 0..n : ~J(f[m], m)}
<1>4. J(f[n], n)
  <2> HIDE DEF J, n
  <2>1. Bad \in SUBSET (0..n) /\ 0 \notin Bad
    BY <1>2
  <2>2. \A m \in 1..n : m - 1 \notin Bad => m \notin Bad
    <3> SUFFICES ASSUME NEW m \in 1..n, m - 1 \notin Bad PROVE m \notin Bad
      OBVIOUS
    <3>1. m - 1 \in 0..n
      BY <1>0
    <3>2. J(f[m - 1], m - 1)
      BY <3>1
    <3> QED
      BY <1>3, <3>2
  <2>b. n \notin Bad /\ n \in 0..n => J(f[n], n)
    OBVIOUS
  <2> HIDE DEF Bad
  <2>3. Bad = {}
    BY <1>0, <2>1, <2>2, FromStepToStep
  <2> QED
    BY <1>0, <2>3, <2>b
<1> QED
  BY <1>1, <1>4

-------------------------------------------------------------------------------
\* What is so of the registry: who is loaded is at the folder it names, and who is there is
\* loaded, save for a workspace the loading of which failed; and a folder is watched as its
\* service wants it, save for such a workspace after its first reading.
Loose == {w \in unloaded : \A r \in reads : r.first => r.workspace # w}
Asked ==
  /\ \A r \in reads : r.workspace \in Workspace /\ r.document \in Document[r.workspace]
  /\ \A r, q \in reads : r.first /\ q.first /\ r.workspace = q.workspace => r = q
  /\ saves \in 0..MaxSave /\ closed \in BOOLEAN /\ unloaded \subseteq Workspace
LoadedFits ==
  /\ DOMAIN loaded = Workspace /\ \A w \in Workspace : loaded[w] \subseteq ConfigsOf(w)
  /\ ~closed => \A w \in Workspace \ unloaded : \A c \in ConfigsOf(w) :
                  c \in loaded[w] <=> service[c.base] = [workspace |-> w, config |-> c]
InForce(B) ==
  /\ Fitting(registry!Now) /\ \A p \in Path : InOrder(registry!Now, p) \/ Odd(registry!Now, p, B)
RegistryInv == Asked /\ LoadedFits /\ InForce(Loose)

LEMMA NowFields ==
  /\ registry!Now.nodes = nodes /\ registry!Now.held = service /\ registry!Now.watch = watch
  /\ registry!Now.active = active /\ registry!Now.ok = TRUE
BY DEF registry!Now

\* What becomes the state of the registry is it.
LEMMA BecomeFits ==
  ASSUME NEW st, Fitting(st), registry!Become(st)
  PROVE  /\ Fitting(registry!Now)' /\ service' = st.held
         /\ \A p \in Path : InOrder(registry!Now, p)' <=> InOrder(st, p)
         /\ \A p, B : Odd(registry!Now', p, B) <=> Odd(st, p, B)
<1>1. /\ st.nodes \subseteq Steps /\ st.held \in [Path -> Services \union {None}]
      /\ st.watch \in [Path -> Watchers \union {None}] /\ st.active \in Profile \union {None}
      /\ \A p \in Path : st.held[p] # None =>
           registry!Base(st.held[p]) = p /\ registry!Way(p) \subseteq st.nodes
  BY FittingFields
<1>2. /\ nodes' = st.nodes /\ service' = st.held /\ watch' = st.watch /\ active' = st.active
  BY DEF registry!Become
<1>3. /\ registry!Now'.nodes = st.nodes /\ registry!Now'.held = st.held
      /\ registry!Now'.watch = st.watch /\ registry!Now'.active = st.active
      /\ registry!Now'.ok = TRUE
  BY <1>2 DEF registry!Now
<1>4. registry!Now' \in RegState
  BY <1>1, <1>2 DEF registry!Now, RegState
<1>5. Rooted(registry!Now')
  BY <1>1, <1>3 DEF Rooted
<1>6. Fitting(registry!Now')
  BY <1>4, <1>5 DEF Fitting
<1>7. \A p \in Path : InOrder(registry!Now', p) <=> InOrder(st, p)
  BY <1>3 DEF InOrder, Wanted
<1>8. \A p, B : Odd(registry!Now', p, B) <=> Odd(st, p, B)
  BY <1>3 DEF Odd
<1>9. \A p \in Path : InOrder(registry!Now, p)' <=> InOrder(registry!Now', p)
  BY DEF InOrder, Wanted, registry!Now
<1>10. Fitting(registry!Now)' <=> Fitting(registry!Now')
  BY DEF Fitting, RegState, Rooted, registry!Now, Services, Watchers, Steps, ConfigsOf, Cfg
<1> QED
  BY <1>2, <1>6, <1>7, <1>8, <1>9, <1>10

\* The order in which a finite set is gone through has all of it.
LEMMA OrderFacts ==
  ASSUME NEW S, IsFiniteSet(S), NEW f \in registry!SetToSeqs(S)
  PROVE  f \in Seq(S) /\ \A s \in S : \E i \in 1..Len(f) : f[i] = s
<1>1. registry!Cardinality(S) = Cardinality(S) /\ Cardinality(S) \in Nat
  BY FS_CardinalityType DEF registry!Cardinality, Cardinality
<1>2. /\ f \in [1..Cardinality(S) -> S]
      /\ \A i, j \in 1..Cardinality(S) : i # j => f[i] # f[j]
  BY <1>1 DEF registry!SetToSeqs
<1>3. f \in Injection(1..Cardinality(S), S)
  BY <1>2 DEF Injection, IsInjective
<1>4. Cardinality(1..Cardinality(S)) = Cardinality(S)
  <2>1. 0 + 1 = 1 /\ 1 \in Int /\ Cardinality(S) \in Int
    BY <1>1
  <2>2. Cardinality(1..Cardinality(S)) = IF 1 > Cardinality(S) THEN 0 ELSE Cardinality(S) - 1 + 1
    BY <2>1, FS_Interval
  <2> QED
    BY <1>1, <2>2
<1>5. f \in Surjection(1..Cardinality(S), S)
  BY <1>3, <1>4, FS_Injection
<1>6. f \in Seq(S) /\ Len(f) = Cardinality(S)
  BY <1>1, <1>2
<1> QED
  BY <1>5, <1>6 DEF Surjection

\* The services of workspaces are finitely many.
LEMMA OwnServices ==
  ASSUME Fitting(registry!Now), NEW ws
  PROVE  /\ IsFiniteSet(registry!ServicesOf(ws)) /\ registry!ServicesOf(ws) \subseteq Services
         /\ \A p \in Path : service[p] # None /\ service[p].workspace \in ws =>
              service[p] \in registry!ServicesOf(ws) /\ registry!Base(service[p]) = p
         /\ \A s \in registry!ServicesOf(ws) :
              service[registry!Base(s)] = s /\ s # None /\ s.workspace \in ws
<1> DEFINE Q == {q \in Path : service[q] # None /\ service[q].workspace \in ws}
           T == registry!ServicesOf(ws)
           f == [q \in Q |-> service[q]]
<1>1. /\ service \in [Path -> Services \union {None}]
      /\ \A p \in Path : service[p] # None => registry!Base(service[p]) = p
  BY FittingFields, NowFields
<1>2. IsFiniteSet(Q)
  BY FS_Subset, RegistryAssumption
<1>3. T = {service[q] : q \in Q}
  BY DEF registry!ServicesOf
<1>4. f \in Surjection(Q, T)
  BY <1>3 DEF Surjection
<1>5. IsFiniteSet(T)
  BY <1>2, <1>4, FS_Surjection
<1>6. T \subseteq Services
  BY <1>1, <1>3
<1> QED
  BY <1>1, <1>3, <1>5, <1>6

LEMMA RegistryStart == registry!Init => RegistryInv
<1> SUFFICES ASSUME registry!Init PROVE RegistryInv
  OBVIOUS
<1>1. PICK found \in [Workspace -> UNION {Document[w] : w \in Workspace}] :
        /\ \A w \in Workspace : found[w] \in Document[w]
        /\ reads = {[workspace |-> w, document |-> found[w], first |-> TRUE] : w \in Workspace}
  BY DEF registry!Init
<1>2. /\ saves = 0 /\ nodes = {} /\ service = [p \in Path |-> None] /\ watch = service
      /\ active = None /\ closed = FALSE /\ loaded = [w \in Workspace |-> {}] /\ unloaded = {}
  BY DEF registry!Init
<1>3. Asked
  <2>1. 0 \in 0..MaxSave
    BY RegistryAssumption
  <2>2. \A r \in reads : r.workspace \in Workspace /\ r.document \in Document[r.workspace]
    BY <1>1
  <2>3. \A r \in reads : r = [workspace |-> r.workspace, document |-> found[r.workspace],
                              first |-> TRUE]
    BY <1>1
  <2>4. \A r, q \in reads : r.first /\ q.first /\ r.workspace = q.workspace => r = q
    BY <2>3
  <2> QED
    BY <1>2, <2>1, <2>2, <2>4 DEF Asked
<1>4. LoadedFits
  <2>1. \A w \in Workspace : \A c \in ConfigsOf(w) :
          service[c.base] # [workspace |-> w, config |-> c]
    <3> SUFFICES ASSUME NEW w \in Workspace, NEW c \in ConfigsOf(w)
                 PROVE  service[c.base] # [workspace |-> w, config |-> c]
      OBVIOUS
    <3>1. c.base \in Path
      BY ConfigFacts DEF Cfg
    <3>2. [workspace |-> w, config |-> c] # None
      BY ServiceFacts
    <3> QED
      BY <1>2, <3>1, <3>2
  <2> QED
    BY <1>2, <2>1 DEF LoadedFits
<1>5. InForce(Loose)
  <2>1. Fitting(registry!Now)
    BY <1>2 DEF Fitting, RegState, Rooted, registry!Now
  <2>2. \A p \in Path : InOrder(registry!Now, p)
    BY <1>2, NowFields DEF InOrder, Wanted
  <2> QED
    BY <2>1, <2>2 DEF InForce
<1> QED
  BY <1>3, <1>4, <1>5 DEF RegistryInv

\* Steps that change no service.
LEMMA SameServices ==
  ASSUME RegistryInv, UNCHANGED <<nodes, service, watch, active, closed, loaded, unloaded>>,
         \A r \in reads' : r \in reads \/ ~r.first,
         Asked'
  PROVE  RegistryInv'
<1>1. registry!Now' = registry!Now
  BY DEF registry!Now
<1>2. Loose \subseteq Loose'
  BY DEF Loose
<1>3. \A p : Odd(registry!Now, p, Loose) => Odd(registry!Now, p, Loose')
  BY <1>2 DEF Odd
<1>4. Fitting(registry!Now)' <=> Fitting(registry!Now')
  BY DEF Fitting, RegState, Rooted, registry!Now, Services, Watchers, Steps, ConfigsOf, Cfg
<1>5. \A p : InOrder(registry!Now, p)' <=> InOrder(registry!Now', p)
  BY DEF InOrder, Wanted, registry!Now
<1>6. \A p : Odd(registry!Now, p, Loose)' <=> Odd(registry!Now', p, Loose')
  BY DEF Odd, registry!Now
<1>7. InForce(Loose)'
  BY <1>1, <1>3, <1>4, <1>5, <1>6 DEF RegistryInv, InForce
<1>8. LoadedFits'
  BY DEF RegistryInv, LoadedFits
<1> QED
  BY <1>7, <1>8 DEF RegistryInv

\* What becomes the state is in force, if the workspaces that may have an old watcher do.
LEMMA InForceStep ==
  ASSUME NEW st, Fitting(st), registry!Become(st), NEW B,
         \A p \in Path : InOrder(st, p) \/ Odd(st, p, B), B \subseteq Loose'
  PROVE  InForce(Loose)'
<1>1. /\ Fitting(registry!Now)' /\ \A p \in Path : InOrder(registry!Now, p)' <=> InOrder(st, p)
      /\ \A p, C : Odd(registry!Now', p, C) <=> Odd(st, p, C)
  BY BecomeFits
<1>2. \A p : Odd(st, p, B) => Odd(st, p, Loose')
  BY DEF Odd
<1>3. \A p : Odd(registry!Now, p, Loose)' <=> Odd(registry!Now', p, Loose')
  BY DEF Odd, registry!Now
<1> QED
  BY <1>1, <1>2, <1>3 DEF InForce

LEMMA ProfileStep ==
  ASSUME RegistryInv, NEW profile \in Profile \union {None}, registry!SetProfile(profile)
  PROVE  RegistryInv'
<1> DEFINE st == registry!Switched(registry!Now, profile)
<1>1. /\ registry!Become(st) /\ UNCHANGED <<reads, saves, closed, loaded, unloaded>>
  BY DEF registry!SetProfile
<1>2. /\ Fitting(st) /\ st.held = service
      /\ \A p \in Path : InOrder(registry!Now, p) => InOrder(st, p)
      /\ \A p \in Path : Odd(registry!Now, p, Loose) => InOrder(st, p) \/ Odd(st, p, Loose)
  BY SwitchFits, NowFields DEF RegistryInv, InForce
<1> HIDE DEF st
<1>3. Loose' = Loose
  BY <1>1 DEF Loose
<1>4. \A p \in Path : InOrder(st, p) \/ Odd(st, p, Loose)
  BY <1>2 DEF RegistryInv, InForce
<1>5. InForce(Loose)'
  BY <1>1, <1>2, <1>3, <1>4, InForceStep
<1>6. service' = service
  BY <1>1, <1>2, BecomeFits
<1>7. Asked' /\ LoadedFits'
  BY <1>1, <1>6 DEF RegistryInv, Asked, LoadedFits
<1> QED
  BY <1>5, <1>7 DEF RegistryInv

\* What is disposed of: what is left is as it was.
LEMMA DisposedInForce ==
  ASSUME RegistryInv, NEW ws, NEW old \in registry!SetToSeqs(registry!ServicesOf(ws))
  PROVE  LET mid == registry!AllDisposed(registry!Now, old) IN
         /\ Fitting(mid)
         /\ \A p \in Path : InOrder(mid, p) \/ Odd(mid, p, Loose)
         /\ \A p \in Path : mid.held[p] = service[p]
                              \/ (mid.held[p] = None /\ service[p].workspace \in ws)
         /\ mid.ok => \A p \in Path : mid.held[p] = None \/ mid.held[p].workspace \notin ws
<1> DEFINE S == registry!ServicesOf(ws)
           mid == registry!AllDisposed(registry!Now, old)
<1>0. Fitting(registry!Now) /\ \A p \in Path : InOrder(registry!Now, p) \/ Odd(registry!Now, p, Loose)
  BY DEF RegistryInv, InForce
<1>1. /\ IsFiniteSet(S) /\ S \subseteq Services
      /\ \A p \in Path : service[p] # None /\ service[p].workspace \in ws =>
           service[p] \in S /\ registry!Base(service[p]) = p
      /\ \A s \in S : service[registry!Base(s)] = s /\ s # None /\ s.workspace \in ws
  BY <1>0, OwnServices
<1>2. old \in Seq(S) /\ \A s \in S : \E i \in 1..Len(old) : old[i] = s
  BY <1>1, OrderFacts
<1>3. old \in Seq(Services) /\ \A i \in 1..Len(old) : old[i] \in S
  <2> HIDE DEF S
  <2> QED
    BY <1>1, <1>2
<1>4. /\ Fitting(mid) /\ mid.active = active
      /\ \A p \in Path :
           \/ mid.held[p] = service[p] /\ mid.watch[p] = watch[p]
           \/ /\ mid.held[p] = None /\ mid.watch[p] = None
              /\ \E i \in 1..Len(old) : p = registry!Base(old[i])
      /\ mid.ok => \A i \in 1..Len(old) : mid.held[registry!Base(old[i])] = None
  BY <1>0, <1>3, AllDisposedFit, NowFields
<1> HIDE DEF mid, S
<1>5. ASSUME NEW p \in Path PROVE InOrder(mid, p) \/ Odd(mid, p, Loose)
  <2>1. CASE mid.held[p] = service[p] /\ mid.watch[p] = watch[p]
    <3>1. InOrder(registry!Now, p) => InOrder(mid, p)
      BY <1>4, <2>1, NowFields DEF InOrder, Wanted
    <3>2. Odd(registry!Now, p, Loose) => Odd(mid, p, Loose)
      BY <2>1, NowFields DEF Odd
    <3> QED
      BY <1>0, <3>1, <3>2
  <2>2. CASE mid.held[p] = None /\ mid.watch[p] = None
    BY <2>2 DEF InOrder, Wanted
  <2> QED
    BY <1>4, <2>1, <2>2
<1>6. \A p \in Path : mid.held[p] = service[p]
                        \/ (mid.held[p] = None /\ service[p].workspace \in ws)
  BY <1>1, <1>3, <1>4
<1>7. ASSUME mid.ok, NEW p \in Path PROVE mid.held[p] = None \/ mid.held[p].workspace \notin ws
  <2> SUFFICES ASSUME mid.held[p] # None, mid.held[p].workspace \in ws PROVE FALSE
    OBVIOUS
  <2>1. mid.held[p] = service[p]
    BY <1>6
  <2>2. service[p] \in S /\ registry!Base(service[p]) = p
    BY <1>1, <2>1
  <2> QED
    BY <1>2, <1>4, <1>7, <2>2
<1> QED
  BY <1>4, <1>5, <1>6, <1>7 DEF mid

LEMMA DeactivateStep == ASSUME RegistryInv, registry!Deactivate PROVE RegistryInv'
<1>1. PICK all \in registry!SetToSeqs(registry!ServicesOf(Workspace)) :
        registry!Become(registry!AllDisposed(registry!Now, all))
  BY DEF registry!Deactivate
<1>2. closed' = TRUE /\ UNCHANGED <<reads, saves, loaded, unloaded>>
  BY DEF registry!Deactivate
<1> DEFINE mid == registry!AllDisposed(registry!Now, all)
<1>3. Fitting(mid) /\ \A p \in Path : InOrder(mid, p) \/ Odd(mid, p, Loose)
  BY DisposedInForce
<1>4. Loose' = Loose
  BY <1>2 DEF Loose
<1> HIDE DEF mid
<1>5. registry!Become(mid)
  BY <1>1 DEF mid
<1>6. InForce(Loose)'
  BY <1>3, <1>4, <1>5, InForceStep
<1>7. Asked' /\ LoadedFits'
  BY <1>2 DEF RegistryInv, Asked, LoadedFits
<1> QED
  BY <1>6, <1>7 DEF RegistryInv

\* Before a document is put into force: at a first reading nothing is disposed of, later the
\* services of its workspace.
LEMMA BeforeLoad ==
  ASSUME RegistryInv, NEW r \in reads,
         NEW old \in registry!SetToSeqs(IF r.first THEN {} ELSE registry!ServicesOf({r.workspace}))
  PROVE  LET mid == registry!AllDisposed(registry!Now, old) IN
         /\ Fitting(mid)
         /\ \A p \in Path : InOrder(mid, p) \/ Odd(mid, p, Loose)
         /\ \A p \in Path : mid.held[p] = service[p]
                              \/ (mid.held[p] = None /\ service[p].workspace = r.workspace)
         /\ r.first => mid.ok /\ \A p \in Path : mid.held[p] = service[p]
         /\ ~r.first /\ mid.ok =>
              \A p \in Path : mid.held[p] = None \/ mid.held[p].workspace # r.workspace
<1> DEFINE mid == registry!AllDisposed(registry!Now, old)
<1>0. Fitting(registry!Now) /\ \A p \in Path : InOrder(registry!Now, p) \/ Odd(registry!Now, p, Loose)
  BY DEF RegistryInv, InForce
<1>1. CASE r.first
  <2>1. IsFiniteSet({}) /\ old \in registry!SetToSeqs({})
    BY <1>1, FS_EmptySet
  <2>2. old \in Seq({})
    BY <2>1, OrderFacts
  <2>3. Len(old) = 0
    <3>1. Len(old) \in Nat /\ \A i \in 1..Len(old) : old[i] \in {}
      BY <2>2
    <3> QED
      BY <3>1
  <2>4. PICK f : f[0] = registry!Now /\ mid = f[Len(old)]
    BY <2>2, DisposedInTurn
  <2> HIDE DEF mid
  <2>5. mid = registry!Now
    BY <2>3, <2>4
  <2>6. mid.ok /\ \A p \in Path : mid.held[p] = service[p]
    BY <2>5, NowFields
  <2> QED
    BY <1>0, <1>1, <2>5, <2>6 DEF mid
<1>2. CASE ~r.first
  <2>1. old \in registry!SetToSeqs(registry!ServicesOf({r.workspace}))
    BY <1>2
  <2>2. /\ Fitting(mid)
        /\ \A p \in Path : InOrder(mid, p) \/ Odd(mid, p, Loose)
        /\ \A p \in Path : mid.held[p] = service[p]
                             \/ (mid.held[p] = None /\ service[p].workspace \in {r.workspace})
        /\ mid.ok => \A p \in Path : mid.held[p] = None \/ mid.held[p].workspace \notin {r.workspace}
    BY <2>1, DisposedInForce
  <2> HIDE DEF mid
  <2> QED
    BY <1>2, <2>2 DEF mid
<1> QED
  BY <1>1, <1>2

LEMMA LoadStep == ASSUME RegistryInv, NEW r \in reads, registry!Load(r) PROVE RegistryInv'
<1> DEFINE w == r.workspace
           d == r.document
           new == registry!Configured(r)
<1>1. PICK old \in registry!SetToSeqs(IF r.first THEN {} ELSE registry!ServicesOf({w})) :
        LET st == registry!AllCreated(registry!AllDisposed(registry!Now, old), new) IN
        /\ registry!Become(st)
        /\ unloaded' = IF st.ok THEN (IF r.first THEN unloaded ELSE unloaded \ {w})
                                ELSE unloaded \union {w}
        /\ loaded' = [loaded EXCEPT ![w] = registry!Range(d)
                                             \union {c \in @ : r.first /\ registry!Unnamed(r, c)}]
  BY DEF registry!Load
<1>2. ~closed /\ reads' = reads \ {r} /\ UNCHANGED <<saves, closed>>
  BY DEF registry!Load
<1> DEFINE mid == registry!AllDisposed(registry!Now, old)
           st == registry!AllCreated(mid, new)
<1>3. /\ w \in Workspace /\ d \in Document[w] /\ d \in Seq(Cfg)
      /\ \A i \in 1..Len(d) : d[i] \in ConfigsOf(w)
      /\ registry!Range(d) \subseteq ConfigsOf(w)
      /\ \A c : c \in registry!Range(d) <=> \E i \in 1..Len(d) : c = d[i]
  <2>1. w \in Workspace /\ d \in Document[w]
    BY DEF RegistryInv, Asked
  <2>2. d \in Seq(Cfg) /\ registry!Range(d) \subseteq ConfigsOf(w)
    BY <2>1, ConfigFacts
  <2>3. DOMAIN d = 1..Len(d)
    BY <2>2
  <2>4. \A c : c \in registry!Range(d) <=> \E i \in DOMAIN d : c = d[i]
    BY DEF registry!Range
  <2> HIDE DEF d, w
  <2> QED
    BY <2>1, <2>2, <2>3, <2>4
<1>4. /\ Fitting(mid)
      /\ \A p \in Path : InOrder(mid, p) \/ Odd(mid, p, Loose)
      /\ \A p \in Path : mid.held[p] = service[p]
                           \/ (mid.held[p] = None /\ service[p].workspace = w)
      /\ r.first => mid.ok /\ \A p \in Path : mid.held[p] = service[p]
      /\ ~r.first /\ mid.ok => \A p \in Path : mid.held[p] = None \/ mid.held[p].workspace # w
  BY BeforeLoad
<1>5. new \in Seq(Services) /\ Len(new) = Len(d)
      /\ \A i \in 1..Len(d) : new[i] = [workspace |-> w, config |-> d[i]]
  <2>1. new = [i \in 1..Len(d) |-> [workspace |-> w, config |-> d[i]]]
    BY DEF registry!Configured
  <2>2. \A i \in 1..Len(d) : [workspace |-> w, config |-> d[i]] \in Services
    BY <1>3, ServiceFacts
  <2>3. Len(d) \in Nat
    BY <1>3
  <2> HIDE DEF new, d, w
  <2> QED
    BY <2>1, <2>2, <2>3
<1>6. /\ registry!Become(st)
      /\ unloaded' = IF st.ok THEN (IF r.first THEN unloaded ELSE unloaded \ {w})
                              ELSE unloaded \union {w}
      /\ loaded' = [loaded EXCEPT ![w] = registry!Range(d)
                                           \union {c \in @ : r.first /\ registry!Unnamed(r, c)}]
  BY <1>1
<1>w. w = r.workspace /\ d = r.document /\ st = registry!AllCreated(mid, new)
  OBVIOUS
<1> HIDE DEF mid, new, st, w, d
\* Who may have an old watcher when services are created is of another workspace.
<1>7. mid.ok => \A p \in Path : InOrder(mid, p) \/ (Odd(mid, p, Loose) /\ mid.held[p].workspace # w)
  <2> SUFFICES ASSUME mid.ok, NEW p \in Path, ~InOrder(mid, p)
               PROVE  Odd(mid, p, Loose) /\ mid.held[p].workspace # w
    OBVIOUS
  <2>1. Odd(mid, p, Loose)
    BY <1>4
  <2>2. mid.held[p] # None /\ mid.held[p].workspace \in Loose
    BY <2>1 DEF Odd
  <2>3. CASE r.first
    BY <1>w, <2>1, <2>2, <2>3 DEF Loose
  <2>4. CASE ~r.first
    BY <1>4, <2>1, <2>2, <2>4
  <2> QED
    BY <2>3, <2>4
<1>8. /\ Fitting(st) /\ (~mid.ok => st = mid)
      /\ \A p \in Path : (\A i \in 1..Len(d) : d[i].base # p) => st.held[p] = mid.held[p]
      /\ \A i \in 1..Len(d) : /\ st.held[d[i].base] \in {mid.held[d[i].base], new[i]}
                              /\ st.ok => st.held[d[i].base] = new[i]
      /\ mid.ok => \A p \in Path :
           \/ InOrder(st, p)
           \/ Odd(st, p, Loose) /\ st.held[p].workspace # w
           \/ ~st.ok /\ mid.held[p] # None /\ mid.held[p].workspace = w /\ Odd(st, p, {w})
  <2>1. Meant(mid, w, d, new, Loose)
    BY <1>3, <1>4, <1>5, <1>7 DEF Meant
  <2>2. Brought(mid, registry!AllCreated(mid, new), w, d, new, Loose)
    BY <2>1, AllCreatedFit
  <2> QED
    BY <1>w, <2>2 DEF Brought
<1>9. st.ok \in BOOLEAN /\ mid.ok \in BOOLEAN
  BY <1>4, <1>8, FittingFields
<1>10. \A q \in reads' : q \in reads /\ (r.first /\ q.first => q.workspace # w)
  BY <1>2, <1>w DEF RegistryInv, Asked
<1>11. Asked'
  <2>1. unloaded' \subseteq Workspace
    BY <1>3, <1>6 DEF RegistryInv, Asked
  <2> QED
    BY <1>2, <2>1 DEF RegistryInv, Asked
<1>12. InForce(Loose)'
  <2>1. \A v \in Loose : v # w => v \in Loose'
    BY <1>6, <1>10 DEF Loose
  <2>2. CASE ~mid.ok
    <3>1. st = mid /\ ~st.ok /\ ~r.first
      BY <1>4, <1>8, <2>2
    <3>2. \A p \in Path : InOrder(st, p) \/ Odd(st, p, Loose)
      BY <1>4, <3>1
    <3>3. Loose \subseteq Loose'
      BY <1>6, <1>10, <3>1 DEF Loose
    <3> QED
      BY <1>6, <1>8, <3>2, <3>3, InForceStep
  <2>3. CASE mid.ok
    <3> DEFINE B == (Loose \ {w}) \union (IF w \in Loose' THEN {w} ELSE {})
    <3>1. B \subseteq Loose'
      BY <2>1
    <3>2. ASSUME NEW p \in Path PROVE InOrder(st, p) \/ Odd(st, p, B)
      <4>1. CASE Odd(st, p, Loose) /\ st.held[p].workspace # w
        BY <4>1 DEF Odd
      <4>2. CASE ~st.ok /\ mid.held[p] # None /\ mid.held[p].workspace = w /\ Odd(st, p, {w})
        <5>1. r.first
          BY <1>4, <2>3, <4>2
        <5>2. w \in Loose'
          BY <1>6, <1>10, <4>2, <5>1 DEF Loose
        <5> QED
          BY <4>2, <5>2 DEF Odd
      <4> QED
        BY <1>8, <2>3, <4>1, <4>2
    <3> HIDE DEF B
    <3> QED
      BY <1>6, <1>8, <3>1, <3>2, InForceStep
  <2> QED
    BY <1>9, <2>2, <2>3
<1>13. LoadedFits'
  <2>1. service' = st.held
    BY <1>6, <1>8, BecomeFits
  <2>2. /\ DOMAIN loaded = Workspace /\ \A v \in Workspace : loaded[v] \subseteq ConfigsOf(v)
        /\ \A v \in Workspace \ unloaded : \A c \in ConfigsOf(v) :
             c \in loaded[v] <=> service[c.base] = [workspace |-> v, config |-> c]
    BY <1>2 DEF RegistryInv, LoadedFits
  <2>3. /\ DOMAIN loaded' = Workspace /\ \A v \in Workspace : v # w => loaded'[v] = loaded[v]
        /\ \A c : c \in loaded'[w] <=> \/ \E i \in 1..Len(d) : c = d[i]
                                       \/ c \in loaded[w] /\ r.first /\ registry!Unnamed(r, c)
    BY <1>3, <1>6, <2>2
  <2>4. \A v \in Workspace : loaded'[v] \subseteq ConfigsOf(v)
    <3> SUFFICES ASSUME NEW v \in Workspace PROVE loaded'[v] \subseteq ConfigsOf(v)
      OBVIOUS
    <3>1. CASE v = w
      BY <1>3, <2>2, <2>3, <3>1
    <3>2. CASE v # w
      BY <2>2, <2>3, <3>2
    <3> QED
      BY <3>1, <3>2
  <2>5. \A c : registry!Unnamed(r, c) <=> \A i \in 1..Len(d) : d[i].base # c.base
    BY <1>3, <1>w DEF registry!Unnamed
  <2>6. \A v \in Workspace : \A c \in ConfigsOf(v) : c.base \in Path
    BY ConfigFacts DEF Cfg
  <2>7. ASSUME NEW v \in Workspace \ unloaded', NEW c \in ConfigsOf(v)
        PROVE  c \in loaded'[v] <=> st.held[c.base] = [workspace |-> v, config |-> c]
    <3> DEFINE s == [workspace |-> v, config |-> c]
    <3>0. s \in Services /\ s # None /\ s.workspace = v /\ s.config = c /\ c.base \in Path
      BY <2>6, <2>7, ServiceFacts
    <3>s. s = [workspace |-> v, config |-> c]
      OBVIOUS
    <3> HIDE DEF s
    <3>1. CASE v # w
      <4>1. \A i \in 1..Len(d) : d[i].base # c.base
        BY <1>3, <3>1, ConfigFacts
      <4>2. st.held[c.base] = mid.held[c.base]
        BY <1>8, <3>0, <4>1
      <4>3. mid.held[c.base] = s <=> service[c.base] = s
        BY <1>4, <3>0, <3>1
      <4>4. v \in Workspace \ unloaded
        BY <1>6, <2>7, <3>1
      <4>5. c \in loaded[v] <=> service[c.base] = s
        BY <2>2, <3>s, <4>4
      <4> QED
        BY <2>3, <3>1, <3>s, <4>2, <4>3, <4>5
    <3>2. CASE v = w
      <4>1. st.ok /\ mid.ok
        <5>1. st.ok
          BY <1>6, <2>7, <3>2
        <5> QED
          BY <1>8, <5>1
      <4>2. CASE \E i \in 1..Len(d) : d[i].base = c.base
        <5>1. PICK i \in 1..Len(d) : d[i].base = c.base
          BY <4>2
        <5>2. st.held[c.base] = [workspace |-> w, config |-> d[i]]
          BY <1>5, <1>8, <4>1, <5>1
        <5>3. st.held[c.base] = s <=> c = d[i]
          BY <3>2, <3>s, <5>2
        <5>4. \A j \in 1..Len(d) : c = d[j] => j = i
          <6>1. \A j, k \in DOMAIN d : d[j].base = d[k].base => j = k
            BY <1>3, RegistryAssumption
          <6>2. DOMAIN d = 1..Len(d)
            BY <1>3
          <6> QED
            BY <5>1, <6>1, <6>2
        <5>5. c \in loaded'[w] <=> c = d[i]
          BY <2>3, <2>5, <5>1, <5>4
        <5> QED
          BY <3>2, <3>s, <5>3, <5>5
      <4>3. CASE \A i \in 1..Len(d) : d[i].base # c.base
        <5>1. st.held[c.base] = mid.held[c.base] /\ registry!Unnamed(r, c)
          BY <1>8, <2>5, <3>0, <4>3
        <5>2. c \in loaded'[w] <=> c \in loaded[w] /\ r.first
          BY <2>3, <4>3, <5>1
        <5>3. CASE r.first
          <6>1. mid.held[c.base] = service[c.base] /\ w \in Workspace \ unloaded
            BY <1>3, <1>4, <1>6, <2>7, <3>0, <3>2, <4>1, <5>3
          <6>2. c \in loaded[w] <=> service[c.base] = s
            BY <2>2, <2>7, <3>2, <3>s, <6>1
          <6> QED
            BY <3>2, <3>s, <5>1, <5>2, <5>3, <6>1, <6>2
        <5>4. CASE ~r.first
          <6>1. mid.held[c.base] # s
            BY <1>4, <3>0, <3>2, <4>1, <5>4
          <6> QED
            BY <3>2, <3>s, <5>1, <5>2, <5>4, <6>1
        <5> QED
          BY <5>3, <5>4
      <4> QED
        BY <4>2, <4>3
    <3> QED
      BY <3>1, <3>2
  <2>8. \A v \in Workspace : ConfigsOf(v)' = ConfigsOf(v)
    BY DEF ConfigsOf
  <2> QED
    BY <2>1, <2>3, <2>4, <2>7, <2>8 DEF LoadedFits
<1> QED
  BY <1>11, <1>12, <1>13 DEF RegistryInv

LEMMA RegistryStep == ASSUME RegistryInv, [registry!Next]_registryVars PROVE RegistryInv'
<1>1. ASSUME NEW w \in Workspace, registry!Save(w) PROVE RegistryInv'
  <2>1. PICK document \in Document[w] :
          reads' = reads \union {[workspace |-> w, document |-> document, first |-> FALSE]}
    BY <1>1 DEF registry!Save
  <2>2. /\ saves < MaxSave /\ saves' = saves + 1
        /\ UNCHANGED <<nodes, service, watch, active, closed, loaded, unloaded>>
    BY <1>1 DEF registry!Save
  <2>3. saves' \in 0..MaxSave
    BY <2>2, RegistryAssumption DEF RegistryInv, Asked
  <2>4. Asked'
    BY <2>1, <2>2, <2>3 DEF RegistryInv, Asked
  <2> QED
    BY <2>1, <2>2, <2>4, SameServices
<1>2. ASSUME NEW r \in reads, registry!Reject(r) PROVE RegistryInv'
  <2>1. /\ reads' = reads \ {r}
        /\ UNCHANGED <<saves, nodes, service, watch, active, closed, loaded, unloaded>>
    BY <1>2 DEF registry!Reject
  <2>2. Asked'
    BY <2>1 DEF RegistryInv, Asked
  <2> QED
    BY <2>1, <2>2, SameServices
<1>3. CASE UNCHANGED registryVars
  <2>1. UNCHANGED <<reads, saves, nodes, service, watch, active, closed, loaded, unloaded>>
    BY <1>3 DEF registryVars
  <2>2. Asked'
    BY <2>1 DEF RegistryInv, Asked
  <2> QED
    BY <2>1, <2>2, SameServices
<1> QED
  BY <1>1, <1>2, <1>3, LoadStep, ProfileStep, DeactivateStep DEF registry!Next
-------------------------------------------------------------------------------
\* There is a longest among the prefixes of a path.
LEMMA LongestOf ==
  ASSUME NEW p \in Path, NEW S, S # {}, S \subseteq Path, S \subseteq registry!Way(p)
  PROVE  \E n \in S : \A o \in S : Len(o) <= Len(n)
<1> DEFINE T == {Len(p) - Len(n) : n \in S}
<1>1. \A n \in S : Len(n) \in Nat /\ Len(n) <= Len(p) /\ Len(p) \in Nat
  <2> SUFFICES ASSUME NEW n \in S PROVE Len(n) \in Nat /\ Len(n) <= Len(p) /\ Len(p) \in Nat
    OBVIOUS
  <2>1. p \in Seq(Name) /\ Len(p) \in Nat /\ Len(n) \in Nat
    BY WayFacts, RegistryAssumption
  <2>2. PICK l \in 0..Len(p) : n = SubSeq(p, 1, l)
    BY DEF registry!Way, registry!Prefixes
  <2>3. Len(n) = l
    BY <2>1, <2>2
  <2> QED
    BY <2>1, <2>2, <2>3
<1>2. T \subseteq Nat /\ T # {}
  BY <1>1
<1>3. PICK m \in T : \A k \in T : <<k, m>> \notin OpToRel(<, Nat)
  BY <1>2, WFMin, NatLessThanWellFounded
<1>4. \A k \in T : ~(k < m)
  BY <1>2, <1>3 DEF OpToRel
<1>5. PICK n \in S : m = Len(p) - Len(n)
  OBVIOUS
<1>6. ASSUME NEW o \in S PROVE Len(o) <= Len(n)
  <2>1. Len(p) - Len(o) \in T
    OBVIOUS
  <2>2. ~(Len(p) - Len(o) < Len(p) - Len(n))
    <3> HIDE DEF T
    <3> QED
      BY <1>4, <1>5, <2>1
  <2>3. Len(p) \in Nat /\ Len(o) \in Nat /\ Len(n) \in Nat
    BY <1>1
  <2> QED
    BY <2>2, <2>3
<1> QED
  BY <1>6

\* A path is served by the service of the nearest folder a configuration in force names.
LEMMA LookupFollows == RegistryInv => registry!LookupFollowsConfig
<1> SUFFICES ASSUME RegistryInv, ~closed, NEW p \in Path
             PROVE  LET found == registry!FindPrefix(p) IN
                    \/ found # None /\ found.workspace \in unloaded
                    \/ IF registry!Nearest(p) = {} THEN found = None
                                                   ELSE found \in registry!Nearest(p)
  BY DEF registry!LookupFollowsConfig
<1> DEFINE S == {n \in registry!Way(p) : registry!Way(n) \subseteq nodes /\ n \in Path /\ service[n] # None}
           found == registry!FindPrefix(p)
<1>1. /\ service \in [Path -> Services \union {None}]
      /\ \A n \in Path : service[n] # None =>
           registry!Base(service[n]) = n /\ registry!Way(n) \subseteq nodes
  BY FittingFields, NowFields DEF RegistryInv, InForce
<1>2. /\ \A w \in Workspace : loaded[w] \subseteq ConfigsOf(w)
      /\ \A w \in Workspace \ unloaded : \A c \in ConfigsOf(w) :
           c \in loaded[w] <=> service[c.base] = [workspace |-> w, config |-> c]
  BY DEF RegistryInv, LoadedFits
<1>3. \A s \in registry!Reference(p) : /\ registry!Base(s) \in S /\ service[registry!Base(s)] = s
                                       /\ s # None
  <2> SUFFICES ASSUME NEW s \in registry!Reference(p)
               PROVE  registry!Base(s) \in S /\ service[registry!Base(s)] = s /\ s # None
    OBVIOUS
  <2>1. /\ s.workspace \in Workspace \ unloaded /\ s.config \in loaded[s.workspace]
        /\ registry!IsPrefix(registry!Base(s), p)
        /\ s = [workspace |-> s.workspace, config |-> s.config]
    BY DEF registry!Reference
  <2>2. s.config \in ConfigsOf(s.workspace)
    BY <1>2, <2>1
  <2>3. s \in Services
    BY <2>1, <2>2, ServiceFacts
  <2>4. s # None /\ registry!Base(s) \in Path /\ s.config.base = registry!Base(s)
    BY <2>3, ServiceFacts
  <2>5. service[registry!Base(s)] = s
    BY <1>2, <2>1, <2>2, <2>4
  <2>6. registry!Base(s) \in registry!Way(p)
    BY <2>1, <2>4, WayFacts
  <2> QED
    BY <1>1, <2>4, <2>5, <2>6
<1>4. CASE S = {}
  <2>1. found = None
    BY <1>4 DEF registry!FindPrefix
  <2>2. registry!Nearest(p) = {}
    BY <1>3, <1>4 DEF registry!Nearest
  <2> QED
    BY <2>1, <2>2
<1>5. CASE S # {}
  <2> DEFINE n == CHOOSE n \in S : \A o \in S : Len(o) <= Len(n)
  <2>1. n \in S /\ \A o \in S : Len(o) <= Len(n)
    <3>1. S \subseteq Path /\ S \subseteq registry!Way(p)
      OBVIOUS
    <3>2. \E m \in S : \A o \in S : Len(o) <= Len(m)
      <4> HIDE DEF S
      <4> QED
        BY <1>5, <3>1, LongestOf
    <3> HIDE DEF S
    <3> QED
      BY <3>2
  <2>2. found = service[n]
    BY <1>5 DEF registry!FindPrefix
  <2> HIDE DEF n, found
  <2>3. /\ n \in Path /\ n \in registry!Way(p) /\ found # None /\ found \in Services
        /\ registry!Base(found) = n /\ registry!IsPrefix(n, p)
    BY <1>1, <2>1, <2>2, WayFacts
  <2>4. /\ found.workspace \in Workspace /\ found.config \in ConfigsOf(found.workspace)
        /\ found.config.base = n
        /\ found = [workspace |-> found.workspace, config |-> found.config]
    BY <2>3, ServiceFacts
  <2>5. CASE found.workspace \in unloaded
    BY <2>3, <2>5 DEF found
  <2>6. CASE found.workspace \notin unloaded
    <3>1. found.config \in loaded[found.workspace]
      BY <1>2, <2>2, <2>4, <2>6
    <3>2. found.config \in registry!Configs
      BY <2>4, ConfigFacts
    <3>3. found \in [workspace : Workspace \ unloaded, config : registry!Configs]
      BY <2>4, <2>6, <3>2
    <3>4. found \in registry!Reference(p)
      BY <2>3, <3>1, <3>3 DEF registry!Reference
    <3>5. \A o \in registry!Reference(p) : Len(registry!Base(o)) <= Len(registry!Base(found))
      BY <1>3, <2>1, <2>3
    <3>6. found \in registry!Nearest(p)
      BY <3>4, <3>5 DEF registry!Nearest
    <3> QED
      BY <3>6 DEF found
  <2> QED
    BY <2>5, <2>6
<1> QED
  BY <1>4, <1>5

LEMMA WatcherFollows == RegistryInv => registry!WatcherFollowsService
<1> SUFFICES ASSUME RegistryInv, NEW p \in Path
             PROVE  \/ registry!Replaced(p)
                    \/ watch[p] = IF service[p] # None /\ registry!Resolves(service[p], active)
                                    THEN [service |-> service[p], profile |-> active] ELSE None
  BY DEF registry!WatcherFollowsService
<1>1. InOrder(registry!Now, p) \/ Odd(registry!Now, p, Loose)
  BY DEF RegistryInv, InForce
<1>2. CASE InOrder(registry!Now, p)
  BY <1>2, NowFields DEF InOrder, Wanted
<1>3. CASE Odd(registry!Now, p, Loose)
  BY <1>3, NowFields DEF Odd, Loose, registry!Replaced
<1> QED
  BY <1>1, <1>2, <1>3

LEMMA RegistryTyped == RegistryInv => registry!TypeOK
<1> SUFFICES ASSUME RegistryInv PROVE registry!TypeOK
  OBVIOUS
<1>1. /\ nodes \subseteq Steps /\ service \in [Path -> Services \union {None}]
      /\ watch \in [Path -> Watchers \union {None}] /\ active \in Profile \union {None}
  BY FittingFields, NowFields DEF RegistryInv, InForce
<1>2. service \in [Path -> registry!Service \union {None}]
  BY <1>1, ServiceFacts
<1>3. watch \in [Path -> registry!Watcher \union {None}]
  BY <1>1, ServiceFacts
<1>4. \A w \in Workspace : loaded[w] \subseteq registry!Configs
  BY ConfigFacts DEF RegistryInv, LoadedFits
<1>5. nodes \subseteq UNION {registry!Way(p) : p \in Path}
  BY <1>1 DEF Steps
<1> QED
  BY <1>1, <1>2, <1>3, <1>4, <1>5 DEF registry!TypeOK, RegistryInv, Asked

LEMMA RegistryFollows == RegistryInv => RegistryFollowsConfig
BY LookupFollows, WatcherFollows DEF RegistryFollowsConfig, registry!RegistryFollowsConfig

LEMMA RegistryPart ==
  /\ MCInit => registry!Init
  /\ [MCNext]_<<part, vars, watcherVars, bridgeVars, registryVars>> =>
       [registry!Next]_registryVars
BY DEF MCInit, MCNext

LEMMA RegistryInvariance == MCSpec => []RegistryInv
BY RegistryPart, RegistryStart, RegistryStep, PTL DEF MCSpec

\* A path is served by the connection of the nearest folder that the configurations in force
\* name, and a folder watched while its service's configuration fits the active profile
\* (serviceManager, fileWatcher.ts).
THEOREM ConfigFollowed == MCSpec => []RegistryFollowsConfig
BY RegistryInvariance, RegistryFollows, PTL
-------------------------------------------------------------------------------
(* The types of what moves                                                  *)

\* What the watcher and the bridge keep besides what their invariants speak of.
Watching ==
  /\ watched \in [on : BOOLEAN, count : 1..MaxStart]
  /\ events \subseteq {"change", "delete"} /\ queued \subseteq {"upload", "delete"}
  /\ held \in BOOLEAN /\ excused \subseteq Edit
Ending == aborted \in BOOLEAN /\ gone \in BOOLEAN

\* Another watcher is created only while the bound allows.
LEMMA StartFits ==
  ASSUME Watching, watcher!MayStart
  PROVE  watched.count + 1 \in 1..MaxStart
<1> DEFINE begun == {d \in Task : stage[d] # "new"}
<1>1. watcher!Cardinality(begun) = Cardinality(begun)
  BY DEF watcher!Cardinality, Cardinality
<1>2. Cardinality(begun) \in Nat
  BY WriterAssumption, FS_Subset, FS_CardinalityType
<1>3. watched.count + watcher!Cardinality(begun) < MaxStart
  BY DEF watcher!MayStart
<1>4. watched.count \in 1..MaxStart /\ MaxStart \in Nat
  BY WriterAssumption DEF Watching
<1> HIDE DEF begun
<1> QED
  BY <1>1, <1>2, <1>3, <1>4

LEMMA WatchingInit == watcher!Init => Watching
<1> SUFFICES ASSUME watcher!Init PROVE Watching
  OBVIOUS
<1>1. 1 \in 1..MaxStart
  BY WriterAssumption
<1>2. watched = [on |-> TRUE, count |-> 1] /\ held = FALSE
      /\ events = {} /\ queued = {} /\ excused = {}
  BY DEF watcher!Init
<1>3. watched \in [on : BOOLEAN, count : 1..MaxStart]
  BY <1>1, <1>2
<1> QED
  BY <1>2, <1>3 DEF Watching

LEMMA WatchingStep == ASSUME Watching, [watcher!Next]_watcherVars PROVE Watching'
<1> USE DEF Watching, watcher!queues, watcher!marks, watcher!commits, watcher!Excuse
<1>1. CASE UNCHANGED watcherVars
  BY <1>1 DEF watcherVars
<1>2. ASSUME NEW d \in Task, watcher!Committing(d) PROVE Watching'
  BY <1>2 DEF watcher!Committing, watcher!Claim, watcher!Turn, watcher!Commit, watcher!FailCommit,
     watcher!Write
<1>3. ASSUME NEW e \in Edit, watcher!Change(e) \/ watcher!Save(e) PROVE Watching'
  BY <1>3 DEF watcher!Change, watcher!Save
<1>4. CASE watcher!Sweep \/ watcher!Delete
  BY <1>4 DEF watcher!Sweep, watcher!Delete
<1>5. CASE watcher!Hold
  BY <1>5 DEF watcher!Hold
<1>6. CASE watcher!RemoveWatcher
  BY <1>6 DEF watcher!RemoveWatcher
<1>7. CASE watcher!CreateWatcher
  <2>1. watched.count + 1 \in 1..MaxStart
    BY <1>7, StartFits DEF watcher!CreateWatcher
  <2> QED
    BY <1>7, <2>1 DEF watcher!CreateWatcher
<1>8. CASE watcher!ReportChange \/ watcher!ReportDelete
  BY <1>8 DEF watcher!ReportChange, watcher!ReportDelete
<1>9. CASE watcher!Take
  BY <1>9 DEF watcher!Take
<1>10. CASE watcher!LookUp
  BY <1>10 DEF watcher!LookUp, watcher!Dispatch
<1>11. CASE watcher!Read \/ watcher!TakeDelete
  BY <1>11 DEF watcher!Read, watcher!TakeDelete
<1>12. CASE watcher!Compare
  BY <1>12 DEF watcher!Compare, watcher!Dispatch
<1> QED
  BY <1>1, <1>2, <1>3, <1>4, <1>5, <1>6, <1>7, <1>8, <1>9, <1>10, <1>11, <1>12
     DEF watcher!Next, watcher!Watching

LEMMA EndingInit == bridge!Init => Ending
BY DEF bridge!Init, Ending

LEMMA EndingStep == ASSUME Ending, [bridge!Next]_bridgeVars PROVE Ending'
<1> USE DEF Ending
<1>1. CASE bridge!Dispose \/ bridge!EndProcess \/ UNCHANGED bridgeVars
  BY <1>1 DEF bridge!Dispose, bridge!EndProcess, bridgeVars
<1>2. ASSUME NEW j \in Task, NEW f \in File, bridge!Handle(j, f) PROVE Ending'
  BY <1>2 DEF bridge!Handle, bridge!Begin, bridge!Refuse, bridge!CancelRest, bridge!MeetConflict,
     bridge!Transfer, bridge!Finish
<1>3. ASSUME NEW j \in Task,
             \/ bridge!Submit(j) \/ bridge!Answer(j) \/ bridge!Accept(j) \/ bridge!Ignore(j)
             \/ bridge!SaveThenFail(j) \/ bridge!Terminate(j) \/ bridge!GiveUp(j)
      PROVE  Ending'
  BY <1>3 DEF bridge!Submit, bridge!Answer, bridge!Accept, bridge!Ignore, bridge!SaveThenFail,
     bridge!Terminate, bridge!GiveUp
<1> QED
  BY <1>1, <1>2, <1>3 DEF bridge!Next

LEMMA WatcherTyped == ClaimInv /\ Watching => watcher!TypeOK
BY DEF ClaimInv, ClaimTypes, Watching, watcher!TypeOK, watcher!Contents

\* A job is in the queue once, and at most one file is being uploaded.
LEMMA BridgeTyped == BridgeInv /\ Ending => bridge!TypeOK
<1> SUFFICES ASSUME BridgeInv, Ending PROVE bridge!TypeOK
  OBVIOUS
<1>1. queue \in Seq(Task) /\ Len(queue) \in Nat
  BY DEF BridgeInv, BridgeTypes
<1>2. \A S : bridge!Cardinality(S) = Cardinality(S)
  BY DEF bridge!Cardinality, Cardinality
<1>3. Len(queue) <= Cardinality(Task)
  <2> DEFINE I == 1..Len(queue)
  <2>1. queue \in Injection(I, Task)
    BY <1>1 DEF Injection, IsInjective, BridgeInv, Queued
  <2>2. IsFiniteSet(I) /\ Cardinality(I) = Len(queue)
    <3>1. Cardinality(I) = IF 1 > Len(queue) THEN 0 ELSE Len(queue) - 1 + 1
      BY <1>1, FS_Interval
    <3> QED
      BY <1>1, <3>1, FS_Interval
  <2>3. Cardinality(I) <= Cardinality(Task)
    BY <2>1, WriterAssumption, FS_Injection
  <2> QED
    BY <2>2, <2>3
<1>4. Cardinality(running) <= 1
  <2>1. CASE running = {}
    BY <2>1, FS_EmptySet
  <2>2. CASE running # {}
    <3>1. PICK f : f \in running
      BY <2>2
    <3>2. running = {f}
      BY <3>1 DEF BridgeInv, BridgeTypes
    <3> QED
      BY <3>2, FS_Singleton
  <2> QED
    BY <2>1, <2>2
<1>5. {aborted, gone} \subseteq BOOLEAN
  BY DEF Ending
<1> QED
  BY <1>1, <1>2, <1>3, <1>4, <1>5 DEF BridgeInv, BridgeTypes, bridge!TypeOK

\* The part that moves, and every other, keeps its variables in their types (transferTask.ts,
\* fileWatcher.ts, uploadBridge.ts, serviceManager).
THEOREM FileTyped == MCSpec => []FileTypeOK
<1> DEFINE all == <<part, vars, watcherVars, bridgeVars, registryVars>>
           Typed == TypeOK /\ ClaimInv /\ Watching /\ BridgeInv /\ Ending
<1>1. MCInit => Typed
  BY TypeInit, Parts, ClaimInit, WatchingInit, BridgeInit, EndingInit DEF MCInit
<1>2. Typed /\ [MCNext]_all => Typed'
  <2> SUFFICES ASSUME Typed, [MCNext]_all PROVE Typed'
    OBVIOUS
  <2>1. [Next]_vars
    BY DEF MCNext
  <2>2. [watcher!Next]_watcherVars /\ [bridge!Next]_bridgeVars
    BY Parts
  <2>3. TypeOK'
    BY <2>1, TypeStep
  <2>4. ClaimInv' /\ Watching'
    BY <2>2, WatcherStep, WatchingStep
  <2>5. BridgeInv' /\ Ending'
    BY <2>2, BridgeStep, EndingStep
  <2> QED
    BY <2>3, <2>4, <2>5
<1>3. Typed /\ RegistryInv => FileTypeOK
  <2> SUFFICES ASSUME Typed, RegistryInv PROVE FileTypeOK
    OBVIOUS
  <2> QED
    BY WatcherTyped, BridgeTyped, RegistryTyped DEF FileTypeOK
<1> QED
  BY <1>1, <1>2, <1>3, RegistryInvariance, PTL DEF MCSpec
================================================================================
