-------------------------------- MODULE SyncPlan --------------------------------
(***************************************************************************)
(* What a folder sync does to two trees (sync and _sync of transfer.ts):   *)
(* directory by directory it compares the listings, removes what only the  *)
(* destination has and collects transfers, which run afterwards.  A sync   *)
(* that fails is started again, by a retry or by the user.  Contents of    *)
(* one size and second are one content: the code cannot tell them apart.   *)
(***************************************************************************)
EXTENDS Integers, FiniteSets

CONSTANTS
  Path, Root, Parent, \* the paths below the folder Root, and the directory each is in
  Above,              \* all the directories below Root that each path is in
  Time, Size,         \* times of the files found, 0 where it is unknown, and sizes above 0
  Now                 \* the time of what is written, later than all of them

VARIABLES
  tree,    \* what is at every path of a side
  option,  \* the direction and options of the sync
  phase,   \* whether a sync runs, failed or is done
  scan,    \* directories still to be compared or copied
  tasks,   \* the transfers collected: a path and the side it goes to
  before,  \* the trees when the sync was first started
  broken   \* the paths that a failure left as no later sync repairs them

vars == <<tree, option, phase, scan, tasks, before, broken>>

Side == {"local", "remote"}
Other(s) == CHOOSE o \in Side : o # s
Missing == [kind |-> "none", time |-> 0, size |-> 0]
Dir == [Missing EXCEPT !.kind = "dir"]
FileOf(t, n) == [kind |-> "file", time |-> t, size |-> n]
Files == {FileOf(t, n) : t \in Time \union {Now}, n \in Size \union {0}}
Entry == {Missing, Dir} \union Files
Option == [from : Side, both : BOOLEAN, update : BOOLEAN, delete : BOOLEAN,
           skipCreate : BOOLEAN, ignoreExisting : BOOLEAN, keeps : BOOLEAN]
Children(d) == {p \in Path : Parent[p] = d}

Upto(p) == Above[p] \union {p}

\* What the constants have to be. Above has what every set has that is closed under Parent,
\* and leads from each path to the folder that is synced.
Climbs(S, p) == {Parent[q] : q \in S \union {p}} \subseteq S \union {Root}
PlanAssumption ==
  /\ Root \notin Path /\ Parent \in [Path -> Path \union {Root}]
  /\ Above = [p \in Path |-> {q \in Path : \A S \in SUBSET Path : Climbs(S, p) => q \in S}]
  /\ \A p \in Path : p \notin Above[p] /\ \E q \in Upto(p) : Parent[q] = Root
  /\ Time \subseteq Nat /\ Size \subseteq Nat \ {0} /\ Now \in Nat /\ \A t \in Time : t < Now

\* What a file system can hold.
IsTree(t) == \A p \in Path : t[p] # Missing => \A q \in Above[p] : t[q] = Dir

Found == {Missing, Dir} \union {FileOf(t, n) : t \in Time, n \in Size}
Trees == {t \in [Path -> Found] : IsTree(t)}

TypeOK ==
  /\ tree \in [Side -> [Path -> Entry]] /\ before \in [Side -> [Path -> Entry]]
  /\ \A s \in Side : IsTree(tree[s])
  /\ option \in Option /\ phase \in {"sync", "failed", "done"}
  /\ scan \subseteq [dir : Path \union {Root}, how : {"sync", "copy"}, to : Side]
  /\ tasks \subseteq [path : Path, to : Side] /\ broken \subseteq Path

Whole == {[dir |-> Root, how |-> "sync", to |-> Other(option.from)]}
Start == phase = "sync" /\ scan = Whole /\ tasks = {}

\* The local modification time is always known. Sync Both Directions starts from the local
\* side and has no use for `delete'.
Init ==
  /\ option \in Option /\ (option.both => option.from = "local" /\ ~option.delete)
  /\ tree \in [Side -> Trees]
  /\ \A p \in Path : tree["local"][p].kind = "file" => tree["local"][p].time > 0
  /\ Start /\ before = tree /\ broken = {}

-------------------------------------------------------------------------------
\* The decision about a file that both sides have: where the newer one goes, and whether
\* it goes there at all.
Receiver(p) ==
  IF option.both /\ tree[Other(option.from)][p].time > tree[option.from][p].time
    THEN option.from ELSE Other(option.from)
Modified(a, b) == a.time # b.time \/ a.size # b.size
\* Mutant: times that are equal leave it to the sizes.
NewerOrOther(a, b) ==
  IF a.time > 0 /\ b.time > 0 /\ a.time # b.time THEN a.time > b.time ELSE a.size # b.size
Newer(a, b) == IF a.time > 0 /\ b.time > 0 THEN a.time > b.time ELSE a.size # b.size
Wanted(a, b) == (option.update => Newer(a, b)) /\ Modified(a, b)
Changed(p) ==
  LET to == Receiver(p) IN
  tree[option.from][p].kind = "file" /\ Wanted(tree[Other(to)][p], tree[to][p])

Common(d) == {p \in Children(d) : \A s \in Side : tree[s][p] # Missing}
Only(d, s) == {p \in Children(d) : tree[s][p] # Missing /\ tree[Other(s)][p] = Missing}
Compared(d) == IF option.ignoreExisting THEN {} ELSE Common(d)
Created(d, s) ==
  IF option.skipCreate \/ (s # option.from /\ ~option.both) THEN {} ELSE Only(d, s)
Missed(d) ==
  IF option.delete /\ ~option.both THEN Only(d, Other(option.from)) ELSE {}

Transfer(p, to) == [path |-> p, to |-> to]
Into(p, to, how) == [dir |-> p, how |-> how, to |-> to]
OfKind(set, s, k) == {p \in set : tree[s][p].kind = k}

\* ensureTargetDirectory fails on a file.
Enters(d, to) == d # Root => tree[to][d].kind # "file"
Cut(t, set) == [p \in Path |-> IF Upto(p) \intersect set # {} THEN Missing ELSE t[p]]

\* _sync of one directory.
Compare(e) ==
  LET d == e.dir   from == option.from   to == Other(from) IN
  /\ phase = "sync" /\ e \in scan /\ e.how = "sync" /\ Enters(d, to)
  /\ tree' = [tree EXCEPT ![to] = Cut(@, Missed(d))]
  /\ tasks' = tasks \union {Transfer(p, Receiver(p)) : p \in {q \in Compared(d) : Changed(q)}}
                    \union UNION {{Transfer(p, Other(s)) : p \in OfKind(Created(d, s), s, "file")}
                                    : s \in Side}
  /\ scan' = (scan \ {e})
       \union {Into(p, to, "sync") : p \in OfKind(Compared(d), from, "dir")}
       \union UNION {{Into(p, Other(s), "copy") : p \in OfKind(Created(d, s), s, "dir")}
                       : s \in Side}
  /\ UNCHANGED <<option, phase, before, broken>>

\* transferFolder: everything in it, whatever the options say.
CopyFolder(e) ==
  LET d == e.dir   to == e.to   s == Other(e.to) IN
  /\ phase = "sync" /\ e \in scan /\ e.how = "copy" /\ Enters(d, to)
  /\ tree' = [tree EXCEPT ![to][d] = Dir]
  /\ tasks' = tasks \union {Transfer(p, to) : p \in OfKind(Children(d), s, "file")}
  /\ scan' = (scan \ {e}) \union {Into(p, to, "copy") : p \in OfKind(Children(d), s, "dir")}
  /\ UNCHANGED <<option, phase, before, broken>>

\* A collected transfer runs once everything is collected. The time of the source is kept
\* where it is known and the file system can set it.
Landed(a) == [a EXCEPT !.time = IF option.keeps /\ @ > 0 THEN @ ELSE Now]
Run(t) ==
  LET a == tree[Other(t.to)][t.path] IN
  /\ phase = "sync" /\ scan = {} /\ t \in tasks
  /\ a.kind = "file" /\ tree[t.to][t.path].kind # "dir"
  /\ tree' = [tree EXCEPT ![t.to][t.path] = Landed(a)]
  /\ tasks' = tasks \ {t}
  /\ UNCHANGED <<option, phase, scan, before, broken>>

\* Anything may fail: the whole sync fails with it, and what was done stays done. With
\* ignoreExisting a folder that was created is passed over the next time, and with it
\* whatever had not been copied yet.
GiveUp(lost) ==
  /\ phase = "sync" /\ phase' = "failed" /\ scan' = {} /\ tasks' = {}
  /\ broken' = broken \union (IF option.ignoreExisting THEN Path ELSE lost)
  /\ UNCHANGED <<option, before>>
Fail == GiveUp({}) /\ UNCHANGED tree
\* An upload without a temporary file leaves a part of the content.
BreakOff(t) ==
  /\ scan = {} /\ t \in tasks /\ t.to = "remote" /\ GiveUp({t.path})
  /\ tree[t.to][t.path].kind # "dir"
  /\ tree' = [tree EXCEPT ![t.to][t.path] = FileOf(Now, 0)]

Finish == /\ phase = "sync" /\ scan = {} /\ tasks = {} /\ phase' = "done"
          /\ UNCHANGED <<tree, option, scan, tasks, before, broken>>

\* The same sync once more.
Again == /\ phase # "sync" /\ phase' = "sync" /\ scan' = Whole /\ tasks' = {}
         /\ UNCHANGED <<tree, option, before, broken>>

Next == \/ \E e \in scan : Compare(e) \/ CopyFolder(e)
        \/ \E t \in tasks : Run(t) \/ BreakOff(t)
        \/ Fail \/ Finish \/ Again
Spec == Init /\ [][Next]_vars

-------------------------------------------------------------------------------
\* The reference: what should be at a path of a side, from the trees found first.
Known(p) == \A s \in Side : before[s][p].time > 0
InCommon(p) == \A s \in Side : before[s][p] # Missing
Passed(p) == option.ignoreExisting /\ \E q \in Upto(p) : InCommon(q)
Newest(p) == IF before["remote"][p].time > before["local"][p].time
               THEN "remote" ELSE "local"
Kept(p) ==
  \/ Passed(p)
  \/ /\ option.update /\ InCommon(p) /\ Known(p)
     /\ before[option.from][p].time <= before[Other(option.from)][p].time
     /\ (option.both => before["local"][p].time = before["remote"][p].time)
Model(p, s) ==
  LET mine == before[s][p]   theirs == before[Other(s)][p] IN
  CASE mine # Missing /\ theirs # Missing ->
         IF Kept(p) THEN mine
         ELSE before[IF option.both THEN Newest(p) ELSE option.from][p]
    [] mine = Missing /\ theirs # Missing ->
         IF (s = option.from /\ ~option.both) \/ option.skipCreate \/ Passed(p)
           THEN Missing ELSE theirs
    [] OTHER ->
         IF s # option.from /\ option.delete /\ ~Passed(p) THEN Missing ELSE mine

\* A sync that ends without an error leaves both trees as its options say, however often
\* it failed half way and was started again, save where an upload in place was cut off
\* or, with ignoreExisting, a folder was left incomplete.
SyncConverges ==
  phase = "done" =>
    \A s \in Side, p \in Path \ broken :
      /\ tree[s][p].kind = Model(p, s).kind
      /\ tree[s][p].size = Model(p, s).size
===============================================================================
