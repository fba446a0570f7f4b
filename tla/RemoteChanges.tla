----------------------------- MODULE RemoteChanges -----------------------------
(***************************************************************************)
(* Commands that make many changes on the server: Upload Changed Files     *)
(* (commandUploadChangedFiles.ts) brings it from the last commit to the    *)
(* working tree, and a drop in the remote explorer (dragAndDrop.ts) moves  *)
(* what was dragged.  Both run jobs, each of several requests: an upload   *)
(* and a rename make the missing directories first (ensureDir).            *)
(*                                                                         *)
(* A path is the sequence of its names; the server's tree maps what exists *)
(* to Dir or to what a file holds.                                         *)
(***************************************************************************)
EXTENDS Naturals, FiniteSets, SequencesExt

CONSTANTS
  Dir,
  File,      \* the paths that the repository knows
  Shape,     \* the trees in which something is dragged
  Content,   \* what a file of the repository holds, 0: it is not there
  Staged,    \* what the index may hold
  MaxFail    \* bound: requests that fail for no reason of the model

VARIABLES
  command,   \* "git" or "drop"
  replaces,  \* the server's rename replaces a file
  work,      \* the working tree
  reused,    \* names that were staged as deleted or renamed, and are there again
  first,     \* the server's tree at the beginning
  tree,      \* the server's tree
  plan,      \* the groups of jobs that are left, one after the other
  at,        \* where a job is
  missing    \* the directories that a job is about to make

vars == <<command, replaces, work, reused, first, tree, plan, at, missing>>

Parent(p) == Front(p)
Under(p, dir) == IsPrefix(dir, p)
Exists(p) == p = <<>> \/ p \in DOMAIN tree
IsDir(p) == p = <<>> \/ (p \in DOMAIN tree /\ tree[p] = Dir)
Held(t) == {t[p] : p \in DOMAIN t} \ {Dir}
With(t, p, value) == [q \in DOMAIN t \union {p} |-> IF q = p THEN value ELSE t[q]]
Without(t, p) == [q \in {r \in DOMAIN t : ~Under(r, p)} |-> t[q]]

Job(kind, side, path, to) == [kind |-> kind, side |-> side, path |-> path, to |-> to]
Upload(side, p) == Job("upload", side, p, p)
Rename(side, p, q) == Job("rename", side, p, q)
Delete(side, p) == Job("delete", side, p, p)

\* Where a job begins. What is no longer in the working tree fails at once.
Begin(j, wt) ==
  CASE j.kind = "upload" -> IF wt[j.path] = 0 THEN "act" ELSE "ensure"
    [] j.kind = "rename" -> IF Parent(j.path) = Parent(j.to) THEN "look" ELSE "ensure"
    [] OTHER             -> "act"
Jobs == DOMAIN at

-------------------------------------------------------------------------------
(* Upload Changed Files                                                     *)

\* What git says of the index: a deleted and an added file of one content are a rename.
RenamesOf(head, index) ==
  {r \in File \X File : /\ head[r[1]] # 0 /\ index[r[1]] = 0
                        /\ head[r[2]] = 0 /\ index[r[2]] = head[r[1]]}
\* The ways to tell renames: each file in one pair, as many as there can be.
Pairings(head, index) ==
  LET all == RenamesOf(head, index)
      apart(s) == \A r, q \in s : r # q => r[1] # q[1] /\ r[2] # q[2]
      sets == {s \in SUBSET all : apart(s)}
  IN {s \in sets : \A r \in all \ s : ~apart(s \union {r})}

UploadsOf(head, index, wt, pairs) ==
  {Upload("index", p) : p \in {f \in File : index[f] \notin {0, head[f]}
                                             /\ \A r \in pairs : r[2] # f}}
  \union {Upload("tree", p) : p \in {f \in File : wt[f] \notin {0, index[f]}}}
DeletesOf(head, index, wt, pairs) ==
  {Delete("index", p) : p \in {f \in File : head[f] # 0 /\ index[f] = 0
                                             /\ \A r \in pairs : r[1] # f}}
  \union {Delete("tree", p) : p \in {f \in File : index[f] # 0 /\ wt[f] = 0}}

\* Mutant: what was deleted is removed before what was renamed is moved.
PhasesDeletesFirst(uploads, renames, deletes) == <<uploads, deletes, renames>>
\* Each group is waited for, whatever failed in it.
Phases(uploads, renames, deletes) == <<uploads, renames, deletes>>

Committed(head) ==
  LET files == {f \in File : head[f] # 0}
      dirs == UNION {{SubSeq(f, 1, n) : n \in 1..(Len(f) - 1)} : f \in files}
  IN [p \in files \union dirs |-> IF p \in files THEN head[p] ELSE Dir]

InitGit ==
  /\ command = "git" /\ replaces = FALSE
  /\ \E head \in [File -> {0, 1}], index \in [File -> Staged], wt \in [File -> Content] :
       \E pairs \in Pairings(head, index) :
         LET uploads == UploadsOf(head, index, wt, pairs)
             renames == {Rename("index", r[1], r[2]) : r \in pairs}
             deletes == DeletesOf(head, index, wt, pairs)
             again == {f \in File : head[f] # 0 /\ index[f] = 0 /\ wt[f] # 0}
         IN /\ work = wt /\ tree = Committed(head) /\ first = tree
            /\ reused = again \union {r[2] : r \in {s \in pairs : s[1] \in again}}
            /\ plan = Phases(uploads, renames, deletes)
            /\ at = [j \in uploads \union renames \union deletes |-> Begin(j, wt)]

-------------------------------------------------------------------------------
(* Drag and drop                                                            *)

\* planMoves: nothing moves into itself, and what is within a folder that moves, moves
\* with it.
Rejected(sources, dir) == \E s \in sources : first[s] = Dir /\ Under(dir, s)
Outermost(sources) ==
  {s \in sources : \A o \in sources \ {s} : first[o] # Dir \/ ~Under(s, o)}
Moves(sources, dir) ==
  {Rename("drop", s, Append(dir, Last(s))) : s \in {o \in Outermost(sources) : Parent(o) # dir}}

\* Mutant: the moves are made at the same time.
InTurnTogether(moves) == {<<moves>>}
\* One after the other, in the order of the selection.
InTurn(moves) == {[n \in DOMAIN s |-> {s[n]}] : s \in SetToSeqs(moves)}

InitDrop ==
  /\ command = "drop" /\ replaces \in BOOLEAN
  /\ work = [f \in File |-> 0] /\ reused = {}
  /\ first \in Shape /\ tree = first
  /\ \E sources \in SUBSET DOMAIN first, onto \in DOMAIN first \union {<<>>} :
       LET dir == IF onto # <<>> /\ first[onto] # Dir THEN Parent(onto) ELSE onto
           moves == IF Rejected(sources, dir) THEN {} ELSE Moves(sources, dir)
       IN plan \in InTurn(moves) /\ at = [j \in moves |-> Begin(j, work)]

Init ==
  /\ InitGit \/ InitDrop
  /\ missing = [j \in Jobs |->
       IF at[j] # "ensure" \/ Parent(j.to) = <<>> THEN <<>>
       ELSE <<[dir |-> Parent(j.to), again |-> FALSE]>>]

-------------------------------------------------------------------------------
(* The requests of a job                                                    *)

Settled(j) == at[j] \in {"done", "gone", "refused"}
Go(j, place) == at' = [at EXCEPT ![j] = place]
Unchanged == UNCHANGED <<command, replaces, work, reused, first, plan>>

\* ensureDir: what has no parent is made once more after its parent, and then nothing
\* asks whether somebody else made it.
EnsureDir(j) ==
  /\ at[j] = "ensure" /\ missing[j] # <<>>
  /\ LET frame == Last(missing[j])
         above == Parent(frame.dir)
         rest == Front(missing[j])
     IN CASE ~Exists(frame.dir) /\ IsDir(above) ->
               /\ tree' = With(tree, frame.dir, Dir)
               /\ missing' = [missing EXCEPT ![j] = rest] /\ UNCHANGED at
          [] ~Exists(above) /\ ~frame.again ->
               /\ missing' = [missing EXCEPT ![j] =
                    rest \o <<[frame EXCEPT !.again = TRUE], [dir |-> above, again |-> FALSE]>>]
               /\ UNCHANGED <<tree, at>>
          [] IsDir(frame.dir) /\ ~frame.again ->
               missing' = [missing EXCEPT ![j] = rest] /\ UNCHANGED <<tree, at>>
          [] OTHER -> Go(j, "refused") /\ UNCHANGED <<tree, missing>>
  /\ Unchanged

Ensured(j) ==
  /\ at[j] = "ensure" /\ missing[j] = <<>>
  /\ Go(j, IF j.kind = "rename" THEN "look" ELSE "act")
  /\ Unchanged /\ UNCHANGED <<tree, missing>>

\* renameRemote does not replace what it sees.
Look(j) ==
  /\ at[j] = "look" /\ Go(j, IF Exists(j.to) THEN "refused" ELSE "act")
  /\ Unchanged /\ UNCHANGED <<tree, missing>>

Put(j) ==
  /\ j.kind = "upload" /\ at[j] = "act"
  /\ IF work[j.path] = 0 THEN Go(j, "gone") /\ UNCHANGED tree
     ELSE tree' = With(tree, j.path, work[j.path]) /\ Go(j, "done")
  /\ Unchanged /\ UNCHANGED missing

Moved(t, from, to) ==
  LET rest(p) == SubSeq(p, Len(from) + 1, Len(p))
      into == {to \o rest(p) : p \in {q \in DOMAIN t : Under(q, from)}}
      kept == DOMAIN Without(t, from)
  IN [p \in kept \union into |->
        IF p \in into THEN t[from \o SubSeq(p, Len(to) + 1, Len(p))] ELSE t[p]]
Replaceable(j) == replaces /\ ~IsDir(j.to) /\ ~IsDir(j.path)

Move(j) ==
  /\ j.kind = "rename" /\ at[j] = "act"
  /\ CASE ~Exists(j.path) -> Go(j, "gone") /\ UNCHANGED tree
       [] Exists(j.path) /\ Exists(j.to) /\ ~Replaceable(j) ->
            Go(j, "refused") /\ UNCHANGED tree
       [] OTHER -> tree' = Moved(tree, j.path, j.to) /\ Go(j, "done")
  /\ Unchanged /\ UNCHANGED missing

Erase(j) ==
  /\ j.kind = "delete" /\ at[j] = "act"
  /\ IF Exists(j.path) THEN tree' = Without(tree, j.path) /\ Go(j, "done")
     ELSE Go(j, "gone") /\ UNCHANGED tree
  /\ Unchanged /\ UNCHANGED missing

\* The server refuses a request, or the connection is lost.
Fail(j) ==
  /\ ~Settled(j) /\ Cardinality({i \in Jobs : at[i] = "refused"}) < MaxFail
  /\ Go(j, "refused") /\ Unchanged /\ UNCHANGED <<tree, missing>>

\* A failure is logged or reported, and the next group begins all the same.
Proceed ==
  /\ plan # <<>> /\ \A j \in Head(plan) : Settled(j)
  /\ plan' = Tail(plan)
  /\ UNCHANGED <<command, replaces, work, reused, first, tree, at, missing>>

Step(j) == EnsureDir(j) \/ Ensured(j) \/ Look(j) \/ Put(j) \/ Move(j) \/ Erase(j) \/ Fail(j)
Next == Proceed \/ (plan # <<>> /\ \E j \in Head(plan) : Step(j))
Spec == Init /\ [][Next]_vars

-------------------------------------------------------------------------------
TypeOK ==
  /\ command \in {"git", "drop"} /\ replaces \in BOOLEAN
  /\ work \in [File -> Content] /\ reused \subseteq File
  /\ \A p \in DOMAIN tree : tree[p] = Dir \/ tree[p] \in Held(first) \union Content
  /\ \A p \in DOMAIN tree : IsDir(Parent(p))
  /\ \A j \in Jobs : at[j] \in {"ensure", "look", "act", "done", "gone", "refused"}
  /\ DOMAIN missing = Jobs

\* When Upload Changed Files is over, the server has every changed file as the working tree
\* has it, whatever was staged and changed again since; what the server refused, and a name
\* that was staged as gone and is there again, are not promised
\* (commandUploadChangedFiles.ts, the order of its groups).
ChangedFilesArrive ==
  command = "git" /\ plan = <<>> =>
    \A f \in File \ reused :
      \/ \E j \in Jobs : at[j] = "refused" /\ f \in {j.path, j.to}
      \/ IF work[f] = 0 THEN ~Exists(f) ELSE Exists(f) /\ tree[f] = work[f]

\* A drop loses nothing: whatever is selected, within other selected folders or under equal
\* names, and wherever a move fails, each file is on the server all the time
\* (planMoves, renameRemote, the order of the moves).
MovesKeepEverything == command = "drop" => Held(tree) = Held(first)
===============================================================================
