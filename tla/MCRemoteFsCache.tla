---------------------------- MODULE MCRemoteFsCache ----------------------------
(***************************************************************************)
(* The connection of an endpoint and what runs over it: the cache of the   *)
(* connection, the SSH clients that make one, the commands that make many  *)
(* changes, the groups in which the activity view shows the work, and the  *)
(* tree of the remote explorer.  These share no state; a behaviour is one  *)
(* of `Part'.                                                              *)
(***************************************************************************)
EXTENDS RemoteFsCache, Sequences, FiniteSets, TLC

CONSTANTS
  Part, Dir, o1, o2, f1, f2, k1, k2, root, sub, leaf,
  Op, File, Files, Action, Roles, Keep,                     \* the activity view
  Length, Key, None, Shown, MaxAttempt,                     \* a chain of clients
  Path, Root, ParentOf, Folder, Profile, Fits, MaxChange, MaxAsk,  \* the remote explorer
  Name, Shape, Repository, Content, Staged, MaxFail         \* the changes of a command

ASSUME EndpointAssumption ==
  /\ IsFiniteSet(Op) /\ Action \subseteq File /\ Files \in [Op -> SUBSET File]
  /\ Roles \subseteq [Op -> {"background", "command"}]
  /\ Length \in Nat \ {0} /\ None \notin Key /\ Shown \subseteq [1..Length -> Key]
  /\ Root \in Folder /\ Folder \subseteq Path /\ ParentOf \in [Path \ {Root} -> Folder]
  /\ MaxAttempt \in Nat /\ MaxChange \in Nat /\ MaxAsk \in Nat

\* A tree of a server: what is in a folder has that folder.
IsTree(t) ==
  /\ IsFiniteSet(DOMAIN t) /\ DOMAIN t \subseteq Seq(Name) \ {<<>>}
  /\ \A p \in DOMAIN t : \A n \in 1..(Len(p) - 1) :
       SubSeq(p, 1, n) \in DOMAIN t /\ t[SubSeq(p, 1, n)] = Dir
\* No file of a repository is a folder of another.
ASSUME ChangesAssumption ==
  /\ \A t \in Shape : IsTree(t)
  /\ IsFiniteSet(Repository) /\ Repository \subseteq Seq(Name) \ {<<>>}
  /\ \A f \in Repository : \A n \in 1..(Len(f) - 1) : SubSeq(f, 1, n) \notin Repository
  /\ {0, 1} \subseteq Content /\ MaxFail \in Nat

VARIABLES
  part,
  role, command, groups, items, background, at, member, stopped, failed, work,
  order, replaces, files, reused, first, tree, plan, job, missing,
  attempt, cur, step, socket, told, hopping, hostKey, known, read, late, other, trusted,
  service, altered, untold, roots, nodes, failing, due, listings, asks, credit

activityVars == <<role, command, groups, items, background, at, member, stopped, failed, work>>
changesVars == <<order, replaces, files, reused, first, tree, plan, job, missing>>
clientsVars == <<attempt, cur, step, socket, told, hopping, hostKey, known, read, late,
                 other, trusted>>
explorerVars == <<service, altered, untold, roots, nodes, failing, due, listings, asks, credit>>

\* A folder in which two files of one name lie apart, and two paths of a nested folder.
Names == {"a", "b", "c", "k", "m", "n"}
Trees == {(<<"n">> :> Dir) @@ (<<"n", "b">> :> 1) @@ (<<"n", "k">> :> Dir)
          @@ (<<"n", "k", "c">> :> 2) @@ (<<"m">> :> Dir) @@ (<<"m", "b">> :> 3)}
Tracked == {<<"a">>, <<"n", "m", "b">>, <<"n", "m", "c">>}

\* Two operations that share a file, both of one command or both in the background, where
\* they may share a group or not.
Operations == {o1, o2}
Targets == {f1, f2}
TargetsOf == (o1 :> {f1, f2}) @@ (o2 :> {f1})
Runners == {[o \in Operations |-> by] : by \in {"background", "command"}}

\* The servers of an attempt show one key. A folder in a folder.
SameKey == {[c \in 1..3 |-> k] : k \in {k1, k2}}
Nested == (sub :> root) @@ (leaf :> sub)

activity == INSTANCE ActivityGroups
remote == INSTANCE RemoteChanges WITH
            File <- Repository, command <- order, work <- files, at <- job
clients == INSTANCE RemoteClients
explorer == INSTANCE RemoteExplorer WITH
              Parent <- ParentOf, items <- nodes, changes <- altered

\* Where another part is looked at, a part stays as it begins. One profile is active at first.
Still(S) == CHOOSE x \in S : TRUE
MCInit ==
  /\ part \in Part /\ Init
  /\ activity!Init
  /\ part # "activity" =>
       role = Still(Roles) /\ items = [g \in activity!Group |-> [f \in File |-> "none"]]
  /\ clients!Init
  /\ part # "clients" => trusted = {} /\ hostKey = Still(Shown)
  /\ remote!Init
  /\ part # "changes" => order = "drop" /\ plan = <<>> /\ ~replaces
  /\ explorer!Init
  /\ service.profile = Still(Profile)

MCNext ==
  \/ /\ part = "cache" /\ Next
     /\ UNCHANGED <<part, activityVars, changesVars, clientsVars, explorerVars>>
  \/ /\ part = "activity" /\ activity!Next
     /\ UNCHANGED <<part, vars, changesVars, clientsVars, explorerVars>>
  \/ /\ part = "changes" /\ remote!Next
     /\ UNCHANGED <<part, vars, activityVars, clientsVars, explorerVars>>
  \/ /\ part = "clients" /\ clients!Next
     /\ UNCHANGED <<part, vars, activityVars, changesVars, explorerVars>>
  \/ /\ part = "explorer" /\ explorer!Next
     /\ UNCHANGED <<part, vars, activityVars, changesVars, clientsVars>>

MCSpec ==
  MCInit /\ [][MCNext]_<<part, vars, activityVars, changesVars, clientsVars, explorerVars>>

\* The part that moves keeps its variables in their types: they stand for the connections, groups,
\* jobs, clients and items of remoteFs.ts, activity.ts, dragAndDrop.ts, sshClient.ts and
\* treeDataProvider.ts.
EndpointTypeOK == CASE part = "cache"    -> TypeOK
                    [] part = "activity" -> activity!TypeOK
                    [] part = "changes"  -> remote!TypeOK
                    [] part = "clients"  -> clients!TypeOK
                    [] OTHER             -> explorer!TypeOK

\* The activity view tells the truth about the work (activity.ts).
GroupsTellTruth == part = "activity" => activity!GroupsTellTruth
\* Upload Changed Files brings the server to the working tree (commandUploadChangedFiles.ts).
ChangedFilesArrive == part = "changes" => remote!ChangedFilesArrive
\* A drop in the remote explorer loses nothing (dragAndDrop.ts).
MovesKeepEverything == part = "changes" => remote!MovesKeepEverything
\* A failed attempt leaves nothing open, and no key is trusted unasked (sshClient.ts).
ChainIsSound == part = "clients" => clients!ChainIsSound
\* What the remote explorer shows is of the connection in force (treeDataProvider.ts).
TreeIsHonest == part = "explorer" => explorer!TreeIsHonest
===============================================================================
