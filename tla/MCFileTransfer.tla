---------------------------- MODULE MCFileTransfer -----------------------------
(***************************************************************************)
(* How one file gets to the other side: the tasks that transfer it, the    *)
(* watcher that uploads what changes, the uploads that an agent requests,  *)
(* and the services that say where a path belongs.                         *)
(* These share no state; a behaviour is one of `Part'.                     *)
(***************************************************************************)
EXTENDS TransferTask, Integers, Sequences, TLC

CONSTANTS
  Part, File, Edit, MaxStart,                              \* watchers and uploads
  Workspace, Profile, Document, Name, Path, MaxSave        \* the services

\* A content is known by who wrote it: a download or an edit, or nobody.
ASSUME WriterAssumption ==
  /\ None \notin Task \union Edit /\ "open" \notin Task \union {None}
  /\ Task \intersect Edit = {}
  /\ IsFiniteSet(Task) /\ MaxStart \in Nat \ {0}

VARIABLES
  part,
  file, watched, claim, prior, version, stage, events, queued, drain, held, sent,
  excused, released,
  request, seen, items, saved, queue, running, transferred, aborted, gone, told,
  reads, saves, nodes, service, watch, active, closed, loaded, unloaded

watcherVars == <<file, watched, claim, prior, version, stage, events, queued, drain, held,
                 sent, excused, released>>
bridgeVars == <<request, seen, items, saved, queue, running, transferred, aborted, gone, told>>
registryVars == <<reads, saves, nodes, service, watch, active, closed, loaded, unloaded>>

\* Two workspace folders, one within the other, and folders within them.
Outer == <<"p">>
Inner == <<"p", "q">>
Deep == <<"p", "q", "r">>
Beside == <<"p", "s">>
Config(base, profiles, default) ==
  [base |-> base, profiles |-> profiles, default |-> default]
Paths == {Outer, Inner, Deep, Beside}
Documents ==
  ("w1" :> {<<Config(Outer, {}, None)>>,
            <<Config(Outer, {"dev"}, None), Config(Deep, {}, None)>>,
            <<Config(Deep, {"dev", "prod"}, "dev")>>,
            <<>>}) @@
  ("w2" :> {<<Config(Inner, {"prod"}, None)>>,
            <<Config(Inner, {}, None), Config(Beside, {"prod"}, "prod")>>,
            <<>>})

watcher == INSTANCE WatcherClaims WITH
             Download <- Task
bridge == INSTANCE UploadBridge WITH Job <- Task
registry == INSTANCE ServiceRegistry WITH held <- service, broken <- unloaded

\* Configurations name folders that are looked up; no two of them, in one document or of two
\* workspaces, name the same.
ASSUME RegistryAssumption ==
  /\ IsFiniteSet(Path) /\ Path \subseteq Seq(Name) \ {<<>>} /\ MaxSave \in Nat
  /\ None \notin registry!Service \union registry!Watcher
  /\ \A w \in Workspace : \A d \in Document[w] :
       /\ d \in Seq([base : Path, profiles : SUBSET Profile, default : Profile \union {None}])
       /\ \A i, j \in DOMAIN d : d[i].base = d[j].base => i = j
       /\ \A v \in Workspace : \A e \in Document[v] :
            v # w => \A i \in DOMAIN d, j \in DOMAIN e : d[i].base # e[j].base

\* Where another part is looked at, a part stays as it begins.
MCInit ==
  /\ part \in Part
  /\ Init /\ (part # "task" => way = "atomic" /\ ~backup)
  /\ watcher!Init /\ bridge!Init
  /\ registry!Init /\ (part # "registry" => \A r \in reads : r.document = <<>>)

MCNext ==
  \/ /\ part = "task" /\ Next
     /\ UNCHANGED <<part, watcherVars, bridgeVars, registryVars>>
  \/ /\ part = "watcher" /\ watcher!Next
     /\ UNCHANGED <<part, vars, bridgeVars, registryVars>>
  \/ /\ part = "bridge" /\ bridge!Next
     /\ UNCHANGED <<part, vars, watcherVars, registryVars>>
  \/ /\ part = "registry" /\ registry!Next
     /\ UNCHANGED <<part, vars, watcherVars, bridgeVars>>

\* Where another part is looked at, no step of the watcher or the bridge that is fair is
\* ever enabled.
MCSpec ==
  /\ MCInit
  /\ [][MCNext]_<<part, vars, watcherVars, bridgeVars, registryVars>>
  /\ watcher!Fairness /\ bridge!Fairness

\* The part that moves keeps its variables in their types: they stand for tasks, claims,
\* results and services of transferTask.ts, fileWatcher.ts, uploadBridge.ts
\* and serviceManager.
FileTypeOK == CASE part = "task"    -> TypeOK
                [] part = "watcher" -> watcher!TypeOK
                [] part = "bridge"  -> bridge!TypeOK
                [] OTHER            -> registry!TypeOK

\* What a download wrote is not uploaded again (watcherSuppression.ts).
NoEcho == watcher!NoEcho
\* A change by another program is uploaded (fileWatcher.ts).
EditUploaded == watcher!EditUploaded
\* An agent is told what was uploaded, no more and no less (uploadBridge.ts).
ReportsTruth == bridge!ReportsTruth
\* What was accepted is worked off (uploadBridge.ts).
AcceptedEnds == bridge!AcceptedEnds
\* A path is served, and a folder watched, as the configurations in force say
\* (serviceManager, fileWatcher.ts).
RegistryFollowsConfig == part = "registry" => registry!RegistryFollowsConfig
===============================================================================
