---------------------------- MODULE ServiceRegistry ----------------------------
(***************************************************************************)
(* Which connection serves a local path, and which of them watch it: the   *)
(* trie of services (serviceManager), loaded from the sftp.json of every   *)
(* workspace folder at activation and again whenever it is saved, and the  *)
(* watchers, which follow the active profile.  A path is the sequence of   *)
(* its names.  No two configurations name one folder.                      *)
(***************************************************************************)
EXTENDS Naturals, FiniteSets, SequencesExt

CONSTANTS
  Workspace, Profile, None,
  Document,   \* what the sftp.json of a workspace folder may say: configurations in order
  Path,       \* the paths that are looked up, the folders of configurations among them
  MaxSave     \* bound: how often a configuration is saved

VARIABLES
  reads,      \* the documents that were read and not yet put into force
  saves,      \* the number of saves
  nodes,      \* the nodes of the trie below its root
  held,       \* the service at a node
  watch,      \* the watcher of a folder: its service and the profile it was made with
  active,     \* app.state.profile
  closed,     \* whether the extension was deactivated
  loaded,     \* the configurations put into force last
  broken      \* the folders the last loading of which failed half way

vars == <<reads, saves, nodes, held, watch, active, closed, loaded, broken>>

Configs == UNION {Range(d) : d \in UNION {Document[w] : w \in Workspace}}
Service == [workspace : Workspace, config : Configs]
Watcher == [service : Service, profile : Profile \union {None}]
Way(p) == Prefixes(p) \ {<<>>}
Base(s) == s.config.base

TypeOK ==
  /\ \A w \in Workspace : loaded[w] \subseteq Configs
  /\ \A r \in reads : r.workspace \in Workspace /\ r.document \in Document[r.workspace]
  /\ saves \in 0..MaxSave /\ nodes \subseteq UNION {Way(p) : p \in Path}
  /\ held \in [Path -> Service \union {None}] /\ watch \in [Path -> Watcher \union {None}]
  /\ active \in Profile \union {None} /\ closed \in BOOLEAN /\ broken \subseteq Workspace

\* activate: every folder's configuration is being read.
Init ==
  /\ reads \in {{[workspace |-> w, document |-> found[w], first |-> TRUE] : w \in Workspace} :
                  found \in {f \in [Workspace -> UNION {Document[w] : w \in Workspace}] :
                               \A w \in Workspace : f[w] \in Document[w]}}
  /\ saves = 0 /\ nodes = {} /\ held = [p \in Path |-> None] /\ watch = held
  /\ active = None /\ closed = FALSE
  /\ loaded = [w \in Workspace |-> {}] /\ broken = {}

-------------------------------------------------------------------------------
\* The trie. findPrefixNode goes down as long as there are nodes and remembers the last
\* service it met.
FindPrefix(p) ==
  LET way == {n \in Way(p) : Way(n) \subseteq nodes /\ n \in Path /\ held[n] # None} IN
  IF way = {} THEN None
  ELSE held[CHOOSE n \in way : \A o \in way : Len(o) <= Len(n)]

\* A state of the registry while configurations are put into force: `ok' is FALSE as
\* soon as an exception ends it.
Now == [nodes |-> nodes, held |-> held, watch |-> watch, active |-> active, ok |-> TRUE]

Add(st, s) == [st EXCEPT !.nodes = @ \union Way(Base(s)), !.held[Base(s)] = s]

\* remove: the nodes on the way up that have neither a service nor another child go.
\* Mutant: a service on the way up goes with the nodes.
PrunedLoaded(st, path) ==
  {n \in Way(path) : \A o \in st.nodes : IsPrefix(n, o) => IsPrefix(o, path)}
Pruned(st, path) ==
  {n \in Way(path) : \A o \in st.nodes :
      IsPrefix(n, o) => IsPrefix(o, path) /\ (o \in Path => st.held[o] = None)}
Take(st, path) ==
  LET cleared == [st EXCEPT !.held[path] = None] IN
  IF path \in st.nodes THEN [cleared EXCEPT !.nodes = @ \ Pruned(cleared, path)] ELSE st

\* getConfig throws if the service has profiles and the active one is not among them.
Resolves(s, profile) ==
  s.config.profiles = {} \/ profile = None \/ profile \in s.config.profiles

\* createWatcher, which removes the old one, and removeWatcher.
Watched(st, s) ==
  [st EXCEPT !.watch[Base(s)] = [service |-> s, profile |-> st.active]]
Unwatched(st, s) == [st EXCEPT !.watch[Base(s)] = None]

\* Another active profile: every service makes its watcher anew, if it has the profile.
Switched(st, profile) ==
  IF profile = st.active THEN st
  ELSE [st EXCEPT !.active = profile,
                  !.watch = [p \in Path |->
                     IF st.held[p] = None THEN st.watch[p]
                     ELSE IF Resolves(st.held[p], profile)
                       THEN [service |-> st.held[p], profile |-> profile] ELSE None]]

\* createFileService.
Created(st, s) ==
  LET profiled == IF s.config.default = None THEN st ELSE Switched(st, s.config.default)
      added == Add(profiled, s) IN
  IF ~st.ok THEN st
  ELSE IF Resolves(s, added.active) THEN Watched(added, s)
  ELSE [added EXCEPT !.ok = FALSE]

\* disposeFileService: closing the connection needs the configuration, after the trie and
\* the watcher have been seen to.
Disposed(st, s) ==
  IF st.ok THEN [Unwatched(Take(st, Base(s)), s) EXCEPT !.ok = Resolves(s, st.active)]
           ELSE st

\* One service after the other.
AllCreated(st, new) ==
  LET after[i \in 0..Len(new)] == IF i = 0 THEN st ELSE Created(after[i - 1], new[i]) IN
  after[Len(new)]
AllDisposed(st, old) ==
  LET after[i \in 0..Len(old)] == IF i = 0 THEN st ELSE Disposed(after[i - 1], old[i]) IN
  after[Len(old)]

\* getAllValues.
ServicesOf(ws) == {held[p] : p \in {q \in Path : held[q] # None /\ held[q].workspace \in ws}}
Become(st) == /\ nodes' = st.nodes /\ held' = st.held /\ watch' = st.watch
              /\ active' = st.active

-------------------------------------------------------------------------------
\* The user saves a configuration; reading it takes its time, and a later save may be read
\* first.
Save(w) ==
  /\ ~closed /\ saves < MaxSave /\ saves' = saves + 1
  /\ \E document \in Document[w] :
       reads' = reads \union {[workspace |-> w, document |-> document, first |-> FALSE]}
  /\ UNCHANGED <<nodes, held, watch, active, closed, loaded, broken>>

\* The configuration is no valid JSON, or does not validate.
Reject(r) == /\ r \in reads /\ reads' = reads \ {r}
             /\ UNCHANGED <<saves, nodes, held, watch, active, closed, loaded, broken>>

\* setupWorkspaceFolder, and handleConfigSave, which disposes of the folder's services
\* first: all at once, unless an exception ends it.
Configured(r) == [i \in 1..Len(r.document) |->
                    [workspace |-> r.workspace, config |-> r.document[i]]]
\* The first reading may come after a save: what the save brought stays beside it.
Unnamed(r, c) == \A d \in Range(r.document) : d.base # c.base
Load(r) ==
  LET w == r.workspace IN
  /\ ~closed /\ r \in reads /\ reads' = reads \ {r}
  /\ \E old \in SetToSeqs(IF r.first THEN {} ELSE ServicesOf({w})) :
       LET st == AllCreated(AllDisposed(Now, old), Configured(r)) IN
       /\ Become(st)
       /\ broken' = IF st.ok THEN (IF r.first THEN broken ELSE broken \ {w})
                             ELSE broken \union {w}
       /\ loaded' = [loaded EXCEPT ![w] =
                      Range(r.document) \union {c \in @ : r.first /\ Unnamed(r, c)}]
  /\ UNCHANGED <<saves, closed>>

\* Set Profile.
SetProfile(profile) ==
  /\ ~closed /\ profile # active /\ Become(Switched(Now, profile))
  /\ UNCHANGED <<reads, saves, closed, loaded, broken>>

Deactivate ==
  /\ ~closed /\ closed' = TRUE
  /\ \E all \in SetToSeqs(ServicesOf(Workspace)) : Become(AllDisposed(Now, all))
  /\ UNCHANGED <<reads, saves, loaded, broken>>

Next == \/ \E w \in Workspace : Save(w)
        \/ \E r \in reads : Load(r) \/ Reject(r)
        \/ \E profile \in Profile \union {None} : SetProfile(profile)
        \/ Deactivate
Spec == Init /\ [][Next]_vars

-------------------------------------------------------------------------------
\* A path is served by the connection of the nearest folder that the configurations in
\* force name, however folders nest and reloads, switches of the profile and failures
\* interleave: no service of a configuration that was replaced is met again, and none is
\* hidden by removing another, save for a workspace the loading of which failed.
Reference(p) == {s \in [workspace : Workspace \ broken, config : Configs] :
                   s.config \in loaded[s.workspace] /\ IsPrefix(Base(s), p)}
Nearest(p) == {s \in Reference(p) : \A o \in Reference(p) : Len(Base(o)) <= Len(Base(s))}
LookupFollowsConfig ==
  ~closed => \A p \in Path :
    LET found == FindPrefix(p) IN
    \/ found # None /\ found.workspace \in broken
    \/ IF Nearest(p) = {} THEN found = None ELSE found \in Nearest(p)

\* A folder is watched exactly while it has a service whose configuration the active
\* profile fits, by a watcher made from that configuration and that profile. A loading
\* that fails may leave the watcher of the service it replaced.
Replaced(p) == /\ held[p] # None /\ held[p].workspace \in broken
               /\ watch[p] # None /\ watch[p].service # held[p]
WatcherFollowsService ==
  \A p \in Path :
    \/ Replaced(p)
    \/ watch[p] = IF held[p] # None /\ Resolves(held[p], active)
                    THEN [service |-> held[p], profile |-> active] ELSE None

\* Both: what is looked up and what is watched are what the configurations in force say.
RegistryFollowsConfig == LookupFollowsConfig /\ WatcherFollowsService
===============================================================================
