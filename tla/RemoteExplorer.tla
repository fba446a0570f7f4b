----------------------------- MODULE RemoteExplorer -----------------------------
(***************************************************************************)
(* The tree of the remote explorer: modules/remoteExplorer.  It keeps its  *)
(* roots, the items it has shown and the folders it could not read; the    *)
(* editor asks for the children of a folder after every event, and events  *)
(* of one folder that wait come to one question.  Reading a folder takes   *)
(* its time, while configurations are saved, profiles are switched, and    *)
(* commands change the server and refresh the tree.  One service stands    *)
(* for them all; a saved configuration replaces it by a new one.           *)
(***************************************************************************)
EXTENDS Naturals, Integers

CONSTANTS
  Path, Root, \* what the tree may show of the server
  Parent,     \* the folder that a path is in
  Folder,     \* the folders among the paths
  Profile,
  Fits,       \* the profiles that the configuration knows
  MaxChange,  \* bound: configurations saved and profiles set
  MaxAsk      \* bound: refreshes

VARIABLES
  service,    \* the service in force and the active profile; id 0: there is none
  changes,    \* configurations saved and profiles set
  untold,     \* saved configurations that the tree has not been told of yet
  roots,      \* _roots: how often they were made, and of what service and profile
  items,      \* _map: items and the connection that their listing came from
  failing,    \* _listingFailures
  due,        \* the folders that the editor is about to ask for
  listings,   \* folders that are being read
  asks,       \* refreshes
  credit      \* how often a folder was expanded, refreshed or renamed, less how often it was read

vars == <<service, changes, untold, roots, items, failing, due, listings, asks, credit>>

Item(id, p) == [id |-> id, path |-> p]
Below(p, q) == q = p \/ (q # Root /\ Parent[q] = p) \/ p = Root
From(r) == [id |-> r.id, profile |-> r.profile]

TypeOK ==
  /\ service \in [id : 0..(MaxChange + 1), profile : Profile]
  /\ changes \in 0..MaxChange /\ untold \in 0..MaxChange
  /\ roots \in [built : BOOLEAN, made : Nat, id : 0..(MaxChange + 1), profile : Profile]
  /\ \A i \in items : i.path \in Path /\ i.id \in 0..(MaxChange + 1)
  /\ failing \subseteq [id : 0..(MaxChange + 1), path : Folder]
  /\ due \subseteq [id : 0..(MaxChange + 1), path : Folder]
  /\ \A l \in listings : l.path \in Folder /\ l.made <= roots.made
  /\ asks \in 0..MaxAsk /\ \A f \in Folder : credit[f] \in Int

\* _getRoots. The configuration of a service that does not know the active profile throws,
\* and the roots stay without it.
Unbuilt == [roots EXCEPT !.built = FALSE]
Built == IF roots.built THEN roots
         ELSE [built |-> TRUE, made |-> roots.made + 1, profile |-> service.profile,
               id |-> IF service.profile \in Fits THEN service.id ELSE 0]
\* With the roots comes a new map: the roots themselves are not among its items here.
Cached == IF roots.built THEN items ELSE {}
FindRoot(id) == id # 0 /\ Built.id = id

Init ==
  /\ \E profile \in Profile : service = [id |-> 1, profile |-> profile]
  /\ roots = [built |-> FALSE, made |-> 0, id |-> 0, profile |-> service.profile]
  /\ changes = 0 /\ untold = 0 /\ items = {} /\ failing = {} /\ due = {} /\ listings = {}
  /\ asks = 0 /\ credit = [f \in Folder |-> 0]

-------------------------------------------------------------------------------
(* Refreshing                                                               *)

\* refresh of everything: the editor asks for the roots and for the folders that are open.
Everything ==
  /\ roots' = Unbuilt /\ failing' = {}
  /\ \E open \in SUBSET Folder : due' = [id : {service'.id} \ {0}, path : open]
  /\ credit' = [f \in Folder |-> credit[f] + 1]
  /\ UNCHANGED <<items, listings>>

\* refresh of folders; that of a service that is gone refreshes everything.
RefreshFolders(id, folders, kept, failures) ==
  LET refreshed == {Item(id, f) : f \in folders}
      again == folders \union {i.path : i \in failing \ failures} IN
  IF ~FindRoot(id) THEN Everything
  ELSE /\ roots' = Built /\ items' = kept
       /\ failing' = failures \ refreshed /\ due' = due \union refreshed
       /\ credit' = [f \in Folder |-> IF f \in again THEN credit[f] + 1 ELSE credit[f]]
       /\ UNCHANGED listings
\* refresh of what is no folder: getParent makes an item for a folder that was not listed.
ParentItems(id, paths, kept) ==
  {[id |-> id, path |-> Parent[p], from |-> From(Built)] :
     p \in {q \in paths : Parent[q] # Root /\ \A k \in kept : k.path # Parent[q]}}
RefreshFiles(id, paths, kept, failures) ==
  RefreshFolders(id, {Parent[p] : p \in paths},
                 kept \union ParentItems(id, paths, kept), failures)

Ask == asks < MaxAsk /\ asks' = asks + 1
Served == 1..service.id

\* The user refreshes an item or everything, or a command has changed an item.
Refresh ==
  /\ Ask /\ UNCHANGED <<service, changes, untold>>
  /\ \/ Everything
     \/ \E id \in Served : \/ \E f \in Folder : RefreshFolders(id, {f}, Cached, failing)
                          \/ \E p \in Path \ {Root} : RefreshFiles(id, {p}, Cached, failing)

\* A rename: purge of what it took away, and both parents are refreshed.
Rename(id, from, to) ==
  LET gone == {i \in items : i.id = id /\ Below(from, i.path)} IN
  /\ Ask /\ UNCHANGED <<service, changes, untold>>
  /\ RefreshFiles(id, {from, to}, Cached \ gone, failing \ {Item(i.id, i.path) : i \in gone})

\* The editor asks for the roots, or for the parents of an item that it is to reveal.
GetRoots ==
  /\ ~roots.built /\ roots' = Built /\ items' = {}
  /\ UNCHANGED <<service, changes, untold, failing, due, listings, asks, credit>>
Reveal(p) ==
  /\ FindRoot(service.id) /\ roots' = Built
  /\ items' = Cached \union ParentItems(service.id, {p}, Cached)
  /\ UNCHANGED <<service, changes, untold, failing, due, listings, asks, credit>>

-------------------------------------------------------------------------------
(* Configurations                                                           *)

\* handleConfigSave: services are replaced at once; the tree is told when the migration of
\* passwords is over.
SaveConfig ==
  /\ changes < MaxChange /\ changes' = changes + 1 /\ untold' = untold + 1
  /\ service' \in {[service EXCEPT !.id = id] : id \in {0, changes + 2}}
  /\ UNCHANGED <<roots, items, failing, due, listings, asks, credit>>
TellSaved ==
  /\ untold > 0 /\ untold' = untold - 1 /\ UNCHANGED service /\ Everything
  /\ UNCHANGED <<changes, asks>>
\* The profile is told at once.
SetProfile(profile) ==
  /\ changes < MaxChange /\ changes' = changes + 1
  /\ service' = [service EXCEPT !.profile = profile] /\ Everything
  /\ UNCHANGED <<untold, asks>>

-------------------------------------------------------------------------------
(* Listing                                                                  *)

Expand(f) ==
  /\ Ask /\ \E id \in Served : due' = due \union {Item(id, f)}
  /\ credit' = [credit EXCEPT ![f] = @ + 1]
  /\ UNCHANGED <<service, changes, untold, roots, items, failing, listings>>

\* getChildren: a folder that could not be read is not read again.
GetChildren(i) ==
  /\ i \in due /\ due' = due \ {i} /\ roots' = Built /\ items' = Cached
  /\ IF FindRoot(i.id) /\ i \notin failing
       THEN /\ listings' = listings \union {[id |-> i.id, path |-> i.path,
                                             made |-> Built.made, from |-> From(Built)]}
            /\ credit' = [credit EXCEPT ![i.path] = @ - 1]
       ELSE UNCHANGED <<listings, credit>>
  /\ UNCHANGED <<service, changes, untold, failing, asks>>

\* Mutant: that there is a root of that service will do.
SameRootById(l) == FindRoot(l.id)
\* The root must be the one that the listing began with.
SameRoot(l) == FindRoot(l.id) /\ Built.made = l.made

Listed(l) ==
  /\ l \in listings /\ listings' = listings \ {l} /\ roots' = Built
  /\ \E found \in SUBSET {p \in Path \ {Root} : Parent[p] = l.path} :
       items' = IF SameRoot(l)
                  THEN Cached \union {[id |-> l.id, path |-> p, from |-> l.from] :
                                        p \in {q \in found : \A k \in Cached : k.path # q}}
                  ELSE Cached
  /\ UNCHANGED <<service, changes, untold, failing, due, asks, credit>>
\* The failure is an event of its own.
ListFails(l) ==
  /\ l \in listings /\ listings' = listings \ {l} /\ roots' = Built /\ items' = Cached
  /\ IF SameRoot(l) THEN failing' = failing \union {Item(l.id, l.path)}
                         /\ due' = due \union {Item(l.id, l.path)}
                    ELSE UNCHANGED <<failing, due>>
  /\ UNCHANGED <<service, changes, untold, asks, credit>>

Next == \/ Refresh \/ SaveConfig \/ TellSaved \/ \E profile \in Profile : SetProfile(profile)
        \/ \E id \in Served, p, q \in Path \ {Root} : Rename(id, p, q)
        \/ GetRoots \/ \E p \in Path \ {Root} : Reveal(p)
        \/ \E f \in Folder : Expand(f)
        \/ \E i \in due : GetChildren(i)
        \/ \E l \in listings : Listed(l) \/ ListFails(l)
Spec == Init /\ [][Next]_vars

-------------------------------------------------------------------------------
\* What the tree shows is of the connection in force, however slowly folders are read
\* while configurations, profiles and names change: its roots are those of the service and
\* the profile, unless a saved configuration is still to be told, its items come from
\* their listings, and nothing but the user and a change makes it read a folder again
\* (treeDataProvider.ts: the check after the listing, _listingFailures).
TreeIsHonest ==
  /\ roots.built /\ untold = 0 =>
       /\ roots.profile = service.profile
       /\ roots.id = IF service.profile \in Fits THEN service.id ELSE 0
  /\ roots.built => \A i \in items : i.id = roots.id /\ i.from = From(roots)
  /\ \A f \in Folder : credit[f] >= 0
===============================================================================
