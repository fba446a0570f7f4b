-------------------------- MODULE MCTransferScheduler --------------------------
(***************************************************************************)
(* A transfer operation for TLC, with enough files to fill the limit, to   *)
(* queue behind it and to retry; and the plan of a sync that is cut short, *)
(* at any transfer, and run again.  A behaviour is one of `Part'.          *)
(***************************************************************************)
EXTENDS TransferScheduler, TLC

CONSTANTS Part, folder, nested, child,
          Paths, Top, ParentOf, Ancestors, Times, Sizes, Later  \* the folders and files of a sync

VARIABLES part, tree, option, progress, scan, tasks, before, broken

syncVars == <<tree, option, progress, scan, tasks, before, broken>>

\* A directory, one in it, and what is in that one.
Nested == (folder :> Top) @@ (nested :> folder) @@ (child :> nested)
Nesting == (folder :> {}) @@ (nested :> {folder}) @@ (child :> {folder, nested})

sync == INSTANCE SyncPlan WITH
          Path <- Paths, Root <- Top, Parent <- ParentOf, Above <- Ancestors, Time <- Times,
          Size <- Sizes, Now <- Later, phase <- progress

ASSUME SyncAssumption == sync!PlanAssumption

\* Where the operation is looked at, the sync stays as it begins.
MCInit ==
  /\ part \in Part /\ Init /\ sync!Init
  /\ (part = "operation" =>
        /\ option.from = "local" /\ ~option.both /\ ~option.update
        /\ ~option.delete /\ ~option.skipCreate
        /\ ~option.ignoreExisting /\ ~option.keeps
        /\ tree = [s \in sync!Side |-> [p \in Paths |-> sync!Missing]])

MCNext ==
  \/ part = "operation" /\ Next /\ UNCHANGED <<part, syncVars>>
  \/ part = "sync" /\ sync!Next /\ UNCHANGED <<part, vars>>

\* The fairness is the operation's: of a sync no liveness is asked.
MCSpec == MCInit /\ [][MCNext]_<<part, vars, syncVars>> /\ Fairness

\* Both sides hold trees at every step, and a sync that ends leaves them as its options
\* say (transfer.ts).
SyncConverges == sync!TypeOK /\ sync!SyncConverges
===============================================================================
