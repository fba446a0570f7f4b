----------------------------- MODULE ActivityGroups -----------------------------
(***************************************************************************)
(* What the activity view knows of the work: modules/activity.ts.  An      *)
(* operation (a file handler) belongs to a group: the one of the command   *)
(* that runs it, or one that saves and watcher events share for a second.  *)
(* It collects its files, each a child that may stop for a conflict, and   *)
(* then transfers them.  The transfers and their retries are those of      *)
(* TransferScheduler; one attempt stands for all of them here.             *)
(***************************************************************************)
EXTENDS Naturals, FiniteSets, FiniteSetsExt

CONSTANTS
  Op,         \* file handlers: uploads and downloads
  File,
  Files,      \* the files of an operation
  Action,     \* those of them that it makes, renames or deletes while it collects
  Roles,      \* what may run them
  Keep        \* how many groups that ended are kept (100 in the code)

VARIABLES
  role,       \* what runs an operation: "background", or the one "command"
  command,    \* withActivityInvocation, and the group of the command
  groups,     \* the groups by the order in which they began
  items,      \* the status of a file in a group
  background, \* the group that background operations share, 0: none
  at,         \* where an operation is
  member,     \* its group
  stopped,    \* its scheduler was stopped
  failed,     \* why a child of it, or the operation itself, failed
  work        \* where a child is

vars == <<role, command, groups, items, background, at, member, stopped, failed, work>>
operations == <<at, member, stopped, failed, work>>

Group == 1..(Cardinality(Op) + 1)
Status == {"pending", "running", "conflict", "completed", "failed", "cancelled", "not-started"}
Live == {"pending", "running", "conflict"}
Unused == [state |-> "none", pending |-> 0, owners |-> 0,
           cancelled |-> FALSE, ended |-> FALSE, issue |-> FALSE]

TypeOK ==
  /\ role \in [Op -> {"background", "command"}]
  /\ command \in [at : {"idle", "busy", "over"}, group : Group \union {0}]
  /\ groups \in [Group -> [state : {"none", "listed", "removed"}, pending : 0..Cardinality(Op),
                           owners : 0..1, cancelled : BOOLEAN, ended : BOOLEAN, issue : BOOLEAN]]
  /\ items \in [Group -> [File -> Status \union {"none"}]]
  /\ background \in Group \union {0}
  /\ at \in [Op -> {"idle", "hook", "collect", "run", "over"}]
  /\ member \in [Op -> Group \union {0}]
  /\ stopped \in [Op -> BOOLEAN] /\ failed \in [Op -> SUBSET {"error", "cancel"}]
  /\ work \in [Op -> [File -> {"none", "found", "review", "acting", "queued", "running", "over"}]]

\* At activation a conflict of an earlier session is listed, in a group of its own.
Init ==
  /\ role \in Roles
  /\ command = [at |-> "idle", group |-> 0]
  /\ \E recovered \in {"none", "failed", "conflict"}, f \in File \ Action :
       /\ items = [g \in Group |-> [h \in File |->
                     IF g = 1 /\ h = f THEN recovered ELSE "none"]]
       /\ groups = [g \in Group |-> IF g = 1 /\ recovered # "none"
                                      THEN [Unused EXCEPT !.state = "listed"] ELSE Unused]
  /\ background = 0
  /\ at = [o \in Op |-> "idle"] /\ member = [o \in Op |-> 0]
  /\ stopped = [o \in Op |-> FALSE] /\ failed = [o \in Op |-> {}]
  /\ work = [o \in Op |-> [f \in File |-> "none"]]

Members(g) == {o \in Op : member[o] = g}
Active(grp, its, g) == \/ grp[g].pending > 0 \/ grp[g].owners > 0
                       \/ \E f \in File : its[g][f] \in Live
Attention(g) == groups[g].issue \/ \E f \in File : items[g][f] \in {"conflict", "failed"}
Listed(grp) == {g \in Group : grp[g].state = "listed"}

-------------------------------------------------------------------------------
(* The ends of groups.                                                      *)

\* remove, and the pointer to the background group with it.
Remove(grp, gone) ==
  /\ groups' = [g \in Group |-> IF g \in gone THEN [grp[g] EXCEPT !.state = "removed"]
                                              ELSE grp[g]]
  /\ background' = IF background \in gone THEN 0 ELSE background

\* prune: the oldest of the groups that are not active.
Pruned(grp, its) ==
  LET terminal == {g \in Listed(grp) : ~Active(grp, its, g)} IN
  {g \in terminal : Cardinality({h \in terminal : h > g}) >= Keep}

\* finish. What was found and never queued has not been started.
Rests(grp, its, g) ==
  /\ grp[g].pending = 0 /\ grp[g].owners = 0
  /\ \A f \in File : its[g][f] \notin {"conflict", "running"}
Finish(grp, its, g) ==
  IF ~Rests(grp, its, g)
    THEN groups' = grp /\ items' = its /\ UNCHANGED background
    ELSE LET left == IF grp[g].cancelled THEN "cancelled" ELSE "not-started"
             done == [its EXCEPT ![g] = [f \in File |-> IF @[f] = "pending" THEN left ELSE @[f]]]
             over == [grp EXCEPT ![g].ended = TRUE]
         IN items' = done /\ Remove(over, Pruned(over, done))

ClearCompleted ==
  /\ Remove(groups, {g \in Listed(groups) : ~Active(groups, items, g)})
  /\ UNCHANGED <<role, command, items, operations>>

\* cancel, once: it stops the schedulers that registered and what is pending.
Cancels(g) == groups[g].state = "listed" /\ ~groups[g].cancelled
Halted(g) == IF Cancels(g) THEN {o \in Members(g) : at[o] \in {"collect", "run"}} ELSE {}
Queued(o) == {f \in File : work[o][f] = "queued"}
Called(g) == [groups EXCEPT ![g].cancelled = @ \/ Cancels(g)]
Unstarted(g, its) ==
  LET drained == UNION {Queued(o) : o \in Halted(g)} IN
  [its EXCEPT ![g] = [f \in File |-> IF Cancels(g) /\ (@[f] = "pending" \/ f \in drained)
                                       THEN "cancelled" ELSE @[f]]]
\* stop: a scheduler cancels what is in its queue.
Stop(ops, wrk) ==
  /\ stopped' = [o \in Op |-> stopped[o] \/ o \in ops]
  /\ work' = [o \in Op |-> [f \in File |->
                IF o \in ops /\ f \in Queued(o) THEN "over" ELSE wrk[o][f]]]

Cancel(g) ==
  /\ Cancels(g) /\ Active(groups, items, g)
  /\ groups' = Called(g) /\ items' = Unstarted(g, items) /\ Stop(Halted(g), work)
  /\ UNCHANGED <<role, command, background, at, member, failed>>

-------------------------------------------------------------------------------
(* Operations enter and leave.                                              *)

Invoke ==
  /\ command.at = "idle" /\ command' = [command EXCEPT !.at = "busy"]
  /\ UNCHANGED <<role, groups, items, background, operations>>

\* The command waits for its operations.
InvocationEnds ==
  /\ command.at = "busy" /\ \A o \in Op : role[o] = "command" => at[o] \in {"idle", "over"}
  /\ command' = [command EXCEPT !.at = "over"]
  /\ IF command.group = 0 THEN UNCHANGED <<groups, items, background>>
     ELSE Finish([groups EXCEPT ![command.group].owners = 0], items, command.group)
  /\ UNCHANGED <<role, operations>>

\* begin. A background group is used again by what comes within a second, unless it was
\* cancelled or needs attention.
New == Min({g \in Group : groups[g].state = "none"})
Shared == {g \in {background} \ {0} : ~groups[g].cancelled /\ ~Attention(g)}
Joined(o) == IF role[o] = "background" THEN Shared \union {New}
              ELSE {IF command.group = 0 THEN New ELSE command.group}

Enter(o) ==
  /\ at[o] = "idle" /\ (role[o] = "command" => command.at = "busy")
  /\ \E g \in Joined(o) :
       /\ ~groups[g].cancelled
       /\ groups' = [groups EXCEPT ![g].state = "listed", ![g].ended = FALSE,
                                   ![g].pending = @ + 1,
                                   ![g].owners = IF role[o] = "command" THEN 1 ELSE @]
       /\ member' = [member EXCEPT ![o] = g]
       /\ IF role[o] = "command"
            THEN command' = [command EXCEPT !.group = g] /\ UNCHANGED background
            ELSE background' = g /\ UNCHANGED command
  /\ at' = [at EXCEPT ![o] = "hook"]
  /\ UNCHANGED <<role, items, stopped, failed, work>>

\* The command was cancelled before this operation of it.
EnterCancelled(o) ==
  /\ at[o] = "idle" /\ role[o] = "command" /\ command.at = "busy" /\ command.group # 0
  /\ groups[command.group].cancelled
  /\ at' = [at EXCEPT ![o] = "over"]
  /\ UNCHANGED <<role, command, groups, items, background, member, stopped, failed, work>>

\* createTransferScheduler, once the hook has run.
Register(o) ==
  /\ at[o] = "hook" /\ at' = [at EXCEPT ![o] = "collect"]
  /\ stopped' = [stopped EXCEPT ![o] = groups[member[o]].cancelled]
  /\ UNCHANGED <<role, command, groups, items, background, member, failed, work>>

\* The hook, the connection or the first listing fails.
Breaks(o) ==
  /\ at[o] \in {"hook", "collect"} /\ \A f \in File : work[o][f] = "none"
  /\ at' = [at EXCEPT ![o] = "run"] /\ failed' = [failed EXCEPT ![o] = {"error"}]
  /\ UNCHANGED <<role, command, groups, items, background, member, stopped, work>>

Idle(o) == at[o] = "run" /\ \A f \in File : work[o][f] \notin {"queued", "running"}
\* recordError: a failed item says it already.
Noted(g, reason) ==
  IF reason = "cancel" THEN Called(g)
  ELSE [groups EXCEPT ![g].issue =
          @ \/ (reason = "error" /\ \A f \in File : items[g][f] # "failed")]

\* The operation ends, with the first of its errors, if only that of the last hook.
End(o) ==
  LET g == member[o] IN
  /\ Idle(o) /\ at' = [at EXCEPT ![o] = "over"]
  /\ \E reason \in IF failed[o] = {} THEN {"none", "error"} ELSE failed[o] :
       LET its == IF reason = "cancel" THEN Unstarted(g, items) ELSE items IN
       /\ Finish([Noted(g, reason) EXCEPT ![g].pending = @ - 1], its, g)
       /\ Stop(IF reason = "cancel" THEN Halted(g) ELSE {}, work)
  /\ UNCHANGED <<role, command, member, failed>>

-------------------------------------------------------------------------------
(* The children of an operation.                                            *)

Collects(o, f, from) == at[o] = "collect" /\ f \in Files[o] /\ work[o][f] = from
Become(o, f, status) == items' = [items EXCEPT ![member[o]][f] = status]
Put(o, f, place) == work' = [work EXCEPT ![o][f] = place]
Blames(o, why) == failed' = [failed EXCEPT ![o] = @ \union why]
UnchangedAround == UNCHANGED <<role, command, groups, background, at, member, stopped>>

\* discoverActivityItem; nothing more is found for a group that was cancelled.
Found(o, f) ==
  /\ Collects(o, f, "none") /\ f \notin Action
  /\ IF groups[member[o]].cancelled
       THEN Put(o, f, "over") /\ Blames(o, {"cancel"}) /\ UNCHANGED items
       ELSE /\ Put(o, f, "found") /\ Become(o, f, IF items[member[o]][f] = "none"
                                                    THEN "pending" ELSE items[member[o]][f])
            /\ UNCHANGED failed
  /\ UnchangedAround

\* recordActivityAction
Act(o, f) ==
  /\ Collects(o, f, "none") /\ f \in Action
  /\ IF groups[member[o]].cancelled
       THEN Put(o, f, "over") /\ Blames(o, {"cancel"}) /\ UNCHANGED items
       ELSE Put(o, f, "acting") /\ Become(o, f, "running") /\ UNCHANGED failed
  /\ UnchangedAround
ActEnds(o, f) ==
  /\ work[o][f] = "acting" /\ Put(o, f, "over")
  /\ \/ Become(o, f, "completed") /\ UNCHANGED failed
     \/ Become(o, f, "failed") /\ Blames(o, {"error"})
  /\ UnchangedAround

\* A conflict of the upload is captured, and registerConflict shows it.
Review(o, f) ==
  /\ Collects(o, f, "found") /\ Put(o, f, "review") /\ Become(o, f, "conflict")
  /\ UnchangedAround /\ UNCHANGED failed

\* What can be read or compared no more fails the child, and leaves its item as it is.
ChildFails(o, f) ==
  /\ Collects(o, f, "found") \/ Collects(o, f, "review")
  /\ Put(o, f, "over") /\ Blames(o, {"error"})
  /\ UnchangedAround /\ UNCHANGED items

\* No decision in time; the operation is cancelled when it ends.
Expire(o, f) ==
  /\ Collects(o, f, "review") /\ Put(o, f, "over") /\ Become(o, f, "failed")
  /\ Blames(o, {"cancel"}) /\ UnchangedAround

\* A decision against the upload cancels the whole group.
Refuse(o, f) ==
  LET g == member[o] IN
  /\ Collects(o, f, "review") /\ Blames(o, {"cancel"})
  /\ groups' = Called(g)
  /\ items' = Unstarted(g, [items EXCEPT ![g][f] = "cancelled"])
  /\ Stop(Halted(g), [work EXCEPT ![o][f] = "over"])
  /\ UNCHANGED <<role, command, background, at, member>>

\* The file is accepted as it is, or after a review, and queued.
Queue(o, f) ==
  /\ Collects(o, f, "found") \/ Collects(o, f, "review")
  /\ Put(o, f, IF stopped[o] THEN "over" ELSE "queued")
  /\ Become(o, f, IF stopped[o] THEN "not-started" ELSE "pending")
  /\ UnchangedAround /\ UNCHANGED failed

\* Mutant: the first failure ends the collection (Promise.all).
SettledFirst(o) == \/ failed[o] # {}
                   \/ \A f \in Files[o] : work[o][f] \in {"queued", "over"}
\* settleActivityChildren: a failure waits for the other children.
Settled(o) == \A f \in Files[o] : work[o][f] \in {"queued", "over"}

\* collectAndRun: what is queued runs, unless the collection failed.
Collected(o) ==
  /\ at[o] = "collect" /\ Settled(o) /\ at' = [at EXCEPT ![o] = "run"]
  /\ IF failed[o] = {} THEN UNCHANGED <<items, stopped, work>>
     ELSE /\ items' = [items EXCEPT ![member[o]] = [f \in File |->
                         IF f \in Queued(o) THEN "cancelled" ELSE @[f]]]
          /\ Stop({o}, work)
  /\ UNCHANGED <<role, command, groups, background, member, failed>>

Start(o, f) ==
  /\ at[o] = "run" /\ work[o][f] = "queued"
  /\ Put(o, f, "running") /\ Become(o, f, "running")
  /\ UnchangedAround /\ UNCHANGED failed
Done(o, f) ==
  /\ work[o][f] = "running" /\ Put(o, f, "over")
  /\ IF groups[member[o]].cancelled THEN Become(o, f, "cancelled") /\ UNCHANGED failed
     ELSE \/ Become(o, f, "completed") /\ UNCHANGED failed
          \/ Become(o, f, "failed") /\ Blames(o, {"error"})
  /\ UnchangedAround

Child(o, f) == \/ Found(o, f) \/ Act(o, f) \/ ActEnds(o, f) \/ Review(o, f) \/ ChildFails(o, f)
               \/ Expire(o, f) \/ Refuse(o, f)
               \/ Queue(o, f) \/ Start(o, f) \/ Done(o, f)
Operation(o) == \/ Enter(o) \/ EnterCancelled(o) \/ Register(o) \/ Breaks(o) \/ Collected(o)
                \/ End(o)
Next == \/ \E o \in Op : Operation(o) \/ \E f \in File : Child(o, f)
        \/ \E g \in Group : Cancel(g)
        \/ Invoke \/ InvocationEnds \/ ClearCompleted
Spec == Init /\ [][Next]_vars

-------------------------------------------------------------------------------
Working(g) == \E o \in Members(g), f \in File : work[o][f] \notin {"none", "over"}

\* The view tells the truth about the work, whatever fails, is cancelled or joins late: a
\* group that ended or was cleared has nothing left that works or awaits a decision, one
\* whose work is over has ended, and where the user cancelled nothing more will start
\* (activity.ts, settleActivityChildren and finish).
GroupsTellTruth ==
  \A g \in Group :
    /\ groups[g].ended \/ groups[g].state = "removed"
         => ~Working(g) /\ ~Active(groups, items, g)
    /\ /\ groups[g].state = "listed" /\ groups[g].owners = 0 /\ Members(g) # {}
       /\ \A o \in Members(g) : at[o] = "over"
       /\ \A f \in File : items[g][f] # "conflict"
       => groups[g].ended
    /\ groups[g].cancelled
         => \A o \in Members(g), f \in File : work[o][f] # "queued" /\ items[g][f] # "pending"
===============================================================================
