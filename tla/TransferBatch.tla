---------------------------- MODULE TransferBatch ----------------------------
(***************************************************************************)
(* What a transfer operation promises its caller (the activity view, the   *)
(* upload tool of the MCP server, the save handler), whatever the          *)
(* scheduling: every file of the operation moves through the statuses of   *)
(* a TransferItemResult, nothing is begun once the operation is cancelled, *)
(* and the operation reports once, when none of its files is still open,   *)
(* reports success only if every one of them was transferred, and is       *)
(* abandoned by a cancelled review only if none of them was.               *)
(* TransferScheduler implements it.                                        *)
(***************************************************************************)
CONSTANTS Op,    \* handler invocations: one TransferOperation each
          File   \* logical files of an operation

VARIABLES status,           \* status[o][f]: TransferItemStatus, "none": no such item
          cancelRequested,  \* cancelRequested[o]: the activity group was cancelled
          outcome           \* outcome[o]: what the handler's promise settled with

Status == {"none", "pending", "running", "completed", "failed", "cancelled", "not-started"}
Open == {"pending", "running"}
Outcome == {"none", "resolved", "abandoned", "rejected"}

Init == /\ status = [o \in Op |-> [f \in File |-> "none"]]
        /\ cancelRequested = [o \in Op |-> FALSE]
        /\ outcome = [o \in Op |-> "none"]

\* The moves of one item. An item that ended goes back to "pending" only when the
\* operation is tried again.
Move == ((Status \ Open) \X {"pending", "not-started"})
        \union ({"pending"} \X {"running", "cancelled"})
        \union ({"running"} \X {"completed", "failed", "cancelled"})

Advance(o) ==
  /\ outcome[o] = "none"
  /\ \E s \in [File -> Status] :
       /\ \A f \in File : s[f] # status[o][f] => <<status[o][f], s[f]>> \in Move
       /\ cancelRequested[o] =>
            \A f \in File : s[f] \in Open => s[f] = status[o][f]
       /\ status' = [status EXCEPT ![o] = s]
  /\ UNCHANGED <<cancelRequested, outcome>>

\* Cancelling ends every queued item at once; what is running may still finish.
Cancel(C) ==
  /\ \A o \in C : outcome[o] = "none"
  /\ cancelRequested' = [o \in Op |-> cancelRequested[o] \/ o \in C]
  /\ status' = [o \in Op |-> [f \in File |->
                  IF o \in C /\ status[o][f] = "pending" THEN "cancelled" ELSE status[o][f]]]
  /\ UNCHANGED outcome

Settle(o, result) ==
  /\ outcome[o] = "none"
  /\ \A f \in File : status[o][f] \notin Open
  /\ result = "resolved" => \A f \in File : status[o][f] \in {"none", "completed"}
  /\ result = "abandoned" => \A f \in File : status[o][f] \notin {"completed", "failed"}
  /\ outcome' = [outcome EXCEPT ![o] = result]
  /\ UNCHANGED <<status, cancelRequested>>

Next == \/ \E o \in Op : Advance(o)
        \/ \E C \in SUBSET Op : Cancel(C)
        \/ \E o \in Op, result \in Outcome \ {"none"} : Settle(o, result)

Spec == Init /\ [][Next]_<<status, cancelRequested, outcome>>
===============================================================================
