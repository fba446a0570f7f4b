----------------------------- MODULE RemoteFsCache -----------------------------
(***************************************************************************)
(* The cached connection of one endpoint (one cache identity):             *)
(* core/remoteFs.ts. Operations of the extension ask for it, removal (a    *)
(* configuration change, or the retry of any operation) takes it from the  *)
(* table, and each connection reports its end to the KeepAliveRemoteFs     *)
(* that made it, whatever connection that object holds by then.            *)
(*                                                                         *)
(* Connections are numbered in the order they are made. A cache object is  *)
(* named by the first connection it made, as it makes one when created.    *)
(***************************************************************************)
EXTENDS Naturals

CONSTANTS Caller,     \* operations that ask for the remote file system
          MaxConn,    \* bound: connections made
          MaxEvents   \* bound: end, close and error events of one connection

ASSUME BoundsAssumption == MaxConn \in Nat /\ MaxEvents \in Nat

VARIABLES
  table,      \* fsTable[identity], 0: undefined
  isValid,    \* per object: KeepAliveRemoteFs.isValid
  pending,    \* per object: the connection of pendingPromise, 0: null
  fs,         \* per object: the connection of fs, 0: undefined
  made,       \* connections made so far
  owner,      \* the object a connection reports to
  client,     \* the network's side; isClosed() is "not open"
  promise,    \* what connecting settled with
  ended,      \* fs.end() was called
  events,     \* the bound's counter
  wait,       \* the promise a caller awaits, 0: none
  given       \* the connection a caller works with, 0: none

objects == <<table, isValid, pending, fs>>
connections == <<made, owner, client, promise, ended, events>>
callers == <<wait, given>>
vars == <<objects, connections, callers>>

Conn == 1..MaxConn
Made == 1..made

Init ==
  /\ table = 0
  /\ isValid = [k \in Conn |-> FALSE]
  /\ pending = [k \in Conn |-> 0]
  /\ fs = [k \in Conn |-> 0]
  /\ made = 0
  /\ owner = [c \in Conn |-> 0]
  /\ client = [c \in Conn |-> "unused"]
  /\ promise = [c \in Conn |-> "none"]
  /\ ended = [c \in Conn |-> FALSE]
  /\ events = [c \in Conn |-> 0]
  /\ wait = [a \in Caller |-> 0]
  /\ given = [a \in Caller |-> 0]

Idle(a) == wait[a] = 0 /\ given[a] = 0
-------------------------------------------------------------------------------
(* getFs                                                                    *)

\* The object holds a connection marked valid and not reported closed.
Usable(k) == isValid[k] /\ client[fs[k]] = "open"

GetCached(a) ==
  /\ Idle(a) /\ table # 0 /\ Usable(table)
  /\ pending' = [pending EXCEPT ![table] = 0]
  /\ given' = [given EXCEPT ![a] = fs[table]]
  /\ UNCHANGED <<table, isValid, fs, connections, wait>>

\* A connection is being established already.
GetPending(a) ==
  /\ Idle(a) /\ table # 0
  /\ ~isValid[table] /\ pending[table] # 0
  /\ wait' = [wait EXCEPT ![a] = pending[table]]
  /\ UNCHANGED <<objects, connections, given>>

\* Mutant: a connection under way is not joined.
MustConnectAlways(k) == ~Usable(k)
\* Nothing usable and nothing under way. A valid connection found closed is invalidated,
\* and a promise left from establishing it with it.
MustConnect(k) == ~Usable(k) /\ (isValid[k] \/ pending[k] = 0)

\* The connections ended once the object k has ended the one it holds.
EndedBy(k) == [c \in Conn |-> ended[c] \/ c = fs[k]]

\* Mutant: the object holds a connection only once it is established.
CreatedLate(k, c) == fs
\* onCreated: the object holds a connection before it is established.
Created(k, c) == [fs EXCEPT ![k] = c]

\* A cached connection found closed is ended before it is replaced.
Replaced == IF table # 0 /\ isValid[table] THEN EndedBy(table) ELSE ended

\* The endpoint's cache object, created (with its first connection c) if there is none.
CacheObject(c) == IF table = 0 THEN c ELSE table

GetFresh(a) ==
  LET c == made + 1
      k == CacheObject(c)
  IN
  /\ Idle(a) /\ c \in Conn
  /\ table # 0 => MustConnect(table)
  /\ ended' = Replaced
  /\ table' = k
  /\ isValid' = [isValid EXCEPT ![k] = FALSE]
  /\ pending' = [pending EXCEPT ![k] = c]
  /\ fs' = Created(k, c)
  /\ made' = c
  /\ owner' = [owner EXCEPT ![c] = k]
  /\ client' = [client EXCEPT ![c] = "connecting"]
  /\ promise' = [promise EXCEPT ![c] = "pending"]
  /\ wait' = [wait EXCEPT ![a] = c]
  /\ UNCHANGED <<events, given>>

-------------------------------------------------------------------------------
(* How connecting ends. A connection that was ended while a person was still *)
(* asked for a password or a host key is established all the same.           *)

Waiters(c) == {a \in Caller : wait[a] = c}

Connects(c) ==
  /\ client[c] = "connecting" /\ promise[c] = "pending"
  /\ client' = [client EXCEPT ![c] = "open"]
  /\ promise' = [promise EXCEPT ![c] = "resolved"]
  /\ isValid' = [isValid EXCEPT ![owner[c]] = TRUE]
  /\ wait' = [a \in Caller |-> IF a \in Waiters(c) THEN 0 ELSE wait[a]]
  /\ given' = [a \in Caller |-> IF a \in Waiters(c) THEN c ELSE given[a]]
  /\ UNCHANGED <<table, pending, fs, made, owner, ended, events>>

\* Mutant: the promise is kept until it settles.
InvalidatesKeepsPromise(k) == UNCHANGED pending /\ isValid' = [isValid EXCEPT ![k] = FALSE]
\* invalid() of the object k, which also ends the connection it holds (EndedBy).
Invalidates(k) ==
  /\ pending' = [pending EXCEPT ![k] = 0]
  /\ isValid' = [isValid EXCEPT ![k] = FALSE]

\* connectFreshRemoteFs ends the failed connection, the rejection handler the one held.
Fails(c) ==
  /\ promise[c] = "pending"
  /\ client' = [client EXCEPT ![c] = "closed"]
  /\ promise' = [promise EXCEPT ![c] = "rejected"]
  /\ ended' = [EndedBy(owner[c]) EXCEPT ![c] = TRUE]
  /\ Invalidates(owner[c])
  /\ wait' = [a \in Caller |-> IF a \in Waiters(c) THEN 0 ELSE wait[a]]
  /\ UNCHANGED <<table, fs, made, owner, events, given>>

-------------------------------------------------------------------------------
(* The network, and the callers.                                            *)

\* The server, the network interface or end() closes a connection.
Drop(c) ==
  /\ client[c] \in {"connecting", "open"}
  /\ client' = [client EXCEPT ![c] = "closed"]
  /\ UNCHANGED <<objects, made, owner, promise, ended, events, callers>>

\* onDisconnected: end, close or error of a connection, each once.
Event(c) ==
  /\ client[c] = "closed" /\ events[c] < MaxEvents
  /\ events' = [events EXCEPT ![c] = @ + 1]
  /\ ended' = EndedBy(owner[c])
  /\ Invalidates(owner[c])
  /\ UNCHANGED <<table, fs, made, owner, client, promise, callers>>

\* removeRemoteFs: dispose() of a service, or clearRemoteFileSystem before a retry.
Remove ==
  /\ table # 0
  /\ ended' = EndedBy(table)
  /\ table' = 0
  /\ UNCHANGED <<isValid, pending, fs, made, owner, client, promise, events, callers>>

Finish(a) ==
  /\ given[a] # 0
  /\ given' = [given EXCEPT ![a] = 0]
  /\ UNCHANGED <<objects, connections, wait>>

Ask(a) == GetCached(a) \/ GetPending(a) \/ GetFresh(a)
Network(c) == Connects(c) \/ Fails(c) \/ Drop(c) \/ Event(c)
Next == \/ \E a \in Caller : Ask(a) \/ Finish(a)
        \/ \E c \in Conn : Network(c)
        \/ Remove

Spec == Init /\ [][Next]_vars
-------------------------------------------------------------------------------
\* An object holds the latest connection it made, and awaits no other one.
HoldsOwn ==
  /\ \A c \in Conn : c \in Made => owner[c] # 0
  /\ \A k \in Conn : pending[k] \in {0, fs[k]} /\ (fs[k] # 0 => owner[fs[k]] = k)

TypeOK ==
  /\ made \in 0..MaxConn /\ table \in 0..made
  /\ isValid \in [Conn -> BOOLEAN]
  /\ pending \in [Conn -> 0..made] /\ fs \in [Conn -> 0..made]
  /\ owner \in [Conn -> 0..made]
  /\ client \in [Conn -> {"unused", "connecting", "open", "closed"}]
  /\ promise \in [Conn -> {"none", "pending", "resolved", "rejected"}]
  /\ ended \in [Conn -> BOOLEAN]
  /\ events \in [Conn -> 0..MaxEvents]
  /\ wait \in [Caller -> 0..made] /\ given \in [Caller -> 0..made]
  /\ HoldsOwn

\* Callers that ask at the same time share one connection, and none is left behind: at
\* most one connection of the endpoint was not told to end, and it is the one the cache
\* holds, whatever invalidations, removals and late results of older ones came between.
OneConnection ==
  \A c \in Made : ~ended[c] => table # 0 /\ c = fs[table]

\* Callbacks of older connections never leave a caller with a connection that is still
\* being established or that its client already reported closed.
HandedOutOpen ==
  [][\A a \in Caller : given'[a] \notin {0, given[a]} => client'[given'[a]] = "open"]_vars

\* Who waits, waits for a promise that is still open: a caller never joins one that was
\* settled for an earlier connection.
WaitersAreServed ==
  \A a \in Caller : wait[a] # 0 => promise[wait[a]] = "pending" /\ given[a] = 0

\* "If the server closed the connection, the extension reconnects automatically instead
\* of failing": the events of a connection that had been established do not end the one
\* that is being made in its place.
ReconnectUndisturbed ==
  [][\A c \in Conn : Event(c) /\ promise[c] = "resolved" =>
       \A d \in Conn : promise[d] = "pending" => ended'[d] = ended[d]]_vars
===============================================================================
