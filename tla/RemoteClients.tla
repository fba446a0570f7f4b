----------------------------- MODULE RemoteClients -----------------------------
(***************************************************************************)
(* How one SSH connection is made: core/remote-client/sshClient.ts with    *)
(* the known host keys of hostKeyStore.ts.  A chain of clients, each       *)
(* through the one before, ends with the client of the file system, the    *)
(* last.  RemoteFsCache has the connections as a whole, and ends one at    *)
(* any time; each attempt there is one here.                               *)
(***************************************************************************)
EXTENDS Naturals, SequencesExt

CONSTANTS
  Length,     \* clients of the chain
  Key, None,  \* fingerprints
  Shown,      \* the keys that the servers may show in one attempt
  MaxAttempt  \* bound: attempts to connect, each with new clients

VARIABLES
  attempt,  \* attempts so far
  cur,      \* the client that connects
  step,     \* what it does
  socket,   \* the connection of a client
  told,     \* end() was called for it
  hopping,  \* hoppingClients
  hostKey,  \* the key that a server shows
  known,    \* the file of known keys: for the workspace, and from older versions
  read,     \* what the check of a key has read of that file
  late,     \* the same for a question that is still open after its attempt failed
  other,    \* the same for another window
  trusted   \* the keys that were known or that the user accepted

connection == <<attempt, cur, step, socket, told, hopping, hostKey>>
keys == <<known, read, late, other, trusted>>
vars == <<connection, keys>>

Client == 1..Length
Nothing == [client |-> 0, file |-> [c \in Client |-> [scoped |-> None, legacy |-> None]]]

Init ==
  /\ attempt = 0 /\ cur = 0 /\ step = "idle"
  /\ socket = [c \in Client |-> "none"] /\ told = [c \in Client |-> FALSE]
  /\ hopping = <<>> /\ hostKey \in Shown
  /\ \E entry \in [scoped : Key \union {None}, legacy : Key \union {None}] :
       known = [c \in Client |-> entry]
  /\ read = Nothing /\ late = Nothing /\ other = Nothing
  /\ trusted = {p \in Client \X Key : p[2] \in {known[p[1]].scoped, known[p[1]].legacy}}

-------------------------------------------------------------------------------
(* The end of clients                                                       *)

\* Mutant: a client between is ended only if its connection was established.
EndedEstablished == {Length} \union {c \in Range(hopping) : socket[c] = "open"}
\* end: the client itself and those that it made.
Ended == {Length} \union Range(hopping)

\* What ends, ends with all that is tunnelled through it.
Broken(down) == [c \in Client |->
  IF socket[c] \in {"connecting", "open"} /\ \E d \in down : d <= c THEN "closed" ELSE socket[c]]
Tell(down) ==
  /\ told' = [c \in Client |-> told[c] \/ c \in down]
  /\ socket' = Broken(down) /\ hopping' = Reverse(hopping)

\* A failed attempt ends everything. A question for the user stays on the screen.
Fail ==
  /\ step \notin {"idle", "failed", "done"} /\ step' = "failed" /\ Tell(Ended)
  /\ late' = IF step = "confirm" THEN read ELSE late
  /\ UNCHANGED <<attempt, cur, hostKey, known, read, other, trusted>>

\* The cache ends the connection, which may still be made.
End ==
  /\ attempt > 0 /\ ~told[Length] /\ Tell(Ended)
  /\ UNCHANGED <<attempt, cur, step, hostKey, keys>>

Drop(c) ==
  /\ socket[c] \in {"connecting", "open"} /\ socket' = Broken({c})
  /\ UNCHANGED <<attempt, cur, step, told, hopping, hostKey, keys>>

-------------------------------------------------------------------------------
(* _doConnect                                                               *)

Go(to) == step' = to
Alone == UNCHANGED <<attempt, socket, told, hopping, hostKey, keys>>

\* connect: the password of the first host is asked for before anything else.
Connect ==
  /\ step \in {"idle", "failed"} /\ attempt < MaxAttempt /\ attempt' = attempt + 1
  /\ cur' = 1 /\ Go("password")
  /\ socket' = [c \in Client |-> "none"] /\ told' = [c \in Client |-> FALSE] /\ hopping' = <<>>
  /\ hostKey' \in Shown
  /\ UNCHANGED keys
Password == step = "password" /\ Go("privateKey") /\ UNCHANGED cur /\ Alone

\* The client that the current one goes through, if there is one by that index.
Previous == hopping[cur - 1]

\* _makeHopping
Forward ==
  /\ step = "forward" /\ socket[Previous] = "open"
  /\ Go("privateKey") /\ UNCHANGED cur /\ Alone
\* The key file is read on the host before; a client between is then created and listed.
PrivateKey ==
  /\ step = "privateKey" /\ (cur > 1 => socket[Previous] = "open")
  /\ Go("secrets")
  /\ hopping' = IF cur < Length THEN Append(hopping, cur) ELSE hopping
  /\ UNCHANGED <<attempt, cur, socket, told, hostKey, keys>>
\* The password of a client between and a passphrase are asked for, and it connects.
Through == cur = 1 \/ socket[Previous] = "open"
Dial ==
  /\ step = "secrets" /\ Go("verify")
  /\ socket' = [socket EXCEPT ![cur] = IF Through THEN "connecting" ELSE "closed"]
  /\ UNCHANGED <<attempt, cur, told, hopping, hostKey, keys>>

\* A key without a workspace is taken over if it is the same.
Migrates(entry, key) == entry.scoped = None /\ entry.legacy = key
With(file, key) == [file EXCEPT ![cur].scoped = key]

\* checkHostKey
Verify ==
  /\ step = "verify" /\ socket[cur] = "connecting"
  /\ LET entry == known[cur]
         key == hostKey[cur]
     IN \/ entry.scoped = key /\ Go("login") /\ read' = Nothing
        \/ /\ Migrates(entry, key)
           /\ Go("save") /\ read' = [client |-> cur, file |-> With(known, key)]
        \/ /\ entry.scoped = None /\ ~Migrates(entry, key)
           /\ Go("confirm") /\ read' = [client |-> cur, file |-> With(known, key)]
  /\ UNCHANGED <<attempt, cur, socket, told, hopping, hostKey, known, late, other, trusted>>
Accept ==
  /\ step = "confirm" /\ Go("save") /\ trusted' = trusted \union {<<cur, hostKey[cur]>>}
  /\ UNCHANGED <<attempt, cur, socket, told, hopping, hostKey, known, read, late, other>>
Save ==
  /\ step = "save" /\ Go("login") /\ known' = read.file /\ read' = Nothing
  /\ UNCHANGED <<attempt, cur, socket, told, hopping, hostKey, late, other, trusted>>

\* Keyboard-interactive answers, ready, and the sftp channel; then comes the next client.
Login ==
  /\ step = "login" /\ socket[cur] = "connecting"
  /\ socket' = [socket EXCEPT ![cur] = "open"] /\ Go("sftp")
  /\ UNCHANGED <<attempt, cur, told, hopping, hostKey, keys>>
Sftp ==
  /\ step = "sftp" /\ socket[cur] = "open"
  /\ IF cur = Length THEN Go("done") /\ UNCHANGED cur ELSE Go("forward") /\ cur' = cur + 1
  /\ Alone

-------------------------------------------------------------------------------
(* The file of known keys is read, changed and written as a whole.          *)

LateAnswer ==
  /\ late # Nothing /\ late' = Nothing /\ known' = late.file
  /\ trusted' = trusted \union {<<late.client, late.file[late.client].scoped>>}
  /\ UNCHANGED <<connection, read, other>>
OtherReads ==
  /\ other = Nothing /\ other' = [client |-> Length, file |-> known]
  /\ UNCHANGED <<connection, known, read, late, trusted>>
OtherSaves ==
  /\ other # Nothing /\ other' = Nothing /\ known' = other.file
  /\ UNCHANGED <<connection, read, late, trusted>>

Next == \/ Connect \/ Password \/ Forward \/ PrivateKey \/ Dial \/ Verify \/ Accept \/ Save
        \/ Login \/ Sftp \/ Fail \/ End \/ LateAnswer \/ OtherReads \/ OtherSaves
        \/ \E c \in Client : Drop(c)
Spec == Init /\ [][Next]_vars

-------------------------------------------------------------------------------
TypeOK ==
  /\ attempt \in 0..MaxAttempt /\ cur \in Client \union {0}
  /\ step \in {"idle", "password", "forward", "privateKey", "secrets", "verify", "confirm", 
               "save", "login", "sftp", "done", "failed"}
  /\ socket \in [Client -> {"none", "connecting", "open", "closed"}]
  /\ told \in [Client -> BOOLEAN]
  /\ ToSet(hopping) \subseteq 1..(Length - 1) /\ IsInjective(hopping)
  /\ hostKey \in [Client -> Key] /\ trusted \subseteq Client \X Key
  /\ known \in [Client -> [scoped : Key \union {None}, legacy : Key \union {None}]]
  /\ \A r \in {read, late, other} : r.client \in Client \union {0} /\ DOMAIN r.file = Client

\* An attempt that failed, at whatever host and after whatever call of end(), leaves no
\* connection behind, and a connection is only made to a host whose key was known or
\* accepted, however windows and late answers rewrite the file of keys (sshClient.ts,
\* remoteFs.ts, checkHostKey).
ChainIsSound ==
  /\ step = "failed" => \A c \in Client : socket[c] \in {"none", "closed"}
  /\ \A c \in Client : socket[c] = "open" => <<c, hostKey[c]>> \in trusted
===============================================================================
