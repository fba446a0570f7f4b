---------------------------- MODULE Endpoint_proofs ----------------------------
(***************************************************************************)
(* What is proved of the parts of an endpoint: that a chain of SSH clients *)
(* is sound, that the tree of the remote explorer is honest, that the      *)
(* groups of the activity view tell the truth, that a drop loses nothing   *)
(* and that Upload Changed Files brings every file, however many clients,  *)
(* keys, folders, changes, prompts, operations and files there are; and    *)
(* that every part keeps its types.                                        *)
(***************************************************************************)
EXTENDS MCRemoteFsCache, RemoteFsCache_proofs, Functions, FiniteSetTheorems, SequenceTheorems,
        WellFoundedInduction, TLAPS

-------------------------------------------------------------------------------
(* The chain of clients                                                      *)

Hop == 1..Length
KnownKeys == [Hop -> [scoped : Key \union {None}, legacy : Key \union {None}]]
Reading == [client : Hop \union {0}, file : KnownKeys]
Steps == {"idle", "password", "forward", "privateKey", "secrets", "verify", "confirm",
          "save", "login", "sftp", "done", "failed"}

ChainTypes ==
  /\ cur \in Hop \union {0} /\ (step # "idle" => cur \in Hop) /\ step \in Steps
  /\ socket \in [Hop -> {"none", "connecting", "open", "closed"}]
  /\ hopping \in Seq(Hop) /\ hostKey \in [Hop -> Key]
  /\ known \in KnownKeys /\ read \in Reading /\ late \in Reading /\ other \in Reading

\* What connects or is connected will be ended by a failure: it is the last or listed.
Reached ==
  /\ \A c \in Hop : socket[c] \in {"connecting", "open"} => c = Length \/ c \in Range(hopping)
  /\ step = "secrets" => cur = Length \/ cur \in Range(hopping)
  /\ step = "failed" => \A c \in Hop : socket[c] \in {"none", "closed"}

\* The entries of a file of keys are trusted, but for the one of a host that is asked about.
Vouched(file, but, accepted) ==
  \A c \in Hop : /\ file[c].legacy # None => <<c, file[c].legacy>> \in accepted
                 /\ c # but /\ file[c].scoped # None => <<c, file[c].scoped>> \in accepted
\* A question that is open: what is written when it is answered.
Asking(r, accepted) ==
  r.client \in Hop /\ r.file[r.client].scoped # None /\ Vouched(r.file, r.client, accepted)

\* Whoever may write the file of keys writes what is trusted, once the answer is given; and a
\* client that logs in, or has, did so to a host that is.
KeysVouched ==
  /\ Vouched(known, 0, trusted) /\ Vouched(other.file, 0, trusted)
  /\ late # clients!Nothing => Asking(late, trusted)
  /\ step = "confirm" =>
       Asking(read, trusted) /\ read.client = cur /\ read.file[cur].scoped = hostKey[cur]
  /\ step = "save" => Vouched(read.file, 0, trusted)
  /\ step \in {"save", "login"} => <<cur, hostKey[cur]>> \in trusted
  /\ \A c \in Hop : socket[c] = "open" => <<c, hostKey[c]>> \in trusted

ChainInv == ChainTypes /\ Reached /\ KeysVouched

LEMMA ChainStart == clients!Init => ChainInv
<1> SUFFICES ASSUME clients!Init PROVE ChainInv
  OBVIOUS
<1>1. PICK entry \in [scoped : Key \union {None}, legacy : Key \union {None}] :
        known = [c \in Hop |-> entry]
  BY DEF clients!Init, clients!Client, Hop
<1>2. /\ cur = 0 /\ step = "idle" /\ socket = [c \in Hop |-> "none"] /\ hopping = <<>>
      /\ hostKey \in Shown /\ read = clients!Nothing /\ late = clients!Nothing
      /\ other = clients!Nothing
      /\ trusted = {p \in Hop \X Key : p[2] \in {known[p[1]].scoped, known[p[1]].legacy}}
  BY DEF clients!Init, clients!Client, Hop
<1>3. /\ known \in KnownKeys
      /\ \A c \in Hop : known[c].scoped \in Key \union {None} /\ known[c].legacy \in Key \union {None}
  BY <1>1 DEF KnownKeys
<1>4. clients!Nothing \in Reading /\ Vouched(clients!Nothing.file, 0, trusted)
  BY DEF clients!Nothing, clients!Client, Reading, KnownKeys, Vouched, Hop
<1>5. ChainTypes
  BY <1>2, <1>3, <1>4, EndpointAssumption DEF ChainTypes, Steps, Hop
<1>6. Vouched(known, 0, trusted)
  BY <1>2, <1>3 DEF Vouched
<1>7. Reached /\ KeysVouched
  BY <1>2, <1>4, <1>6 DEF Reached, KeysVouched
<1> QED
  BY <1>5, <1>7 DEF ChainInv

\* Reversing keeps what is listed.
LEMMA ReverseKeeps ==
  ASSUME NEW S, NEW s \in Seq(S)
  PROVE  clients!Reverse(s) \in Seq(S) /\ Range(clients!Reverse(s)) = Range(s)
<1>1. clients!Reverse(s) = [i \in 1..Len(s) |-> s[(Len(s) - i) + 1]] /\ Len(s) \in Nat
  BY DEF clients!Reverse
<1>2. \A i \in 1..Len(s) : (Len(s) - i) + 1 \in 1..Len(s)
  BY <1>1
<1>3. \A i \in 1..Len(s) : i = (Len(s) - ((Len(s) - i) + 1)) + 1
  BY <1>1
<1>4. \A i \in 1..Len(s) : s[i] \in S
  OBVIOUS
<1>5. clients!Reverse(s) \in Seq(S) /\ DOMAIN clients!Reverse(s) = 1..Len(s)
  BY <1>1, <1>2, <1>4
<1> DEFINE r == clients!Reverse(s)
<1>6. \A i \in 1..Len(s) : r[i] = s[(Len(s) - i) + 1] /\ r[(Len(s) - i) + 1] = s[i]
  BY <1>1, <1>2, <1>3
<1>7. DOMAIN s = 1..Len(s)
  OBVIOUS
<1>8. DOMAIN r = 1..Len(s)
  BY <1>5 DEF r
<1> HIDE DEF r
<1>9. ASSUME NEW x \in Range(r) PROVE x \in Range(s)
  <2>1. PICK i \in 1..Len(s) : x = r[i]
    BY <1>8 DEF Range
  <2> QED
    BY <1>2, <1>6, <1>7, <2>1 DEF Range
<1>10. ASSUME NEW x \in Range(s) PROVE x \in Range(r)
  <2>1. PICK i \in 1..Len(s) : x = s[i]
    BY <1>7 DEF Range
  <2> QED
    BY <1>2, <1>6, <1>8, <2>1 DEF Range
<1> QED
  BY <1>5, <1>9, <1>10 DEF r

LEMMA AppendAdds ==
  ASSUME NEW S, NEW s \in Seq(S), NEW e \in S
  PROVE  Append(s, e) \in Seq(S) /\ Range(Append(s, e)) = Range(s) \union {e}
<1>1. /\ Append(s, e) \in Seq(S) /\ Len(Append(s, e)) = Len(s) + 1 /\ Len(s) \in Nat
      /\ Append(s, e)[Len(s) + 1] = e
      /\ \A i \in 1..Len(s) : Append(s, e)[i] = s[i]
  OBVIOUS
<1>2. DOMAIN Append(s, e) = 1..(Len(s) + 1) /\ DOMAIN s = 1..Len(s)
  BY <1>1
<1>3. 1..(Len(s) + 1) = 1..Len(s) \union {Len(s) + 1}
  BY <1>1
<1> QED
  BY <1>1, <1>2, <1>3 DEF Range

\* What ends, ends with what is tunnelled through it; the list stays the same set.
LEMMA EndsAll ==
  ASSUME ChainTypes, Reached, clients!Tell(clients!Ended)
  PROVE  /\ socket' \in [Hop -> {"none", "connecting", "open", "closed"}]
         /\ hopping' \in Seq(Hop) /\ Range(hopping') = Range(hopping)
         /\ \A c \in Hop : socket'[c] \in {"none", "closed"}
<1>1. hopping' = clients!Reverse(hopping) /\ hopping \in Seq(Hop)
  BY DEF clients!Tell, ChainTypes
<1>2. clients!Ended = {Length} \union Range(hopping)
  BY DEF clients!Ended, clients!Range, Range
<1>3. socket' = [c \in Hop |-> IF socket[c] \in {"connecting", "open"}
                                  /\ \E d \in clients!Ended : d <= c
                               THEN "closed" ELSE socket[c]]
  BY DEF clients!Tell, clients!Broken, clients!Client, Hop
<1>4. ASSUME NEW c \in Hop, socket[c] \in {"connecting", "open"}
      PROVE  \E d \in clients!Ended : d <= c
  <2>1. c \in clients!Ended
    BY <1>2, <1>4 DEF Reached
  <2>2. c <= c
    BY DEF Hop
  <2> QED
    BY <2>1, <2>2
<1>5. \A c \in Hop : socket[c] \in {"none", "connecting", "open", "closed"}
  BY DEF ChainTypes
<1>6. \A c \in Hop : socket'[c] \in {"none", "closed"}
  BY <1>3, <1>4, <1>5
<1>7. socket' \in [Hop -> {"none", "connecting", "open", "closed"}]
  BY <1>3, <1>6
<1> QED
  BY <1>1, <1>6, <1>7, ReverseKeeps

LEMMA ChainStep == ASSUME ChainInv, [clients!Next]_clientsVars PROVE ChainInv'
<1>0. /\ cur \in Hop \union {0} /\ (step # "idle" => cur \in Hop) /\ step \in Steps
      /\ socket \in [Hop -> {"none", "connecting", "open", "closed"}]
      /\ hopping \in Seq(Hop) /\ hostKey \in [Hop -> Key]
      /\ known \in KnownKeys /\ read \in Reading /\ late \in Reading /\ other \in Reading
  BY DEF ChainInv, ChainTypes
<1>1. ASSUME UNCHANGED <<known, late, other, trusted>>
      PROVE  /\ known' \in KnownKeys /\ late' \in Reading /\ other' \in Reading
             /\ Vouched(known', 0, trusted') /\ Vouched(other'.file, 0, trusted')
             /\ late' # clients!Nothing => Asking(late', trusted')
  BY <1>0, <1>1 DEF ChainInv, KeysVouched
<1>2. clients!Client = Hop /\ 1 \in Hop /\ Length \in Hop /\ None \notin Key /\ Length \in Nat
  BY EndpointAssumption DEF clients!Client, Hop
<1>3. CASE clients!Connect
  <2>1. /\ cur' = 1 /\ step' = "password" /\ socket' = [c \in Hop |-> "none"]
        /\ hopping' = <<>> /\ hostKey' \in Shown
        /\ UNCHANGED <<known, read, late, other, trusted>>
    BY <1>2, <1>3 DEF clients!Connect, clients!Go, clients!keys
  <2>2. ChainTypes'
    BY <1>0, <1>1, <1>2, <2>1, EndpointAssumption DEF ChainTypes, Steps, Hop
  <2>3. Reached' /\ KeysVouched'
    BY <1>1, <2>1 DEF Reached, KeysVouched
  <2> QED
    BY <2>2, <2>3 DEF ChainInv
\* A step of the current client that touches neither the sockets nor the keys.
<1>4. ASSUME step \in {"password", "forward", "sftp"}, step' \in {"privateKey", "done", "forward"},
             cur' \in Hop, UNCHANGED <<socket, hopping, hostKey, known, read, late, other, trusted>>
      PROVE  ChainInv'
  <2>1. ChainTypes'
    BY <1>0, <1>4 DEF ChainTypes, Steps
  <2>2. Reached'
    BY <1>4 DEF ChainInv, Reached
  <2>3. KeysVouched'
    BY <1>1, <1>4 DEF ChainInv, KeysVouched
  <2> QED
    BY <2>1, <2>2, <2>3 DEF ChainInv
<1>5. CASE clients!Password \/ clients!Forward
  BY <1>0, <1>4, <1>5
     DEF clients!Password, clients!Forward, clients!Go, clients!Alone, clients!keys
<1>6. CASE clients!Sftp
  <2>1. cur \in Hop /\ cur # Length => cur + 1 \in Hop
    BY <1>2 DEF Hop
  <2> QED
    BY <1>0, <1>4, <1>6, <2>1 DEF clients!Sftp, clients!Go, clients!Alone, clients!keys
<1>7. CASE clients!PrivateKey
  <2>1. /\ step = "privateKey" /\ step' = "secrets"
        /\ hopping' = IF cur < Length THEN Append(hopping, cur) ELSE hopping
        /\ UNCHANGED <<cur, socket, hostKey, known, read, late, other, trusted>>
    BY <1>7 DEF clients!PrivateKey, clients!Go, clients!keys
  <2>2. /\ hopping' \in Seq(Hop) /\ Range(hopping) \subseteq Range(hopping')
        /\ cur = Length \/ cur \in Range(hopping')
    <3>1. CASE cur < Length
      BY <1>0, <2>1, <3>1, AppendAdds
    <3>2. CASE ~(cur < Length)
      <4>1. cur = Length
        BY <1>0, <1>2, <2>1, <3>2 DEF Hop
      <4> QED
        BY <1>0, <2>1, <3>2, <4>1
    <3> QED
      BY <3>1, <3>2
  <2>3. ChainTypes'
    BY <1>0, <2>1, <2>2 DEF ChainTypes, Steps
  <2>4. Reached'
    BY <2>1, <2>2 DEF ChainInv, Reached
  <2>5. KeysVouched'
    BY <1>1, <2>1 DEF ChainInv, KeysVouched
  <2> QED
    BY <2>3, <2>4, <2>5 DEF ChainInv
<1>8. CASE clients!Dial
  <2>1. /\ step = "secrets" /\ step' = "verify"
        /\ socket' = [socket EXCEPT ![cur] = "connecting"]
           \/ socket' = [socket EXCEPT ![cur] = "closed"]
        /\ UNCHANGED <<cur, hopping, hostKey, known, read, late, other, trusted>>
    BY <1>8 DEF clients!Dial, clients!Go, clients!keys
  <2>2. /\ socket' \in [Hop -> {"none", "connecting", "open", "closed"}]
        /\ \A c \in Hop : c # cur => socket'[c] = socket[c]
        /\ socket'[cur] # "open"
    BY <1>0, <2>1
  <2>3. ChainTypes'
    BY <1>0, <2>1, <2>2 DEF ChainTypes, Steps
  <2>4. Reached'
    BY <2>1, <2>2 DEF ChainInv, Reached
  <2>5. KeysVouched'
    BY <1>1, <2>1, <2>2 DEF ChainInv, KeysVouched
  <2> QED
    BY <2>3, <2>4, <2>5 DEF ChainInv
\* The key that a server shows is known, moves to the workspace, or is asked about.
<1>9. CASE clients!Verify
  <2> DEFINE with == [known EXCEPT ![cur].scoped = hostKey[cur]]
  <2>1. /\ step = "verify" /\ UNCHANGED <<cur, socket, hopping, hostKey, known, late, other, trusted>>
        /\ \/ /\ known[cur].scoped = hostKey[cur] /\ step' = "login" /\ read' = clients!Nothing
           \/ /\ known[cur].legacy = hostKey[cur] /\ step' = "save"
              /\ read' = [client |-> cur, file |-> with]
           \/ step' = "confirm" /\ read' = [client |-> cur, file |-> with]
    BY <1>9 DEF clients!Verify, clients!Go, clients!Migrates, clients!With
  <2>2. cur \in Hop /\ hostKey[cur] \in Key
    BY <1>0, <2>1
  <2>3. /\ with \in KnownKeys /\ with[cur].scoped = hostKey[cur]
        /\ with[cur].legacy = known[cur].legacy /\ \A c \in Hop : c # cur => with[c] = known[c]
    BY <1>0, <2>2 DEF KnownKeys
  <2>4. Vouched(known, 0, trusted)
    BY DEF ChainInv, KeysVouched
  <2>5. \A c \in Hop : /\ known[c].legacy # None => <<c, known[c].legacy>> \in trusted
                       /\ known[c].scoped # None => <<c, known[c].scoped>> \in trusted
    <3>1. \A c \in Hop : c # 0
      BY DEF Hop
    <3> QED
      BY <2>4, <3>1 DEF Vouched
  <2>6. known[cur].scoped = hostKey[cur] \/ known[cur].legacy = hostKey[cur]
          => <<cur, hostKey[cur]>> \in trusted
    <3>1. hostKey[cur] # None
      BY <1>2, <2>2
    <3> QED
      BY <2>2, <2>5, <3>1
  <2> HIDE DEF with
  <2>7. Vouched(with, cur, trusted)
    BY <2>3, <2>5 DEF Vouched
  <2>8. <<cur, hostKey[cur]>> \in trusted => Vouched(with, 0, trusted)
    BY <2>3, <2>7 DEF Vouched
  <2>9. clients!Nothing \in Reading
    BY <1>2 DEF clients!Nothing, Reading, KnownKeys
  <2>10. read' \in Reading
    BY <2>1, <2>2, <2>3, <2>9 DEF Reading
  <2>11. ChainTypes'
    BY <1>0, <2>1, <2>10 DEF ChainTypes, Steps
  <2>12. Reached'
    BY <2>1 DEF ChainInv, Reached
  <2>13. KeysVouched'
    <3>1. CASE step' = "login"
      BY <1>1, <2>1, <2>6, <3>1 DEF ChainInv, KeysVouched
    <3>2. CASE step' = "save"
      BY <1>1, <2>1, <2>8, <2>6, <3>2 DEF ChainInv, KeysVouched
    <3>3. CASE step' = "confirm"
      <4>1. Asking(read', trusted') /\ read'.client = cur' /\ read'.file[cur'].scoped = hostKey'[cur']
        BY <1>2, <2>1, <2>2, <2>3, <2>7, <3>3 DEF Asking
      <4> QED
        BY <1>1, <2>1, <3>3, <4>1 DEF ChainInv, KeysVouched
    <3> QED
      BY <2>1, <3>1, <3>2, <3>3
  <2> QED
    BY <2>11, <2>12, <2>13 DEF ChainInv
\* More is trusted than before.
<1>10. ASSUME trusted \subseteq trusted', NEW f, NEW b
       PROVE  /\ Vouched(f, b, trusted) => Vouched(f, b, trusted')
              /\ Asking(f, trusted) => Asking(f, trusted')
  BY <1>10 DEF Vouched, Asking
<1>11. CASE clients!Accept
  <2>1. /\ step = "confirm" /\ step' = "save" /\ trusted' = trusted \union {<<cur, hostKey[cur]>>}
        /\ UNCHANGED <<cur, socket, hopping, hostKey, known, read, late, other>>
    BY <1>11 DEF clients!Accept, clients!Go
  <2>2. ChainTypes'
    BY <1>0, <2>1 DEF ChainTypes, Steps
  <2>3. Reached'
    BY <2>1 DEF ChainInv, Reached
  <2>4. /\ Vouched(read.file, cur, trusted) /\ read.file[cur].scoped = hostKey[cur]
    BY <2>1 DEF ChainInv, KeysVouched, Asking
  <2>5. Vouched(read.file, 0, trusted')
    BY <2>1, <2>4 DEF Vouched
  <2>6. KeysVouched'
    BY <1>10, <2>1, <2>5 DEF ChainInv, KeysVouched
  <2> QED
    BY <2>2, <2>3, <2>6 DEF ChainInv
<1>12. CASE clients!Save
  <2>1. /\ step = "save" /\ step' = "login" /\ known' = read.file /\ read' = clients!Nothing
        /\ UNCHANGED <<cur, socket, hopping, hostKey, late, other, trusted>>
    BY <1>12 DEF clients!Save, clients!Go
  <2>2. clients!Nothing \in Reading /\ read.file \in KnownKeys
    BY <1>0, <1>2 DEF clients!Nothing, Reading, KnownKeys
  <2>3. ChainTypes'
    BY <1>0, <2>1, <2>2 DEF ChainTypes, Steps
  <2>4. Reached'
    BY <2>1 DEF ChainInv, Reached
  <2>5. KeysVouched'
    BY <2>1 DEF ChainInv, KeysVouched
  <2> QED
    BY <2>3, <2>4, <2>5 DEF ChainInv
<1>13. CASE clients!Login
  <2>1. /\ step = "login" /\ step' = "sftp" /\ socket[cur] = "connecting"
        /\ socket' = [socket EXCEPT ![cur] = "open"]
        /\ UNCHANGED <<cur, hopping, hostKey, known, read, late, other, trusted>>
    BY <1>13 DEF clients!Login, clients!Go, clients!keys
  <2>2. /\ socket' \in [Hop -> {"none", "connecting", "open", "closed"}]
        /\ \A c \in Hop : c # cur => socket'[c] = socket[c]
    BY <1>0, <2>1
  <2>3. ChainTypes'
    BY <1>0, <2>1, <2>2 DEF ChainTypes, Steps
  <2>4. Reached'
    BY <2>1, <2>2 DEF ChainInv, Reached
  <2>5. KeysVouched'
    BY <1>1, <2>1, <2>2 DEF ChainInv, KeysVouched
  <2> QED
    BY <2>3, <2>4, <2>5 DEF ChainInv
<1>14. CASE clients!Fail
  <2>1. /\ step # "idle" /\ step' = "failed" /\ clients!Tell(clients!Ended)
        /\ late' = IF step = "confirm" THEN read ELSE late
        /\ UNCHANGED <<cur, hostKey, known, read, other, trusted>>
    BY <1>14 DEF clients!Fail
  <2>2. /\ socket' \in [Hop -> {"none", "connecting", "open", "closed"}]
        /\ hopping' \in Seq(Hop) /\ Range(hopping') = Range(hopping)
        /\ \A c \in Hop : socket'[c] \in {"none", "closed"}
    BY <2>1, EndsAll DEF ChainInv
  <2>3. ChainTypes'
    BY <1>0, <2>1, <2>2 DEF ChainTypes, Steps
  <2>4. Reached'
    BY <2>1, <2>2 DEF Reached
  <2>5. KeysVouched'
    BY <2>1, <2>2 DEF ChainInv, KeysVouched
  <2> QED
    BY <2>3, <2>4, <2>5 DEF ChainInv
<1>15. CASE clients!End
  <2>1. clients!Tell(clients!Ended) /\ UNCHANGED <<cur, step, hostKey, known, read, late, other, trusted>>
    BY <1>15 DEF clients!End, clients!keys
  <2>2. /\ socket' \in [Hop -> {"none", "connecting", "open", "closed"}]
        /\ hopping' \in Seq(Hop) /\ Range(hopping') = Range(hopping)
        /\ \A c \in Hop : socket'[c] \in {"none", "closed"}
    BY <2>1, EndsAll DEF ChainInv
  <2>3. ChainTypes'
    BY <1>0, <2>1, <2>2 DEF ChainTypes, Steps
  <2>4. Reached'
    BY <2>1, <2>2 DEF ChainInv, Reached
  <2>5. KeysVouched'
    BY <2>1, <2>2 DEF ChainInv, KeysVouched
  <2> QED
    BY <2>3, <2>4, <2>5 DEF ChainInv
<1>16. ASSUME NEW d \in Hop, clients!Drop(d) PROVE ChainInv'
  <2>1. /\ socket' = [c \in Hop |-> IF socket[c] \in {"connecting", "open"} /\ \E e \in {d} : e <= c
                                   THEN "closed" ELSE socket[c]]
        /\ UNCHANGED <<cur, step, hopping, hostKey, known, read, late, other, trusted>>
    BY <1>2, <1>16 DEF clients!Drop, clients!Broken, clients!keys
  <2>2. /\ socket' \in [Hop -> {"none", "connecting", "open", "closed"}]
        /\ \A c \in Hop : socket'[c] \in {"closed", socket[c]}
    BY <1>0, <2>1
  <2>3. ChainTypes'
    BY <1>0, <2>1, <2>2 DEF ChainTypes, Steps
  <2>4. Reached'
    BY <2>1, <2>2 DEF ChainInv, Reached
  <2>5. KeysVouched'
    BY <2>1, <2>2 DEF ChainInv, KeysVouched
  <2> QED
    BY <2>3, <2>4, <2>5 DEF ChainInv
<1>17. CASE clients!LateAnswer
  <2> DEFINE asked == <<late.client, late.file[late.client].scoped>>
  <2>1. /\ late # clients!Nothing /\ late' = clients!Nothing /\ known' = late.file
        /\ trusted' = trusted \union {asked}
        /\ UNCHANGED <<cur, step, socket, hopping, hostKey, read, other>>
    BY <1>17 DEF clients!LateAnswer, clients!connection
  <2>2. clients!Nothing \in Reading /\ late.file \in KnownKeys
    BY <1>0, <1>2 DEF clients!Nothing, Reading, KnownKeys
  <2>3. Vouched(late.file, late.client, trusted)
    BY <2>1 DEF ChainInv, KeysVouched, Asking
  <2>4. Vouched(late.file, 0, trusted')
    BY <2>1, <2>3 DEF Vouched
  <2>5. ChainTypes'
    BY <1>0, <2>1, <2>2 DEF ChainTypes, Steps
  <2>6. Reached'
    BY <2>1 DEF ChainInv, Reached
  <2> HIDE DEF asked
  <2>7. KeysVouched'
    BY <1>10, <2>1, <2>4 DEF ChainInv, KeysVouched
  <2> QED
    BY <2>5, <2>6, <2>7 DEF ChainInv
<1>18. CASE clients!OtherReads
  <2>1. /\ other' = [client |-> Length, file |-> known]
        /\ UNCHANGED <<cur, step, socket, hopping, hostKey, known, read, late, trusted>>
    BY <1>18 DEF clients!OtherReads, clients!connection
  <2>2. other' \in Reading /\ other'.file = known
    BY <1>0, <1>2, <2>1 DEF Reading
  <2>3. ChainTypes'
    BY <1>0, <2>1, <2>2 DEF ChainTypes
  <2>4. Reached' /\ KeysVouched'
    BY <2>1, <2>2 DEF ChainInv, Reached, KeysVouched
  <2> QED
    BY <2>3, <2>4 DEF ChainInv
<1>19. CASE clients!OtherSaves
  <2>1. /\ other' = clients!Nothing /\ known' = other.file
        /\ UNCHANGED <<cur, step, socket, hopping, hostKey, read, late, trusted>>
    BY <1>19 DEF clients!OtherSaves, clients!connection
  <2>2. /\ clients!Nothing \in Reading /\ other.file \in KnownKeys
        /\ Vouched(clients!Nothing.file, 0, trusted)
    BY <1>0, <1>2 DEF clients!Nothing, Reading, KnownKeys, Vouched
  <2>3. ChainTypes'
    BY <1>0, <2>1, <2>2 DEF ChainTypes
  <2>4. Reached' /\ KeysVouched'
    BY <2>1, <2>2 DEF ChainInv, Reached, KeysVouched
  <2> QED
    BY <2>3, <2>4 DEF ChainInv
<1>20. CASE UNCHANGED clientsVars
  BY <1>20 DEF clientsVars, ChainInv, ChainTypes, Reached, KeysVouched
<1> QED
  BY <1>2, <1>3, <1>5, <1>6, <1>7, <1>8, <1>9, <1>11, <1>12, <1>13, <1>14, <1>15, <1>16, <1>17,
     <1>18, <1>19, <1>20 DEF clients!Next

\* The chain is a part of its own.
LEMMA ChainPart ==
  /\ MCInit => clients!Init
  /\ [MCNext]_<<part, vars, activityVars, changesVars, clientsVars, explorerVars>> =>
       [clients!Next]_clientsVars
BY DEF MCInit, MCNext

\* A failed attempt to connect leaves no connection behind, and a connection is only made to
\* a host whose key was known or accepted (sshClient.ts, checkHostKey), for chains of any
\* length, any keys and any number of attempts.
THEOREM ChainsAreSound == MCSpec => []ChainIsSound
<1>1. ChainInv /\ [clients!Next]_clientsVars => ChainInv'
  BY ChainStep
<1>2. ChainInv => ChainIsSound
  BY DEF ChainInv, Reached, KeysVouched, ChainIsSound, clients!ChainIsSound, clients!Client, Hop
<1> QED
  BY <1>1, <1>2, ChainStart, ChainPart, PTL DEF MCSpec
-------------------------------------------------------------------------------
(* The tree of the remote explorer                                           *)

\* A folder is asked for in due course: of the folders the editor is about to ask for, those
\* named f that could be read.
Owed(f) == {i \in due : i.path = f /\ i \notin failing}

Roots == [built : BOOLEAN, made : Nat, id : Nat, profile : Profile]
TreeTypes ==
  /\ service \in [id : Nat, profile : Profile] /\ untold \in Nat /\ altered \in Nat
  /\ roots \in Roots /\ due \subseteq [id : Nat, path : Folder] /\ credit \in [Folder -> Int]
  /\ \A l \in listings : l.id \in Nat /\ l.path \in Folder

\* The roots are those of the service and profile in force, or a change is still to be told.
RootsInForce ==
  roots.built /\ untold = 0 =>
    /\ roots.profile = service.profile
    /\ roots.id = IF service.profile \in Fits THEN service.id ELSE 0

\* Items are of the roots, and so is what is being listed, unless the roots were made since.
OfTheRoots ==
  /\ roots.built => \A i \in nodes : i.id = roots.id /\ i.from = explorer!From(roots)
  /\ \A l \in listings : /\ l.made \in Nat /\ l.made <= roots.made
                         /\ l.made = roots.made => l.from = explorer!From(roots)

\* A folder was asked for as often as it is about to be read, or more.
Paid == \A f \in Folder : /\ IsFiniteSet(Owed(f)) /\ Cardinality(Owed(f)) <= credit[f]

TreeInv == TreeTypes /\ RootsInForce /\ OfTheRoots /\ Paid

LEMMA TreeStart == explorer!Init => TreeInv
<1> SUFFICES ASSUME explorer!Init PROVE TreeInv
  OBVIOUS
<1>1. PICK profile \in Profile : service = [id |-> 1, profile |-> profile]
  BY DEF explorer!Init
<1>2. /\ roots = [built |-> FALSE, made |-> 0, id |-> 0, profile |-> service.profile]
      /\ altered = 0 /\ untold = 0 /\ nodes = {} /\ failing = {} /\ due = {} /\ listings = {}
      /\ credit = [f \in Folder |-> 0]
  BY DEF explorer!Init
<1>3. TreeTypes /\ RootsInForce /\ OfTheRoots
  BY <1>1, <1>2 DEF TreeTypes, Roots, RootsInForce, OfTheRoots
<1>4. Paid
  BY <1>2, FS_EmptySet DEF Paid, Owed
<1> QED
  BY <1>3, <1>4 DEF TreeInv

\* A set that gets at most one more, or loses one.
LEMMA OneMore ==
  ASSUME NEW S, IsFiniteSet(S), NEW x, NEW T \in SUBSET (S \union {x}),
         NEW n \in Int, Cardinality(S) <= n
  PROVE  IsFiniteSet(T) /\ Cardinality(T) <= n + 1 /\ (T \subseteq S => Cardinality(T) <= n)
<1>1. /\ IsFiniteSet(S \union {x}) /\ Cardinality(S) \in Nat
      /\ Cardinality(S \union {x}) \in Nat /\ Cardinality(S \union {x}) <= Cardinality(S) + 1
  <2>1. IsFiniteSet(S \union {x}) /\ Cardinality(S \union {x}) =
          (IF x \in S THEN Cardinality(S) ELSE Cardinality(S) + 1)
    BY FS_AddElement
  <2>2. Cardinality(S) \in Nat
    BY FS_CardinalityType
  <2> QED
    BY <2>1, <2>2
<1>2. IsFiniteSet(T) /\ Cardinality(T) <= Cardinality(S \union {x})
  BY <1>1, FS_Subset
<1>3. Cardinality(T) \in Nat
  BY <1>2, FS_CardinalityType
<1>4. T \subseteq S => Cardinality(T) <= Cardinality(S)
  BY FS_Subset
<1> QED
  BY <1>1, <1>2, <1>3, <1>4

LEMMA OneLess ==
  ASSUME NEW S, IsFiniteSet(S), NEW x \in S, NEW n \in Int, Cardinality(S) <= n
  PROVE  IsFiniteSet(S \ {x}) /\ Cardinality(S \ {x}) <= n - 1
<1>1. IsFiniteSet(S \ {x}) /\ Cardinality(S \ {x}) =
        (IF x \in S THEN Cardinality(S) - 1 ELSE Cardinality(S))
  BY FS_RemoveElement
<1>2. Cardinality(S) \in Nat
  BY FS_CardinalityType
<1> QED
  BY <1>1, <1>2

\* The roots as they are made when there are none.
LEMMA BuiltRoots ==
  ASSUME TreeInv
  PROVE  /\ explorer!Built \in Roots /\ explorer!Built.built
         /\ untold = 0 => /\ explorer!Built.profile = service.profile
                          /\ explorer!Built.id = IF service.profile \in Fits THEN service.id ELSE 0
         /\ \A i \in explorer!Cached :
              i.id = explorer!Built.id /\ i.from = explorer!From(explorer!Built)
         /\ \A l \in listings :
              /\ l.made \in Nat /\ l.made <= explorer!Built.made
              /\ l.made = explorer!Built.made => l.from = explorer!From(explorer!Built)
<1>1. /\ service \in [id : Nat, profile : Profile] /\ roots \in Roots
      /\ \A l \in listings : l.made \in Nat /\ l.made <= roots.made
  BY DEF TreeInv, TreeTypes, OfTheRoots
<1>2. CASE roots.built
  <2>1. explorer!Built = roots /\ explorer!Cached = nodes
    BY <1>2 DEF explorer!Built, explorer!Cached
  <2> QED
    BY <1>1, <1>2, <2>1 DEF TreeInv, RootsInForce, OfTheRoots
<1>3. CASE ~roots.built
  <2>1. /\ explorer!Cached = {}
        /\ explorer!Built = [built |-> TRUE, made |-> roots.made + 1, profile |-> service.profile,
                             id |-> IF service.profile \in Fits THEN service.id ELSE 0]
    BY <1>3 DEF explorer!Built, explorer!Cached
  <2>2. roots.made \in Nat /\ service.id \in Nat /\ service.profile \in Profile
    BY <1>1 DEF Roots
  <2>3. /\ explorer!Built \in Roots /\ explorer!Built.built /\ explorer!Built.made = roots.made + 1
        /\ explorer!Built.profile = service.profile
        /\ explorer!Built.id = IF service.profile \in Fits THEN service.id ELSE 0
    BY <2>1, <2>2 DEF Roots
  <2>4. \A l \in listings : l.made \in Nat /\ l.made < explorer!Built.made
    BY <1>1, <2>2, <2>3
  <2>5. \A l \in listings : l.made <= explorer!Built.made /\ l.made # explorer!Built.made
    BY <2>2, <2>3, <2>4
  <2> QED
    BY <1>1, <2>1, <2>3, <2>5
<1> QED
  BY <1>2, <1>3

\* A step that makes the roots if there are none, and shows only what is of them.
LEMMA BuiltStep ==
  ASSUME TreeInv, roots' = explorer!Built, UNCHANGED <<service, untold, altered>>,
         \A i \in nodes' : i.id = explorer!Built.id /\ i.from = explorer!From(explorer!Built),
         \A l \in listings' : \/ l \in listings
                              \/ /\ l.made = explorer!Built.made
                                 /\ l.from = explorer!From(explorer!Built)
  PROVE  /\ RootsInForce' /\ OfTheRoots' /\ roots' \in Roots
<1>1. explorer!Built.made \in Nat
  BY BuiltRoots DEF Roots
<1>2. explorer!From(roots)' = explorer!From(explorer!Built)
  BY DEF explorer!From
<1>3. RootsInForce'
  BY BuiltRoots DEF RootsInForce
<1>4. OfTheRoots'
  <2>1. \A l \in listings' : /\ l.made \in Nat /\ l.made <= explorer!Built.made
                             /\ l.made = explorer!Built.made => l.from = explorer!From(explorer!Built)
    BY <1>1, BuiltRoots
  <2> QED
    BY <1>2, <2>1 DEF OfTheRoots
<1> QED
  BY <1>3, <1>4, BuiltRoots

\* A refresh of everything: each folder is asked for once at most.
LEMMA EverythingStep ==
  ASSUME TreeInv, explorer!Everything, service' \in [id : Nat, profile : Profile],
         untold' \in Nat, altered' \in Nat
  PROVE  TreeInv'
<1>1. /\ roots' = [roots EXCEPT !.built = FALSE] /\ failing' = {}
      /\ credit' = [f \in Folder |-> credit[f] + 1] /\ UNCHANGED <<nodes, listings>>
  BY DEF explorer!Everything, explorer!Unbuilt
<1>2. PICK open \in SUBSET Folder : due' = [id : {service'.id} \ {0}, path : open]
  BY DEF explorer!Everything
<1>3. /\ roots \in Roots /\ credit \in [Folder -> Int] /\ service'.id \in Nat
      /\ \A l \in listings : l.id \in Nat /\ l.path \in Folder
  BY DEF TreeInv, TreeTypes
<1>4. /\ roots' \in Roots /\ ~roots'.built /\ roots'.made = roots.made
      /\ roots'.id = roots.id /\ roots'.profile = roots.profile
  BY <1>1, <1>3 DEF Roots
<1>5. TreeTypes'
  <2>1. due' \subseteq [id : Nat, path : Folder]
    BY <1>2, <1>3
  <2>2. credit' \in [Folder -> Int]
    BY <1>1, <1>3
  <2> QED
    BY <1>1, <1>3, <1>4, <2>1, <2>2 DEF TreeTypes
<1>6. RootsInForce' /\ OfTheRoots'
  <2>1. explorer!From(roots)' = explorer!From(roots)
    BY <1>4 DEF explorer!From
  <2> QED
    BY <1>1, <1>4, <2>1 DEF RootsInForce, OfTheRoots, TreeInv
<1>7. ASSUME NEW f \in Folder
      PROVE  IsFiniteSet(Owed(f)') /\ Cardinality(Owed(f)') <= credit'[f]
  <2>1. Owed(f)' = {i \in due' : i.path = f /\ i \notin failing'}
    BY DEF Owed
  <2>2. Owed(f)' \in SUBSET ({} \union {[id |-> service'.id, path |-> f]})
    BY <1>2, <2>1
  <2>3. /\ IsFiniteSet(Owed(f)) /\ Cardinality(Owed(f)) <= credit[f] /\ credit[f] \in Int
        /\ Cardinality(Owed(f)) \in Nat
    BY <1>3, FS_CardinalityType DEF TreeInv, Paid
  <2>4. 0 <= credit[f] /\ credit'[f] = credit[f] + 1
    BY <1>1, <2>3
  <2>5. IsFiniteSet({}) /\ Cardinality({}) <= 0 /\ 0 \in Int
    BY FS_EmptySet
  <2> DEFINE T == Owed(f)'
             S == {}
             x == [id |-> service'.id, path |-> f]
  <2>6. IsFiniteSet(T) /\ Cardinality(T) <= 0 + 1
    <3>1. IsFiniteSet(S) /\ Cardinality(S) <= 0 /\ T \in SUBSET (S \union {x})
      BY <2>2, <2>5
    <3> HIDE DEF S, T, x
    <3> QED
      BY <2>5, <3>1, OneMore
  <2>7. Cardinality(Owed(f)') \in Nat
    BY <2>6, FS_CardinalityType
  <2> QED
    BY <2>3, <2>4, <2>6, <2>7
<1> QED
  BY <1>5, <1>6, <1>7 DEF TreeInv, Paid

\* A folder that is asked for once more: there is at most one request more.
LEMMA PaidStep ==
  ASSUME TreeInv, NEW f \in Folder, NEW x,
         \/ Owed(f)' \subseteq Owed(f) /\ credit'[f] = credit[f]
         \/ Owed(f)' \subseteq Owed(f) \union {x} /\ credit'[f] = credit[f] + 1
         \/ x \in Owed(f) /\ Owed(f)' = Owed(f) \ {x} /\ credit'[f] = credit[f] - 1
  PROVE  IsFiniteSet(Owed(f)') /\ Cardinality(Owed(f)') <= credit'[f]
<1>1. IsFiniteSet(Owed(f)) /\ Cardinality(Owed(f)) <= credit[f] /\ credit[f] \in Int
  BY DEF TreeInv, TreeTypes, Paid
<1> DEFINE S == Owed(f)
           T == Owed(f)'
<1>2. IsFiniteSet(S) /\ Cardinality(S) <= credit[f] /\ credit[f] \in Int
  BY <1>1
<1>3. \/ T \subseteq S /\ credit'[f] = credit[f]
      \/ T \subseteq S \union {x} /\ credit'[f] = credit[f] + 1
      \/ x \in S /\ T = S \ {x} /\ credit'[f] = credit[f] - 1
  OBVIOUS
<1> HIDE DEF S, T
<1>4. T \subseteq S => IsFiniteSet(T) /\ Cardinality(T) <= credit[f]
  BY <1>2, OneMore
<1>5. T \subseteq S \union {x} => IsFiniteSet(T) /\ Cardinality(T) <= credit[f] + 1
  BY <1>2, OneMore
<1>6. x \in S => IsFiniteSet(S \ {x}) /\ Cardinality(S \ {x}) <= credit[f] - 1
  BY <1>2, OneLess
<1>7. IsFiniteSet(T) /\ Cardinality(T) <= credit'[f]
  BY <1>3, <1>4, <1>5, <1>6
<1> QED
  BY <1>7 DEF T

\* A refresh of folders: what failed is tried again, and only items of the service go.
LEMMA FoldersStep ==
  ASSUME TreeInv, NEW id \in Nat, NEW folders \in SUBSET Folder, NEW kept, NEW failures,
         explorer!RefreshFolders(id, folders, kept, failures),
         UNCHANGED <<service, untold, altered>>,
         explorer!FindRoot(id) =>
           \A i \in kept : i.id = explorer!Built.id /\ i.from = explorer!From(explorer!Built),
         failures \subseteq failing, \A x \in failing \ failures : x.id = id
  PROVE  TreeInv'
<1>1. CASE ~explorer!FindRoot(id)
  <2>1. explorer!Everything
    BY <1>1 DEF explorer!RefreshFolders
  <2> QED
    BY <2>1, EverythingStep DEF TreeInv, TreeTypes
<1>2. CASE explorer!FindRoot(id)
  <2> DEFINE refreshed == {explorer!Item(id, f) : f \in folders}
             again == folders \union {i.path : i \in failing \ failures}
  <2>1. /\ roots' = explorer!Built /\ nodes' = kept /\ failing' = failures \ refreshed
        /\ due' = due \union refreshed /\ listings' = listings
        /\ credit' = [f \in Folder |-> IF f \in again THEN credit[f] + 1 ELSE credit[f]]
    BY <1>2 DEF explorer!RefreshFolders
  <2>2. RootsInForce' /\ OfTheRoots' /\ roots' \in Roots
    <3>1. \A i \in nodes' : i.id = explorer!Built.id /\ i.from = explorer!From(explorer!Built)
      BY <1>2, <2>1
    <3>2. \A l \in listings' : l \in listings
      BY <2>1
    <3>3. roots' = explorer!Built
      BY <2>1
    <3> HIDE DEF refreshed, again
    <3> QED
      BY <3>1, <3>2, <3>3, BuiltStep
  <2>3. /\ due \subseteq [id : Nat, path : Folder] /\ credit \in [Folder -> Int]
    BY DEF TreeInv, TreeTypes
  <2>4. refreshed \subseteq [id : Nat, path : Folder]
    BY DEF explorer!Item
  <2>5. TreeTypes'
    BY <2>1, <2>2, <2>3, <2>4 DEF TreeInv, TreeTypes
  <2>6. ASSUME NEW f \in Folder
        PROVE  IsFiniteSet(Owed(f)') /\ Cardinality(Owed(f)') <= credit'[f]
    <3> DEFINE x == [id |-> id, path |-> f]
    <3>1. Owed(f)' = {i \in due \union refreshed : i.path = f /\ i \notin failures \ refreshed}
      BY <2>1 DEF Owed
    <3>2. ASSUME NEW i \in Owed(f)', i \notin Owed(f) PROVE i = x /\ f \in again
      <4>1. i \in due \union refreshed /\ i.path = f /\ (i \notin failures \/ i \in refreshed)
        BY <3>1, <3>2
      <4>2. CASE i \in refreshed
        <5>1. PICK g \in folders : i = [id |-> id, path |-> g]
          BY <4>2 DEF explorer!Item
        <5> QED
          BY <4>1, <5>1
      <4>3. CASE i \notin refreshed
        <5>1. i \in due /\ i \in failing /\ i \notin failures
          BY <3>2, <4>1, <4>3 DEF Owed
        <5>2. i.id = id /\ i \in [id : Nat, path : Folder]
          BY <2>3, <5>1
        <5>3. i = x
          BY <4>1, <5>2
        <5> QED
          BY <4>1, <5>1, <5>3
      <4> QED
        BY <4>2, <4>3
    <3>3. credit'[f] = IF f \in again THEN credit[f] + 1 ELSE credit[f]
      BY <2>1
    <3> HIDE DEF x, again
    <3>4. CASE f \in again
      <4>1. Owed(f)' \subseteq Owed(f) \union {x} /\ credit'[f] = credit[f] + 1
        BY <3>2, <3>3, <3>4
      <4> QED
        BY <4>1, PaidStep
    <3>5. CASE f \notin again
      <4>1. Owed(f)' \subseteq Owed(f) /\ credit'[f] = credit[f]
        BY <3>2, <3>3, <3>5
      <4> QED
        BY <4>1, PaidStep
    <3> QED
      BY <3>4, <3>5
  <2> QED
    BY <2>2, <2>5, <2>6 DEF TreeInv, Paid
<1> QED
  BY <1>1, <1>2

LEMMA ParentsStep ==
  ASSUME NEW id, NEW paths, NEW kept, explorer!FindRoot(id),
         \A i \in kept : i.id = explorer!Built.id /\ i.from = explorer!From(explorer!Built)
  PROVE  \A i \in kept \union explorer!ParentItems(id, paths, kept) :
           i.id = explorer!Built.id /\ i.from = explorer!From(explorer!Built)
BY DEF explorer!FindRoot, explorer!ParentItems

LEMMA FilesStep ==
  ASSUME TreeInv, NEW id \in Nat, NEW paths \in SUBSET (Path \ {Root}), NEW kept \in SUBSET explorer!Cached,
         NEW failures, explorer!RefreshFiles(id, paths, kept, failures),
         UNCHANGED <<service, untold, altered>>,
         failures \subseteq failing, \A x \in failing \ failures : x.id = id
  PROVE  TreeInv'
<1> DEFINE folders == {ParentOf[p] : p \in paths}
           all == kept \union explorer!ParentItems(id, paths, kept)
<1>1. explorer!RefreshFolders(id, folders, all, failures)
  BY DEF explorer!RefreshFiles
<1>2. folders \in SUBSET Folder
  BY EndpointAssumption
<1>3. explorer!FindRoot(id) =>
        \A i \in all : i.id = explorer!Built.id /\ i.from = explorer!From(explorer!Built)
  BY BuiltRoots, ParentsStep
<1> HIDE DEF folders, all
<1> QED
  BY <1>1, <1>2, <1>3, FoldersStep

LEMMA TreeStep == ASSUME TreeInv, [explorer!Next]_explorerVars PROVE TreeInv'
<1>0. /\ service \in [id : Nat, profile : Profile] /\ untold \in Nat /\ altered \in Nat
      /\ roots \in Roots /\ due \subseteq [id : Nat, path : Folder] /\ credit \in [Folder -> Int]
      /\ \A l \in listings : l.id \in Nat /\ l.path \in Folder
      /\ explorer!Served \subseteq Nat
  BY DEF TreeInv, TreeTypes, explorer!Served
<1>1. CASE explorer!Refresh
  <2>1. UNCHANGED <<service, altered, untold>>
    BY <1>1 DEF explorer!Refresh
  <2>2. CASE explorer!Everything
    BY <1>0, <2>1, <2>2, EverythingStep
  <2>3. ASSUME NEW id \in explorer!Served, NEW f \in Folder,
               explorer!RefreshFolders(id, {f}, explorer!Cached, failing)
        PROVE  TreeInv'
    <3>1. id \in Nat /\ {f} \in SUBSET Folder
      BY <1>0
    <3> QED
      BY <2>1, <2>3, <3>1, BuiltRoots, FoldersStep
  <2>4. ASSUME NEW id \in explorer!Served, NEW p \in Path \ {Root},
               explorer!RefreshFiles(id, {p}, explorer!Cached, failing)
        PROVE  TreeInv'
    <3>1. id \in Nat /\ {p} \in SUBSET (Path \ {Root})
      BY <1>0
    <3> QED
      BY <2>1, <2>4, <3>1, FilesStep
  <2> QED
    BY <1>1, <2>2, <2>3, <2>4 DEF explorer!Refresh
<1>2. ASSUME NEW id \in explorer!Served, NEW from \in Path \ {Root}, NEW to \in Path \ {Root},
             explorer!Rename(id, from, to)
      PROVE  TreeInv'
  <2> DEFINE gone == {i \in nodes : i.id = id /\ explorer!Below(from, i.path)}
             failures == failing \ {explorer!Item(i.id, i.path) : i \in gone}
  <2>1. /\ UNCHANGED <<service, altered, untold>>
        /\ explorer!RefreshFiles(id, {from, to}, explorer!Cached \ gone, failures)
    BY <1>2 DEF explorer!Rename
  <2>2. failures \subseteq failing /\ \A x \in failing \ failures : x.id = id
    BY DEF explorer!Item
  <2>3. id \in Nat /\ {from, to} \in SUBSET (Path \ {Root})
        /\ explorer!Cached \ gone \in SUBSET explorer!Cached
    BY <1>0
  <2> HIDE DEF gone, failures
  <2> QED
    BY <2>1, <2>2, <2>3, FilesStep
\* The roots are made, and of the requests nothing changes but the folder that is read.
<1>3. ASSUME roots' = explorer!Built, UNCHANGED <<service, altered, untold>>,
             \A i \in nodes' : i.id = explorer!Built.id /\ i.from = explorer!From(explorer!Built),
             \A l \in listings' : \/ l \in listings
                                  \/ /\ l.made = explorer!Built.made
                                     /\ l.from = explorer!From(explorer!Built)
                                     /\ l.id \in Nat /\ l.path \in Folder,
             due' \subseteq [id : Nat, path : Folder], credit' \in [Folder -> Int],
             \A f \in Folder : IsFiniteSet(Owed(f)') /\ Cardinality(Owed(f)') <= credit'[f]
      PROVE  TreeInv'
  <2>1. RootsInForce' /\ OfTheRoots' /\ roots' \in Roots
    BY <1>3, BuiltStep
  <2>2. TreeTypes'
    BY <1>0, <1>3, <2>1 DEF TreeTypes
  <2> QED
    BY <1>3, <2>1, <2>2 DEF TreeInv, Paid
<1>4. ASSUME UNCHANGED <<due, failing, credit>>
      PROVE  \A f \in Folder : IsFiniteSet(Owed(f)') /\ Cardinality(Owed(f)') <= credit'[f]
  BY <1>4 DEF TreeInv, Paid, Owed
<1>5. CASE explorer!GetRoots
  BY <1>0, <1>3, <1>4, <1>5, BuiltRoots DEF explorer!GetRoots
<1>6. ASSUME NEW p \in Path \ {Root}, explorer!Reveal(p) PROVE TreeInv'
  <2>1. /\ explorer!FindRoot(service.id) /\ roots' = explorer!Built
        /\ nodes' = explorer!Cached \union explorer!ParentItems(service.id, {p}, explorer!Cached)
        /\ UNCHANGED <<service, altered, untold, failing, due, listings, credit>>
    BY <1>6 DEF explorer!Reveal
  <2>2. \A i \in nodes' : i.id = explorer!Built.id /\ i.from = explorer!From(explorer!Built)
    BY <2>1, BuiltRoots, ParentsStep
  <2> QED
    BY <1>0, <1>3, <1>4, <2>1, <2>2
<1>7. CASE explorer!SaveConfig
  <2>1. /\ altered' = altered + 1 /\ untold' = untold + 1
        /\ service' = [service EXCEPT !.id = 0] \/ service' = [service EXCEPT !.id = altered + 2]
        /\ UNCHANGED <<roots, nodes, failing, due, listings, credit>>
    BY <1>7 DEF explorer!SaveConfig
  <2>2. service' \in [id : Nat, profile : Profile] /\ untold' \in Nat /\ untold' # 0 /\ altered' \in Nat
    BY <1>0, <2>1
  <2>3. TreeTypes' /\ RootsInForce'
    BY <1>0, <2>1, <2>2 DEF TreeTypes, RootsInForce
  <2>4. OfTheRoots'
    BY <2>1 DEF TreeInv, OfTheRoots, explorer!From
  <2> QED
    BY <1>4, <2>1, <2>3, <2>4 DEF TreeInv, Paid
<1>8. CASE explorer!TellSaved
  <2>1. explorer!Everything /\ untold' = untold - 1 /\ untold > 0 /\ UNCHANGED <<service, altered>>
    BY <1>8 DEF explorer!TellSaved
  <2>2. untold' \in Nat
    BY <1>0, <2>1
  <2> QED
    BY <1>0, <2>1, <2>2, EverythingStep
<1>9. ASSUME NEW profile \in Profile, explorer!SetProfile(profile) PROVE TreeInv'
  <2>1. /\ explorer!Everything /\ altered' = altered + 1 /\ untold' = untold
        /\ service' = [service EXCEPT !.profile = profile]
    BY <1>9 DEF explorer!SetProfile
  <2>2. service' \in [id : Nat, profile : Profile] /\ altered' \in Nat
    BY <1>0, <2>1
  <2> QED
    BY <1>0, <2>1, <2>2, EverythingStep
<1>10. ASSUME NEW f \in Folder, explorer!Expand(f) PROVE TreeInv'
  <2>1. PICK id \in explorer!Served : due' = due \union {explorer!Item(id, f)}
    BY <1>10 DEF explorer!Expand
  <2>2. /\ credit' = [credit EXCEPT ![f] = @ + 1]
        /\ UNCHANGED <<service, altered, untold, roots, nodes, failing, listings>>
    BY <1>10 DEF explorer!Expand
  <2>3. explorer!Item(id, f) \in [id : Nat, path : Folder] /\ explorer!Item(id, f).path = f
    BY <1>0 DEF explorer!Item
  <2>4. ASSUME NEW g \in Folder
        PROVE  IsFiniteSet(Owed(g)') /\ Cardinality(Owed(g)') <= credit'[g]
    <3>1. credit'[g] = IF g = f THEN credit[g] + 1 ELSE credit[g]
      BY <1>0, <2>2
    <3> DEFINE x == explorer!Item(id, f)
    <3>2. Owed(g)' \subseteq (IF g = f THEN Owed(g) \union {x} ELSE Owed(g))
      BY <2>1, <2>2, <2>3 DEF Owed
    <3> HIDE DEF x
    <3> QED
      BY <3>1, <3>2, PaidStep
  <2>5. TreeTypes' /\ RootsInForce'
    BY <1>0, <2>1, <2>2, <2>3 DEF TreeInv, TreeTypes, RootsInForce
  <2>6. OfTheRoots'
    BY <2>2 DEF TreeInv, OfTheRoots, explorer!From
  <2> QED
    BY <2>4, <2>5, <2>6 DEF TreeInv, Paid
<1>11. ASSUME NEW i \in due, explorer!GetChildren(i) PROVE TreeInv'
  <2> DEFINE reads == explorer!FindRoot(i.id) /\ i \notin failing
             l == [id |-> i.id, path |-> i.path, made |-> explorer!Built.made,
                   from |-> explorer!From(explorer!Built)]
  <2>1. /\ due' = due \ {i} /\ roots' = explorer!Built /\ nodes' = explorer!Cached
        /\ listings' = IF reads THEN listings \union {l} ELSE listings
        /\ credit' = IF reads THEN [credit EXCEPT ![i.path] = @ - 1] ELSE credit
        /\ UNCHANGED <<service, altered, untold, failing>>
    BY <1>11 DEF explorer!GetChildren
  <2>2. /\ l.made = explorer!Built.made /\ l.from = explorer!From(explorer!Built)
        /\ l.id \in Nat /\ l.path \in Folder
    BY <1>0
  <2>3. i.path \in Folder /\ (reads => i \notin failing)
    BY <1>0
  <2> HIDE DEF reads, l
  <2>4. ASSUME NEW f \in Folder
        PROVE  IsFiniteSet(Owed(f)') /\ Cardinality(Owed(f)') <= credit'[f]
    <3>1. Owed(f)' = Owed(f) \ {i}
      BY <2>1 DEF Owed
    <3>2. CASE reads /\ i.path = f
      <4>1. i \in Owed(f) /\ credit'[f] = credit[f] - 1
        BY <1>0, <2>1, <2>3, <3>2 DEF Owed
      <4> QED
        BY <3>1, <4>1, PaidStep
    <3>3. CASE ~(reads /\ i.path = f)
      <4>1. Owed(f)' \subseteq Owed(f) /\ credit'[f] = credit[f]
        BY <1>0, <2>1, <2>3, <3>1, <3>3
      <4> QED
        BY <4>1, PaidStep
    <3> QED
      BY <3>2, <3>3
  <2>5. due' \subseteq [id : Nat, path : Folder] /\ credit' \in [Folder -> Int]
    BY <1>0, <2>1
  <2>6. \A k \in nodes' : k.id = explorer!Built.id /\ k.from = explorer!From(explorer!Built)
    BY <2>1, BuiltRoots
  <2>7. \A k \in listings' : k \in listings \/ k = l
    BY <2>1
  <2> QED
    BY <1>3, <2>1, <2>2, <2>4, <2>5, <2>6, <2>7
<1>12. ASSUME NEW l \in listings, explorer!Listed(l) PROVE TreeInv'
  <2>1. /\ listings' = listings \ {l} /\ roots' = explorer!Built
        /\ UNCHANGED <<service, altered, untold, failing, due, credit>>
    BY <1>12 DEF explorer!Listed
  <2>2. PICK found : nodes' = IF explorer!SameRoot(l)
                                THEN explorer!Cached \union
                                     {[id |-> l.id, path |-> p, from |-> l.from] :
                                        p \in {q \in found : \A k \in explorer!Cached : k.path # q}}
                                ELSE explorer!Cached
    BY <1>12 DEF explorer!Listed
  <2>3. explorer!SameRoot(l) =>
          l.id = explorer!Built.id /\ l.from = explorer!From(explorer!Built)
    BY BuiltRoots DEF explorer!SameRoot, explorer!FindRoot
  <2>4. \A i \in nodes' : i.id = explorer!Built.id /\ i.from = explorer!From(explorer!Built)
    BY <2>2, <2>3, BuiltRoots
  <2>5. \A k \in listings' : k \in listings
    BY <2>1
  <2> QED
    BY <1>0, <1>3, <1>4, <2>1, <2>4, <2>5
<1>13. ASSUME NEW l \in listings, explorer!ListFails(l) PROVE TreeInv'
  <2> DEFINE x == explorer!Item(l.id, l.path)
  <2>1. /\ listings' = listings \ {l} /\ roots' = explorer!Built /\ nodes' = explorer!Cached
        /\ UNCHANGED <<service, altered, untold, credit>>
        /\ \/ failing' = failing \union {x} /\ due' = due \union {x}
           \/ UNCHANGED <<failing, due>>
    BY <1>13 DEF explorer!ListFails
  <2>2. x \in [id : Nat, path : Folder]
    BY <1>0 DEF explorer!Item
  <2> HIDE DEF x
  <2>3. \A f \in Folder : Owed(f)' \subseteq Owed(f) /\ credit'[f] = credit[f]
    BY <2>1 DEF Owed
  <2>4. \A f \in Folder : IsFiniteSet(Owed(f)') /\ Cardinality(Owed(f)') <= credit'[f]
    BY <2>3, PaidStep
  <2>5. due' \subseteq [id : Nat, path : Folder] /\ credit' \in [Folder -> Int]
    BY <1>0, <2>1, <2>2
  <2>6. \A i \in nodes' : i.id = explorer!Built.id /\ i.from = explorer!From(explorer!Built)
    BY <2>1, BuiltRoots
  <2>7. \A k \in listings' : k \in listings
    BY <2>1
  <2> QED
    BY <1>3, <2>1, <2>4, <2>5, <2>6, <2>7
<1>14. CASE UNCHANGED explorerVars
  BY <1>14 DEF explorerVars, TreeInv, TreeTypes, RootsInForce, OfTheRoots, Paid, Owed, explorer!From
<1> QED
  BY <1>1, <1>2, <1>5, <1>6, <1>7, <1>8, <1>9, <1>10, <1>11, <1>12, <1>13, <1>14 DEF explorer!Next

\* The tree is a part of its own.
LEMMA TreePart ==
  /\ MCInit => explorer!Init
  /\ [MCNext]_<<part, vars, activityVars, changesVars, clientsVars, explorerVars>> =>
       [explorer!Next]_explorerVars
BY DEF MCInit, MCNext

\* What the remote explorer shows is of the connection in force, and only the user and changes
\* make it read a folder again (treeDataProvider.ts), for any tree of folders, any profiles and
\* any number of changes and refreshes.
THEOREM TreesAreHonest == MCSpec => []TreeIsHonest
<1>1. TreeInv /\ [explorer!Next]_explorerVars => TreeInv'
  BY TreeStep
<1>2. TreeInv => TreeIsHonest
  <2> SUFFICES ASSUME TreeInv PROVE explorer!TreeIsHonest
    BY DEF TreeIsHonest
  <2>1. ASSUME NEW f \in Folder PROVE credit[f] >= 0
    <3>1. Cardinality(Owed(f)) \in Nat /\ Cardinality(Owed(f)) <= credit[f] /\ credit[f] \in Int
      BY FS_CardinalityType DEF TreeInv, TreeTypes, Paid
    <3> QED
      BY <3>1
  <2> QED
    BY <2>1 DEF TreeInv, RootsInForce, OfTheRoots, explorer!TreeIsHonest
<1> QED
  BY <1>1, <1>2, TreeStart, TreePart, PTL DEF MCSpec
-------------------------------------------------------------------------------
(* The groups of the activity view                                           *)
(*                                                                           *)
(* The invariant is about groups grp with their items its, the background     *)
(* group bg, the command cmd, and operations at att, members of mem, stopped   *)
(* stp, with children wrk: an operation that ends passes through states of    *)
(* these in which the variables never are.                                   *)

Numbers == activity!Group
Places == {"none", "found", "review", "acting", "queued", "running", "over"}
GroupTypes(grp, its, bg, cmd, att, mem, wrk) ==
  /\ grp \in [Numbers -> [state : {"none", "listed", "removed"}, pending : Nat, owners : Nat,
                          cancelled : BOOLEAN, ended : BOOLEAN, issue : BOOLEAN]]
  /\ its \in [Numbers -> [File -> activity!Status \union {"none"}]]
  /\ bg \in Numbers \union {0}
  /\ cmd \in [at : {"idle", "busy", "over"}, group : Numbers \union {0}]
  /\ cmd.at = "idle" => cmd.group = 0
  /\ att \in [Op -> {"idle", "hook", "collect", "run", "over"}]
  /\ mem \in [Op -> Numbers \union {0}] /\ wrk \in [Op -> [File -> Places]]

\* Where an operation is, says what its children can be doing.
ChildrenFit(att, mem, wrk) ==
  \A o \in Op :
    /\ att[o] = "idle" => mem[o] = 0
    /\ att[o] \in {"hook", "collect", "run"} => mem[o] \in Numbers
    /\ \A f \in File :
         /\ f \notin Files[o] => wrk[o][f] = "none"
         /\ att[o] \in {"idle", "hook"} => wrk[o][f] = "none"
         /\ att[o] = "collect" => wrk[o][f] # "running"
         /\ att[o] = "run" => wrk[o][f] \in {"none", "queued", "running", "over"}
         /\ att[o] = "over" => wrk[o][f] \in {"none", "over"}

\* A group counts the operations that are in it, and the command that owns it.
Inside(att, mem, g) == {o \in Op : mem[o] = g /\ att[o] \in {"hook", "collect", "run"}}
Counted(grp, cmd, att, mem) ==
  \A g \in Numbers :
    /\ grp[g].pending = Cardinality(Inside(att, mem, g))
    /\ grp[g].owners = IF cmd.at = "busy" /\ cmd.group = g THEN 1 ELSE 0

\* What is in use is listed, and what is not listed yet is as new; there is a new group for
\* every operation that has not begun.
InUse(grp) == {g \in Numbers : grp[g].state # "none"}
Begun(att) == {o \in Op : att[o] # "idle"}
InList(grp, its, bg, att, mem) ==
  /\ \A g \in Numbers :
       /\ grp[g].pending # 0 \/ grp[g].owners # 0 \/ bg = g => grp[g].state = "listed"
       /\ grp[g].state = "none" =>
            /\ ~grp[g].cancelled /\ ~grp[g].ended /\ \A o \in Op : mem[o] # g
            /\ \A f \in File : its[g][f] = "none"
  /\ Cardinality(InUse(grp)) <= Cardinality(Begun(att)) + 1

\* What is shown as running runs.
RunningRuns(its, att, mem, wrk) ==
  \A g \in Numbers, f \in File : its[g][f] = "running" =>
    \E o \in Inside(att, mem, g) : wrk[o][f] \in {"running", "acting"}

\* A group that ended or was cleared has nothing in it, and nothing to wait for.
Quiet(grp, its, g) == /\ grp[g].pending = 0 /\ grp[g].owners = 0
                      /\ \A f \in File : its[g][f] \notin activity!Live
Resting(grp, its) ==
  \A g \in Numbers : grp[g].ended \/ grp[g].state = "removed" => Quiet(grp, its, g)

\* A group whose work is over has ended, unless a conflict is left.
OverEnds(grp, its, att, mem, g) ==
  /\ grp[g].state = "listed" /\ grp[g].owners = 0
  /\ \E o \in Op : mem[o] = g
  /\ \A o \in Op : mem[o] = g => att[o] = "over"
  /\ \A f \in File : its[g][f] # "conflict"
  => grp[g].ended

\* Where the user cancelled, nothing waits to start or will.
Obeyed(grp, its, att, mem, stp, wrk) ==
  \A g \in Numbers : grp[g].cancelled =>
    /\ \A f \in File : its[g][f] # "pending"
    /\ \A o \in Op : mem[o] = g => /\ att[o] = "collect" => stp[o]
                                   /\ \A f \in File : wrk[o][f] # "queued"

\* The invariant but for the end of one group, which is checked when an operation leaves it.
GroupsBut(but, grp, its, bg, cmd, att, mem, stp, wrk) ==
  /\ GroupTypes(grp, its, bg, cmd, att, mem, wrk) /\ ChildrenFit(att, mem, wrk)
  /\ Counted(grp, cmd, att, mem) /\ InList(grp, its, bg, att, mem)
  /\ RunningRuns(its, att, mem, wrk) /\ Resting(grp, its)
  /\ Obeyed(grp, its, att, mem, stp, wrk)
  /\ \A g \in Numbers \ but : OverEnds(grp, its, att, mem, g)

GroupInv == GroupsBut({}, groups, items, background, command, at, member, stopped, work)

\* A group ends and others are cleared: those that end or go are quiet, and what is pending in
\* one that ends is done with.
FinishEffect(over, grp, its, bg, grp2, its2, bg2) ==
  /\ \A g \in Numbers :
       /\ grp2[g].pending = grp[g].pending /\ grp2[g].owners = grp[g].owners
       /\ grp2[g].cancelled => grp[g].cancelled
       /\ \/ grp2[g].state = grp[g].state
          \/ grp[g].state = "listed" /\ grp2[g].state = "removed" /\ Quiet(grp2, its2, g)
       /\ g \in over => grp[g].state = "listed" /\ grp2[g].ended /\ Quiet(grp2, its2, g)
       /\ g \notin over => grp2[g].ended = grp[g].ended
       /\ \A f \in File : \/ its2[g][f] = its[g][f]
                          \/ /\ g \in over /\ its[g][f] = "pending"
                             /\ its2[g][f] \in {"cancelled", "not-started"}
  /\ \/ bg2 = 0
     \/ bg2 = bg /\ grp2[bg].state = grp[bg].state

\* The end of groups makes the invariant whole again.
LEMMA FinishPhase ==
  ASSUME NEW grp, NEW its, NEW bg, NEW cmd, NEW att, NEW mem, NEW stp, NEW wrk,
         NEW grp2, NEW its2, NEW bg2, NEW over,
         GroupsBut(over, grp, its, bg, cmd, att, mem, stp, wrk),
         GroupTypes(grp2, its2, bg2, cmd, att, mem, wrk),
         FinishEffect(over, grp, its, bg, grp2, its2, bg2)
  PROVE  GroupsBut({}, grp2, its2, bg2, cmd, att, mem, stp, wrk)
<1>0. /\ GroupTypes(grp, its, bg, cmd, att, mem, wrk) /\ ChildrenFit(att, mem, wrk)
      /\ Counted(grp, cmd, att, mem) /\ InList(grp, its, bg, att, mem)
      /\ RunningRuns(its, att, mem, wrk) /\ Resting(grp, its)
      /\ Obeyed(grp, its, att, mem, stp, wrk)
  BY DEF GroupsBut
<1>1. ChildrenFit(att, mem, wrk) /\ Counted(grp2, cmd, att, mem)
  BY <1>0 DEF FinishEffect, Counted
<1>2. InList(grp2, its2, bg2, att, mem)
  <2>1. InUse(grp2) = InUse(grp)
    BY DEF FinishEffect, InUse
  <2>2. ASSUME NEW g \in Numbers, grp2[g].pending # 0 \/ grp2[g].owners # 0 \/ bg2 = g
        PROVE  grp2[g].state = "listed"
    <3>1. bg2 = g => bg = g /\ grp2[g].state = grp[g].state
      BY DEF FinishEffect, Numbers, activity!Group
    <3>2. grp[g].pending # 0 \/ grp[g].owners # 0 \/ bg = g
      BY <2>2, <3>1 DEF FinishEffect
    <3>3. grp[g].state = "listed"
      BY <1>0, <3>2 DEF InList
    <3> QED
      BY <2>2, <3>1, <3>3 DEF FinishEffect, Quiet
  <2>3. ASSUME NEW g \in Numbers, grp2[g].state = "none"
        PROVE  /\ ~grp2[g].cancelled /\ ~grp2[g].ended /\ \A o \in Op : mem[o] # g
               /\ \A f \in File : its2[g][f] = "none"
    <3>1. grp[g].state = "none" /\ g \notin over
      BY <2>3 DEF FinishEffect
    <3>2. /\ ~grp[g].cancelled /\ ~grp[g].ended /\ \A o \in Op : mem[o] # g
          /\ \A f \in File : its[g][f] = "none"
      BY <1>0, <3>1 DEF InList
    <3>3. ~grp2[g].ended
      BY <3>1, <3>2 DEF FinishEffect
    <3> QED
      BY <3>1, <3>2, <3>3 DEF FinishEffect
  <2> QED
    BY <1>0, <2>1, <2>2, <2>3 DEF InList
<1>3. RunningRuns(its2, att, mem, wrk)
  BY <1>0 DEF FinishEffect, RunningRuns
<1>4. Resting(grp2, its2)
  <2> SUFFICES ASSUME NEW g \in Numbers, grp2[g].ended \/ grp2[g].state = "removed"
               PROVE  Quiet(grp2, its2, g)
    BY DEF Resting
  <2>1. CASE grp[g].ended \/ grp[g].state = "removed"
    <3>1. Quiet(grp, its, g)
      BY <1>0, <2>1 DEF Resting
    <3> QED
      BY <3>1 DEF Quiet, FinishEffect, activity!Live
  <2>2. CASE ~grp[g].ended /\ grp[g].state # "removed"
    BY <2>2 DEF FinishEffect
  <2> QED
    BY <2>1, <2>2
<1>5. Obeyed(grp2, its2, att, mem, stp, wrk)
  <2> SUFFICES ASSUME NEW g \in Numbers, grp2[g].cancelled
               PROVE  /\ \A f \in File : its2[g][f] # "pending"
                      /\ \A o \in Op : mem[o] = g => /\ att[o] = "collect" => stp[o]
                                                     /\ \A f \in File : wrk[o][f] # "queued"
    BY DEF Obeyed
  <2>1. grp[g].cancelled
    BY DEF FinishEffect
  <2>2. /\ \A f \in File : its[g][f] # "pending"
        /\ \A o \in Op : mem[o] = g => /\ att[o] = "collect" => stp[o]
                                       /\ \A f \in File : wrk[o][f] # "queued"
    BY <1>0, <2>1 DEF Obeyed
  <2>3. \A f \in File : its2[g][f] # "pending"
    BY <2>2 DEF FinishEffect
  <2> QED
    BY <2>2, <2>3
<1>6. ASSUME NEW g \in Numbers
      PROVE  OverEnds(grp2, its2, att, mem, g)
  <2>1. CASE g \in over
    BY <2>1 DEF FinishEffect, OverEnds
  <2>2. CASE g \notin over
    <3>1. OverEnds(grp, its, att, mem, g)
      BY <2>2 DEF GroupsBut
    <3>2. /\ grp2[g].state = "listed" => grp[g].state = "listed"
          /\ grp2[g].owners = grp[g].owners /\ grp2[g].ended = grp[g].ended
          /\ \A f \in File : its2[g][f] = its[g][f]
      BY <2>2 DEF FinishEffect
    <3> QED
      BY <3>1, <3>2 DEF OverEnds
  <2> QED
    BY <2>1, <2>2
<1> QED
  BY <1>1, <1>2, <1>3, <1>4, <1>5, <1>6 DEF GroupsBut

\* A group is cancelled, if it is listed and was not: nothing waits in it any more. Otherwise
\* nothing changes.
CancelEffect(g, grp, its, att, mem, stp, wrk, grp2, its2, stp2, wrk2) ==
  LET once == grp[g].state = "listed" /\ ~grp[g].cancelled
      halted == {o \in Op : once /\ mem[o] = g /\ att[o] \in {"collect", "run"}}
  IN /\ \A h \in Numbers :
          /\ grp2[h].pending = grp[h].pending /\ grp2[h].owners = grp[h].owners
          /\ grp2[h].state = grp[h].state /\ grp2[h].ended = grp[h].ended
          /\ grp2[h].cancelled => grp[h].cancelled \/ (h = g /\ once)
     /\ \A h \in Numbers, f \in File :
          IF h = g /\ once /\ (its[h][f] = "pending" \/ \E o \in halted : wrk[o][f] = "queued")
            THEN its2[h][f] = "cancelled" ELSE its2[h][f] = its[h][f]
     /\ \A o \in Op : stp[o] \/ o \in halted => stp2[o]
     /\ \A o \in Op, f \in File :
          wrk2[o][f] = IF o \in halted /\ wrk[o][f] = "queued" THEN "over" ELSE wrk[o][f]

\* A cancellation keeps the invariant.
LEMMA CancelPhase ==
  ASSUME NEW grp, NEW its, NEW bg, NEW cmd, NEW att, NEW mem, NEW stp, NEW wrk,
         NEW grp2, NEW its2, NEW stp2, NEW wrk2, NEW g \in Numbers,
         GroupsBut({}, grp, its, bg, cmd, att, mem, stp, wrk),
         GroupTypes(grp2, its2, bg, cmd, att, mem, wrk2),
         CancelEffect(g, grp, its, att, mem, stp, wrk, grp2, its2, stp2, wrk2)
  PROVE  GroupsBut({}, grp2, its2, bg, cmd, att, mem, stp2, wrk2)
<1> DEFINE once == grp[g].state = "listed" /\ ~grp[g].cancelled
           halted == {o \in Op : once /\ mem[o] = g /\ att[o] \in {"collect", "run"}}
<1>0. /\ GroupTypes(grp, its, bg, cmd, att, mem, wrk) /\ ChildrenFit(att, mem, wrk)
      /\ Counted(grp, cmd, att, mem) /\ InList(grp, its, bg, att, mem)
      /\ RunningRuns(its, att, mem, wrk) /\ Resting(grp, its)
      /\ Obeyed(grp, its, att, mem, stp, wrk)
      /\ \A h \in Numbers : OverEnds(grp, its, att, mem, h)
  BY DEF GroupsBut
<1>a. \A h \in Numbers :
        /\ grp2[h].pending = grp[h].pending /\ grp2[h].owners = grp[h].owners
        /\ grp2[h].state = grp[h].state /\ grp2[h].ended = grp[h].ended
        /\ grp2[h].cancelled => grp[h].cancelled \/ (h = g /\ once)
  BY DEF CancelEffect
<1>b. \A h \in Numbers, f \in File :
        IF h = g /\ once /\ (its[h][f] = "pending" \/ \E o \in halted : wrk[o][f] = "queued")
          THEN its2[h][f] = "cancelled" ELSE its2[h][f] = its[h][f]
  BY DEF CancelEffect
<1>c. \A o \in Op : stp[o] \/ o \in halted => stp2[o]
  BY DEF CancelEffect
<1>d. \A o \in Op, f \in File :
        wrk2[o][f] = IF o \in halted /\ wrk[o][f] = "queued" THEN "over" ELSE wrk[o][f]
  BY DEF CancelEffect
<1> HIDE DEF halted
<1>1. ChildrenFit(att, mem, wrk2)
  <2>1. \A o \in Op, f \in File : wrk2[o][f] = wrk[o][f]
          \/ (wrk2[o][f] = "over" /\ wrk[o][f] = "queued" /\ att[o] \in {"collect", "run"})
    BY <1>d DEF halted
  <2> QED
    BY <1>0, <2>1 DEF ChildrenFit
<1>2. Counted(grp2, cmd, att, mem)
  BY <1>0, <1>a DEF Counted
<1>3. InList(grp2, its2, bg, att, mem)
  <2>1. InUse(grp2) = InUse(grp)
    BY <1>a DEF InUse
  <2>2. ASSUME NEW h \in Numbers, grp2[h].state = "none"
        PROVE  /\ ~grp2[h].cancelled /\ ~grp2[h].ended /\ \A o \in Op : mem[o] # h
               /\ \A f \in File : its2[h][f] = "none"
    <3>1. grp[h].state = "none"
      BY <1>a, <2>2
    <3>2. /\ ~grp[h].cancelled /\ ~grp[h].ended /\ \A o \in Op : mem[o] # h
          /\ \A f \in File : its[h][f] = "none"
      BY <1>0, <3>1 DEF InList
    <3>3. ~(h = g /\ once)
      BY <3>1
    <3> QED
      BY <1>a, <1>b, <3>2, <3>3
  <2>3. \A h \in Numbers :
          grp2[h].pending # 0 \/ grp2[h].owners # 0 \/ bg = h => grp2[h].state = "listed"
    BY <1>0, <1>a DEF InList
  <2> QED
    BY <1>0, <2>1, <2>2, <2>3 DEF InList
<1>4. RunningRuns(its2, att, mem, wrk2)
  <2>1. \A h \in Numbers, f \in File : its2[h][f] = "running" => its[h][f] = "running"
    BY <1>b
  <2>2. \A o \in Op, f \in File : wrk[o][f] \in {"running", "acting"} => wrk2[o][f] = wrk[o][f]
    BY <1>d
  <2> QED
    BY <1>0, <2>1, <2>2 DEF RunningRuns, Inside
<1>5. Resting(grp2, its2)
  <2>1. \A h \in Numbers, f \in File : its2[h][f] = its[h][f] \/ its2[h][f] = "cancelled"
    BY <1>b
  <2> QED
    BY <1>0, <1>a, <2>1 DEF Resting, Quiet, activity!Live
<1>6. Obeyed(grp2, its2, att, mem, stp2, wrk2)
  <2> SUFFICES ASSUME NEW h \in Numbers, grp2[h].cancelled
               PROVE  /\ \A f \in File : its2[h][f] # "pending"
                      /\ \A o \in Op : mem[o] = h => /\ att[o] = "collect" => stp2[o]
                                                     /\ \A f \in File : wrk2[o][f] # "queued"
    BY DEF Obeyed
  <2>1. CASE h = g /\ once
    <3>1. \A f \in File : its2[h][f] # "pending"
      BY <1>b, <2>1
    <3>2. ASSUME NEW o \in Op, mem[o] = h
          PROVE  /\ att[o] = "collect" => stp2[o]
                 /\ \A f \in File : wrk2[o][f] # "queued"
      <4>1. att[o] = "collect" => stp2[o]
        BY <1>c, <2>1, <3>2 DEF halted
      <4>2. att[o] \in {"idle", "hook", "collect", "run", "over"}
        BY <1>0 DEF GroupTypes
      <4>3. \A f \in File : wrk[o][f] = "queued" => att[o] \in {"collect", "run"}
        BY <1>0, <4>2 DEF ChildrenFit
      <4>4. \A f \in File : wrk2[o][f] # "queued"
        BY <1>d, <2>1, <3>2, <4>3 DEF halted
      <4> QED
        BY <4>1, <4>4
    <3> QED
      BY <3>1, <3>2
  <2>2. CASE ~(h = g /\ once)
    <3>1. grp[h].cancelled
      BY <1>a, <2>2
    <3>2. /\ \A f \in File : its[h][f] # "pending"
          /\ \A o \in Op : mem[o] = h => /\ att[o] = "collect" => stp[o]
                                         /\ \A f \in File : wrk[o][f] # "queued"
      BY <1>0, <3>1 DEF Obeyed
    <3>3. \A f \in File : its2[h][f] # "pending"
      BY <1>b, <2>2, <3>2
    <3> QED
      BY <1>c, <1>d, <3>2, <3>3
  <2> QED
    BY <2>1, <2>2
<1>7. ASSUME NEW h \in Numbers
      PROVE  OverEnds(grp2, its2, att, mem, h)
  <2>1. CASE halted # {} /\ h = g
    <3>1. \E o \in Op : mem[o] = h /\ att[o] \in {"collect", "run"}
      BY <2>1 DEF halted
    <3> QED
      BY <3>1 DEF OverEnds
  <2>2. CASE ~(halted # {} /\ h = g)
    <3>1. \A f \in File : its[h][f] = "conflict" => its2[h][f] = "conflict"
      BY <1>b, <2>2
    <3>2. grp2[h].state = grp[h].state /\ grp2[h].owners = grp[h].owners
          /\ grp2[h].ended = grp[h].ended
      BY <1>a
    <3>3. OverEnds(grp, its, att, mem, h)
      BY <1>0
    <3> QED
      BY <3>1, <3>2, <3>3 DEF OverEnds
  <2> QED
    BY <2>1, <2>2
<1> QED
  BY <1>1, <1>2, <1>3, <1>4, <1>5, <1>6, <1>7 DEF GroupsBut

\* How many operations are in a group.
LEMMA InsideCount ==
  ASSUME NEW att, NEW mem, NEW g
  PROVE  IsFiniteSet(Inside(att, mem, g)) /\ Cardinality(Inside(att, mem, g)) \in Nat
<1>1. Inside(att, mem, g) \in SUBSET Op
  BY DEF Inside
<1> DEFINE S == Inside(att, mem, g)
<1> HIDE DEF S
<1>2. IsFiniteSet(S)
  BY <1>1, EndpointAssumption, FS_Subset DEF S
<1>3. Cardinality(S) \in Nat
  BY <1>2, FS_CardinalityType
<1> QED
  BY <1>2, <1>3 DEF S

\* An operation that is in its group counts there, and the group is listed and no quiet one.
LEMMA Belongs ==
  ASSUME NEW grp, NEW its, NEW bg, NEW cmd, NEW att, NEW mem, NEW stp, NEW wrk, NEW but,
         GroupsBut(but, grp, its, bg, cmd, att, mem, stp, wrk),
         NEW o \in Op, att[o] \in {"hook", "collect", "run"}
  PROVE  /\ mem[o] \in Numbers
         /\ grp[mem[o]].pending \in Nat \ {0}
         /\ grp[mem[o]].state = "listed" /\ ~grp[mem[o]].ended
<1>0. /\ GroupTypes(grp, its, bg, cmd, att, mem, wrk) /\ ChildrenFit(att, mem, wrk)
      /\ Counted(grp, cmd, att, mem) /\ InList(grp, its, bg, att, mem) /\ Resting(grp, its)
  BY DEF GroupsBut
<1>1. mem[o] \in Numbers
  BY <1>0 DEF ChildrenFit
<1> DEFINE S == Inside(att, mem, mem[o])
<1>2. o \in S
  BY DEF Inside
<1>3. grp[mem[o]].pending = Cardinality(S)
  BY <1>0, <1>1 DEF Counted
<1>4. IsFiniteSet(S) /\ Cardinality(S) \in Nat
  BY InsideCount
<1> HIDE DEF S
<1>5. Cardinality(S) # 0
  BY <1>2, <1>4, FS_EmptySet
<1>6. grp[mem[o]].state = "listed"
  BY <1>0, <1>1, <1>3, <1>5 DEF InList
<1>7. ~grp[mem[o]].ended
  BY <1>0, <1>1, <1>3, <1>5 DEF Resting, Quiet
<1> QED
  BY <1>1, <1>3, <1>4, <1>5, <1>6, <1>7

\* An operation whose children are done leaves its group.
LeaveEffect(o, grp, att, mem, wrk, grp2, att2) ==
  /\ att[o] = "run" /\ att2 = [att EXCEPT ![o] = "over"]
  /\ \A f \in File : wrk[o][f] \notin {"queued", "running"}
  /\ \A g \in Numbers :
       /\ grp2[g].pending = IF g = mem[o] THEN grp[g].pending - 1 ELSE grp[g].pending
       /\ grp2[g].state = grp[g].state /\ grp2[g].owners = grp[g].owners
       /\ grp2[g].cancelled = grp[g].cancelled /\ grp2[g].ended = grp[g].ended

LEMMA LeavePhase ==
  ASSUME NEW grp, NEW its, NEW bg, NEW cmd, NEW att, NEW mem, NEW stp, NEW wrk,
         NEW grp2, NEW att2, NEW o \in Op,
         GroupsBut({}, grp, its, bg, cmd, att, mem, stp, wrk),
         GroupTypes(grp2, its, bg, cmd, att2, mem, wrk),
         LeaveEffect(o, grp, att, mem, wrk, grp2, att2)
  PROVE  GroupsBut({mem[o]}, grp2, its, bg, cmd, att2, mem, stp, wrk)
<1> USE DEF LeaveEffect
<1>0. /\ GroupTypes(grp, its, bg, cmd, att, mem, wrk) /\ ChildrenFit(att, mem, wrk)
      /\ Counted(grp, cmd, att, mem) /\ InList(grp, its, bg, att, mem)
      /\ RunningRuns(its, att, mem, wrk) /\ Resting(grp, its)
      /\ Obeyed(grp, its, att, mem, stp, wrk)
      /\ \A h \in Numbers : OverEnds(grp, its, att, mem, h)
  BY DEF GroupsBut
<1>1. \A p \in Op : att2[p] = IF p = o THEN "over" ELSE att[p]
  BY <1>0 DEF GroupTypes
<1>2. /\ mem[o] \in Numbers /\ grp[mem[o]].pending \in Nat \ {0}
      /\ grp[mem[o]].state = "listed" /\ ~grp[mem[o]].ended
  BY Belongs
<1>3. ChildrenFit(att2, mem, wrk)
  <2>1. \A f \in File : wrk[o][f] \in {"none", "over"}
    BY <1>0 DEF ChildrenFit
  <2> QED
    BY <1>0, <1>1, <2>1 DEF ChildrenFit
<1>4. Counted(grp2, cmd, att2, mem)
  <2>1. \A g \in Numbers :
          Inside(att2, mem, g) = IF g = mem[o] THEN Inside(att, mem, g) \ {o} ELSE Inside(att, mem, g)
    BY <1>1 DEF Inside
  <2>2. o \in Inside(att, mem, mem[o])
    BY DEF Inside
  <2>3. Cardinality(Inside(att, mem, mem[o]) \ {o}) = Cardinality(Inside(att, mem, mem[o])) - 1
    BY <2>2, InsideCount, FS_RemoveElement
  <2> SUFFICES ASSUME NEW g \in Numbers
               PROVE  /\ grp2[g].pending = Cardinality(Inside(att2, mem, g))
                      /\ grp2[g].owners = IF cmd.at = "busy" /\ cmd.group = g THEN 1 ELSE 0
    BY DEF Counted
  <2>4. /\ grp[g].pending = Cardinality(Inside(att, mem, g))
        /\ grp[g].owners = IF cmd.at = "busy" /\ cmd.group = g THEN 1 ELSE 0
    BY <1>0 DEF Counted
  <2>5. grp2[g].pending = Cardinality(Inside(att2, mem, g))
    <3>1. CASE g = mem[o]
      BY <2>1, <2>3, <2>4, <3>1
    <3>2. CASE g # mem[o]
      BY <2>1, <2>4, <3>2
    <3> QED
      BY <3>1, <3>2
  <2> QED
    BY <2>4, <2>5
<1>5. InList(grp2, its, bg, att2, mem)
  <2>1. InUse(grp2) = InUse(grp)
    BY DEF InUse
  <2>2. Begun(att2) = Begun(att)
    BY <1>1 DEF Begun
  <2>3. \A g \in Numbers : grp2[g].pending # 0 => grp[g].pending # 0
    BY <1>2
  <2>4. \A g \in Numbers :
          grp2[g].pending # 0 \/ grp2[g].owners # 0 \/ bg = g => grp2[g].state = "listed"
    BY <1>0, <2>3 DEF InList
  <2>5. \A g \in Numbers : grp2[g].state = "none" =>
            /\ ~grp2[g].cancelled /\ ~grp2[g].ended /\ \A p \in Op : mem[p] # g
            /\ \A f \in File : its[g][f] = "none"
    BY <1>0 DEF InList
  <2> QED
    BY <1>0, <2>1, <2>2, <2>4, <2>5 DEF InList
<1>6. RunningRuns(its, att2, mem, wrk)
  <2>1. \A f \in File : wrk[o][f] \notin {"running", "acting"}
    BY <1>0 DEF ChildrenFit
  <2> QED
    BY <1>0, <1>1, <2>1 DEF RunningRuns, Inside
<1>7. Resting(grp2, its)
  <2> SUFFICES ASSUME NEW g \in Numbers, grp2[g].ended \/ grp2[g].state = "removed"
               PROVE  Quiet(grp2, its, g)
    BY DEF Resting
  <2>1. grp[g].ended \/ grp[g].state = "removed"
    OBVIOUS
  <2>2. g # mem[o]
    BY <1>2, <2>1
  <2> QED
    BY <1>0, <2>1, <2>2 DEF Resting, Quiet
<1>8. Obeyed(grp2, its, att2, mem, stp, wrk)
  BY <1>0, <1>1 DEF Obeyed
<1>9. ASSUME NEW g \in Numbers \ {mem[o]}
      PROVE  OverEnds(grp2, its, att2, mem, g)
  BY <1>0, <1>1 DEF OverEnds
<1> QED
  BY <1>3, <1>4, <1>5, <1>6, <1>7, <1>8, <1>9 DEF GroupsBut

\* A command leaves its group.
CommandEffect(grp, cmd, grp2, cmd2) ==
  /\ cmd.at = "busy" /\ cmd2.at = "over"
  /\ \A g \in Numbers :
       /\ grp2[g].owners = IF g = cmd.group THEN 0 ELSE grp[g].owners
       /\ grp2[g].state = grp[g].state /\ grp2[g].pending = grp[g].pending
       /\ grp2[g].cancelled = grp[g].cancelled /\ grp2[g].ended = grp[g].ended

LEMMA CommandPhase ==
  ASSUME NEW grp, NEW its, NEW bg, NEW cmd, NEW att, NEW mem, NEW stp, NEW wrk,
         NEW grp2, NEW cmd2,
         GroupsBut({}, grp, its, bg, cmd, att, mem, stp, wrk),
         GroupTypes(grp2, its, bg, cmd2, att, mem, wrk),
         CommandEffect(grp, cmd, grp2, cmd2)
  PROVE  GroupsBut({cmd.group}, grp2, its, bg, cmd2, att, mem, stp, wrk)
<1> USE DEF CommandEffect
<1>0. /\ GroupTypes(grp, its, bg, cmd, att, mem, wrk) /\ ChildrenFit(att, mem, wrk)
      /\ Counted(grp, cmd, att, mem) /\ InList(grp, its, bg, att, mem)
      /\ RunningRuns(its, att, mem, wrk) /\ Resting(grp, its)
      /\ Obeyed(grp, its, att, mem, stp, wrk)
      /\ \A h \in Numbers : OverEnds(grp, its, att, mem, h)
  BY DEF GroupsBut
<1>1. Counted(grp2, cmd2, att, mem)
  BY <1>0 DEF Counted
<1>2. InList(grp2, its, bg, att, mem)
  <2>1. InUse(grp2) = InUse(grp)
    BY DEF InUse
  <2>2. \A g \in Numbers :
          grp2[g].pending # 0 \/ grp2[g].owners # 0 \/ bg = g => grp2[g].state = "listed"
    BY <1>0 DEF InList
  <2>3. \A g \in Numbers : grp2[g].state = "none" =>
            /\ ~grp2[g].cancelled /\ ~grp2[g].ended /\ \A p \in Op : mem[p] # g
            /\ \A f \in File : its[g][f] = "none"
    BY <1>0 DEF InList
  <2> QED
    BY <1>0, <2>1, <2>2, <2>3 DEF InList
<1>3. Resting(grp2, its)
  BY <1>0 DEF Resting, Quiet
<1>4. Obeyed(grp2, its, att, mem, stp, wrk)
  BY <1>0 DEF Obeyed
<1>5. ASSUME NEW g \in Numbers \ {cmd.group}
      PROVE  OverEnds(grp2, its, att, mem, g)
  BY <1>0 DEF OverEnds
<1> QED
  BY <1>0, <1>1, <1>2, <1>3, <1>4, <1>5 DEF GroupsBut

\* A child takes a step of its own: its place becomes w and the item of its file s.
ChildEffect(o, f, s, w, grp, its, att, mem, wrk, its2, wrk2) ==
  /\ \A h \in Numbers, e \in File :
       its2[h][e] = IF h = mem[o] /\ e = f THEN s ELSE its[h][e]
  /\ \A p \in Op, e \in File : wrk2[p][e] = IF p = o /\ e = f THEN w ELSE wrk[p][e]
  /\ att[o] \in {"collect", "run"} /\ f \in Files[o]
  /\ att[o] = "collect" => w # "running"
  /\ att[o] = "run" => w \in {"queued", "running", "over"}
  /\ s = "running" => \/ w \in {"running", "acting"}
                      \/ s = its[mem[o]][f] /\ wrk[o][f] \notin {"running", "acting"}
  /\ grp[mem[o]].cancelled => s # "pending" /\ w # "queued"

\* Such a step keeps the invariant.
LEMMA ChildStep ==
  ASSUME NEW grp, NEW its, NEW bg, NEW cmd, NEW att, NEW mem, NEW stp, NEW wrk,
         NEW its2, NEW wrk2, NEW o \in Op, NEW f \in File, NEW s, NEW w,
         GroupsBut({}, grp, its, bg, cmd, att, mem, stp, wrk),
         GroupTypes(grp, its2, bg, cmd, att, mem, wrk2),
         ChildEffect(o, f, s, w, grp, its, att, mem, wrk, its2, wrk2)
  PROVE  GroupsBut({}, grp, its2, bg, cmd, att, mem, stp, wrk2)
<1> USE DEF ChildEffect
<1>0. /\ GroupTypes(grp, its, bg, cmd, att, mem, wrk) /\ ChildrenFit(att, mem, wrk)
      /\ Counted(grp, cmd, att, mem) /\ InList(grp, its, bg, att, mem)
      /\ RunningRuns(its, att, mem, wrk) /\ Resting(grp, its)
      /\ Obeyed(grp, its, att, mem, stp, wrk)
      /\ \A h \in Numbers : OverEnds(grp, its, att, mem, h)
  BY DEF GroupsBut
<1>1. /\ mem[o] \in Numbers /\ grp[mem[o]].pending \in Nat \ {0}
      /\ grp[mem[o]].state = "listed" /\ ~grp[mem[o]].ended
  BY Belongs
<1>2. ChildrenFit(att, mem, wrk2)
  BY <1>0 DEF ChildrenFit
<1>3. InList(grp, its2, bg, att, mem)
  BY <1>0, <1>1 DEF InList
<1>4. RunningRuns(its2, att, mem, wrk2)
  <2> SUFFICES ASSUME NEW h \in Numbers, NEW e \in File, its2[h][e] = "running"
               PROVE  \E p \in Inside(att, mem, h) : wrk2[p][e] \in {"running", "acting"}
    BY DEF RunningRuns
  <2>1. o \in Inside(att, mem, mem[o])
    BY DEF Inside
  <2>2. CASE h = mem[o] /\ e = f /\ w \in {"running", "acting"}
    BY <2>1, <2>2
  <2>3. CASE ~(h = mem[o] /\ e = f /\ w \in {"running", "acting"})
    <3>1. its[h][e] = "running"
      BY <2>3
    <3>2. PICK p \in Inside(att, mem, h) : wrk[p][e] \in {"running", "acting"}
      BY <1>0, <3>1 DEF RunningRuns
    <3>3. p \in Op /\ mem[p] = h
      BY <3>2 DEF Inside
    <3>4. ~(p = o /\ e = f)
      BY <2>3, <3>2, <3>3
    <3>5. wrk2[p][e] = wrk[p][e]
      BY <3>3, <3>4
    <3> QED
      BY <3>2, <3>5
  <2> QED
    BY <2>2, <2>3
<1>5. Resting(grp, its2)
  BY <1>0, <1>1 DEF Resting, Quiet
<1>6. Obeyed(grp, its2, att, mem, stp, wrk2)
  <2> SUFFICES ASSUME NEW h \in Numbers, grp[h].cancelled
               PROVE  /\ \A e \in File : its2[h][e] # "pending"
                      /\ \A p \in Op : mem[p] = h => /\ att[p] = "collect" => stp[p]
                                                     /\ \A e \in File : wrk2[p][e] # "queued"
    BY DEF Obeyed
  <2>1. /\ \A e \in File : its[h][e] # "pending"
        /\ \A p \in Op : mem[p] = h => /\ att[p] = "collect" => stp[p]
                                       /\ \A e \in File : wrk[p][e] # "queued"
    BY <1>0 DEF Obeyed
  <2> QED
    BY <2>1
<1>7. ASSUME NEW h \in Numbers
      PROVE  OverEnds(grp, its2, att, mem, h)
  <2>1. CASE h = mem[o]
    BY <2>1 DEF OverEnds
  <2>2. CASE h # mem[o]
    BY <1>0, <2>2 DEF OverEnds
  <2> QED
    BY <2>1, <2>2
<1> QED
  BY <1>0, <1>2, <1>3, <1>4, <1>5, <1>6, <1>7 DEF GroupsBut

\* At activation.
LEMMA GroupsStart == activity!Init => GroupInv
<1> SUFFICES ASSUME activity!Init
             PROVE  GroupInv
  OBVIOUS
<1>0. Cardinality(Op) \in Nat /\ IsFiniteSet(Op)
  BY EndpointAssumption, FS_CardinalityType
<1>1. /\ command = [at |-> "idle", group |-> 0] /\ background = 0
      /\ at = [o \in Op |-> "idle"] /\ member = [o \in Op |-> 0]
      /\ work = [o \in Op |-> [f \in File |-> "none"]]
  BY DEF activity!Init
<1>2. PICK recovered \in {"none", "failed", "conflict"}, f \in File :
        /\ items = [g \in Numbers |-> [h \in File |-> IF g = 1 /\ h = f THEN recovered ELSE "none"]]
        /\ groups = [g \in Numbers |-> IF g = 1 /\ recovered # "none"
                        THEN [activity!Unused EXCEPT !.state = "listed"] ELSE activity!Unused]
  BY DEF activity!Init, Numbers
<1>3. \A g \in Numbers :
        /\ groups[g] \in [state : {"none", "listed", "removed"}, pending : Nat, owners : Nat,
                          cancelled : BOOLEAN, ended : BOOLEAN, issue : BOOLEAN]
        /\ groups[g].pending = 0 /\ groups[g].owners = 0 /\ groups[g].state # "removed"
        /\ ~groups[g].cancelled /\ ~groups[g].ended
        /\ groups[g].state = IF g = 1 /\ recovered # "none" THEN "listed" ELSE "none"
  BY <1>2 DEF activity!Unused
<1>4. \A g \in Numbers, e \in File :
        items[g][e] = IF g = 1 /\ e = f THEN recovered ELSE "none"
  BY <1>2
<1>5. GroupTypes(groups, items, background, command, at, member, work)
  <2>1. groups \in [Numbers -> [state : {"none", "listed", "removed"}, pending : Nat, owners : Nat,
                                cancelled : BOOLEAN, ended : BOOLEAN, issue : BOOLEAN]]
    BY <1>2, <1>3
  <2>2. items \in [Numbers -> [File -> activity!Status \union {"none"}]]
    BY <1>2 DEF activity!Status
  <2> QED
    BY <1>1, <2>1, <2>2 DEF GroupTypes, Places
<1>6. ChildrenFit(at, member, work)
  BY <1>1 DEF ChildrenFit
<1>7. Counted(groups, command, at, member)
  <2>1. \A g : Inside(at, member, g) = {}
    BY <1>1 DEF Inside
  <2>2. Cardinality({}) = 0
    BY FS_EmptySet
  <2> QED
    BY <1>1, <1>3, <2>1, <2>2 DEF Counted
<1>8. InList(groups, items, background, at, member)
  <2>1. Begun(at) = {}
    BY <1>1 DEF Begun
  <2>2. InUse(groups) \in SUBSET {1}
    BY <1>3 DEF InUse
  <2> DEFINE S == InUse(groups)
  <2>3. Cardinality(S) <= 1
    <3>1. S \in SUBSET {1}
      BY <2>2
    <3> HIDE DEF S
    <3>2. IsFiniteSet({1}) /\ Cardinality({1}) = 1
      BY FS_Singleton
    <3> QED
      BY <3>1, <3>2, FS_Subset
  <2>4. Cardinality(InUse(groups)) <= Cardinality(Begun(at)) + 1
    BY <2>1, <2>3, FS_EmptySet
  <2>5. \A g \in Numbers : /\ background # g /\ \A o \in Op : member[o] # g
    BY <1>0, <1>1 DEF Numbers, activity!Group
  <2> QED
    BY <1>3, <1>4, <2>4, <2>5 DEF InList
<1>9. RunningRuns(items, at, member, work) /\ Resting(groups, items)
  BY <1>3, <1>4 DEF RunningRuns, Resting
<1>10. Obeyed(groups, items, at, member, stopped, work)
  BY <1>3 DEF Obeyed
<1>11. ASSUME NEW g \in Numbers
       PROVE  OverEnds(groups, items, at, member, g)
  <2>1. g # 0
    BY <1>0 DEF Numbers, activity!Group
  <2> QED
    BY <1>1, <2>1 DEF OverEnds
<1> QED
  BY <1>5, <1>6, <1>7, <1>8, <1>9, <1>10, <1>11 DEF GroupInv, GroupsBut

\* There is a new group for an operation that has not begun.
LEMMA NewIsUnused ==
  ASSUME GroupInv, NEW o \in Op, at[o] = "idle"
  PROVE  activity!New \in Numbers /\ groups[activity!New].state = "none"
<1> DEFINE T == {g \in Numbers : groups[g].state = "none"}
           B == Begun(at)
           U == InUse(groups)
<1>0. Cardinality(Op) \in Nat /\ IsFiniteSet(Op)
  BY EndpointAssumption, FS_CardinalityType
<1>1. T # {}
  <2>1. Cardinality(U) <= Cardinality(B) + 1
    BY DEF GroupInv, GroupsBut, InList
  <2>2. B \in SUBSET (Op \ {o})
    BY DEF Begun
  <2>3. T = {} => U = Numbers
    BY DEF InUse
  <2> HIDE DEF T, B, U
  <2>4. /\ IsFiniteSet(Op \ {o}) /\ Cardinality(Op \ {o}) = Cardinality(Op) - 1
    BY <1>0, FS_RemoveElement
  <2>5. Cardinality(B) <= Cardinality(Op) - 1 /\ Cardinality(B) \in Nat
    BY <2>2, <2>4, FS_Subset, FS_CardinalityType
  <2>6. activity!Cardinality(Op) = Cardinality(Op)
    BY DEF activity!Cardinality, Cardinality
  <2>7. Numbers = 1..(Cardinality(Op) + 1)
    BY <2>6 DEF Numbers, activity!Group
  <2>8. Cardinality(Numbers) = Cardinality(Op) + 1
    BY <1>0, <2>7, FS_Interval
  <2> QED
    BY <1>0, <2>1, <2>3, <2>5, <2>8
<1>2. T \subseteq Nat
  BY <1>0 DEF Numbers, activity!Group
<1> HIDE DEF T
<1>3. PICK m \in T : \A n \in T : m <= n
  <2>1. PICK m \in T : \A n \in T : <<n, m>> \notin OpToRel(<, Nat)
    BY <1>1, <1>2, WFMin, NatLessThanWellFounded
  <2>2. \A n \in T : ~(n < m)
    BY <1>2, <2>1 DEF OpToRel
  <2> QED
    BY <1>2, <2>2
<1>4. activity!New = CHOOSE x \in T : \A y \in T : x <= y
  BY DEF activity!New, activity!Min, T, Numbers
<1>5. activity!New \in T
  BY <1>3, <1>4
<1> QED
  BY <1>5 DEF T

\* An item and a place are written, whether the item changes or not.
Written(o, f, s, w, its2, wrk2) ==
  /\ s \in activity!Status \union {"none"} /\ w \in Places
  /\ \/ its2 = [items EXCEPT ![member[o]][f] = s]
     \/ its2 = items /\ s = items[member[o]][f]
  /\ wrk2 = [work EXCEPT ![o][f] = w]

LEMMA ChildWrites ==
  ASSUME GroupInv, NEW o \in Op, NEW f \in File, member[o] \in Numbers,
         NEW s, NEW w, NEW its2, NEW wrk2, Written(o, f, s, w, its2, wrk2)
  PROVE  /\ \A h \in Numbers, e \in File :
              its2[h][e] = IF h = member[o] /\ e = f THEN s ELSE items[h][e]
         /\ \A p \in Op, e \in File : wrk2[p][e] = IF p = o /\ e = f THEN w ELSE work[p][e]
         /\ GroupTypes(groups, its2, background, command, at, member, wrk2)
<1> USE DEF Written
<1>0. GroupTypes(groups, items, background, command, at, member, work)
  BY DEF GroupInv, GroupsBut
<1>1. items \in [Numbers -> [File -> activity!Status \union {"none"}]]
  BY <1>0 DEF GroupTypes
<1>2. work \in [Op -> [File -> Places]]
  BY <1>0 DEF GroupTypes
<1>3. /\ \A p \in Op, e \in File : wrk2[p][e] = IF p = o /\ e = f THEN w ELSE work[p][e]
      /\ wrk2 \in [Op -> [File -> Places]]
  BY <1>2
<1>4. /\ \A h \in Numbers, e \in File :
           its2[h][e] = IF h = member[o] /\ e = f THEN s ELSE items[h][e]
      /\ its2 \in [Numbers -> [File -> activity!Status \union {"none"}]]
  <2>1. CASE its2 = [items EXCEPT ![member[o]][f] = s]
    <3>1. [items[member[o]] EXCEPT ![f] = s] \in [File -> activity!Status \union {"none"}]
      BY <1>1
    <3>2. its2 = [items EXCEPT ![member[o]] = [items[member[o]] EXCEPT ![f] = s]]
      BY <2>1
    <3>3. its2 \in [Numbers -> [File -> activity!Status \union {"none"}]]
      BY <1>1, <3>1, <3>2
    <3>4. \A h \in Numbers, e \in File :
            its2[h][e] = IF h = member[o] /\ e = f THEN s ELSE items[h][e]
      BY <1>1, <3>2
    <3> QED
      BY <3>3, <3>4
  <2>2. CASE its2 = items /\ s = items[member[o]][f]
    BY <1>1, <2>2
  <2> QED
    BY <2>1, <2>2
<1> QED
  BY <1>0, <1>3, <1>4 DEF GroupTypes

\* The shape of a step by one child, whether its item changes or not.
ChildMove(o, f, s, w) ==
  /\ Written(o, f, s, w, items', work')
  /\ UNCHANGED <<groups, background, command, at, member, stopped>>
  /\ at[o] \in {"collect", "run"} /\ f \in Files[o]
  /\ at[o] = "collect" => w # "running"
  /\ at[o] = "run" => w \in {"queued", "running", "over"}
  /\ s = "running" => \/ w \in {"running", "acting"}
                      \/ s = items[member[o]][f] /\ work[o][f] \notin {"running", "acting"}
  /\ groups[member[o]].cancelled => s # "pending" /\ w # "queued"

LEMMA ChildMoves ==
  ASSUME GroupInv, NEW o \in Op, NEW f \in File, NEW s, NEW w, ChildMove(o, f, s, w)
  PROVE  GroupInv'
<1>1. member[o] \in Numbers
  BY Belongs DEF GroupInv, ChildMove
<1>2. /\ \A h \in Numbers, e \in File :
           items'[h][e] = IF h = member[o] /\ e = f THEN s ELSE items[h][e]
      /\ \A p \in Op, e \in File : work'[p][e] = IF p = o /\ e = f THEN w ELSE work[p][e]
      /\ GroupTypes(groups, items', background, command, at, member, work')
  BY <1>1, ChildWrites DEF ChildMove
<1>3. ChildEffect(o, f, s, w, groups, items, at, member, work, items', work')
  BY <1>2 DEF ChildEffect, ChildMove
<1>4. GroupsBut({}, groups, items', background, command, at, member, stopped, work')
  BY <1>2, <1>3, ChildStep DEF GroupInv
<1> QED
  BY <1>4 DEF GroupInv, ChildMove

\* Where a child works, its operation is among those that collect or run, and the file is one of
\* its own.
LEMMA ChildPlace ==
  ASSUME GroupInv, NEW o \in Op, NEW f \in File
  PROVE  /\ work[o][f] \in {"found", "review"} => at[o] = "collect"
         /\ work[o][f] \in {"acting", "queued", "running"} => at[o] \in {"collect", "run"}
         /\ work[o][f] # "none" => f \in Files[o]
         /\ work[o][f] = "acting" => at[o] = "collect"
         /\ work[o][f] = "running" => at[o] = "run"
<1>1. at[o] \in {"idle", "hook", "collect", "run", "over"} /\ work[o][f] \in Places
  BY DEF GroupInv, GroupsBut, GroupTypes
<1> QED
  BY <1>1 DEF GroupInv, GroupsBut, ChildrenFit, Places

\* What a member of a cancelled group cannot be doing.
LEMMA CancelledStops ==
  ASSUME GroupInv, NEW o \in Op, at[o] \in {"hook", "collect", "run"}, groups[member[o]].cancelled
  PROVE  /\ \A f \in File : items[member[o]][f] # "pending" /\ work[o][f] # "queued"
         /\ at[o] = "collect" => stopped[o]
<1>1. member[o] \in Numbers
  BY Belongs DEF GroupInv
<1> QED
  BY <1>1 DEF GroupInv, GroupsBut, Obeyed

\* An operation that collects is in a group.
LEMMA Collecting ==
  ASSUME GroupInv, NEW o \in Op, NEW f, NEW p, activity!Collects(o, f, p)
  PROVE  /\ GroupTypes(groups, items, background, command, at, member, work)
         /\ member[o] \in Numbers
<1>1. at[o] = "collect"
  BY DEF activity!Collects
<1>2. member[o] \in Numbers
  BY <1>1, Belongs DEF GroupInv
<1> QED
  BY <1>2 DEF GroupInv, GroupsBut

\* One lemma per action, or per few actions of one shape.
LEMMA FoundStep ==
  ASSUME GroupInv, NEW o \in Op, NEW f \in File, activity!Found(o, f)
  PROVE  GroupInv'
<1>0. GroupTypes(groups, items, background, command, at, member, work) /\ member[o] \in Numbers
  BY Collecting DEF activity!Found
<1>1. /\ at[o] = "collect" /\ f \in Files[o] /\ work[o][f] = "none"
      /\ UNCHANGED <<groups, background, command, at, member, stopped>>
  BY DEF activity!Found, activity!Collects, activity!UnchangedAround
<1>2. items[member[o]][f] \in activity!Status \union {"none"}
  BY <1>0 DEF GroupTypes
<1>3. groups[member[o]].cancelled => items[member[o]][f] # "pending"
  BY <1>1, CancelledStops
<1>4. CASE groups[member[o]].cancelled
  <2>1. work' = [work EXCEPT ![o][f] = "over"] /\ items' = items
    BY <1>4 DEF activity!Found, activity!Put
  <2>2. ChildMove(o, f, items[member[o]][f], "over")
    BY <1>1, <1>2, <1>3, <2>1 DEF ChildMove, Written, Places
  <2> QED
    BY <2>2, ChildMoves
<1>5. CASE ~groups[member[o]].cancelled
  <2> DEFINE s == IF items[member[o]][f] = "none" THEN "pending" ELSE items[member[o]][f]
  <2>1. work' = [work EXCEPT ![o][f] = "found"] /\ items' = [items EXCEPT ![member[o]][f] = s]
    BY <1>5 DEF activity!Found, activity!Put, activity!Become
  <2>2. s \in activity!Status \union {"none"} /\ (s = "running" => s = items[member[o]][f])
    BY <1>2 DEF activity!Status
  <2> HIDE DEF s
  <2>3. ChildMove(o, f, s, "found")
    BY <1>1, <1>5, <2>1, <2>2 DEF ChildMove, Written, Places
  <2> QED
    BY <2>3, ChildMoves
<1> QED
  BY <1>4, <1>5

LEMMA ActStep ==
  ASSUME GroupInv, NEW o \in Op, NEW f \in File, activity!Act(o, f)
  PROVE  GroupInv'
<1>0. GroupTypes(groups, items, background, command, at, member, work) /\ member[o] \in Numbers
  BY Collecting DEF activity!Act
<1>1. /\ at[o] = "collect" /\ f \in Files[o] /\ work[o][f] = "none"
      /\ UNCHANGED <<groups, background, command, at, member, stopped>>
  BY DEF activity!Act, activity!Collects, activity!UnchangedAround
<1>2. items[member[o]][f] \in activity!Status \union {"none"}
  BY <1>0 DEF GroupTypes
<1>3. groups[member[o]].cancelled => items[member[o]][f] # "pending"
  BY <1>1, CancelledStops
<1>4. CASE groups[member[o]].cancelled
  <2>1. work' = [work EXCEPT ![o][f] = "over"] /\ items' = items
    BY <1>4 DEF activity!Act, activity!Put
  <2>2. ChildMove(o, f, items[member[o]][f], "over")
    BY <1>1, <1>2, <1>3, <2>1 DEF ChildMove, Written, Places
  <2> QED
    BY <2>2, ChildMoves
<1>5. CASE ~groups[member[o]].cancelled
  <2>1. work' = [work EXCEPT ![o][f] = "acting"]
        /\ items' = [items EXCEPT ![member[o]][f] = "running"]
    BY <1>5 DEF activity!Act, activity!Put, activity!Become
  <2>2. ChildMove(o, f, "running", "acting")
    BY <1>1, <1>5, <2>1 DEF ChildMove, Written, Places, activity!Status
  <2> QED
    BY <2>2, ChildMoves
<1> QED
  BY <1>4, <1>5

\* What ends a child, or makes it wait for a decision.
LEMMA ChildEndStep ==
  ASSUME GroupInv, NEW o \in Op, NEW f \in File,
         \/ activity!ActEnds(o, f) \/ activity!Review(o, f) \/ activity!Expire(o, f)
         \/ activity!Done(o, f)
  PROVE  GroupInv'
<1>1. work[o][f] \in {"acting", "found", "review", "running"}
  BY DEF activity!ActEnds, activity!Review, activity!Expire, activity!Done, activity!Collects
<1>2. at[o] \in {"collect", "run"} /\ f \in Files[o]
  BY <1>1, ChildPlace
<1>3. UNCHANGED <<groups, background, command, at, member, stopped>>
  BY DEF activity!ActEnds, activity!Review, activity!Expire, activity!Done, activity!UnchangedAround
<1>4. CASE activity!Review(o, f)
  <2>1. /\ work' = [work EXCEPT ![o][f] = "review"] /\ at[o] = "collect"
        /\ items' = [items EXCEPT ![member[o]][f] = "conflict"]
    BY <1>4 DEF activity!Review, activity!Put, activity!Become, activity!Collects
  <2>2. ChildMove(o, f, "conflict", "review")
    BY <1>2, <1>3, <2>1 DEF ChildMove, Written, Places, activity!Status
  <2> QED
    BY <2>2, ChildMoves
<1>5. CASE activity!ActEnds(o, f) \/ activity!Expire(o, f) \/ activity!Done(o, f)
  <2>1. /\ work' = [work EXCEPT ![o][f] = "over"]
        /\ \E s \in {"completed", "failed", "cancelled"} :
             items' = [items EXCEPT ![member[o]][f] = s]
    BY <1>5 DEF activity!ActEnds, activity!Expire, activity!Done, activity!Put, activity!Become
  <2>2. PICK s \in {"completed", "failed", "cancelled"} :
          items' = [items EXCEPT ![member[o]][f] = s]
    BY <2>1
  <2>3. ChildMove(o, f, s, "over")
    BY <1>2, <1>3, <2>1, <2>2 DEF ChildMove, Written, Places, activity!Status
  <2> QED
    BY <2>3, ChildMoves
<1> QED
  BY <1>4, <1>5

LEMMA ChildFailsStep ==
  ASSUME GroupInv, NEW o \in Op, NEW f \in File, activity!ChildFails(o, f)
  PROVE  GroupInv'
<1>0. GroupTypes(groups, items, background, command, at, member, work) /\ member[o] \in Numbers
  BY Collecting DEF activity!ChildFails
<1>1. /\ at[o] = "collect" /\ f \in Files[o] /\ work[o][f] \in {"found", "review"}
      /\ UNCHANGED <<groups, background, command, at, member, stopped>>
      /\ work' = [work EXCEPT ![o][f] = "over"] /\ items' = items
  BY DEF activity!ChildFails, activity!Collects, activity!UnchangedAround, activity!Put
<1>2. items[member[o]][f] \in activity!Status \union {"none"}
  BY <1>0 DEF GroupTypes
<1>3. groups[member[o]].cancelled => items[member[o]][f] # "pending"
  BY <1>1, CancelledStops
<1>4. ChildMove(o, f, items[member[o]][f], "over")
  BY <1>1, <1>2, <1>3 DEF ChildMove, Written, Places
<1> QED
  BY <1>4, ChildMoves

LEMMA QueueStep ==
  ASSUME GroupInv, NEW o \in Op, NEW f \in File, activity!Queue(o, f)
  PROVE  GroupInv'
<1>1. /\ at[o] = "collect" /\ f \in Files[o]
      /\ UNCHANGED <<groups, background, command, at, member, stopped>>
  BY DEF activity!Queue, activity!Collects, activity!UnchangedAround
<1>2. groups[member[o]].cancelled => stopped[o]
  BY <1>1, CancelledStops
<1>3. CASE stopped[o]
  <2>1. /\ work' = [work EXCEPT ![o][f] = "over"]
        /\ items' = [items EXCEPT ![member[o]][f] = "not-started"]
    BY <1>3 DEF activity!Queue, activity!Put, activity!Become
  <2>2. ChildMove(o, f, "not-started", "over")
    BY <1>1, <2>1 DEF ChildMove, Written, Places, activity!Status
  <2> QED
    BY <2>2, ChildMoves
<1>4. CASE ~stopped[o]
  <2>1. /\ work' = [work EXCEPT ![o][f] = "queued"]
        /\ items' = [items EXCEPT ![member[o]][f] = "pending"]
    BY <1>4 DEF activity!Queue, activity!Put, activity!Become
  <2>2. ChildMove(o, f, "pending", "queued")
    BY <1>1, <1>2, <1>4, <2>1 DEF ChildMove, Written, Places, activity!Status
  <2> QED
    BY <2>2, ChildMoves
<1> QED
  BY <1>3, <1>4

LEMMA StartStep ==
  ASSUME GroupInv, NEW o \in Op, NEW f \in File, activity!Start(o, f)
  PROVE  GroupInv'
<1>1. /\ at[o] = "run" /\ work[o][f] = "queued"
      /\ UNCHANGED <<groups, background, command, at, member, stopped>>
      /\ work' = [work EXCEPT ![o][f] = "running"]
      /\ items' = [items EXCEPT ![member[o]][f] = "running"]
  BY DEF activity!Start, activity!Put, activity!Become, activity!UnchangedAround
<1>2. f \in Files[o]
  BY <1>1, ChildPlace
<1>3. ChildMove(o, f, "running", "running")
  BY <1>1, <1>2 DEF ChildMove, Written, Places, activity!Status
<1> QED
  BY <1>3, ChildMoves

\* What finish does, be the work over or not.
LEMMA FinishStep ==
  ASSUME NEW grp, NEW its, NEW cmd, NEW att, NEW mem, NEW stp, NEW wrk, NEW g \in Numbers,
         GroupsBut({g}, grp, its, background, cmd, att, mem, stp, wrk),
         grp[g].state = "listed", activity!Finish(grp, its, g)
  PROVE  GroupsBut({}, groups', items', background', cmd, att, mem, stp, wrk)
<1>0. /\ GroupTypes(grp, its, background, cmd, att, mem, wrk) /\ ChildrenFit(att, mem, wrk)
      /\ Counted(grp, cmd, att, mem) /\ RunningRuns(its, att, mem, wrk)
  BY DEF GroupsBut
<1>1. CASE ~activity!Rests(grp, its, g)
  <2>1. groups' = grp /\ items' = its /\ background' = background
    BY <1>1 DEF activity!Finish
  <2>2. OverEnds(grp, its, att, mem, g)
    <3> SUFFICES ASSUME grp[g].owners = 0, \A o \in Op : mem[o] = g => att[o] = "over",
                        \A f \in File : its[g][f] # "conflict"
                 PROVE  FALSE
      BY DEF OverEnds
    <3>1. Inside(att, mem, g) = {}
      BY DEF Inside
    <3>2. grp[g].pending = 0
      BY <1>0, <3>1, FS_EmptySet DEF Counted
    <3>3. \A f \in File : its[g][f] # "running"
      BY <1>0, <3>1 DEF RunningRuns
    <3> QED
      BY <1>1, <3>2, <3>3 DEF activity!Rests
  <2> QED
    BY <2>1, <2>2 DEF GroupsBut
<1>2. CASE activity!Rests(grp, its, g)
  <2> DEFINE left == IF grp[g].cancelled THEN "cancelled" ELSE "not-started"
             done == [its EXCEPT ![g] = [f \in File |-> IF its[g][f] = "pending" THEN left
                                                        ELSE its[g][f]]]
             finished == [grp EXCEPT ![g].ended = TRUE]
             gone == activity!Pruned(finished, done)
  <2>1. /\ items' = done
        /\ groups' = [h \in Numbers |-> IF h \in gone THEN [finished[h] EXCEPT !.state = "removed"]
                                                      ELSE finished[h]]
        /\ background' = IF background \in gone THEN 0 ELSE background
    BY <1>2 DEF activity!Finish, activity!Remove, Numbers
  <2>2. \A h \in gone : /\ h \in Numbers /\ finished[h].state = "listed"
                        /\ ~activity!Active(finished, done, h)
    BY DEF activity!Pruned, activity!Listed, Numbers
  <2> HIDE DEF gone
  <2>3. /\ \A h \in Numbers, f \in File :
             done[h][f] = IF h = g /\ its[h][f] = "pending" THEN left ELSE its[h][f]
        /\ done \in [Numbers -> [File -> activity!Status \union {"none"}]]
    <3>1. its \in [Numbers -> [File -> activity!Status \union {"none"}]]
      BY <1>0 DEF GroupTypes
    <3>2. left \in activity!Status
      BY DEF activity!Status
    <3> HIDE DEF left
    <3>3. [f \in File |-> IF its[g][f] = "pending" THEN left ELSE its[g][f]]
            \in [File -> activity!Status \union {"none"}]
      BY <3>1, <3>2
    <3> QED
      BY <3>1, <3>3
  <2>4. left \in {"cancelled", "not-started"}
    OBVIOUS
  <2> HIDE DEF done, left
  <2>5. grp \in [Numbers -> [state : {"none", "listed", "removed"}, pending : Nat, owners : Nat,
                             cancelled : BOOLEAN, ended : BOOLEAN, issue : BOOLEAN]]
    BY <1>0 DEF GroupTypes
  <2>6. \A h \in Numbers :
          /\ finished[h] \in [state : {"none", "listed", "removed"}, pending : Nat, owners : Nat,
                           cancelled : BOOLEAN, ended : BOOLEAN, issue : BOOLEAN]
          /\ finished[h].pending = grp[h].pending /\ finished[h].owners = grp[h].owners
          /\ finished[h].state = grp[h].state /\ finished[h].cancelled = grp[h].cancelled
          /\ finished[h].ended = IF h = g THEN TRUE ELSE grp[h].ended
    BY <2>5
  <2> HIDE DEF finished
  <2>7. \A h \in Numbers :
          /\ groups'[h] \in [state : {"none", "listed", "removed"}, pending : Nat, owners : Nat,
                           cancelled : BOOLEAN, ended : BOOLEAN, issue : BOOLEAN]
          /\ groups'[h].pending = grp[h].pending /\ groups'[h].owners = grp[h].owners
          /\ groups'[h].state = IF h \in gone THEN "removed" ELSE grp[h].state
          /\ groups'[h].cancelled = grp[h].cancelled
          /\ groups'[h].ended = IF h = g THEN TRUE ELSE grp[h].ended
    BY <2>1, <2>6
  <2>8. GroupTypes(groups', items', background', cmd, att, mem, wrk)
    <3>1. groups' \in [Numbers -> [state : {"none", "listed", "removed"}, pending : Nat,
                         owners : Nat, cancelled : BOOLEAN, ended : BOOLEAN, issue : BOOLEAN]]
      BY <2>1, <2>7
    <3>2. background' \in Numbers \union {0}
      BY <1>0, <2>1 DEF GroupTypes
    <3> QED
      BY <1>0, <2>1, <2>3, <3>1, <3>2 DEF GroupTypes
  <2>9. Quiet(groups', items', g)
    <3>1. groups'[g].pending = 0 /\ groups'[g].owners = 0
      BY <1>2, <2>7 DEF activity!Rests
    <3>2. \A f \in File : its[g][f] \notin {"conflict", "running"}
      BY <1>2 DEF activity!Rests
    <3> QED
      BY <2>1, <2>3, <2>4, <3>1, <3>2 DEF Quiet, activity!Live
  <2>10. \A h \in gone : Quiet(groups', items', h)
    <3> SUFFICES ASSUME NEW h \in gone
                 PROVE  Quiet(groups', items', h)
      OBVIOUS
    <3>a. h \in Numbers /\ ~(finished[h].pending > 0) /\ ~(finished[h].owners > 0)
      BY <2>2 DEF activity!Active
    <3>b. finished[h].pending \in Nat /\ finished[h].owners \in Nat
      BY <2>6, <3>a
    <3>c. finished[h].pending = 0 /\ finished[h].owners = 0
      BY <3>a, <3>b
    <3>1. groups'[h].pending = 0 /\ groups'[h].owners = 0
      BY <2>6, <2>7, <3>a, <3>c
    <3>2. \A f \in File : items'[h][f] \notin activity!Live
      BY <2>1, <2>2 DEF activity!Active
    <3> QED
      BY <3>1, <3>2 DEF Quiet
  <2>11. FinishEffect({g}, grp, its, background, groups', items', background')
    <3>1. \A h \in gone : grp[h].state = "listed"
      BY <2>2, <2>6
    <3>2. \A h \in Numbers, f \in File :
            \/ items'[h][f] = its[h][f]
            \/ h \in {g} /\ its[h][f] = "pending" /\ items'[h][f] \in {"cancelled", "not-started"}
      BY <2>1, <2>3, <2>4
    <3>3. \/ background' = 0
          \/ background' = background /\ background \notin gone
      BY <2>1
    <3>4. background' = 0 \/ background \in Numbers
      BY <1>0, <3>3 DEF GroupTypes
    <3>5. \/ background' = 0
          \/ background' = background /\ groups'[background].state = grp[background].state
      BY <2>7, <3>3, <3>4
    <3> QED
      BY <2>7, <2>9, <2>10, <3>1, <3>2, <3>5 DEF FinishEffect
  <2> QED
    BY <2>8, <2>11, FinishPhase
<1> QED
  BY <1>1, <1>2

\* What cancel does to a group, with items its and places wrk in which nobody else waits in a
\* queue than in the variables.
LEMMA CancelStep ==
  ASSUME GroupInv, NEW g \in Numbers, NEW its, NEW wrk,
         GroupsBut({}, groups, its, background, command, at, member, stopped, wrk),
         \A o \in Op, f \in File : wrk[o][f] = "queued" <=> work[o][f] = "queued",
         activity!Stop(activity!Halted(g), wrk)
  PROVE  GroupsBut({}, activity!Called(g), activity!Unstarted(g, its), background, command, at,
                   member, stopped', work')
<1> DEFINE once == groups[g].state = "listed" /\ ~groups[g].cancelled
           halted == {o \in Op : once /\ member[o] = g /\ at[o] \in {"collect", "run"}}
           grp2 == activity!Called(g)
           its2 == activity!Unstarted(g, its)
<1>0. /\ GroupTypes(groups, its, background, command, at, member, wrk)
      /\ GroupTypes(groups, items, background, command, at, member, work)
  BY DEF GroupInv, GroupsBut
<1>1. activity!Halted(g) = halted /\ (activity!Cancels(g) <=> once)
  BY DEF activity!Halted, activity!Cancels, activity!Members
<1>2. groups \in [Numbers -> [state : {"none", "listed", "removed"}, pending : Nat, owners : Nat,
                              cancelled : BOOLEAN, ended : BOOLEAN, issue : BOOLEAN]]
  BY <1>0 DEF GroupTypes
<1>3. grp2 = [groups EXCEPT ![g].cancelled = groups[g].cancelled \/ activity!Cancels(g)]
  BY DEF activity!Called
<1>4. (groups[g].cancelled \/ activity!Cancels(g)) \in BOOLEAN
  OBVIOUS
<1>5. /\ \A h \in Numbers :
           /\ grp2[h].pending = groups[h].pending /\ grp2[h].owners = groups[h].owners
           /\ grp2[h].state = groups[h].state /\ grp2[h].ended = groups[h].ended
           /\ h # g => grp2[h].cancelled = groups[h].cancelled
      /\ grp2[g].cancelled = (groups[g].cancelled \/ activity!Cancels(g))
      /\ grp2 \in [Numbers -> [state : {"none", "listed", "removed"}, pending : Nat, owners : Nat,
                               cancelled : BOOLEAN, ended : BOOLEAN, issue : BOOLEAN]]
  <2> DEFINE c == groups[g].cancelled \/ activity!Cancels(g)
  <2>1. c \in BOOLEAN /\ grp2 = [groups EXCEPT ![g].cancelled = c]
    BY <1>3, <1>4
  <2> HIDE DEF c, grp2
  <2>2. /\ \A h \in Numbers :
             /\ grp2[h].pending = groups[h].pending /\ grp2[h].owners = groups[h].owners
             /\ grp2[h].state = groups[h].state /\ grp2[h].ended = groups[h].ended
             /\ h # g => grp2[h].cancelled = groups[h].cancelled
        /\ grp2[g].cancelled = c
    BY <1>2, <2>1
  <2>3. grp2 \in [Numbers -> [state : {"none", "listed", "removed"}, pending : Nat, owners : Nat,
                              cancelled : BOOLEAN, ended : BOOLEAN, issue : BOOLEAN]]
    BY <1>2, <2>1
  <2> QED
    BY <2>2, <2>3 DEF c
<1>6. \A h \in Numbers : grp2[h].cancelled => groups[h].cancelled \/ (h = g /\ once)
  <2>1. grp2[g].cancelled => groups[g].cancelled \/ once
    BY <1>1, <1>5
  <2> HIDE DEF grp2, once
  <2> QED
    BY <1>5, <2>1
<1>7. /\ \A o \in Op, f \in File :
           work'[o][f] = IF o \in halted /\ wrk[o][f] = "queued" THEN "over" ELSE wrk[o][f]
      /\ work' \in [Op -> [File -> Places]]
  <2>1. wrk \in [Op -> [File -> Places]]
    BY <1>0 DEF GroupTypes
  <2>2. work' = [o \in Op |-> [f \in File |->
                   IF o \in halted /\ f \in activity!Queued(o) THEN "over" ELSE wrk[o][f]]]
    BY <1>1 DEF activity!Stop
  <2>3. \A o \in Op, f \in File : f \in activity!Queued(o) <=> wrk[o][f] = "queued"
    BY DEF activity!Queued
  <2> HIDE DEF halted
  <2>4. \A o \in Op, f \in File :
          work'[o][f] = IF o \in halted /\ wrk[o][f] = "queued" THEN "over" ELSE wrk[o][f]
    BY <2>2, <2>3
  <2>5. work' \in [Op -> [File -> Places]]
    BY <2>1, <2>2 DEF Places
  <2> QED
    BY <2>4, <2>5
<1>8. \A o \in Op : stopped[o] \/ o \in halted => stopped'[o]
  <2>1. stopped' = [o \in Op |-> stopped[o] \/ o \in halted]
    BY <1>1 DEF activity!Stop
  <2> HIDE DEF halted
  <2> QED
    BY <2>1
<1>9. /\ \A h \in Numbers, f \in File :
           IF h = g /\ once /\ (its[h][f] = "pending" \/ \E o \in halted : wrk[o][f] = "queued")
             THEN its2[h][f] = "cancelled" ELSE its2[h][f] = its[h][f]
      /\ its2 \in [Numbers -> [File -> activity!Status \union {"none"}]]
  <2> DEFINE drained == UNION {activity!Queued(o) : o \in activity!Halted(g)}
             row == [f \in File |-> IF once /\ (its[g][f] = "pending" \/ f \in drained)
                                      THEN "cancelled" ELSE its[g][f]]
  <2>1. its \in [Numbers -> [File -> activity!Status \union {"none"}]]
    BY <1>0 DEF GroupTypes
  <2>2. its2 = [its EXCEPT ![g] = row]
    BY <1>1 DEF activity!Unstarted
  <2>3. \A f \in File : f \in drained <=> \E o \in halted : wrk[o][f] = "queued"
    <3>1. \A f \in File : f \in drained <=> \E o \in halted : f \in activity!Queued(o)
      BY <1>1
    <3>2. \A o \in halted, f \in File : f \in activity!Queued(o) <=> wrk[o][f] = "queued"
      BY DEF activity!Queued
    <3> HIDE DEF drained, halted
    <3> QED
      BY <3>1, <3>2
  <2> HIDE DEF drained, its2, halted, once
  <2>4. row \in [File -> activity!Status \union {"none"}]
    BY <2>1 DEF activity!Status
  <2>5. \A f \in File : row[f] = IF once /\ (its[g][f] = "pending" \/ f \in drained)
                                   THEN "cancelled" ELSE its[g][f]
    OBVIOUS
  <2> HIDE DEF row
  <2>6. its2 \in [Numbers -> [File -> activity!Status \union {"none"}]]
    BY <2>1, <2>2, <2>4
  <2>7. \A h \in Numbers : its2[h] = IF h = g THEN row ELSE its[h]
    BY <2>1, <2>2
  <2> QED
    BY <2>3, <2>5, <2>6, <2>7
<1> HIDE DEF grp2, its2
<1>10. CancelEffect(g, groups, its, at, member, stopped, wrk, grp2, its2, stopped', work')
  BY <1>5, <1>6, <1>7, <1>8, <1>9 DEF CancelEffect
<1>11. GroupTypes(grp2, its2, background, command, at, member, work')
  BY <1>0, <1>5, <1>7, <1>9 DEF GroupTypes
<1> QED
  BY <1>10, <1>11, CancelPhase DEF grp2, its2

LEMMA CancelKeeps ==
  ASSUME GroupInv, NEW g \in Numbers, activity!Cancel(g)
  PROVE  GroupInv'
<1>1. /\ groups' = activity!Called(g) /\ items' = activity!Unstarted(g, items)
      /\ activity!Stop(activity!Halted(g), work)
      /\ UNCHANGED <<background, command, at, member>>
  BY DEF activity!Cancel
<1>2. GroupsBut({}, activity!Called(g), activity!Unstarted(g, items), background, command, at,
                member, stopped', work')
  BY <1>1, CancelStep DEF GroupInv
<1> QED
  BY <1>1, <1>2 DEF GroupInv

LEMMA RefuseStep ==
  ASSUME GroupInv, NEW o \in Op, NEW f \in File, activity!Refuse(o, f)
  PROVE  GroupInv'
<1> DEFINE g == member[o]
           its == [items EXCEPT ![g][f] = "cancelled"]
           wrk == [work EXCEPT ![o][f] = "over"]
<1>1. /\ at[o] = "collect" /\ f \in Files[o] /\ work[o][f] = "review"
      /\ groups' = activity!Called(g) /\ items' = activity!Unstarted(g, its)
      /\ activity!Stop(activity!Halted(g), wrk)
      /\ UNCHANGED <<background, command, at, member>>
  BY DEF activity!Refuse, activity!Collects
<1>2. g \in Numbers
  BY Collecting DEF activity!Refuse
<1>3. Written(o, f, "cancelled", "over", its, wrk)
  BY DEF Written, Places, activity!Status
<1> HIDE DEF its, wrk, g
<1>4. /\ \A h \in Numbers, e \in File :
           its[h][e] = IF h = member[o] /\ e = f THEN "cancelled" ELSE items[h][e]
      /\ \A p \in Op, e \in File : wrk[p][e] = IF p = o /\ e = f THEN "over" ELSE work[p][e]
      /\ GroupTypes(groups, its, background, command, at, member, wrk)
  BY <1>2, <1>3, ChildWrites DEF g
<1>5. ChildEffect(o, f, "cancelled", "over", groups, items, at, member, work, its, wrk)
  BY <1>1, <1>4 DEF ChildEffect
<1>6. GroupsBut({}, groups, its, background, command, at, member, stopped, wrk)
  BY <1>4, <1>5, ChildStep DEF GroupInv
<1>7. \A p \in Op, e \in File : wrk[p][e] = "queued" <=> work[p][e] = "queued"
  BY <1>1, <1>4
<1>8. GroupsBut({}, activity!Called(g), activity!Unstarted(g, its), background, command, at,
                member, stopped', work')
  BY <1>1, <1>2, <1>6, <1>7, CancelStep
<1> QED
  BY <1>1, <1>8 DEF GroupInv

\* Without a cancellation only the note of an error changes.
LEMMA NotedTypes ==
  ASSUME GroupInv, NEW g \in Numbers, NEW reason, reason # "cancel"
  PROVE  /\ activity!Noted(g, reason) \in
              [Numbers -> [state : {"none", "listed", "removed"}, pending : Nat, owners : Nat,
                           cancelled : BOOLEAN, ended : BOOLEAN, issue : BOOLEAN]]
         /\ \A h \in Numbers :
              LET was == groups[h]
                  is == activity!Noted(g, reason)[h]
              IN /\ is.pending = was.pending /\ is.owners = was.owners /\ is.state = was.state
                 /\ is.cancelled = was.cancelled /\ is.ended = was.ended
<1> DEFINE c == groups[g].issue \/ (reason = "error" /\ \A f \in File : items[g][f] # "failed")
<1>1. c \in BOOLEAN /\ activity!Noted(g, reason) = [groups EXCEPT ![g].issue = c]
  BY DEF activity!Noted
<1>2. groups \in [Numbers -> [state : {"none", "listed", "removed"}, pending : Nat, owners : Nat,
                              cancelled : BOOLEAN, ended : BOOLEAN, issue : BOOLEAN]]
  BY DEF GroupInv, GroupsBut, GroupTypes
<1> HIDE DEF c
<1> QED
  BY <1>1, <1>2

\* To be stopped does no harm.
LEMMA StoppedMore ==
  ASSUME NEW grp, NEW its, NEW bg, NEW cmd, NEW att, NEW mem, NEW stp, NEW wrk, NEW but,
         NEW stp2, \A o \in Op : stp[o] => stp2[o],
         GroupsBut(but, grp, its, bg, cmd, att, mem, stp, wrk)
  PROVE  GroupsBut(but, grp, its, bg, cmd, att, mem, stp2, wrk)
BY DEF GroupsBut, Obeyed

\* Notes change nothing that the invariant is about.
SameFor(grp) ==
  \A h \in Numbers :
    /\ grp[h].pending = groups[h].pending /\ grp[h].owners = groups[h].owners
    /\ grp[h].state = groups[h].state /\ grp[h].cancelled = groups[h].cancelled
    /\ grp[h].ended = groups[h].ended

LEMMA SameGroups ==
  ASSUME GroupInv, NEW grp, SameFor(grp),
         GroupTypes(grp, items, background, command, at, member, work)
  PROVE  GroupsBut({}, grp, items, background, command, at, member, stopped, work)
<1>0. /\ ChildrenFit(at, member, work) /\ Counted(groups, command, at, member)
      /\ InList(groups, items, background, at, member) /\ Resting(groups, items)
      /\ RunningRuns(items, at, member, work)
      /\ Obeyed(groups, items, at, member, stopped, work)
      /\ \A h \in Numbers : OverEnds(groups, items, at, member, h)
  BY DEF GroupInv, GroupsBut
<1>1. InUse(grp) = InUse(groups)
  BY DEF InUse, SameFor
<1>2. Counted(grp, command, at, member) /\ Resting(grp, items)
  BY <1>0 DEF Counted, Resting, Quiet, SameFor
<1>3. InList(grp, items, background, at, member)
  BY <1>0, <1>1 DEF InList, SameFor
<1>4. Obeyed(grp, items, at, member, stopped, work)
  BY <1>0 DEF Obeyed, SameFor
<1>5. \A h \in Numbers : OverEnds(grp, items, at, member, h)
  BY <1>0 DEF OverEnds, SameFor
<1> QED
  BY <1>0, <1>2, <1>3, <1>4, <1>5 DEF GroupsBut

LEMMA EndStep ==
  ASSUME GroupInv, NEW o \in Op, activity!End(o)
  PROVE  GroupInv'
<1> DEFINE g == member[o]
<1>1. PICK reason \in (IF failed[o] = {} THEN {"none", "error"} ELSE failed[o]) :
        LET its == IF reason = "cancel" THEN activity!Unstarted(g, items) ELSE items IN
        /\ activity!Finish([activity!Noted(g, reason) EXCEPT ![g].pending = @ - 1], its, g)
        /\ activity!Stop(IF reason = "cancel" THEN activity!Halted(g) ELSE {}, work)
  BY DEF activity!End
<1>2. /\ at[o] = "run" /\ at' = [at EXCEPT ![o] = "over"]
      /\ \A f \in File : work[o][f] \notin {"queued", "running"}
      /\ UNCHANGED <<command, member>>
  BY DEF activity!End, activity!Idle
<1>3. g \in Numbers
  BY <1>2, Belongs DEF GroupInv
<1> DEFINE its == IF reason = "cancel" THEN activity!Unstarted(g, items) ELSE items
           grp == activity!Noted(g, reason)
           left == [grp EXCEPT ![g].pending = grp[g].pending - 1]
<1>4. GroupTypes(groups, items, background, command, at, member, work)
  BY DEF GroupInv, GroupsBut
<1>5. /\ GroupsBut({}, grp, its, background, command, at, member, stopped', work')
      /\ \A f \in File : work'[o][f] \notin {"queued", "running"}
  <2>1. CASE reason = "cancel"
    <3>1. grp = activity!Called(g) /\ its = activity!Unstarted(g, items)
      BY <2>1 DEF activity!Noted
    <3>2. activity!Stop(activity!Halted(g), work)
      BY <1>1, <2>1
    <3>3. \A f \in File : work'[o][f] \in {work[o][f], "over"}
      BY <3>2 DEF activity!Stop
    <3> HIDE DEF grp, its, g
    <3>4. GroupsBut({}, grp, its, background, command, at, member, stopped', work')
      BY <1>3, <3>1, <3>2, CancelStep DEF GroupInv
    <3> QED
      BY <1>2, <3>3, <3>4
  <2>2. CASE reason # "cancel"
    <3>1. activity!Stop({}, work) /\ its = items
      BY <1>1, <2>2
    <3>2. work' = work
      <4>1. work' = [p \in Op |-> [f \in File |-> work[p][f]]]
        BY <3>1 DEF activity!Stop
      <4>2. work \in [Op -> [File -> Places]]
        BY <1>4 DEF GroupTypes
      <4> QED
        BY <4>1, <4>2
    <3>3. \A p \in Op : stopped[p] => stopped'[p]
      BY <3>1 DEF activity!Stop
    <3> HIDE DEF grp, its, g
    <3>4. /\ grp \in [Numbers -> [state : {"none", "listed", "removed"}, pending : Nat,
                        owners : Nat, cancelled : BOOLEAN, ended : BOOLEAN, issue : BOOLEAN]]
          /\ \A h \in Numbers : /\ grp[h].pending = groups[h].pending
                                /\ grp[h].owners = groups[h].owners
                                /\ grp[h].state = groups[h].state
                                /\ grp[h].cancelled = groups[h].cancelled
                                /\ grp[h].ended = groups[h].ended
      BY <1>3, <2>2, NotedTypes DEF grp
    <3>5. GroupTypes(grp, items, background, command, at, member, work)
      BY <1>4, <3>4 DEF GroupTypes
    <3>6. SameFor(grp)
      BY <3>4 DEF SameFor
    <3>7. GroupsBut({}, grp, items, background, command, at, member, stopped, work)
      BY <3>5, <3>6, SameGroups
    <3> QED
      BY <1>2, <3>1, <3>2, <3>3, <3>7, StoppedMore
  <2> QED
    BY <2>1, <2>2
<1>6. activity!Finish(left, its, g)
  BY <1>1
<1> HIDE DEF its, grp, g
<1>7. /\ grp \in [Numbers -> [state : {"none", "listed", "removed"}, pending : Nat, owners : Nat,
                              cancelled : BOOLEAN, ended : BOOLEAN, issue : BOOLEAN]]
      /\ GroupTypes(grp, its, background, command, at, member, work')
  BY <1>5 DEF GroupsBut, GroupTypes
<1>8. grp[g].pending \in Nat \ {0} /\ grp[g].state = "listed"
  BY <1>2, <1>5, Belongs DEF g
<1>9. grp[g].pending - 1 \in Nat
  BY <1>8
<1>10. /\ left \in [Numbers -> [state : {"none", "listed", "removed"}, pending : Nat,
                      owners : Nat, cancelled : BOOLEAN, ended : BOOLEAN, issue : BOOLEAN]]
       /\ \A h \in Numbers :
            /\ left[h].pending = IF h = g THEN grp[h].pending - 1 ELSE grp[h].pending
            /\ left[h].state = grp[h].state /\ left[h].owners = grp[h].owners
            /\ left[h].cancelled = grp[h].cancelled /\ left[h].ended = grp[h].ended
  BY <1>3, <1>7, <1>9
<1> HIDE DEF left
<1>11. GroupTypes(left, its, background, command, at', member, work')
  BY <1>2, <1>7, <1>10 DEF GroupTypes
<1>a. LeaveEffect(o, grp, at, member, work', left, at')
  BY <1>2, <1>5, <1>10 DEF LeaveEffect, g
<1>12. GroupsBut({g}, left, its, background, command, at', member, stopped', work')
  BY <1>5, <1>11, <1>a, LeavePhase DEF g
<1>13. left[g].state = "listed"
  BY <1>3, <1>8, <1>10
<1>14. GroupsBut({}, groups', items', background', command, at', member, stopped', work')
  BY <1>3, <1>6, <1>12, <1>13, FinishStep
<1> QED
  BY <1>2, <1>14 DEF GroupInv

LEMMA InvocationEndsStep ==
  ASSUME GroupInv, activity!InvocationEnds
  PROVE  GroupInv'
<1>0. GroupTypes(groups, items, background, command, at, member, work)
  BY DEF GroupInv, GroupsBut
<1>1. /\ command.at = "busy" /\ command' = [command EXCEPT !.at = "over"]
      /\ UNCHANGED <<at, member, stopped, work>>
  BY DEF activity!InvocationEnds, activity!operations
<1>2. /\ command' \in [at : {"idle", "busy", "over"}, group : Numbers \union {0}]
      /\ command'.at = "over" /\ command'.group = command.group
  BY <1>0, <1>1 DEF GroupTypes
<1>3. CASE command.group = 0
  <2>1. UNCHANGED <<groups, items, background>>
    BY <1>3 DEF activity!InvocationEnds
  <2>2. GroupTypes(groups, items, background, command', at, member, work)
    BY <1>0, <1>2 DEF GroupTypes
  <2>3. \A g \in Numbers : g # 0
    BY EndpointAssumption, FS_CardinalityType DEF Numbers, activity!Group
  <2>4. Counted(groups, command', at, member)
    BY <1>2, <1>3, <2>3 DEF GroupInv, GroupsBut, Counted
  <2> QED
    BY <1>1, <2>1, <2>2, <2>4 DEF GroupInv, GroupsBut
<1>4. CASE command.group # 0
  <2> DEFINE g == command.group
             grp == [groups EXCEPT ![g].owners = 0]
  <2>1. activity!Finish(grp, items, g)
    BY <1>4 DEF activity!InvocationEnds
  <2>2. g \in Numbers
    BY <1>0, <1>4 DEF GroupTypes
  <2>3. groups[g].state = "listed"
    BY <1>1, <2>2 DEF GroupInv, GroupsBut, Counted, InList
  <2> HIDE DEF g
  <2>4. /\ grp \in [Numbers -> [state : {"none", "listed", "removed"}, pending : Nat,
                      owners : Nat, cancelled : BOOLEAN, ended : BOOLEAN, issue : BOOLEAN]]
        /\ \A h \in Numbers :
             /\ grp[h].owners = IF h = g THEN 0 ELSE groups[h].owners
             /\ grp[h].state = groups[h].state /\ grp[h].pending = groups[h].pending
             /\ grp[h].cancelled = groups[h].cancelled /\ grp[h].ended = groups[h].ended
    BY <1>0, <2>2 DEF GroupTypes
  <2> HIDE DEF grp
  <2>5. CommandEffect(groups, command, grp, command')
    BY <1>1, <1>2, <2>4 DEF CommandEffect, g
  <2>6. GroupTypes(grp, items, background, command', at, member, work)
    BY <1>0, <1>2, <2>4 DEF GroupTypes
  <2>7. GroupsBut({g}, grp, items, background, command', at, member, stopped, work)
    BY <2>5, <2>6, CommandPhase DEF GroupInv, g
  <2>8. grp[g].state = "listed"
    BY <2>2, <2>3, <2>4
  <2>9. GroupsBut({}, groups', items', background', command', at, member, stopped, work)
    BY <2>1, <2>2, <2>7, <2>8, FinishStep
  <2> QED
    BY <1>1, <2>9 DEF GroupInv
<1> QED
  BY <1>3, <1>4

LEMMA ClearCompletedStep ==
  ASSUME GroupInv, activity!ClearCompleted
  PROVE  GroupInv'
<1> DEFINE gone == {g \in activity!Listed(groups) : ~activity!Active(groups, items, g)}
<1>0. GroupTypes(groups, items, background, command, at, member, work)
  BY DEF GroupInv, GroupsBut
<1>1. /\ groups' = [g \in Numbers |-> IF g \in gone THEN [groups[g] EXCEPT !.state = "removed"]
                                                    ELSE groups[g]]
      /\ background' = IF background \in gone THEN 0 ELSE background
      /\ UNCHANGED <<items, command, at, member, stopped, work>>
  BY DEF activity!ClearCompleted, activity!Remove, Numbers, activity!operations
<1>2. \A g \in gone : /\ g \in Numbers /\ groups[g].state = "listed"
                      /\ ~activity!Active(groups, items, g)
  BY DEF activity!Listed, Numbers
<1> HIDE DEF gone
<1>3. groups \in [Numbers -> [state : {"none", "listed", "removed"}, pending : Nat, owners : Nat,
                              cancelled : BOOLEAN, ended : BOOLEAN, issue : BOOLEAN]]
  BY <1>0 DEF GroupTypes
<1>4. \A g \in Numbers :
        /\ groups'[g] \in [state : {"none", "listed", "removed"}, pending : Nat, owners : Nat,
                           cancelled : BOOLEAN, ended : BOOLEAN, issue : BOOLEAN]
        /\ groups'[g].pending = groups[g].pending /\ groups'[g].owners = groups[g].owners
        /\ groups'[g].state = IF g \in gone THEN "removed" ELSE groups[g].state
        /\ groups'[g].cancelled = groups[g].cancelled /\ groups'[g].ended = groups[g].ended
  BY <1>1, <1>3
<1>5. GroupTypes(groups', items, background', command, at, member, work)
  <2>1. groups' \in [Numbers -> [state : {"none", "listed", "removed"}, pending : Nat,
                       owners : Nat, cancelled : BOOLEAN, ended : BOOLEAN, issue : BOOLEAN]]
    BY <1>1, <1>4
  <2>2. background' \in Numbers \union {0}
    BY <1>0, <1>1 DEF GroupTypes
  <2> QED
    BY <1>0, <2>1, <2>2 DEF GroupTypes
<1>6. \A g \in gone : Quiet(groups', items, g)
  <2> SUFFICES ASSUME NEW g \in gone
               PROVE  Quiet(groups', items, g)
    OBVIOUS
  <2>1. /\ g \in Numbers /\ ~(groups[g].pending > 0) /\ ~(groups[g].owners > 0)
        /\ \A f \in File : items[g][f] \notin activity!Live
    BY <1>2 DEF activity!Active
  <2>2. groups[g].pending \in Nat /\ groups[g].owners \in Nat
    BY <1>3, <2>1
  <2>3. groups[g].pending = 0 /\ groups[g].owners = 0
    BY <2>1, <2>2
  <2> QED
    BY <1>4, <2>1, <2>3 DEF Quiet
<1>7. FinishEffect({}, groups, items, background, groups', items, background')
  <2>1. \/ background' = 0
        \/ background' = background /\ background \in Numbers /\ background \notin gone
    BY <1>0, <1>1 DEF GroupTypes
  <2>2. \/ background' = 0
        \/ background' = background /\ groups'[background].state = groups[background].state
    BY <1>4, <2>1
  <2> QED
    BY <1>2, <1>4, <1>6, <2>2 DEF FinishEffect
<1>8. GroupsBut({}, groups', items, background', command, at, member, stopped, work)
  BY <1>5, <1>7, FinishPhase DEF GroupInv
<1> QED
  BY <1>1, <1>8 DEF GroupInv

\* An operation goes on, from its hook to collecting or from there to running: what it drops
\* from its queue is shown as cancelled at most.
MoveEffect(o, grp, its, att, mem, stp, wrk, its2, att2, stp2, wrk2) ==
  /\ att[o] \in {"hook", "collect"} /\ att2[o] \in {"collect", "run"}
  /\ att2[o] = "collect" /\ grp[mem[o]].cancelled => stp2[o]
  /\ \A p \in Op \ {o} : att2[p] = att[p] /\ (stp[p] => stp2[p])
  /\ \A h \in Numbers, e \in File : \/ its2[h][e] = its[h][e]
                                    \/ h = mem[o] /\ its2[h][e] = "cancelled"
  /\ \A p \in Op, e \in File : \/ wrk2[p][e] = wrk[p][e]
                               \/ p = o /\ wrk[p][e] = "queued" /\ wrk2[p][e] = "over"

\* Such a move keeps the invariant.
LEMMA MovePhase ==
  ASSUME NEW grp, NEW its, NEW bg, NEW cmd, NEW att, NEW mem, NEW stp, NEW wrk,
         NEW its2, NEW att2, NEW stp2, NEW wrk2, NEW o \in Op,
         GroupsBut({}, grp, its, bg, cmd, att, mem, stp, wrk),
         GroupTypes(grp, its2, bg, cmd, att2, mem, wrk2), ChildrenFit(att2, mem, wrk2),
         MoveEffect(o, grp, its, att, mem, stp, wrk, its2, att2, stp2, wrk2)
  PROVE  GroupsBut({}, grp, its2, bg, cmd, att2, mem, stp2, wrk2)
<1> USE DEF MoveEffect
<1>0. /\ GroupTypes(grp, its, bg, cmd, att, mem, wrk) /\ ChildrenFit(att, mem, wrk)
      /\ Counted(grp, cmd, att, mem) /\ InList(grp, its, bg, att, mem)
      /\ RunningRuns(its, att, mem, wrk) /\ Resting(grp, its)
      /\ Obeyed(grp, its, att, mem, stp, wrk)
      /\ \A h \in Numbers : OverEnds(grp, its, att, mem, h)
  BY DEF GroupsBut
<1>1. /\ mem[o] \in Numbers /\ grp[mem[o]].pending \in Nat \ {0}
      /\ grp[mem[o]].state = "listed" /\ ~grp[mem[o]].ended
  BY Belongs
<1>2. \A g : Inside(att2, mem, g) = Inside(att, mem, g)
  BY DEF Inside
<1>3. Begun(att2) = Begun(att)
  BY DEF Begun
<1>4. Counted(grp, cmd, att2, mem)
  BY <1>0, <1>2 DEF Counted
<1>5. InList(grp, its2, bg, att2, mem)
  BY <1>0, <1>1, <1>3 DEF InList
<1>6. RunningRuns(its2, att2, mem, wrk2)
  <2>1. \A h \in Numbers, e \in File : its2[h][e] = "running" => its[h][e] = "running"
    OBVIOUS
  <2>2. \A p \in Op, e \in File : wrk[p][e] \in {"running", "acting"} => wrk2[p][e] = wrk[p][e]
    OBVIOUS
  <2>3. \A h : Inside(att, mem, h) \subseteq Op
    BY DEF Inside
  <2> QED
    BY <1>0, <1>2, <2>1, <2>2, <2>3 DEF RunningRuns
<1>7. Resting(grp, its2)
  <2>1. \A h \in Numbers, e \in File : its2[h][e] \in activity!Live => its2[h][e] = its[h][e]
    BY DEF activity!Live
  <2> QED
    BY <1>0, <2>1 DEF Resting, Quiet
<1>8. Obeyed(grp, its2, att2, mem, stp2, wrk2)
  <2> SUFFICES ASSUME NEW h \in Numbers, grp[h].cancelled
               PROVE  /\ \A e \in File : its2[h][e] # "pending"
                      /\ \A p \in Op : mem[p] = h => /\ att2[p] = "collect" => stp2[p]
                                                     /\ \A e \in File : wrk2[p][e] # "queued"
    BY DEF Obeyed
  <2>1. /\ \A e \in File : its[h][e] # "pending"
        /\ \A p \in Op : mem[p] = h => /\ att[p] = "collect" => stp[p]
                                       /\ \A e \in File : wrk[p][e] # "queued"
    BY <1>0 DEF Obeyed
  <2>2. \A e \in File : its2[h][e] # "pending"
    BY <2>1
  <2>3. \A p \in Op, e \in File : mem[p] = h => wrk2[p][e] # "queued"
    BY <2>1
  <2>4. \A p \in Op : mem[p] = h /\ att2[p] = "collect" => stp2[p]
    BY <2>1
  <2> QED
    BY <2>2, <2>3, <2>4
<1>9. ASSUME NEW h \in Numbers
      PROVE  OverEnds(grp, its2, att2, mem, h)
  <2>1. CASE h = mem[o]
    BY <2>1 DEF OverEnds
  <2>2. CASE h # mem[o]
    BY <1>0, <2>2 DEF OverEnds
  <2> QED
    BY <2>1, <2>2
<1> QED
  BY <1>4, <1>5, <1>6, <1>7, <1>8, <1>9 DEF GroupsBut

\* What is set for each operation.
OfOperations ==
  /\ role \in [Op -> {"background", "command"}]
  /\ DOMAIN stopped = Op

LEMMA RegisterStep ==
  ASSUME GroupInv, OfOperations, NEW o \in Op, activity!Register(o)
  PROVE  GroupInv'
<1>0. /\ GroupTypes(groups, items, background, command, at, member, work)
      /\ ChildrenFit(at, member, work)
  BY DEF GroupInv, GroupsBut
<1>1. /\ at[o] = "hook" /\ at' = [at EXCEPT ![o] = "collect"]
      /\ UNCHANGED <<groups, items, background, command, member, work>>
  BY DEF activity!Register
<1>2. /\ \A p \in Op : at'[p] = IF p = o THEN "collect" ELSE at[p]
      /\ GroupTypes(groups, items, background, command, at', member, work)
  BY <1>0, <1>1 DEF GroupTypes
<1>3. stopped' = [stopped EXCEPT ![o] = groups[member[o]].cancelled]
  BY DEF activity!Register
<1>4. /\ groups[member[o]].cancelled => stopped'[o]
      /\ \A p \in Op \ {o} : stopped[p] => stopped'[p]
  <2> DEFINE c == groups[member[o]].cancelled
  <2>1. stopped' = [stopped EXCEPT ![o] = c] /\ (groups[member[o]].cancelled <=> c)
    BY <1>3
  <2> HIDE DEF c
  <2>2. stopped'[o] = c /\ \A p \in Op \ {o} : stopped'[p] = stopped[p]
    BY <2>1 DEF OfOperations
  <2> QED
    BY <2>1, <2>2
<1>5. ChildrenFit(at', member, work)
  BY <1>0, <1>1, <1>2 DEF ChildrenFit
<1>6. MoveEffect(o, groups, items, at, member, stopped, work, items, at', stopped', work)
  BY <1>1, <1>2, <1>4 DEF MoveEffect
<1>7. GroupsBut({}, groups, items, background, command, at', member, stopped', work)
  BY <1>2, <1>5, <1>6, MovePhase DEF GroupInv
<1> QED
  BY <1>1, <1>7 DEF GroupInv

LEMMA BreaksStep ==
  ASSUME GroupInv, NEW o \in Op, activity!Breaks(o)
  PROVE  GroupInv'
<1>0. /\ GroupTypes(groups, items, background, command, at, member, work)
      /\ ChildrenFit(at, member, work)
  BY DEF GroupInv, GroupsBut
<1>1. /\ at[o] \in {"hook", "collect"} /\ at' = [at EXCEPT ![o] = "run"]
      /\ \A f \in File : work[o][f] = "none"
      /\ UNCHANGED <<groups, items, background, command, member, stopped, work>>
  BY DEF activity!Breaks
<1>2. /\ \A p \in Op : at'[p] = IF p = o THEN "run" ELSE at[p]
      /\ GroupTypes(groups, items, background, command, at', member, work)
  BY <1>0, <1>1 DEF GroupTypes
<1>3. ChildrenFit(at', member, work)
  BY <1>0, <1>1, <1>2 DEF ChildrenFit
<1>4. MoveEffect(o, groups, items, at, member, stopped, work, items, at', stopped, work)
  BY <1>1, <1>2 DEF MoveEffect
<1>5. GroupsBut({}, groups, items, background, command, at', member, stopped, work)
  BY <1>2, <1>3, <1>4, MovePhase DEF GroupInv
<1> QED
  BY <1>1, <1>5 DEF GroupInv

LEMMA CollectedStep ==
  ASSUME GroupInv, NEW o \in Op, activity!Collected(o)
  PROVE  GroupInv'
<1>0. /\ GroupTypes(groups, items, background, command, at, member, work)
      /\ ChildrenFit(at, member, work)
  BY DEF GroupInv, GroupsBut
<1>1. /\ at[o] = "collect" /\ at' = [at EXCEPT ![o] = "run"]
      /\ \A f \in Files[o] : work[o][f] \in {"queued", "over"}
      /\ UNCHANGED <<groups, background, command, member>>
  BY DEF activity!Collected, activity!Settled
<1>2. \A f \in File : work[o][f] \in {"none", "queued", "over"}
  BY <1>0, <1>1 DEF ChildrenFit
<1>3. \A p \in Op : at'[p] = IF p = o THEN "run" ELSE at[p]
  BY <1>0, <1>1 DEF GroupTypes
<1>4. member[o] \in Numbers
  BY <1>1, Belongs DEF GroupInv
<1>5. items \in [Numbers -> [File -> activity!Status \union {"none"}]]
      /\ work \in [Op -> [File -> Places]]
  BY <1>0 DEF GroupTypes
<1>6. /\ items' \in [Numbers -> [File -> activity!Status \union {"none"}]]
      /\ \A h \in Numbers, e \in File : \/ items'[h][e] = items[h][e]
                                        \/ h = member[o] /\ items'[h][e] = "cancelled"
      /\ work' \in [Op -> [File -> Places]]
      /\ \A p \in Op, e \in File : \/ work'[p][e] = work[p][e]
                                   \/ p = o /\ work[p][e] = "queued" /\ work'[p][e] = "over"
      /\ \A p \in Op : stopped[p] => stopped'[p]
  <2>1. CASE failed[o] = {}
    <3>1. UNCHANGED <<items, stopped, work>>
      BY <2>1 DEF activity!Collected
    <3> QED
      BY <1>5, <3>1
  <2>2. CASE failed[o] # {}
    <3> DEFINE row == [f \in File |-> IF f \in activity!Queued(o) THEN "cancelled"
                                      ELSE items[member[o]][f]]
    <3>1. items' = [items EXCEPT ![member[o]] = row] /\ activity!Stop({o}, work)
      BY <2>2 DEF activity!Collected
    <3>2. row \in [File -> activity!Status \union {"none"}]
      BY <1>4, <1>5 DEF activity!Status
    <3>3. \A e \in File : row[e] = "cancelled" \/ row[e] = items[member[o]][e]
      OBVIOUS
    <3> HIDE DEF row
    <3>4. items' \in [Numbers -> [File -> activity!Status \union {"none"}]]
      BY <1>4, <1>5, <3>1, <3>2
    <3>5. \A h \in Numbers, e \in File : \/ items'[h][e] = items[h][e]
                                         \/ h = member[o] /\ items'[h][e] = "cancelled"
      BY <1>4, <1>5, <3>1, <3>3
    <3>6. work' = [p \in Op |-> [f \in File |->
                     IF p \in {o} /\ f \in activity!Queued(p) THEN "over" ELSE work[p][f]]]
      BY <3>1 DEF activity!Stop
    <3>7. work' \in [Op -> [File -> Places]]
      BY <1>5, <3>6 DEF Places
    <3>8. \A p \in Op, e \in File : \/ work'[p][e] = work[p][e]
                                    \/ p = o /\ work[p][e] = "queued" /\ work'[p][e] = "over"
      BY <3>6 DEF activity!Queued
    <3>9. \A p \in Op : stopped[p] => stopped'[p]
      BY <3>1 DEF activity!Stop
    <3> QED
      BY <3>4, <3>5, <3>7, <3>8, <3>9
  <2> QED
    BY <2>1, <2>2
<1>7. GroupTypes(groups, items', background, command, at', member, work')
  BY <1>0, <1>1, <1>6 DEF GroupTypes
<1>8. ChildrenFit(at', member, work')
  <2>1. \A f \in File : work'[o][f] \in {"none", "queued", "over"}
    BY <1>2, <1>6
  <2>2. \A p \in Op \ {o}, f \in File : work'[p][f] = work[p][f]
    BY <1>6
  <2>3. \A f \in File : f \notin Files[o] => work'[o][f] = "none"
    BY <1>0, <1>6 DEF ChildrenFit
  <2> QED
    BY <1>0, <1>3, <1>4, <2>1, <2>2, <2>3 DEF ChildrenFit
<1>9. MoveEffect(o, groups, items, at, member, stopped, work, items', at', stopped', work')
  BY <1>1, <1>3, <1>6 DEF MoveEffect
<1>10. GroupsBut({}, groups, items', background, command, at', member, stopped', work')
  BY <1>7, <1>8, <1>9, MovePhase DEF GroupInv
<1> QED
  BY <1>1, <1>10 DEF GroupInv

LEMMA InvokeStep ==
  ASSUME GroupInv, activity!Invoke
  PROVE  GroupInv'
<1>0. /\ GroupTypes(groups, items, background, command, at, member, work)
      /\ Counted(groups, command, at, member)
  BY DEF GroupInv, GroupsBut
<1>1. /\ command.at = "idle" /\ command' = [command EXCEPT !.at = "busy"]
      /\ UNCHANGED <<groups, items, background, at, member, stopped, work>>
  BY DEF activity!Invoke, activity!operations
<1>2. /\ command' \in [at : {"idle", "busy", "over"}, group : Numbers \union {0}]
      /\ command'.at = "busy" /\ command'.group = 0 /\ command.group = 0
  BY <1>0, <1>1 DEF GroupTypes
<1>3. \A g \in Numbers : g # 0
  BY EndpointAssumption, FS_CardinalityType DEF Numbers, activity!Group
<1>4. Counted(groups, command', at, member)
  BY <1>0, <1>1, <1>2, <1>3 DEF Counted
<1>5. GroupTypes(groups, items, background, command', at, member, work)
  BY <1>0, <1>2 DEF GroupTypes
<1> QED
  BY <1>1, <1>4, <1>5 DEF GroupInv, GroupsBut

\* As more operations have begun, there is as much room for groups.
LEMMA MoreBegun ==
  ASSUME NEW o \in Op, NEW att, NEW att2, att[o] = "idle", att2[o] # "idle",
         \A p \in Op \ {o} : att2[p] = att[p]
  PROVE  /\ Cardinality(Begun(att2)) = Cardinality(Begun(att)) + 1
         /\ Cardinality(Begun(att)) \in Nat
<1> DEFINE B == Begun(att)
<1>1. Begun(att2) = B \union {o} /\ o \notin B
  BY DEF Begun
<1>2. B \in SUBSET Op
  BY DEF Begun
<1> HIDE DEF B
<1>3. IsFiniteSet(B)
  BY <1>2, EndpointAssumption, FS_Subset
<1>4. Cardinality(B) \in Nat /\ Cardinality(B \union {o}) = Cardinality(B) + 1
  BY <1>1, <1>3, FS_CardinalityType, FS_AddElement
<1> QED
  BY <1>1, <1>4 DEF B

\* There are finitely many groups in use.
LEMMA InUseFinite ==
  ASSUME NEW grp
  PROVE  IsFiniteSet(InUse(grp)) /\ Cardinality(InUse(grp)) \in Nat
<1> DEFINE U == InUse(grp)
<1>1. U \in SUBSET Numbers
  BY DEF InUse
<1>2. Cardinality(Op) \in Nat /\ activity!Cardinality(Op) = Cardinality(Op)
  BY EndpointAssumption, FS_CardinalityType DEF activity!Cardinality, Cardinality
<1>3. IsFiniteSet(Numbers)
  BY <1>2, FS_Interval DEF Numbers, activity!Group
<1> HIDE DEF U
<1>4. IsFiniteSet(U)
  BY <1>1, <1>3, FS_Subset
<1> QED
  BY <1>4, FS_CardinalityType DEF U

LEMMA EnterCancelledStep ==
  ASSUME GroupInv, NEW o \in Op, activity!EnterCancelled(o)
  PROVE  GroupInv'
<1>0. /\ GroupTypes(groups, items, background, command, at, member, work)
      /\ ChildrenFit(at, member, work)
      /\ Counted(groups, command, at, member) /\ InList(groups, items, background, at, member)
      /\ RunningRuns(items, at, member, work) /\ Resting(groups, items)
      /\ Obeyed(groups, items, at, member, stopped, work)
      /\ \A h \in Numbers : OverEnds(groups, items, at, member, h)
  BY DEF GroupInv, GroupsBut
<1>1. /\ at[o] = "idle" /\ at' = [at EXCEPT ![o] = "over"]
      /\ UNCHANGED <<groups, items, background, command, member, stopped, work>>
  BY DEF activity!EnterCancelled
<1>2. \A p \in Op : at'[p] = IF p = o THEN "over" ELSE at[p]
  BY <1>0, <1>1 DEF GroupTypes
<1>3. member[o] = 0
  BY <1>0, <1>1 DEF ChildrenFit
<1>4. \A g \in Numbers : g # 0
  BY EndpointAssumption, FS_CardinalityType DEF Numbers, activity!Group
<1>5. GroupTypes(groups, items, background, command, at', member, work)
  BY <1>0, <1>1 DEF GroupTypes
<1>6. ChildrenFit(at', member, work)
  BY <1>0, <1>1, <1>2 DEF ChildrenFit
<1>7. \A g : Inside(at', member, g) = Inside(at, member, g)
  BY <1>1, <1>2 DEF Inside
<1>8. Counted(groups, command, at', member)
  BY <1>0, <1>7 DEF Counted
<1>9. InList(groups, items, background, at', member)
  <2>1. /\ Cardinality(Begun(at')) = Cardinality(Begun(at)) + 1
        /\ Cardinality(Begun(at)) \in Nat
    <3>1. at[o] = "idle" /\ at'[o] # "idle" /\ \A p \in Op \ {o} : at'[p] = at[p]
      BY <1>1, <1>2
    <3> QED
      BY <3>1, MoreBegun
  <2>2. Cardinality(InUse(groups)) <= Cardinality(Begun(at)) + 1
    BY <1>0 DEF InList
  <2>3. Cardinality(InUse(groups)) <= Cardinality(Begun(at')) + 1
    BY <2>1, <2>2, InUseFinite
  <2> QED
    BY <1>0, <2>3 DEF InList
<1>10. RunningRuns(items, at', member, work)
  BY <1>0, <1>7 DEF RunningRuns
<1>11. Obeyed(groups, items, at', member, stopped, work)
  BY <1>0, <1>2 DEF Obeyed
<1>12. ASSUME NEW h \in Numbers
       PROVE  OverEnds(groups, items, at', member, h)
  BY <1>0, <1>2, <1>3, <1>4 DEF OverEnds
<1>13. GroupsBut({}, groups, items, background, command, at', member, stopped, work)
  BY <1>0, <1>5, <1>6, <1>8, <1>9, <1>10, <1>11, <1>12 DEF GroupsBut
<1> QED
  BY <1>1, <1>13 DEF GroupInv

LEMMA EnterStep ==
  ASSUME GroupInv, OfOperations, NEW o \in Op, activity!Enter(o)
  PROVE  GroupInv'
<1>0. /\ GroupTypes(groups, items, background, command, at, member, work)
      /\ ChildrenFit(at, member, work)
      /\ Counted(groups, command, at, member) /\ InList(groups, items, background, at, member)
      /\ RunningRuns(items, at, member, work) /\ Resting(groups, items)
      /\ Obeyed(groups, items, at, member, stopped, work)
      /\ \A h \in Numbers : OverEnds(groups, items, at, member, h)
  BY DEF GroupInv, GroupsBut
<1>1. /\ at[o] = "idle" /\ at' = [at EXCEPT ![o] = "hook"]
      /\ role[o] = "command" => command.at = "busy"
      /\ UNCHANGED <<items, stopped, work>>
  BY DEF activity!Enter
<1>2. PICK g \in activity!Joined(o) :
        /\ ~groups[g].cancelled
        /\ groups' = [groups EXCEPT ![g].state = "listed", ![g].ended = FALSE,
                                    ![g].pending = @ + 1,
                                    ![g].owners = IF role[o] = "command" THEN 1 ELSE @]
        /\ member' = [member EXCEPT ![o] = g]
        /\ IF role[o] = "command"
             THEN command' = [command EXCEPT !.group = g] /\ UNCHANGED background
             ELSE background' = g /\ UNCHANGED command
  BY DEF activity!Enter
<1>3. \A h \in Numbers : h # 0
  BY EndpointAssumption, FS_CardinalityType DEF Numbers, activity!Group
<1>4. /\ g \in Numbers /\ groups[g].state \in {"none", "listed"}
      /\ role[o] = "command" => command.group \in {0, g}
  <2>1. CASE g = activity!New /\ (role[o] = "command" => command.group = 0)
    BY <1>1, <2>1, NewIsUnused
  <2>2. CASE g = command.group /\ g # 0 /\ role[o] = "command"
    <3>1. g \in Numbers
      BY <1>0, <2>2 DEF GroupTypes
    <3>2. groups[g].owners # 0
      BY <1>0, <1>1, <2>2, <3>1 DEF Counted
    <3> QED
      BY <1>0, <2>2, <3>1, <3>2 DEF InList
  <2>3. CASE role[o] # "command" /\ g = background /\ g # 0
    <3>1. g \in Numbers
      BY <1>0, <2>3 DEF GroupTypes
    <3> QED
      BY <1>0, <2>3, <3>1 DEF InList
  <2>4. role[o] \in {"background", "command"}
    BY DEF OfOperations
  <2> QED
    BY <1>2, <2>1, <2>2, <2>3, <2>4 DEF activity!Joined, activity!Shared
<1>5. groups \in [Numbers -> [state : {"none", "listed", "removed"}, pending : Nat, owners : Nat,
                              cancelled : BOOLEAN, ended : BOOLEAN, issue : BOOLEAN]]
  BY <1>0 DEF GroupTypes
<1>6. /\ groups' \in [Numbers -> [state : {"none", "listed", "removed"}, pending : Nat,
                        owners : Nat, cancelled : BOOLEAN, ended : BOOLEAN, issue : BOOLEAN]]
      /\ groups'[g].state = "listed" /\ ~groups'[g].ended /\ ~groups'[g].cancelled
      /\ groups'[g].pending = groups[g].pending + 1
      /\ groups'[g].owners = IF role[o] = "command" THEN 1 ELSE groups[g].owners
      /\ \A h \in Numbers \ {g} : groups'[h] = groups[h]
  <2> DEFINE own == IF role[o] = "command" THEN 1 ELSE groups[g].owners
             new == [groups[g] EXCEPT !.state = "listed", !.ended = FALSE,
                                      !.pending = groups[g].pending + 1, !.owners = own]
  <2>1. groups' = [groups EXCEPT ![g] = new]
    BY <1>2
  <2>2. groups[g] \in [state : {"none", "listed", "removed"}, pending : Nat, owners : Nat,
                       cancelled : BOOLEAN, ended : BOOLEAN, issue : BOOLEAN]
    BY <1>4, <1>5
  <2>3. /\ new \in [state : {"none", "listed", "removed"}, pending : Nat, owners : Nat,
                    cancelled : BOOLEAN, ended : BOOLEAN, issue : BOOLEAN]
        /\ new.state = "listed" /\ new.ended = FALSE /\ new.cancelled = groups[g].cancelled
        /\ new.pending = groups[g].pending + 1
        /\ new.owners = own
    <3>1. own \in Nat /\ groups[g].pending + 1 \in Nat
      BY <2>2
    <3> HIDE DEF own
    <3> QED
      BY <2>2, <3>1
  <2> HIDE DEF new
  <2>4. groups'[g] = new /\ \A h \in Numbers \ {g} : groups'[h] = groups[h]
    BY <1>4, <1>5, <2>1
  <2>5. groups' \in [Numbers -> [state : {"none", "listed", "removed"}, pending : Nat,
                       owners : Nat, cancelled : BOOLEAN, ended : BOOLEAN, issue : BOOLEAN]]
    BY <1>4, <1>5, <2>1, <2>3
  <2> QED
    BY <1>2, <2>3, <2>4, <2>5
<1>7. /\ \A p \in Op : at'[p] = IF p = o THEN "hook" ELSE at[p]
      /\ \A p \in Op : member'[p] = IF p = o THEN g ELSE member[p]
      /\ at' \in [Op -> {"idle", "hook", "collect", "run", "over"}]
      /\ member' \in [Op -> Numbers \union {0}]
  BY <1>0, <1>1, <1>2, <1>4 DEF GroupTypes
<1>8. /\ command' \in [at : {"idle", "busy", "over"}, group : Numbers \union {0}]
      /\ command'.at = command.at
      /\ command'.group = IF role[o] = "command" THEN g ELSE command.group
      /\ command'.at = "idle" => command'.group = 0
      /\ background' \in Numbers \union {0}
      /\ background' = background \/ background' = g
  <2>1. CASE role[o] = "command"
    <3>1. command' = [command EXCEPT !.group = g] /\ background' = background
      BY <1>2, <2>1
    <3> QED
      BY <1>0, <1>1, <1>4, <2>1, <3>1 DEF GroupTypes
  <2>2. CASE role[o] # "command"
    BY <1>0, <1>2, <1>4, <2>2 DEF GroupTypes
  <2> QED
    BY <2>1, <2>2
<1>9. GroupTypes(groups', items, background', command', at', member', work)
  BY <1>0, <1>6, <1>7, <1>8 DEF GroupTypes
<1>10. member[o] = 0 /\ \A f \in File : work[o][f] = "none"
  BY <1>0, <1>1 DEF ChildrenFit
<1>11. ChildrenFit(at', member', work)
  BY <1>0, <1>4, <1>7, <1>10 DEF ChildrenFit
<1>12. /\ \A h \in Numbers \ {g} : Inside(at', member', h) = Inside(at, member, h)
       /\ Inside(at', member', g) = Inside(at, member, g) \union {o}
       /\ o \notin Inside(at, member, g)
  BY <1>1, <1>3, <1>7, <1>10 DEF Inside
<1>13. Cardinality(Inside(at', member', g)) = Cardinality(Inside(at, member, g)) + 1
  BY <1>12, InsideCount, FS_AddElement
<1>14. Counted(groups', command', at', member')
  <2> SUFFICES ASSUME NEW h \in Numbers
               PROVE  /\ groups'[h].pending = Cardinality(Inside(at', member', h))
                      /\ groups'[h].owners = IF command'.at = "busy" /\ command'.group = h
                                               THEN 1 ELSE 0
    BY DEF Counted
  <2>1. /\ groups[h].pending = Cardinality(Inside(at, member, h))
        /\ groups[h].owners = IF command.at = "busy" /\ command.group = h THEN 1 ELSE 0
    BY <1>0 DEF Counted
  <2>2. CASE h = g
    <3>1. groups'[h].pending = Cardinality(Inside(at', member', h))
      BY <1>6, <1>13, <2>1, <2>2
    <3>2. groups'[h].owners = IF command'.at = "busy" /\ command'.group = h THEN 1 ELSE 0
      BY <1>1, <1>6, <1>8, <2>1, <2>2
    <3> QED
      BY <3>1, <3>2
  <2>3. CASE h # g
    <3>1. groups'[h].pending = Cardinality(Inside(at', member', h))
      BY <1>6, <1>12, <2>1, <2>3
    <3>2. command'.group = h <=> command.group = h
      BY <1>3, <1>4, <1>8, <2>3
    <3>3. groups'[h].owners = IF command'.at = "busy" /\ command'.group = h THEN 1 ELSE 0
      BY <1>6, <1>8, <2>1, <2>3, <3>2
    <3> QED
      BY <3>1, <3>3
  <2> QED
    BY <2>2, <2>3
<1>15. InList(groups', items, background', at', member')
  <2>1. \A h \in Numbers : groups'[h].pending # 0 \/ groups'[h].owners # 0 \/ background' = h
                             => groups'[h].state = "listed"
    <3> SUFFICES ASSUME NEW h \in Numbers, h # g,
                        groups'[h].pending # 0 \/ groups'[h].owners # 0 \/ background' = h
                 PROVE  groups'[h].state = "listed"
      BY <1>6
    <3>1. groups'[h] = groups[h]
      BY <1>6
    <3>2. background' = h => background = h
      BY <1>8
    <3> QED
      BY <1>0, <3>1, <3>2 DEF InList
  <2>2. ASSUME NEW h \in Numbers, groups'[h].state = "none"
        PROVE  /\ ~groups'[h].cancelled /\ ~groups'[h].ended /\ \A p \in Op : member'[p] # h
               /\ \A f \in File : items[h][f] = "none"
    <3>1. h # g /\ groups'[h] = groups[h]
      BY <1>6, <2>2
    <3>2. /\ ~groups[h].cancelled /\ ~groups[h].ended /\ \A p \in Op : member[p] # h
          /\ \A f \in File : items[h][f] = "none"
      BY <1>0, <2>2, <3>1 DEF InList
    <3> QED
      BY <1>7, <3>1, <3>2
  <2>3. Cardinality(InUse(groups')) <= Cardinality(Begun(at')) + 1
    <3>1. InUse(groups') = InUse(groups) \union {g}
      BY <1>4, <1>6 DEF InUse
    <3> DEFINE U == InUse(groups)
    <3> HIDE DEF U
    <3>2. IsFiniteSet(U) /\ Cardinality(U) \in Nat
      BY InUseFinite DEF U
    <3>a. Cardinality(U \union {g}) = IF g \in U THEN Cardinality(U) ELSE Cardinality(U) + 1
      BY <3>2, FS_AddElement
    <3>3. Cardinality(U \union {g}) <= Cardinality(U) + 1
      BY <3>2, <3>a
    <3>4. at[o] = "idle" /\ at'[o] # "idle" /\ \A p \in Op \ {o} : at'[p] = at[p]
      BY <1>1, <1>7
    <3>5. /\ Cardinality(Begun(at')) = Cardinality(Begun(at)) + 1
          /\ Cardinality(Begun(at)) \in Nat
      BY <3>4, MoreBegun
    <3>6. Cardinality(U) <= Cardinality(Begun(at)) + 1
      BY <1>0 DEF InList, U
    <3>7. Cardinality(InUse(groups')) = Cardinality(U \union {g})
      BY <3>1 DEF U
    <3>8. Cardinality(U \union {g}) \in Nat
      BY <3>2, <3>a
    <3> QED
      BY <3>2, <3>3, <3>5, <3>6, <3>7, <3>8
  <2> QED
    BY <2>1, <2>2, <2>3 DEF InList
<1>16. RunningRuns(items, at', member', work)
  <2>1. \A h \in Numbers : Inside(at, member, h) \subseteq Inside(at', member', h)
    BY <1>12
  <2> QED
    BY <1>0, <2>1 DEF RunningRuns
<1>17. Resting(groups', items)
  <2> SUFFICES ASSUME NEW h \in Numbers, groups'[h].ended \/ groups'[h].state = "removed"
               PROVE  Quiet(groups', items, h)
    BY DEF Resting
  <2>1. h # g /\ groups'[h] = groups[h]
    BY <1>6
  <2>2. Quiet(groups, items, h)
    BY <1>0, <2>1 DEF Resting
  <2> QED
    BY <2>1, <2>2 DEF Quiet
<1>18. Obeyed(groups', items, at', member', stopped, work)
  <2> SUFFICES ASSUME NEW h \in Numbers, groups'[h].cancelled
               PROVE  /\ \A f \in File : items[h][f] # "pending"
                      /\ \A p \in Op : member'[p] = h =>
                           /\ at'[p] = "collect" => stopped[p]
                           /\ \A f \in File : work[p][f] # "queued"
    BY DEF Obeyed
  <2>1. h # g /\ groups'[h] = groups[h]
    BY <1>6
  <2>2. /\ \A f \in File : items[h][f] # "pending"
        /\ \A p \in Op : member[p] = h => /\ at[p] = "collect" => stopped[p]
                                          /\ \A f \in File : work[p][f] # "queued"
    BY <1>0, <2>1 DEF Obeyed
  <2> QED
    BY <1>7, <2>1, <2>2
<1>19. ASSUME NEW h \in Numbers
       PROVE  OverEnds(groups', items, at', member', h)
  <2>1. CASE h = g
    <3>1. \E p \in Op : member'[p] = h /\ at'[p] # "over"
      BY <1>7, <2>1
    <3> QED
      BY <3>1 DEF OverEnds
  <2>2. CASE h # g
    <3>1. groups'[h] = groups[h]
      BY <1>6, <2>2
    <3>2. \A p \in Op : member'[p] = h <=> member[p] = h
      BY <1>3, <1>7, <1>10, <2>2
    <3>3. \A p \in Op : member[p] = h => at'[p] = at[p]
      BY <1>3, <1>7, <1>10
    <3> QED
      BY <1>0, <3>1, <3>2, <3>3 DEF OverEnds
  <2> QED
    BY <2>1, <2>2
<1>20. GroupsBut({}, groups', items, background', command', at', member', stopped, work)
  BY <1>9, <1>11, <1>14, <1>15, <1>16, <1>17, <1>18, <1>19 DEF GroupsBut
<1> QED
  BY <1>1, <1>20 DEF GroupInv

\* It stays set.
LEMMA OperationsStay ==
  OfOperations /\ [activity!Next]_activityVars => OfOperations'
<1> SUFFICES ASSUME OfOperations, [activity!Next]_activityVars
             PROVE  OfOperations'
  OBVIOUS
<1>1. UNCHANGED role /\ (UNCHANGED stopped \/ DOMAIN stopped' = Op)
  <2>1. CASE UNCHANGED activityVars
    BY <2>1 DEF activityVars
  <2>2. ASSUME NEW o \in Op, activity!Operation(o)
        PROVE  UNCHANGED role /\ (UNCHANGED stopped \/ DOMAIN stopped' = Op)
    BY <2>2 DEF activity!Operation, activity!Enter, activity!EnterCancelled, activity!Register,
                activity!Breaks, activity!Collected, activity!End, activity!Stop, OfOperations
  <2>3. ASSUME NEW o \in Op, NEW f \in File, activity!Child(o, f)
        PROVE  UNCHANGED role /\ (UNCHANGED stopped \/ DOMAIN stopped' = Op)
    BY <2>3 DEF activity!Child, activity!Found, activity!Act, activity!ActEnds, activity!Review,
                activity!ChildFails, activity!Expire, activity!Refuse, activity!Queue,
                activity!Start, activity!Done, activity!Stop, activity!UnchangedAround
  <2>4. ASSUME NEW g \in Numbers, activity!Cancel(g)
        PROVE  UNCHANGED role /\ (UNCHANGED stopped \/ DOMAIN stopped' = Op)
    BY <2>4 DEF activity!Cancel, activity!Stop
  <2>5. CASE activity!Invoke \/ activity!InvocationEnds \/ activity!ClearCompleted
    BY <2>5 DEF activity!Invoke, activity!InvocationEnds, activity!ClearCompleted,
                activity!operations
  <2> QED
    BY <2>1, <2>2, <2>3, <2>4, <2>5 DEF activity!Next, Numbers, activityVars
<1> QED
  BY <1>1 DEF OfOperations

\* Every step of the activity view keeps the invariant.
LEMMA GroupsStep ==
  GroupInv /\ OfOperations /\ [activity!Next]_activityVars => GroupInv'
<1> SUFFICES ASSUME GroupInv, OfOperations, [activity!Next]_activityVars
             PROVE  GroupInv'
  OBVIOUS
<1>1. CASE UNCHANGED activityVars
  BY <1>1 DEF activityVars, GroupInv
<1>2. ASSUME NEW o \in Op, activity!Operation(o)
      PROVE  GroupInv'
  BY <1>2, EnterStep, EnterCancelledStep, RegisterStep, BreaksStep, CollectedStep, EndStep
     DEF activity!Operation
<1>3. ASSUME NEW o \in Op, NEW f \in File, activity!Child(o, f)
      PROVE  GroupInv'
  BY <1>3, FoundStep, ActStep, ChildEndStep, ChildFailsStep, RefuseStep, QueueStep, StartStep
     DEF activity!Child
<1>4. ASSUME NEW g \in Numbers, activity!Cancel(g)
      PROVE  GroupInv'
  BY <1>4, CancelKeeps
<1>5. CASE activity!Invoke \/ activity!InvocationEnds \/ activity!ClearCompleted
  BY <1>5, InvokeStep, InvocationEndsStep, ClearCompletedStep
<1> QED
  BY <1>1, <1>2, <1>3, <1>4, <1>5 DEF activity!Next, Numbers, activityVars

\* The activity view is a part of its own.
LEMMA GroupsPart ==
  /\ MCInit => GroupInv /\ OfOperations
  /\ [MCNext]_<<part, vars, activityVars, changesVars, clientsVars, explorerVars>> =>
       [activity!Next]_activityVars
<1>1. MCInit => GroupInv
  BY GroupsStart DEF MCInit
<1>2. MCInit => OfOperations
  BY EndpointAssumption DEF MCInit, activity!Init, OfOperations
<1> QED
  BY <1>1, <1>2 DEF MCNext

\* In the invariant, a group with nothing pending has nobody who works.
LEMMA TruthInside ==
  GroupInv => GroupsTellTruth
<1> SUFFICES ASSUME GroupInv, NEW g \in Numbers
             PROVE  /\ groups[g].ended \/ groups[g].state = "removed"
                         => ~activity!Working(g) /\ ~activity!Active(groups, items, g)
                    /\ /\ groups[g].state = "listed" /\ groups[g].owners = 0
                       /\ activity!Members(g) # {}
                       /\ \A o \in activity!Members(g) : at[o] = "over"
                       /\ \A f \in File : items[g][f] # "conflict"
                       => groups[g].ended
                    /\ groups[g].cancelled
                         => \A o \in activity!Members(g), f \in File :
                              work[o][f] # "queued" /\ items[g][f] # "pending"
  BY DEF GroupsTellTruth, activity!GroupsTellTruth, Numbers
<1>0. /\ GroupTypes(groups, items, background, command, at, member, work)
      /\ ChildrenFit(at, member, work) /\ Counted(groups, command, at, member)
      /\ Resting(groups, items) /\ Obeyed(groups, items, at, member, stopped, work)
      /\ OverEnds(groups, items, at, member, g)
  BY DEF GroupInv, GroupsBut
<1>1. ASSUME groups[g].ended \/ groups[g].state = "removed"
      PROVE  ~activity!Working(g) /\ ~activity!Active(groups, items, g)
  <2>1. Quiet(groups, items, g)
    BY <1>0, <1>1 DEF Resting
  <2>2. Cardinality(Inside(at, member, g)) = 0
    BY <1>0, <2>1 DEF Quiet, Counted
  <2>3. Inside(at, member, g) = {}
    BY <2>2, InsideCount, FS_EmptySet
  <2>4. \A o \in Op, f \in File : member[o] = g => work[o][f] \in {"none", "over"}
    <3> SUFFICES ASSUME NEW o \in Op, NEW f \in File, member[o] = g
                 PROVE  work[o][f] \in {"none", "over"}
      OBVIOUS
    <3>1. at[o] \in {"idle", "over"}
      BY <1>0, <2>3 DEF Inside, GroupTypes
    <3> QED
      BY <1>0, <3>1 DEF ChildrenFit
  <2>5. ~activity!Working(g)
    BY <2>4 DEF activity!Working, activity!Members
  <2>6. ~(groups[g].pending > 0) /\ ~(groups[g].owners > 0)
    BY <2>1 DEF Quiet
  <2> QED
    BY <2>1, <2>5, <2>6 DEF Quiet, activity!Active
<1>2. ASSUME groups[g].state = "listed", groups[g].owners = 0, activity!Members(g) # {},
             \A o \in activity!Members(g) : at[o] = "over",
             \A f \in File : items[g][f] # "conflict"
      PROVE  groups[g].ended
  BY <1>0, <1>2 DEF OverEnds, activity!Members
<1>3. ASSUME groups[g].cancelled, NEW o \in activity!Members(g), NEW f \in File
      PROVE  work[o][f] # "queued" /\ items[g][f] # "pending"
  BY <1>0, <1>3 DEF Obeyed, activity!Members
<1> QED
  BY <1>1, <1>2, <1>3

\* A group that ended or was cleared has nothing left that works or awaits a decision, one whose
\* work is over has ended, and where the user cancelled nothing more will start (activity.ts,
\* settleActivityChildren and finish), for any operations, files, commands and limits.
THEOREM GroupsAreHonest == MCSpec => []GroupsTellTruth
<1>1. GroupInv /\ OfOperations /\ [activity!Next]_activityVars => (GroupInv /\ OfOperations)'
  BY GroupsStep, OperationsStay
<1> QED
  BY <1>1, TruthInside, GroupsPart, PTL DEF MCSpec

-------------------------------------------------------------------------------
(* Paths                                                                     *)

Cut(p, n) == SubSeq(p, 1, n)
\* The path p from `from' on, in `to'.
Graft(p, from, to) == to \o SubSeq(p, Len(from) + 1, Len(p))

LEMMA CutFacts ==
  ASSUME NEW p \in Seq(Name), NEW n \in 0..Len(p)
  PROVE  /\ Cut(p, n) \in Seq(Name) /\ Len(Cut(p, n)) = n
         /\ \A i \in 1..n : Cut(p, n)[i] = p[i]
<1>1. Len(p) \in Nat /\ \A i \in 1..n : p[i] \in Name
  BY ElementOfSeq, LenProperties
<1>2. /\ SubSeq(p, 1, n) \in Seq(Name) /\ Len(SubSeq(p, 1, n)) = IF 1 <= n THEN n - 1 + 1 ELSE 0
      /\ \A i \in 1..(n - 1 + 1) : SubSeq(p, 1, n)[i] = p[1 + i - 1]
  BY <1>1, SubSeqProperties
<1> QED
  BY <1>1, <1>2 DEF Cut

LEMMA UnderIs ==
  ASSUME NEW p \in Seq(Name), NEW q \in Seq(Name)
  PROVE  remote!Under(p, q) <=> Len(q) <= Len(p) /\ \A i \in 1..Len(q) : p[i] = q[i]
<1>1. Len(p) \in Nat /\ Len(q) \in Nat
  BY LenProperties
<1>2. Cut(q, Len(q)) = q
  BY SubSeqFull DEF Cut
<1>3. remote!Under(p, q) <=> Len(q) <= Len(p) /\ q = Cut(p, Len(q))
  BY <1>2 DEF remote!Under, remote!IsPrefix, Cut
<1>4. CASE Len(q) <= Len(p)
  <2>1. /\ Cut(p, Len(q)) \in Seq(Name) /\ Len(Cut(p, Len(q))) = Len(q)
        /\ \A i \in 1..Len(q) : Cut(p, Len(q))[i] = p[i]
    BY <1>1, <1>4, CutFacts
  <2>2. (\A i \in 1..Len(q) : p[i] = q[i]) => q = Cut(p, Len(q))
    BY <2>1, SeqEqual
  <2> QED
    BY <1>3, <1>4, <2>1, <2>2
<1> QED
  BY <1>3, <1>4

LEMMA UnderCut ==
  ASSUME NEW p \in Seq(Name), NEW q \in Seq(Name)
  PROVE  remote!Under(p, q) <=> Len(q) <= Len(p) /\ q = Cut(p, Len(q))
<1>1. Cut(q, Len(q)) = q
  BY SubSeqFull DEF Cut
<1> QED
  BY <1>1 DEF remote!Under, remote!IsPrefix, Cut

LEMMA GraftFacts ==
  ASSUME NEW p \in Seq(Name), NEW from \in Seq(Name), NEW to \in Seq(Name), remote!Under(p, from)
  PROVE  /\ Graft(p, from, to) \in Seq(Name)
         /\ Len(Graft(p, from, to)) = Len(to) + Len(p) - Len(from)
         /\ \A i \in 1..Len(to) : Graft(p, from, to)[i] = to[i]
         /\ \A i \in 1..(Len(p) - Len(from)) : Graft(p, from, to)[Len(to) + i] = p[Len(from) + i]
         /\ remote!Under(Graft(p, from, to), to)
<1> DEFINE rest == SubSeq(p, Len(from) + 1, Len(p))
<1>1. Len(p) \in Nat /\ Len(from) \in Nat /\ Len(to) \in Nat /\ Len(from) <= Len(p)
  BY LenProperties, UnderIs
<1>2. \A i \in (Len(from) + 1)..Len(p) : p[i] \in Name
  BY <1>1, ElementOfSeq
<1>3. /\ rest \in Seq(Name)
      /\ Len(rest) = IF Len(from) + 1 <= Len(p) THEN Len(p) - (Len(from) + 1) + 1 ELSE 0
      /\ \A i \in 1..(Len(p) - (Len(from) + 1) + 1) : rest[i] = p[Len(from) + 1 + i - 1]
  BY <1>1, <1>2, SubSeqProperties
<1>4. /\ rest \in Seq(Name) /\ Len(rest) = Len(p) - Len(from)
      /\ \A i \in 1..(Len(p) - Len(from)) : rest[i] = p[Len(from) + i]
  BY <1>1, <1>3
<1> HIDE DEF rest
<1>5. /\ to \o rest \in Seq(Name) /\ Len(to \o rest) = Len(to) + Len(rest)
      /\ \A i \in 1..(Len(to) + Len(rest)) :
           (to \o rest)[i] = IF i <= Len(to) THEN to[i] ELSE rest[i - Len(to)]
  BY <1>4, ConcatProperties
<1>6. Graft(p, from, to) = to \o rest
  BY DEF Graft, rest
<1>7. \A i \in 1..Len(to) : (to \o rest)[i] = to[i]
  BY <1>1, <1>4, <1>5
<1>8. \A i \in 1..(Len(p) - Len(from)) : (to \o rest)[Len(to) + i] = p[Len(from) + i]
  <2> TAKE i \in 1..(Len(p) - Len(from))
  <2>1. (to \o rest)[Len(to) + i] = rest[Len(to) + i - Len(to)]
    BY <1>1, <1>4, <1>5
  <2> QED
    BY <1>1, <1>4, <2>1
<1>9. remote!Under(to \o rest, to)
  <2> DEFINE g == to \o rest
  <2>1. g \in Seq(Name) /\ Len(to) <= Len(g) /\ \A i \in 1..Len(to) : g[i] = to[i]
    BY <1>1, <1>4, <1>5, <1>7
  <2> HIDE DEF g
  <2>2. remote!Under(g, to)
    BY <2>1, UnderIs
  <2> QED
    BY <2>2 DEF g
<1> QED
  BY <1>1, <1>4, <1>5, <1>6, <1>7, <1>8, <1>9

LEMMA GraftBack ==
  ASSUME NEW p \in Seq(Name), NEW from \in Seq(Name), NEW to \in Seq(Name), remote!Under(p, from)
  PROVE  Graft(Graft(p, from, to), to, from) = p
<1> DEFINE g == Graft(p, from, to)
           b == Graft(g, to, from)
<1>1. /\ g \in Seq(Name) /\ Len(g) = Len(to) + Len(p) - Len(from) /\ remote!Under(g, to)
      /\ \A i \in 1..(Len(p) - Len(from)) : g[Len(to) + i] = p[Len(from) + i]
  BY GraftFacts
<1>2. /\ Len(p) \in Nat /\ Len(from) \in Nat /\ Len(to) \in Nat /\ Len(from) <= Len(p)
      /\ \A i \in 1..Len(from) : p[i] = from[i]
  BY LenProperties, UnderIs
<1> HIDE DEF g
<1>3. /\ b \in Seq(Name) /\ Len(b) = Len(from) + Len(g) - Len(to)
      /\ \A i \in 1..Len(from) : b[i] = from[i]
      /\ \A i \in 1..(Len(g) - Len(to)) : b[Len(from) + i] = g[Len(to) + i]
  BY <1>1, GraftFacts
<1> HIDE DEF b
<1>4. Len(b) = Len(p)
  BY <1>1, <1>2, <1>3
<1>5. \A i \in 1..Len(b) : b[i] = p[i]
  <2> TAKE i \in 1..Len(b)
  <2>1. CASE i <= Len(from)
    BY <1>2, <1>3, <1>4, <2>1
  <2>2. CASE i > Len(from)
    <3>1. i - Len(from) \in 1..(Len(p) - Len(from)) /\ i = Len(from) + (i - Len(from))
      BY <1>2, <1>4, <2>2
    <3>2. Len(g) - Len(to) = Len(p) - Len(from)
      BY <1>1, <1>2
    <3>3. b[Len(from) + (i - Len(from))] = p[Len(from) + (i - Len(from))]
      BY <1>1, <1>3, <3>1, <3>2
    <3> QED
      BY <3>1, <3>3
  <2> QED
    BY <1>2, <2>1, <2>2
<1>6. b = p
  BY <1>3, <1>4, <1>5, SeqEqual
<1> QED
  BY <1>6 DEF b, g

\* A path under a part of another is under that one, and the other way round if the part is
\* long enough.
LEMMA CutUnder ==
  ASSUME NEW p \in Seq(Name), NEW q \in Seq(Name), NEW n \in 0..Len(p)
  PROVE  /\ remote!Under(Cut(p, n), q) => remote!Under(p, q)
         /\ remote!Under(p, q) /\ Len(q) <= n => remote!Under(Cut(p, n), q)
<1> DEFINE c == Cut(p, n)
<1>1. c \in Seq(Name) /\ Len(c) = n /\ \A i \in 1..n : c[i] = p[i]
  BY CutFacts
<1> HIDE DEF c
<1>2. Len(p) \in Nat /\ Len(q) \in Nat
  BY LenProperties
<1>3. /\ remote!Under(p, q) <=> Len(q) <= Len(p) /\ \A i \in 1..Len(q) : p[i] = q[i]
      /\ remote!Under(c, q) <=> Len(q) <= Len(c) /\ \A i \in 1..Len(q) : c[i] = q[i]
  BY <1>1, UnderIs
<1>4. remote!Under(c, q) => remote!Under(p, q)
  BY <1>1, <1>2, <1>3
<1>5. remote!Under(p, q) /\ Len(q) <= n => remote!Under(c, q)
  BY <1>1, <1>2, <1>3
<1> QED
  BY <1>4, <1>5 DEF c

LEMMA GraftCut ==
  ASSUME NEW p \in Seq(Name), NEW from \in Seq(Name), NEW to \in Seq(Name), remote!Under(p, from),
         NEW n \in 0..Len(Graft(p, from, to))
  PROVE  /\ n <= Len(to) => Cut(Graft(p, from, to), n) = Cut(to, n)
         /\ n >= Len(to) =>
              /\ n - Len(to) + Len(from) \in Len(from)..Len(p)
              /\ remote!Under(Cut(p, n - Len(to) + Len(from)), from)
              /\ Cut(Graft(p, from, to), n) = Graft(Cut(p, n - Len(to) + Len(from)), from, to)
<1> DEFINE g == Graft(p, from, to)
           c == Cut(g, n)
           m == n - Len(to) + Len(from)
           short == Cut(p, m)
           h == Graft(short, from, to)
<1>1. /\ g \in Seq(Name) /\ Len(g) = Len(to) + Len(p) - Len(from)
      /\ \A i \in 1..Len(to) : g[i] = to[i]
      /\ \A i \in 1..(Len(p) - Len(from)) : g[Len(to) + i] = p[Len(from) + i]
  BY GraftFacts
<1>2. /\ Len(p) \in Nat /\ Len(from) \in Nat /\ Len(to) \in Nat /\ Len(from) <= Len(p)
  BY LenProperties, UnderIs
<1> HIDE DEF g
<1>3. c \in Seq(Name) /\ Len(c) = n /\ \A i \in 1..n : c[i] = g[i]
  <2>1. n \in 0..Len(g)
    BY DEF g
  <2> QED
    BY <1>1, <2>1, CutFacts
<1>0. n \in Nat /\ n <= Len(g)
  BY <1>1, <1>2 DEF g
<1> HIDE DEF c
<1>4. n <= Len(to) => c = Cut(to, n)
  <2> SUFFICES ASSUME n <= Len(to) PROVE c = Cut(to, n)
    OBVIOUS
  <2> DEFINE d == Cut(to, n)
  <2>0. n \in 0..Len(to)
    BY <1>0, <1>2
  <2>1. d \in Seq(Name) /\ Len(d) = n /\ \A i \in 1..n : d[i] = to[i]
    BY <2>0, CutFacts
  <2> HIDE DEF d
  <2>2. \A i \in 1..Len(c) : c[i] = d[i]
    BY <1>0, <1>1, <1>2, <1>3, <2>1
  <2>3. c = d
    BY <1>3, <2>1, <2>2, SeqEqual
  <2> QED
    BY <2>3 DEF d
<1>5. ASSUME n >= Len(to)
      PROVE  m \in Len(from)..Len(p) /\ remote!Under(short, from) /\ c = h
  <2>1. m \in Len(from)..Len(p) /\ m \in 0..Len(p)
    BY <1>0, <1>1, <1>2, <1>5
  <2> HIDE DEF m
  <2>2. short \in Seq(Name) /\ Len(short) = m /\ \A i \in 1..m : short[i] = p[i]
    BY <2>1, CutFacts
  <2>3. remote!Under(short, from)
    BY <1>2, <2>1, CutUnder
  <2> HIDE DEF short
  <2>4. /\ h \in Seq(Name) /\ Len(h) = Len(to) + Len(short) - Len(from)
        /\ \A i \in 1..Len(to) : h[i] = to[i]
        /\ \A i \in 1..(Len(short) - Len(from)) : h[Len(to) + i] = short[Len(from) + i]
    BY <2>2, <2>3, GraftFacts
  <2> HIDE DEF h
  <2>5. Len(h) = n
    BY <1>0, <1>2, <2>2, <2>4 DEF m
  <2>6. \A i \in 1..n : c[i] = h[i]
    <3> TAKE i \in 1..n
    <3>1. c[i] = g[i]
      BY <1>3
    <3>2. CASE i <= Len(to)
      BY <1>1, <1>2, <2>4, <3>1, <3>2
    <3>3. CASE i > Len(to)
      <4> DEFINE k == i - Len(to)
      <4>1. k \in Nat \ {0} /\ i = Len(to) + k /\ k <= m - Len(from) /\ k <= Len(p) - Len(from)
        BY <1>0, <1>1, <1>2, <2>1, <3>3 DEF m
      <4> HIDE DEF k
      <4>2. h[Len(to) + k] = short[Len(from) + k]
        BY <1>2, <2>1, <2>2, <2>4, <4>1
      <4>3. short[Len(from) + k] = p[Len(from) + k]
        BY <1>2, <2>1, <2>2, <4>1
      <4>4. g[Len(to) + k] = p[Len(from) + k]
        BY <1>1, <1>2, <4>1
      <4> QED
        BY <3>1, <4>1, <4>2, <4>3, <4>4
    <3> QED
      BY <1>0, <1>2, <3>2, <3>3
  <2>7. c = h
    BY <1>3, <2>4, <2>5, <2>6, SeqEqual
  <2> QED
    BY <2>1, <2>3, <2>7
<1>6. c = Cut(Graft(p, from, to), n)
  BY DEF c, g
<1>7. n >= Len(to) => m \in Len(from)..Len(p) /\ remote!Under(short, from) /\ c = h
  BY <1>5
<1> QED
  BY <1>4, <1>6, <1>7

-------------------------------------------------------------------------------
(* Moving a folder                                                           *)

Closed(t) ==
  /\ DOMAIN t \subseteq Seq(Name) \ {<<>>}
  /\ \A p \in DOMAIN t : \A n \in 1..(Len(p) - 1) : Cut(p, n) \in DOMAIN t /\ t[Cut(p, n)] = Dir

\* What a move makes of a tree: it takes along what is under `from', and leaves the rest.
LEMMA MovedIs ==
  ASSUME NEW t, DOMAIN t \subseteq Seq(Name), NEW from \in Seq(Name), NEW to \in Seq(Name)
  PROVE  /\ DOMAIN remote!Moved(t, from, to)
              = {p \in DOMAIN t : ~remote!Under(p, from)}
                \union {Graft(p, from, to) : p \in {q \in DOMAIN t : remote!Under(q, from)}}
         /\ \A p \in DOMAIN t : remote!Under(p, from) =>
              remote!Moved(t, from, to)[Graft(p, from, to)] = t[p]
         /\ \A p \in DOMAIN t : ~remote!Under(p, from) /\ ~remote!Under(p, to) =>
              remote!Moved(t, from, to)[p] = t[p]
<1> DEFINE into == {Graft(p, from, to) : p \in {q \in DOMAIN t : remote!Under(q, from)}}
           kept == {p \in DOMAIN t : ~remote!Under(p, from)}
           M == [p \in kept \union into |-> IF p \in into THEN t[Graft(p, to, from)] ELSE t[p]]
<1>1. remote!Moved(t, from, to) = M
  BY DEF remote!Moved, remote!Without, Graft
<1>2. \A p \in DOMAIN t : remote!Under(p, from) => M[Graft(p, from, to)] = t[p]
  <2> SUFFICES ASSUME NEW p \in DOMAIN t, remote!Under(p, from)
               PROVE  M[Graft(p, from, to)] = t[p]
    OBVIOUS
  <2>1. Graft(p, from, to) \in into
    OBVIOUS
  <2>2. Graft(Graft(p, from, to), to, from) = p
    BY GraftBack
  <2> QED
    BY <2>1, <2>2
<1>3. \A p \in DOMAIN t : ~remote!Under(p, from) /\ ~remote!Under(p, to) => M[p] = t[p]
  <2> SUFFICES ASSUME NEW p \in DOMAIN t, ~remote!Under(p, from), ~remote!Under(p, to)
               PROVE  M[p] = t[p]
    OBVIOUS
  <2>1. p \notin into
    BY GraftFacts
  <2> QED
    BY <2>1
<1> QED
  BY <1>1, <1>2, <1>3

LEMMA CutCut ==
  ASSUME NEW p \in Seq(Name), NEW m \in 0..Len(p), NEW n \in 0..m
  PROVE  Cut(Cut(p, m), n) = Cut(p, n)
<1> DEFINE a == Cut(p, m)
           b == Cut(a, n)
           c == Cut(p, n)
<1>0. Len(p) \in Nat /\ n \in 0..Len(p)
  BY LenProperties
<1>1. a \in Seq(Name) /\ Len(a) = m /\ \A i \in 1..m : a[i] = p[i]
  BY CutFacts
<1>2. c \in Seq(Name) /\ Len(c) = n /\ \A i \in 1..n : c[i] = p[i]
  BY <1>0, CutFacts
<1> HIDE DEF a, c
<1>3. b \in Seq(Name) /\ Len(b) = n /\ \A i \in 1..n : b[i] = a[i]
  BY <1>1, CutFacts
<1> HIDE DEF b
<1>4. \A i \in 1..n : b[i] = c[i]
  BY <1>1, <1>2, <1>3
<1>5. b = c
  BY <1>2, <1>3, <1>4, SeqEqual
<1> QED
  BY <1>5 DEF a, b, c

\* In a tree nothing lies under what is not there.
LEMMA NothingUnder ==
  ASSUME NEW t, Closed(t), NEW q \in Seq(Name) \ {<<>>}, q \notin DOMAIN t, NEW p \in DOMAIN t
  PROVE  ~remote!Under(p, q)
<1> SUFFICES ASSUME remote!Under(p, q) PROVE FALSE
  OBVIOUS
<1>1. p \in Seq(Name) /\ Len(p) \in Nat /\ Len(q) \in Nat \ {0}
  BY EmptySeq, LenProperties DEF Closed
<1>2. Len(q) <= Len(p) /\ q = Cut(p, Len(q))
  BY <1>1, UnderCut
<1>3. CASE Len(q) = Len(p)
  BY <1>1, <1>2, <1>3, SubSeqFull DEF Cut
<1>4. CASE Len(q) # Len(p)
  <2>1. Len(q) \in 1..(Len(p) - 1)
    BY <1>1, <1>2, <1>4
  <2> QED
    BY <1>2, <2>1 DEF Closed
<1> QED
  BY <1>3, <1>4

\* A move to a free place in a folder that does not move makes a tree that holds the same.
LEMMA MoveKeeps ==
  ASSUME NEW t, Closed(t), NEW from \in DOMAIN t, NEW to \in Seq(Name) \ {<<>>}, to \notin DOMAIN t,
         NEW dir, dir = Cut(to, Len(to) - 1), dir = <<>> \/ (dir \in DOMAIN t /\ t[dir] = Dir),
         ~remote!Under(dir, from)
  PROVE  /\ Closed(remote!Moved(t, from, to))
         /\ remote!Held(remote!Moved(t, from, to)) = remote!Held(t)
         /\ \A p \in DOMAIN t : ~remote!Under(p, from) =>
              p \in DOMAIN remote!Moved(t, from, to) /\ remote!Moved(t, from, to)[p] = t[p]
<1> DEFINE M == remote!Moved(t, from, to)
<1>1. /\ DOMAIN t \subseteq Seq(Name) /\ from \in Seq(Name) /\ dir \in Seq(Name)
      /\ Len(to) \in Nat \ {0} /\ Len(from) \in Nat \ {0} /\ Len(dir) = Len(to) - 1
      /\ Len(to) - 1 \in 0..Len(to)
  <2>1. Len(to) \in Nat \ {0} /\ Len(from) \in Nat \ {0}
    BY EmptySeq DEF Closed
  <2>2. Len(to) - 1 \in 0..Len(to)
    BY <2>1
  <2> QED
    BY <2>1, <2>2, CutFacts DEF Closed
<1>2. \A p \in DOMAIN t : ~remote!Under(p, to)
  BY NothingUnder
<1>3. /\ DOMAIN M = {p \in DOMAIN t : ~remote!Under(p, from)}
                \union {Graft(p, from, to) : p \in {q \in DOMAIN t : remote!Under(q, from)}}
      /\ \A p \in DOMAIN t : remote!Under(p, from) => M[Graft(p, from, to)] = t[p]
      /\ \A p \in DOMAIN t : ~remote!Under(p, from) /\ ~remote!Under(p, to) => M[p] = t[p]
  BY <1>1, MovedIs
<1> HIDE DEF M
<1>4. \A p \in DOMAIN t : ~remote!Under(p, from) => p \in DOMAIN M /\ M[p] = t[p]
  BY <1>2, <1>3
<1>5. {M[p] : p \in DOMAIN M} = {t[p] : p \in DOMAIN t}
  <2>1. \A p \in DOMAIN M : \E q \in DOMAIN t : M[p] = t[q]
    BY <1>3, <1>4
  <2>2. \A q \in DOMAIN t : \E p \in DOMAIN M : M[p] = t[q]
    BY <1>3, <1>4
  <2> QED
    BY <2>1, <2>2
<1>6. remote!Held(M) = remote!Held(t)
  BY <1>5 DEF remote!Held
<1>7. DOMAIN M \subseteq Seq(Name) \ {<<>>}
  <2> SUFFICES ASSUME NEW p \in DOMAIN t, remote!Under(p, from)
               PROVE  Graft(p, from, to) \in Seq(Name) \ {<<>>}
    BY <1>3 DEF Closed
  <2>1. /\ Graft(p, from, to) \in Seq(Name) /\ Len(Graft(p, from, to)) = Len(to) + Len(p) - Len(from)
        /\ Len(p) \in Nat /\ Len(from) <= Len(p)
    BY <1>1, GraftFacts, UnderIs, LenProperties
  <2>2. Len(Graft(p, from, to)) # 0
    BY <1>1, <2>1
  <2> QED
    BY <2>1, <2>2, EmptySeq
<1>8. ASSUME NEW p \in DOMAIN t, ~remote!Under(p, from), NEW n \in 1..(Len(p) - 1)
      PROVE  Cut(p, n) \in DOMAIN M /\ M[Cut(p, n)] = Dir
  <2>1. Cut(p, n) \in DOMAIN t /\ t[Cut(p, n)] = Dir /\ Len(p) \in Nat
    BY <1>1, <1>8, LenProperties DEF Closed
  <2>2. p \in Seq(Name) /\ n \in 0..Len(p)
    BY <1>1, <2>1
  <2>3. ~remote!Under(Cut(p, n), from)
    BY <1>1, <1>8, <2>2, CutUnder
  <2> QED
    BY <1>4, <2>1, <2>3
<1>9. ASSUME NEW p \in DOMAIN t, remote!Under(p, from), NEW n \in 1..(Len(Graft(p, from, to)) - 1)
      PROVE  Cut(Graft(p, from, to), n) \in DOMAIN M /\ M[Cut(Graft(p, from, to), n)] = Dir
  <2> DEFINE g == Graft(p, from, to)
             m == n - Len(to) + Len(from)
  <2>1. /\ p \in Seq(Name) /\ Len(p) \in Nat /\ g \in Seq(Name)
        /\ Len(g) = Len(to) + Len(p) - Len(from) /\ Len(from) <= Len(p)
    BY <1>1, <1>9, GraftFacts, UnderIs, LenProperties
  <2>2. n \in 0..Len(g) /\ n \in Nat \ {0} /\ n < Len(g)
    BY <1>1, <2>1
  <2>3. /\ n <= Len(to) => Cut(g, n) = Cut(to, n)
        /\ n >= Len(to) => /\ m \in Len(from)..Len(p) /\ remote!Under(Cut(p, m), from)
                           /\ Cut(g, n) = Graft(Cut(p, m), from, to)
    BY <1>1, <1>9, <2>1, <2>2, GraftCut
  <2> HIDE DEF g
  <2>4. CASE n >= Len(to)
    <3>1. m \in 1..(Len(p) - 1)
      BY <1>1, <2>1, <2>2, <2>4
    <3> HIDE DEF m
    <3>2. Cut(p, m) \in DOMAIN t /\ t[Cut(p, m)] = Dir
      BY <3>1 DEF Closed
    <3>3. Graft(Cut(p, m), from, to) \in DOMAIN M /\ M[Graft(Cut(p, m), from, to)] = Dir
      BY <1>3, <2>3, <2>4, <3>2
    <3> QED
      BY <2>3, <2>4, <3>3 DEF g
  <2>5. CASE n < Len(to)
    <3>1. n \in 1..Len(dir) /\ n \in 0..(Len(to) - 1) /\ n <= Len(to) /\ dir # <<>>
      BY <1>1, <2>5, EmptySeq
    <3>2. Cut(dir, n) = Cut(to, n)
      BY <1>1, <3>1, CutCut
    <3>3. Cut(dir, n) \in DOMAIN t /\ t[Cut(dir, n)] = Dir
      <4>1. CASE n = Len(dir)
        BY <1>1, <3>1, <4>1, SubSeqFull DEF Cut
      <4>2. CASE n # Len(dir)
        <5>1. n \in 1..(Len(dir) - 1)
          BY <1>1, <3>1, <4>2
        <5> QED
          BY <3>1, <5>1 DEF Closed
      <4> QED
        BY <4>1, <4>2
    <3>4. ~remote!Under(Cut(dir, n), from)
      <4>1. n \in 0..Len(dir)
        BY <1>1, <3>1
      <4> QED
        BY <1>1, <4>1, CutUnder
    <3>5. Cut(dir, n) \in DOMAIN M /\ M[Cut(dir, n)] = Dir
      BY <1>4, <3>3, <3>4
    <3> QED
      BY <2>3, <3>1, <3>2, <3>5 DEF g
  <2> QED
    BY <1>1, <2>4, <2>5
<1>10. \A p \in DOMAIN M : \A n \in 1..(Len(p) - 1) : Cut(p, n) \in DOMAIN M /\ M[Cut(p, n)] = Dir
  <2> SUFFICES ASSUME NEW p \in DOMAIN M, NEW n \in 1..(Len(p) - 1)
               PROVE  Cut(p, n) \in DOMAIN M /\ M[Cut(p, n)] = Dir
    OBVIOUS
  <2>1. CASE p \in DOMAIN t /\ ~remote!Under(p, from)
    BY <1>8, <2>1
  <2>2. CASE \E q \in DOMAIN t : remote!Under(q, from) /\ p = Graft(q, from, to)
    BY <1>9, <2>2
  <2> QED
    BY <1>3, <2>1, <2>2
<1>11. Closed(M)
  BY <1>7, <1>10 DEF Closed
<1> QED
  BY <1>4, <1>6, <1>11 DEF M

-------------------------------------------------------------------------------
(* Drag and drop                                                             *)

LEMMA ParentIs ==
  ASSUME NEW p
  PROVE  remote!Parent(p) = Cut(p, Len(p) - 1)
BY DEF remote!Parent, remote!Front, Cut

\* One job after the other moves something that the folder is not in, to its own place there.
IntoFolder(j, dir) ==
  /\ j.kind = "rename" /\ j.path \in Seq(Name) \ {<<>>} /\ j.to \in Seq(Name) \ {<<>>}
  /\ Cut(j.to, Len(j.to) - 1) = dir /\ ~remote!Under(dir, j.path)
IsFolder(t, dir) == dir = <<>> \/ (dir \in DOMAIN t /\ t[dir] = Dir)
Waiting(dir) == {<<>>} \union (IF dir = <<>> THEN {} ELSE {<<[dir |-> dir, again |-> FALSE]>>})

\* The folder stays, so that there is nothing to be made; and who is about to move saw a free
\* place, which nobody else took.
DropTo(dir) ==
  /\ dir \in Seq(Name) /\ Closed(tree) /\ IsFolder(tree, dir)
  /\ remote!Held(tree) = remote!Held(first)
  /\ \A j \in DOMAIN job : IntoFolder(j, dir)
  /\ DOMAIN missing = DOMAIN job /\ \A j \in DOMAIN job : missing[j] \in Waiting(dir)
  /\ plan \in Seq({{j} : j \in DOMAIN job})
  /\ \A j \in DOMAIN job : job[j] = "act" => plan # <<>> /\ Head(plan) = {j} /\ j.to \notin DOMAIN tree
DropInv == order = "drop" => \E dir \in Seq(Name) : DropTo(dir)

LEMMA DropTargets ==
  ASSUME NEW t, Closed(t), NEW onto \in DOMAIN t \union {<<>>},
         NEW dir, dir = (IF onto # <<>> /\ t[onto] # Dir THEN remote!Parent(onto) ELSE onto)
  PROVE  dir \in Seq(Name) /\ IsFolder(t, dir)
<1>1. CASE onto = <<>> \/ t[onto] = Dir
  BY <1>1, EmptySeq DEF IsFolder, Closed
<1>2. CASE onto # <<>> /\ t[onto] # Dir
  <2>1. onto \in DOMAIN t /\ onto \in Seq(Name) /\ Len(onto) \in Nat \ {0}
    BY <1>2, EmptySeq DEF Closed
  <2>2. dir = Cut(onto, Len(onto) - 1)
    BY <1>2, ParentIs
  <2>3. dir \in Seq(Name) /\ Len(dir) = Len(onto) - 1
    <3>1. Len(onto) - 1 \in 0..Len(onto)
      BY <2>1
    <3> QED
      BY <2>1, <2>2, <3>1, CutFacts
  <2>4. CASE Len(onto) = 1
    <3>1. Len(dir) = 0
      BY <2>3, <2>4
    <3> QED
      BY <2>3, <3>1, EmptySeq DEF IsFolder
  <2>5. CASE Len(onto) # 1
    <3> DEFINE n == Len(onto) - 1
    <3>1. \A k \in Nat \ {0} : k # 1 => k - 1 \in 1..(k - 1)
      OBVIOUS
    <3>2. n \in 1..(Len(onto) - 1)
      BY <2>1, <2>5, <3>1
    <3> HIDE DEF n
    <3>3. Cut(onto, n) \in DOMAIN t /\ t[Cut(onto, n)] = Dir
      BY <2>1, <3>2 DEF Closed
    <3> QED
      BY <2>2, <2>3, <3>3 DEF IsFolder, n
  <2> QED
    BY <2>4, <2>5
<1> QED
  BY <1>1, <1>2

\* What a folder lies in is a folder.
LEMMA AboveIsFolder ==
  ASSUME NEW t, Closed(t), NEW dir \in Seq(Name), IsFolder(t, dir),
         NEW q \in Seq(Name) \ {<<>>}, remote!Under(dir, q)
  PROVE  q \in DOMAIN t /\ t[q] = Dir
<1>1. Len(dir) \in Nat /\ Len(q) \in Nat \ {0} /\ Len(<<>>) = 0
  BY EmptySeq, LenProperties
<1>2. Len(q) <= Len(dir) /\ q = Cut(dir, Len(q))
  BY UnderCut
<1>3. dir \in DOMAIN t /\ t[dir] = Dir
  BY <1>1, <1>2 DEF IsFolder
<1>4. CASE Len(q) = Len(dir)
  BY <1>2, <1>3, <1>4, SubSeqFull DEF Cut
<1>5. CASE Len(q) # Len(dir)
  <2>1. Len(q) \in 1..(Len(dir) - 1)
    BY <1>1, <1>2, <1>5
  <2> QED
    BY <1>2, <1>3, <2>1 DEF Closed
<1> QED
  BY <1>4, <1>5

LEMMA AppendedTo ==
  ASSUME NEW dir \in Seq(Name), NEW name \in Name, NEW to, to = Append(dir, name)
  PROVE  to \in Seq(Name) \ {<<>>} /\ Cut(to, Len(to) - 1) = dir
<1>1. /\ to \in Seq(Name) /\ to # <<>> /\ Len(to) = Len(dir) + 1 /\ Len(dir) \in Nat
      /\ \A i \in 1..Len(dir) : to[i] = dir[i]
  BY AppendProperties, LenProperties
<1>2. Len(to) - 1 = Len(dir) /\ Len(dir) \in 0..Len(to)
  BY <1>1
<1> DEFINE c == Cut(to, Len(dir))
<1>3. c \in Seq(Name) /\ Len(c) = Len(dir) /\ \A i \in 1..Len(dir) : c[i] = to[i]
  BY <1>1, <1>2, CutFacts
<1> HIDE DEF c
<1>4. \A i \in 1..Len(c) : c[i] = dir[i]
  BY <1>1, <1>3
<1>5. c = dir
  BY <1>3, <1>4, SeqEqual
<1> QED
  BY <1>1, <1>2, <1>5 DEF c

LEMMA DropPlan ==
  ASSUME NEW S, IsFiniteSet(S), NEW line \in remote!InTurn(S)
  PROVE  line \in Seq({{j} : j \in S})
<1>1. PICK s \in remote!SetToSeqs(S) : line = [n \in DOMAIN s |-> {s[n]}]
  BY DEF remote!InTurn
<1>2. Cardinality(S) \in Nat
  BY FS_CardinalityType
<1>5. remote!Cardinality(S) = Cardinality(S)
  BY DEF remote!Cardinality, Cardinality
<1>3. s \in [1..Cardinality(S) -> S]
  BY <1>1, <1>5 DEF remote!SetToSeqs
<1>4. line \in [1..Cardinality(S) -> {{j} : j \in S}]
  BY <1>1, <1>3
<1> QED
  BY <1>2, <1>4, SeqDef

LEMMA DropStart ==
  ASSUME remote!InitDrop,
         missing = [j \in DOMAIN job |->
           IF job[j] # "ensure" \/ remote!Parent(j.to) = <<>> THEN <<>>
           ELSE <<[dir |-> remote!Parent(j.to), again |-> FALSE]>>]
  PROVE  \E dir \in Seq(Name) : DropTo(dir)
<1>1. PICK sources \in SUBSET DOMAIN first, onto \in DOMAIN first \union {<<>>} :
        LET dir == IF onto # <<>> /\ first[onto] # Dir THEN remote!Parent(onto) ELSE onto
            moves == IF remote!Rejected(sources, dir) THEN {} ELSE remote!Moves(sources, dir)
        IN plan \in remote!InTurn(moves) /\ job = [j \in moves |-> remote!Begin(j, files)]
  BY DEF remote!InitDrop
<1> DEFINE dir == IF onto # <<>> /\ first[onto] # Dir THEN remote!Parent(onto) ELSE onto
           moves == IF remote!Rejected(sources, dir) THEN {} ELSE remote!Moves(sources, dir)
<1>2. plan \in remote!InTurn(moves) /\ job = [j \in moves |-> remote!Begin(j, files)]
  BY <1>1
<1>3. IsTree(first) /\ tree = first
  BY ChangesAssumption DEF remote!InitDrop
<1>4. IsFiniteSet(DOMAIN first) /\ Closed(first)
  BY <1>3 DEF IsTree, Closed, Cut
<1>5. dir \in Seq(Name) /\ IsFolder(first, dir)
  BY <1>4, DropTargets
<1> HIDE DEF dir
<1>6. ASSUME NEW j \in moves
      PROVE  IntoFolder(j, dir)
  <2>1. /\ ~remote!Rejected(sources, dir) /\ j \in remote!Moves(sources, dir)
    BY <1>6
  <2>2. PICK s \in sources : j = remote!Rename("drop", s, Append(dir, remote!Last(s)))
    BY <2>1 DEF remote!Moves, remote!Outermost
  <2>3. s \in DOMAIN first /\ s \in Seq(Name) \ {<<>>} /\ Len(s) \in Nat \ {0}
    BY <1>4, EmptySeq DEF Closed
  <2>4. remote!Last(s) \in Name
    BY <2>3, ElementOfSeq DEF remote!Last
  <2>5. j.kind = "rename" /\ j.path = s /\ j.to = Append(dir, remote!Last(s))
    BY <2>2 DEF remote!Rename, remote!Job
  <2>6. j.to \in Seq(Name) \ {<<>>} /\ Cut(j.to, Len(j.to) - 1) = dir
    BY <1>5, <2>4, <2>5, AppendedTo
  <2>7. ~remote!Under(dir, s)
    BY <1>4, <1>5, <2>1, <2>3, AboveIsFolder DEF remote!Rejected
  <2> QED
    BY <2>3, <2>5, <2>6, <2>7 DEF IntoFolder
<1>7. IsFiniteSet(moves)
  <2>1. CASE remote!Rejected(sources, dir)
    BY <2>1, FS_EmptySet
  <2>2. CASE ~remote!Rejected(sources, dir)
    <3> DEFINE some == {o \in remote!Outermost(sources) : remote!Parent(o) # dir}
    <3>1. IsFiniteSet(some)
      BY <1>4, FS_Subset DEF remote!Outermost
    <3> HIDE DEF some
    <3> DEFINE all == {remote!Rename("drop", s, Append(dir, remote!Last(s))) : s \in some}
               f == [s \in some |-> remote!Rename("drop", s, Append(dir, remote!Last(s)))]
    <3>2. f \in Surjection(some, all)
      BY DEF Surjection
    <3> HIDE DEF all, f
    <3>3. IsFiniteSet(all)
      BY <3>1, <3>2, FS_Surjection
    <3> QED
      BY <2>2, <3>3 DEF some, all, remote!Moves
  <2> QED
    BY <2>1, <2>2
<1> HIDE DEF moves
<1>8. plan \in Seq({{j} : j \in moves})
  BY <1>2, <1>7, DropPlan
<1>9. DOMAIN job = moves /\ \A j \in moves : job[j] \in {"ensure", "look"}
  <2> SUFFICES ASSUME NEW j \in moves PROVE remote!Begin(j, files) \in {"ensure", "look"}
    BY <1>2
  <2> QED
    BY <1>6 DEF remote!Begin, IntoFolder
<1>10. \A j \in moves : missing[j] \in Waiting(dir)
  <2> SUFFICES ASSUME NEW j \in moves PROVE missing[j] \in Waiting(dir)
    OBVIOUS
  <2>1. remote!Parent(j.to) = dir
    BY <1>6, ParentIs DEF IntoFolder
  <2> QED
    BY <1>9, <2>1 DEF Waiting
<1>11. DropTo(dir)
  BY <1>3, <1>4, <1>5, <1>6, <1>8, <1>9, <1>10 DEF DropTo
<1> QED
  BY <1>5, <1>11

\* A job that goes anywhere but to its move.
LEMMA DropGoes ==
  ASSUME NEW dir, DropTo(dir), NEW j \in DOMAIN job, NEW place, place # "act",
         remote!Go(j, place), remote!Unchanged, UNCHANGED <<tree, missing>>
  PROVE  DropTo(dir)'
<1>1. UNCHANGED <<first, plan, tree, missing>>
  BY DEF remote!Unchanged
<1>2. DOMAIN job' = DOMAIN job /\ \A i \in DOMAIN job : job'[i] = "act" => job[i] = "act"
  BY DEF remote!Go
<1> QED
  BY <1>1, <1>2 DEF DropTo

LEMMA DropEnsures ==
  ASSUME NEW dir, DropTo(dir), NEW j \in DOMAIN job, remote!EnsureDir(j)
  PROVE  DropTo(dir)'
<1> DEFINE frame == [dir |-> dir, again |-> FALSE]
<1>1. missing[j] = <<frame>> /\ dir # <<>>
  BY DEF DropTo, remote!EnsureDir, Waiting
<1>2. remote!Last(missing[j]) = frame /\ remote!Front(missing[j]) = <<>>
  <2>1. Len(<<frame>>) = 1 /\ <<frame>>[1] = frame
    OBVIOUS
  <2>2. SubSeq(<<frame>>, 1, 0) = <<>>
    BY SubSeqEmpty
  <2> QED
    BY <1>1, <2>1, <2>2 DEF remote!Last, remote!Front
<1>3. dir \in DOMAIN tree /\ tree[dir] = Dir /\ Closed(tree) /\ dir \in Seq(Name)
  BY <1>1 DEF DropTo, IsFolder
<1>4. remote!Exists(dir) /\ remote!IsDir(dir)
  BY <1>3 DEF remote!Exists, remote!IsDir
<1>5. remote!Exists(remote!Parent(dir))
  <2>1. Len(dir) \in Nat \ {0} /\ remote!Parent(dir) = Cut(dir, Len(dir) - 1)
    BY <1>1, <1>3, EmptySeq, ParentIs
  <2>2. CASE Len(dir) = 1
    <3>1. Cut(dir, 0) = <<>>
      BY SubSeqEmpty DEF Cut
    <3> QED
      BY <2>1, <2>2, <3>1 DEF remote!Exists
  <2>3. CASE Len(dir) # 1
    <3> DEFINE n == Len(dir) - 1
    <3>1. \A k \in Nat \ {0} : k # 1 => k - 1 \in 1..(k - 1)
      OBVIOUS
    <3>2. n \in 1..(Len(dir) - 1)
      BY <2>1, <2>3, <3>1
    <3> HIDE DEF n
    <3>3. Cut(dir, n) \in DOMAIN tree
      BY <1>3, <3>2 DEF Closed
    <3> QED
      BY <2>1, <3>3 DEF remote!Exists, n
  <2> QED
    BY <2>2, <2>3
<1>6. missing' = [missing EXCEPT ![j] = <<>>] /\ UNCHANGED <<tree, job>> /\ remote!Unchanged
  <2>1. frame.dir = dir /\ frame.again = FALSE
    OBVIOUS
  <2> HIDE DEF frame
  <2> QED
    BY <1>2, <1>4, <1>5, <2>1 DEF remote!EnsureDir
<1>7. UNCHANGED <<first, plan, tree, job>>
  BY <1>6 DEF remote!Unchanged
<1>8. DOMAIN missing' = DOMAIN job /\ \A i \in DOMAIN job : missing'[i] \in Waiting(dir)
  BY <1>6 DEF DropTo, Waiting
<1> QED
  BY <1>7, <1>8 DEF DropTo

LEMMA DropLooks ==
  ASSUME NEW dir, DropTo(dir), NEW j \in DOMAIN job, plan # <<>>, Head(plan) = {j}, remote!Look(j)
  PROVE  DropTo(dir)'
<1>1. CASE remote!Exists(j.to)
  BY <1>1, DropGoes DEF remote!Look
<1>2. CASE ~remote!Exists(j.to)
  <2>1. UNCHANGED <<first, plan, tree, missing>> /\ job' = [job EXCEPT ![j] = "act"]
    BY <1>2 DEF remote!Look, remote!Go, remote!Unchanged
  <2>2. j.to \notin DOMAIN tree
    BY <1>2 DEF remote!Exists
  <2>3. DOMAIN job' = DOMAIN job /\ \A i \in DOMAIN job : job'[i] = "act" => i = j \/ job[i] = "act"
    BY <2>1
  <2> QED
    BY <2>1, <2>2, <2>3 DEF DropTo
<1> QED
  BY <1>1, <1>2

LEMMA DropMoves ==
  ASSUME NEW dir, DropTo(dir), NEW j \in DOMAIN job, plan # <<>>, Head(plan) = {j}, remote!Move(j)
  PROVE  DropTo(dir)'
<1>1. job[j] = "act" /\ j.to \notin DOMAIN tree /\ IntoFolder(j, dir)
  BY DEF DropTo, remote!Move
<1>2. ~remote!Exists(j.to)
  BY <1>1 DEF remote!Exists, IntoFolder
<1>3. CASE ~remote!Exists(j.path)
  <2>1. remote!Go(j, "gone") /\ remote!Unchanged /\ UNCHANGED <<tree, missing>>
    BY <1>2, <1>3 DEF remote!Move
  <2> QED
    BY <2>1, DropGoes
<1>4. CASE remote!Exists(j.path)
  <2>1. /\ tree' = remote!Moved(tree, j.path, j.to) /\ job' = [job EXCEPT ![j] = "done"]
        /\ UNCHANGED <<first, plan, missing>>
    BY <1>2, <1>4 DEF remote!Move, remote!Go, remote!Unchanged
  <2>2. j.path \in DOMAIN tree
    BY <1>1, <1>4 DEF remote!Exists, IntoFolder
  <2>3. Closed(tree) /\ IsFolder(tree, dir) /\ remote!Held(tree) = remote!Held(first)
    BY DEF DropTo
  <2>4. /\ Closed(tree') /\ remote!Held(tree') = remote!Held(tree)
        /\ \A p \in DOMAIN tree : ~remote!Under(p, j.path) => p \in DOMAIN tree' /\ tree'[p] = tree[p]
    <3> DEFINE M == remote!Moved(tree, j.path, j.to)
    <3>1. /\ Closed(M) /\ remote!Held(M) = remote!Held(tree)
          /\ \A p \in DOMAIN tree : ~remote!Under(p, j.path) => p \in DOMAIN M /\ M[p] = tree[p]
      BY <1>1, <2>2, <2>3, MoveKeeps DEF IntoFolder, IsFolder
    <3> QED
      BY <2>1, <3>1
  <2>5. IsFolder(tree', dir)
    BY <1>1, <2>3, <2>4 DEF IsFolder, IntoFolder
  <2>6. (remote!Held(tree) = remote!Held(first))'
    BY <2>1, <2>3, <2>4 DEF remote!Held
  <2>7. /\ DOMAIN job' = DOMAIN job /\ job'[j] = "done"
        /\ \A i \in DOMAIN job : i # j => job'[i] = job[i]
    BY <2>1
  <2>8. \A i \in DOMAIN job : job'[i] # "act"
    <3> SUFFICES ASSUME NEW i \in DOMAIN job, job'[i] = "act" PROVE FALSE
      OBVIOUS
    <3>1. i # j /\ job[i] = "act"
      BY <2>7
    <3>2. Head(plan) = {i}
      BY <3>1 DEF DropTo
    <3> QED
      BY <3>1, <3>2
  <2>9. /\ dir \in Seq(Name) /\ \A i \in DOMAIN job : IntoFolder(i, dir)
        /\ DOMAIN missing = DOMAIN job /\ \A i \in DOMAIN job : missing[i] \in Waiting(dir)
        /\ plan \in Seq({{i} : i \in DOMAIN job})
    BY DEF DropTo
  <2> QED
    BY <2>1, <2>4, <2>5, <2>6, <2>7, <2>8, <2>9 DEF DropTo
<1> QED
  BY <1>3, <1>4

LEMMA DropStep ==
  ASSUME NEW dir, DropTo(dir), remote!Next
  PROVE  DropTo(dir)'
<1>1. ASSUME remote!Proceed PROVE DropTo(dir)'
  <2>1. plan # <<>> /\ plan' = Tail(plan) /\ \A j \in Head(plan) : remote!Settled(j)
    BY <1>1 DEF remote!Proceed
  <2>2. UNCHANGED <<first, tree, job, missing>>
    BY <1>1 DEF remote!Proceed
  <2>3. plan' \in Seq({{j} : j \in DOMAIN job})
    BY <2>1, HeadTailProperties DEF DropTo
  <2>4. \A j \in DOMAIN job : job[j] # "act"
    <3> SUFFICES ASSUME NEW j \in DOMAIN job, job[j] = "act" PROVE FALSE
      OBVIOUS
    <3>1. Head(plan) = {j}
      BY DEF DropTo
    <3> QED
      BY <2>1, <3>1 DEF remote!Settled
  <2> QED
    BY <2>2, <2>3, <2>4 DEF DropTo
<1>2. ASSUME plan # <<>>, NEW j \in Head(plan), remote!Step(j) PROVE DropTo(dir)'
  <2>1. j \in DOMAIN job /\ Head(plan) = {j}
    <3>1. Head(plan) \in {{i} : i \in DOMAIN job}
      BY <1>2, HeadTailProperties DEF DropTo
    <3> QED
      BY <1>2, <3>1
  <2>2. j.kind = "rename"
    BY <2>1 DEF DropTo, IntoFolder
  <2>3. CASE remote!EnsureDir(j)
    BY <2>1, <2>3, DropEnsures
  <2>4. CASE remote!Ensured(j)
    <3>1. remote!Go(j, "look") /\ remote!Unchanged /\ UNCHANGED <<tree, missing>>
      BY <2>2, <2>4 DEF remote!Ensured
    <3> QED
      BY <2>1, <3>1, DropGoes
  <2>5. CASE remote!Look(j)
    BY <1>2, <2>1, <2>5, DropLooks
  <2>6. CASE remote!Move(j)
    BY <1>2, <2>1, <2>6, DropMoves
  <2>7. CASE remote!Fail(j)
    <3>1. remote!Go(j, "refused") /\ remote!Unchanged /\ UNCHANGED <<tree, missing>>
      BY <2>7 DEF remote!Fail
    <3> QED
      BY <2>1, <3>1, DropGoes
  <2>8. ~remote!Put(j) /\ ~remote!Erase(j)
    BY <2>2 DEF remote!Put, remote!Erase
  <2> QED
    BY <1>2, <2>3, <2>4, <2>5, <2>6, <2>7, <2>8 DEF remote!Step
<1> QED
  BY <1>1, <1>2 DEF remote!Next

LEMMA DropInvStart == remote!Init => DropInv
<1> SUFFICES ASSUME remote!Init, order = "drop" PROVE \E dir \in Seq(Name) : DropTo(dir)
  BY DEF DropInv
<1>1. remote!InitDrop
  BY DEF remote!Init, remote!InitGit
<1> QED
  BY <1>1, DropStart DEF remote!Init, remote!Jobs

LEMMA OrderStays == remote!Next => order' = order
<1>1. remote!Next => UNCHANGED order
  BY DEF remote!Next, remote!Proceed, remote!Step, remote!EnsureDir, remote!Ensured,
    remote!Look, remote!Put, remote!Move, remote!Erase, remote!Fail, remote!Unchanged
<1> QED
  BY <1>1

LEMMA DropInvStep ==
  ASSUME DropInv, [MCNext]_<<part, vars, activityVars, changesVars, clientsVars, explorerVars>>
  PROVE  DropInv'
<1>1. CASE UNCHANGED changesVars
  <2>1. UNCHANGED <<order, first, tree, plan, job, missing>>
    BY <1>1 DEF changesVars
  <2>2. ASSUME NEW dir \in Seq(Name), DropTo(dir) PROVE DropTo(dir)'
    BY <2>1, <2>2 DEF DropTo
  <2> QED
    BY <2>1, <2>2 DEF DropInv
<1>2. CASE remote!Next
  <2>1. order' = order
    BY <1>2, OrderStays
  <2> QED
    BY <1>2, <2>1, DropStep DEF DropInv
<1> QED
  BY <1>1, <1>2 DEF MCNext

\* A drop loses nothing, for any trees, names and failures: what moves leaves the folder where
\* it goes in place, and goes to a free place (dragAndDrop.ts).
THEOREM DropsLoseNothing == MCSpec => []MovesKeepEverything
<1>1. MCInit => DropInv
  BY DropInvStart DEF MCInit
<1>2. DropInv /\ [MCNext]_<<part, vars, activityVars, changesVars, clientsVars, explorerVars>> => DropInv'
  BY DropInvStep
<1>3. DropInv => MovesKeepEverything
  BY DEF DropInv, DropTo, MovesKeepEverything, remote!MovesKeepEverything
<1> QED
  BY <1>1, <1>2, <1>3, PTL DEF MCSpec

-------------------------------------------------------------------------------
(* Upload Changed Files                                                      *)

Folders == UNION {{Cut(f, n) : n \in 1..(Len(f) - 1)} : f \in Repository}
OfRepository(t) == Closed(t) /\ DOMAIN t \subseteq Repository \union Folders

LEMMA RepositoryPaths ==
  \A f \in Repository : f \in Seq(Name) /\ f # <<>> /\ Len(f) \in Nat \ {0}
BY ChangesAssumption, EmptySeq

LEMMA FolderPaths ==
  \A p \in Folders : p \in Seq(Name) \ {<<>>} /\ p \notin Repository
<1> SUFFICES ASSUME NEW f \in Repository, NEW n \in 1..(Len(f) - 1)
             PROVE  Cut(f, n) \in Seq(Name) \ {<<>>} /\ Cut(f, n) \notin Repository
  BY DEF Folders
<1>1. f \in Seq(Name) /\ n \in 0..Len(f) /\ n # 0
  BY RepositoryPaths
<1>2. Cut(f, n) \in Seq(Name) /\ Len(Cut(f, n)) = n
  BY <1>1, CutFacts
<1> QED
  BY <1>1, <1>2, ChangesAssumption, EmptySeq DEF Cut

\* Nothing lies under a file.
LEMMA FileAlone ==
  ASSUME NEW f \in Repository, NEW p \in Repository \union Folders, remote!Under(p, f)
  PROVE  p = f
<1>1. f \in Seq(Name) /\ Len(f) \in Nat \ {0}
  BY RepositoryPaths
<1>2. ASSUME NEW g \in Repository, remote!Under(g, f) PROVE g = f
  <2>1. g \in Seq(Name) /\ Len(g) \in Nat \ {0}
    BY RepositoryPaths
  <2>2. Len(f) <= Len(g) /\ f = Cut(g, Len(f))
    BY <1>1, <1>2, <2>1, UnderCut
  <2>3. Len(f) \notin 1..(Len(g) - 1)
    BY <2>2, ChangesAssumption DEF Cut
  <2>4. Len(f) = Len(g)
    BY <1>1, <2>1, <2>2, <2>3
  <2> QED
    BY <2>1, <2>2, <2>4, SubSeqFull DEF Cut
<1>3. ASSUME NEW g \in Repository, NEW n \in 1..(Len(g) - 1), remote!Under(Cut(g, n), f) PROVE FALSE
  <2>1. g \in Seq(Name) /\ Len(g) \in Nat \ {0} /\ n \in 0..Len(g)
    BY RepositoryPaths
  <2>2. remote!Under(g, f)
    BY <1>1, <1>3, <2>1, CutUnder
  <2>3. g = f
    BY <1>2, <2>2
  <2>4. Len(Cut(g, n)) = n /\ Cut(g, n) \in Seq(Name)
    BY <2>1, CutFacts
  <2>5. Len(f) <= Len(Cut(g, n))
    BY <1>1, <1>3, <2>4, UnderIs
  <2> QED
    BY <2>1, <2>3, <2>4, <2>5
<1> QED
  BY <1>2, <1>3 DEF Folders

LEMMA WithIs ==
  ASSUME NEW t, NEW p, NEW v
  PROVE  /\ DOMAIN remote!With(t, p, v) = DOMAIN t \union {p} /\ remote!With(t, p, v)[p] = v
         /\ \A q \in DOMAIN t : q # p => remote!With(t, p, v)[q] = t[q]
BY DEF remote!With

LEMMA WithoutIs ==
  ASSUME NEW t, OfRepository(t), NEW f \in Repository
  PROVE  /\ DOMAIN remote!Without(t, f) = DOMAIN t \ {f}
         /\ \A q \in DOMAIN t : q # f => remote!Without(t, f)[q] = t[q]
<1>1. \A q \in DOMAIN t : remote!Under(q, f) => q = f
  BY FileAlone DEF OfRepository
<1>2. remote!Under(f, f)
  BY RepositoryPaths, UnderIs
<1> QED
  BY <1>1, <1>2 DEF remote!Without

\* What is made in a folder, a file or another folder, leaves a tree.
LEMMA WithKeeps ==
  ASSUME NEW t, OfRepository(t), NEW p \in Repository \union Folders, NEW v,
         p \in Folders => v = Dir, IsFolder(t, Cut(p, Len(p) - 1))
  PROVE  OfRepository(remote!With(t, p, v))
<1> DEFINE w == remote!With(t, p, v)
<1>1. /\ DOMAIN w = DOMAIN t \union {p} /\ w[p] = v
      /\ \A q \in DOMAIN t : q # p => w[q] = t[q]
  BY DEF remote!With
<1> HIDE DEF w
<1>2. p \in Seq(Name) \ {<<>>} /\ Len(p) \in Nat \ {0}
  BY RepositoryPaths, FolderPaths, EmptySeq
<1>3. \A q \in DOMAIN t : t[q] = Dir => w[q] = Dir \/ (q = p /\ p \in Repository)
  BY <1>1
<1>4. ASSUME NEW q \in DOMAIN t, NEW n \in 1..(Len(q) - 1)
      PROVE  Cut(q, n) \in DOMAIN w /\ w[Cut(q, n)] = Dir
  <2>1. /\ Cut(q, n) \in DOMAIN t /\ t[Cut(q, n)] = Dir /\ q \in Seq(Name)
        /\ q \in Repository \union Folders
    BY DEF OfRepository, Closed
  <2>2. ASSUME Cut(q, n) = p, p \in Repository PROVE FALSE
    <3>1. Len(q) \in Nat /\ n \in 0..Len(q)
      BY <2>1, LenProperties
    <3>2. Len(Cut(q, n)) = n
      BY <2>1, <3>1, CutFacts
    <3>3. remote!Under(q, p)
      BY <1>2, <2>1, <2>2, <3>1, <3>2, UnderCut
    <3>4. q = p
      BY <2>1, <2>2, <3>3, FileAlone
    <3> QED
      BY <2>2, <3>1, <3>2, <3>4
  <2> QED
    BY <1>1, <1>3, <2>1, <2>2
<1>5. ASSUME NEW n \in 1..(Len(p) - 1)
      PROVE  Cut(p, n) \in DOMAIN w /\ w[Cut(p, n)] = Dir
  <2> DEFINE dir == Cut(p, Len(p) - 1)
  <2>0. Len(p) - 1 \in 0..Len(p) /\ n \in 0..(Len(p) - 1)
    BY <1>2
  <2>1. dir \in Seq(Name) /\ Len(dir) = Len(p) - 1
    BY <1>2, <2>0, CutFacts
  <2>2. dir \in DOMAIN t /\ t[dir] = Dir
    <3>1. Len(dir) # 0
      BY <1>2, <1>5, <2>1
    <3>2. dir # <<>>
      BY <3>1, EmptySeq
    <3> QED
      BY <3>2 DEF IsFolder
  <2>3. Cut(dir, n) = Cut(p, n)
    BY <1>2, <2>0, CutCut
  <2>4. w[dir] = Dir /\ dir \in DOMAIN w
    <3>1. dir # p
      BY <1>2, <2>1
    <3> QED
      BY <1>1, <2>2, <3>1
  <2>5. CASE n = Len(p) - 1
    BY <2>4, <2>5
  <2>6. CASE n # Len(p) - 1
    <3>1. n \in 1..(Len(dir) - 1)
      BY <1>2, <2>0, <2>1, <2>6
    <3>2. Cut(dir, n) \in DOMAIN w /\ w[Cut(dir, n)] = Dir
      BY <1>4, <2>2, <3>1
    <3> QED
      BY <2>3, <3>2
  <2> QED
    BY <2>5, <2>6
<1>6. Closed(w)
  BY <1>1, <1>2, <1>4, <1>5 DEF Closed, OfRepository
<1>7. DOMAIN w \subseteq Repository \union Folders
  BY <1>1 DEF OfRepository
<1> QED
  BY <1>6, <1>7 DEF OfRepository, w

LEMMA WithoutKeeps ==
  ASSUME NEW t, OfRepository(t), NEW f \in Repository
  PROVE  OfRepository(remote!Without(t, f))
<1> DEFINE w == remote!Without(t, f)
<1>1. DOMAIN w = DOMAIN t \ {f} /\ \A q \in DOMAIN t : q # f => w[q] = t[q]
  BY WithoutIs
<1> HIDE DEF w
<1>2. ASSUME NEW q \in DOMAIN t, q # f, NEW n \in 1..(Len(q) - 1)
      PROVE  Cut(q, n) \in DOMAIN w /\ w[Cut(q, n)] = Dir
  <2>1. /\ Cut(q, n) \in DOMAIN t /\ t[Cut(q, n)] = Dir /\ q \in Seq(Name)
        /\ q \in Repository \union Folders
    BY DEF OfRepository, Closed
  <2>2. Cut(q, n) # f
    <3> SUFFICES ASSUME Cut(q, n) = f PROVE FALSE
      OBVIOUS
    <3>1. Len(q) \in Nat /\ n \in 0..Len(q) /\ f \in Seq(Name)
      BY <2>1, LenProperties, RepositoryPaths
    <3>2. Len(Cut(q, n)) = n
      BY <2>1, <3>1, CutFacts
    <3>3. remote!Under(q, f)
      BY <2>1, <3>1, <3>2, UnderCut
    <3> QED
      BY <1>2, <2>1, <3>3, FileAlone
  <2> QED
    BY <1>1, <2>1, <2>2
<1>3. Closed(w)
  BY <1>1, <1>2 DEF Closed, OfRepository
<1> QED
  BY <1>1, <1>3 DEF OfRepository, w

\* A file moves alone.
LEMMA MovedFile ==
  ASSUME NEW t, OfRepository(t), NEW f \in Repository, f \in DOMAIN t,
         NEW g \in Repository, g \notin DOMAIN t, IsFolder(t, Cut(g, Len(g) - 1))
  PROVE  /\ OfRepository(remote!Moved(t, f, g))
         /\ DOMAIN remote!Moved(t, f, g) = (DOMAIN t \ {f}) \union {g}
         /\ remote!Moved(t, f, g)[g] = t[f]
         /\ \A q \in DOMAIN t : q # f => remote!Moved(t, f, g)[q] = t[q]
<1> DEFINE M == remote!Moved(t, f, g)
           dir == Cut(g, Len(g) - 1)
<1>1. /\ f \in Seq(Name) /\ g \in Seq(Name) /\ g \in Seq(Name) \ {<<>>} /\ Closed(t)
      /\ Len(g) \in Nat \ {0} /\ DOMAIN t \subseteq Seq(Name)
  BY RepositoryPaths DEF OfRepository, Closed
<1>2. \A q \in DOMAIN t : remote!Under(q, f) <=> q = f
  <2>1. remote!Under(f, f)
    BY <1>1, UnderIs
  <2> QED
    BY <2>1, FileAlone DEF OfRepository
<1>3. ~remote!Under(dir, f)
  <2>1. CASE Len(g) = 1
    <3>1. Len(g) - 1 \in 0..Len(g) /\ Len(g) - 1 = 0
      BY <2>1
    <3>2. dir \in Seq(Name) /\ Len(dir) = 0
      BY <1>1, <3>1, CutFacts
    <3> HIDE DEF dir
    <3>3. f \in Seq(Name) /\ Len(f) \in Nat \ {0}
      BY RepositoryPaths
    <3>4. remote!Under(dir, f) => Len(f) <= Len(dir)
      BY <3>2, <3>3, UnderIs
    <3> QED
      BY <3>2, <3>3, <3>4
  <2>2. CASE Len(g) # 1
    <3>1. \A k \in Nat \ {0} : k # 1 => k - 1 \in 1..(k - 1)
      OBVIOUS
    <3>2. Len(g) - 1 \in 1..(Len(g) - 1)
      BY <1>1, <2>2, <3>1
    <3>3. dir \in Folders
      BY <3>2 DEF Folders
    <3> QED
      BY <3>3, FileAlone, FolderPaths
  <2> QED
    BY <2>1, <2>2
<1>4. Graft(f, f, g) = g
  <2>1. SubSeq(f, Len(f) + 1, Len(f)) = <<>>
    BY RepositoryPaths, SubSeqEmpty
  <2> QED
    BY <1>1, <2>1, ConcatEmptySeq DEF Graft
<1>5. /\ DOMAIN M = {p \in DOMAIN t : ~remote!Under(p, f)}
                \union {Graft(p, f, g) : p \in {q \in DOMAIN t : remote!Under(q, f)}}
      /\ \A p \in DOMAIN t : remote!Under(p, f) => M[Graft(p, f, g)] = t[p]
      /\ \A p \in DOMAIN t : ~remote!Under(p, f) /\ ~remote!Under(p, g) => M[p] = t[p]
  <2>1. f \in Seq(Name) /\ g \in Seq(Name) /\ DOMAIN t \subseteq Seq(Name)
    BY <1>1
  <2> QED
    BY <2>1, MovedIs
<1>6. /\ Closed(M)
      /\ \A p \in DOMAIN t : ~remote!Under(p, f) => p \in DOMAIN M /\ M[p] = t[p]
  BY <1>1, <1>3, MoveKeeps DEF IsFolder
<1> HIDE DEF M
<1>7. DOMAIN M = (DOMAIN t \ {f}) \union {g}
  <2>1. {p \in DOMAIN t : ~remote!Under(p, f)} = DOMAIN t \ {f}
    BY <1>2
  <2>2. {q \in DOMAIN t : remote!Under(q, f)} = {f}
    BY <1>2
  <2> QED
    BY <1>4, <1>5, <2>1, <2>2
<1>8. M[g] = t[f]
  BY <1>2, <1>4, <1>5
<1>9. DOMAIN M \subseteq Repository \union Folders
  BY <1>7 DEF OfRepository
<1> QED
  BY <1>2, <1>6, <1>7, <1>8, <1>9 DEF OfRepository, M

\* What is in a tree is in a folder of it.
LEMMA ParentFolder ==
  ASSUME NEW t, Closed(t), NEW p \in DOMAIN t
  PROVE  IsFolder(t, Cut(p, Len(p) - 1))
<1>1. p \in Seq(Name) /\ Len(p) \in Nat \ {0}
  BY EmptySeq DEF Closed
<1>2. CASE Len(p) = 1
  BY <1>2, SubSeqEmpty DEF Cut, IsFolder
<1>3. CASE Len(p) # 1
  <2> DEFINE n == Len(p) - 1
  <2>1. \A k \in Nat \ {0} : k # 1 => k - 1 \in 1..(k - 1)
    OBVIOUS
  <2>2. n \in 1..(Len(p) - 1)
    BY <1>1, <1>3, <2>1
  <2> HIDE DEF n
  <2>3. Cut(p, n) \in DOMAIN t /\ t[Cut(p, n)] = Dir
    BY <2>2 DEF Closed
  <2> QED
    BY <2>3 DEF IsFolder, n
<1> QED
  BY <1>2, <1>3

\* The jobs of a kind, and what is fixed at the beginning: the jobs `all' fit the commit, the
\* index and the working tree.
OfKind(all, kind) == {j \in all : j.kind = kind}
JobsTyped(all) ==
  \A j \in all : /\ j.path \in Repository /\ j.to \in Repository
                 /\ j.kind \in {"upload", "rename", "delete"}
                 /\ j.kind # "rename" => j.to = j.path
UploadsFit(all, head, index, wt) ==
  \A j \in OfKind(all, "upload") :
    index[j.path] \notin {0, head[j.path]} \/ wt[j.path] \notin {0, index[j.path]}
RenamesFit(all, again, head, index, wt) ==
  /\ \A j \in OfKind(all, "rename") :
       /\ head[j.path] # 0 /\ index[j.path] = 0
       /\ head[j.to] = 0 /\ index[j.to] = head[j.path]
       /\ wt[j.path] # 0 => j.to \in again
  /\ \A i, j \in OfKind(all, "rename") : i.path = j.path \/ i.to = j.to => i = j
DeletesFit(all, head, index, wt) ==
  \A j \in OfKind(all, "delete") :
    \/ /\ head[j.path] # 0 /\ index[j.path] = 0
       /\ \A i \in OfKind(all, "rename") : i.path # j.path
    \/ index[j.path] # 0 /\ wt[j.path] = 0
EachCovered(all, again, head, index, wt) ==
  \A f \in Repository :
    /\ wt[f] \notin {0, index[f]} => \E j \in OfKind(all, "upload") : j.path = f
    /\ index[f] \notin {0, head[f]} =>
         (\E j \in OfKind(all, "upload") : j.path = f) \/ (\E j \in OfKind(all, "rename") : j.to = f)
    /\ index[f] # 0 /\ wt[f] = 0 => \E j \in OfKind(all, "delete") : j.path = f
    /\ head[f] # 0 /\ index[f] = 0 =>
         (\E j \in OfKind(all, "delete") : j.path = f) \/ (\E j \in OfKind(all, "rename") : j.path = f)
    /\ head[f] # 0 /\ index[f] = 0 /\ wt[f] # 0 => f \in again
JobsFit(all, again, head, index, wt) ==
  /\ JobsTyped(all) /\ UploadsFit(all, head, index, wt)
  /\ RenamesFit(all, again, head, index, wt) /\ DeletesFit(all, head, index, wt)
  /\ EachCovered(all, again, head, index, wt)

\* The jobs as they are made.
Staging(head, index, wt, pairs, up, re, de, again) ==
  /\ pairs \in remote!Pairings(head, index)
  /\ up = remote!UploadsOf(head, index, wt, pairs)
  /\ re = {remote!Rename("index", r[1], r[2]) : r \in pairs}
  /\ de = remote!DeletesOf(head, index, wt, pairs)
  /\ again = LET fresh == {f \in Repository : head[f] # 0 /\ index[f] = 0 /\ wt[f] # 0}
              IN fresh \union {r[2] : r \in {s \in pairs : s[1] \in fresh}}

LEMMA JobsBegin ==
  ASSUME NEW head, NEW index, NEW wt, NEW pairs, NEW up, NEW re, NEW de, NEW again,
         Staging(head, index, wt, pairs, up, re, de, again)
  PROVE  /\ JobsFit(up \union re \union de, again, head, index, wt)
         /\ up = OfKind(up \union re \union de, "upload")
         /\ re = OfKind(up \union re \union de, "rename")
         /\ de = OfKind(up \union re \union de, "delete")
<1> DEFINE all == up \union re \union de
           fresh == {f \in Repository : head[f] # 0 /\ index[f] = 0 /\ wt[f] # 0}
<1>0. /\ pairs \in remote!Pairings(head, index) /\ up = remote!UploadsOf(head, index, wt, pairs)
      /\ re = {remote!Rename("index", r[1], r[2]) : r \in pairs}
      /\ de = remote!DeletesOf(head, index, wt, pairs)
      /\ again = fresh \union {r[2] : r \in {s \in pairs : s[1] \in fresh}}
  BY DEF Staging
<1>1. /\ \A r \in pairs : /\ r \in Repository \X Repository
                          /\ head[r[1]] # 0 /\ index[r[1]] = 0
                          /\ head[r[2]] = 0 /\ index[r[2]] = head[r[1]]
      /\ \A r, q \in pairs : r # q => r[1] # q[1] /\ r[2] # q[2]
  BY <1>0 DEF remote!Pairings, remote!RenamesOf
<1>2. \A j \in up : /\ j.kind = "upload" /\ j.path \in Repository /\ j.to = j.path
                    /\ index[j.path] \notin {0, head[j.path]} \/ wt[j.path] \notin {0, index[j.path]}
  BY <1>0 DEF remote!UploadsOf, remote!Upload, remote!Job
<1>3. \A r \in pairs : LET j == remote!Rename("index", r[1], r[2])
                       IN j.kind = "rename" /\ j.path = r[1] /\ j.to = r[2]
  BY DEF remote!Rename, remote!Job
<1>4. \A j \in de : /\ j.kind = "delete" /\ j.path \in Repository /\ j.to = j.path
                    /\ \/ /\ head[j.path] # 0 /\ index[j.path] = 0
                          /\ \A r \in pairs : r[1] # j.path
                       \/ index[j.path] # 0 /\ wt[j.path] = 0
  BY <1>0 DEF remote!DeletesOf, remote!Delete, remote!Job
<1>5. \A j \in re : \E r \in pairs : j = remote!Rename("index", r[1], r[2])
                                     /\ j.kind = "rename" /\ j.path = r[1] /\ j.to = r[2]
  BY <1>0, <1>3
<1>6. /\ up = OfKind(all, "upload") /\ re = OfKind(all, "rename") /\ de = OfKind(all, "delete")
  BY <1>2, <1>4, <1>5 DEF OfKind
<1>7. JobsTyped(all)
  <2> SUFFICES ASSUME NEW j \in all
               PROVE  /\ j.path \in Repository /\ j.to \in Repository
                      /\ j.kind \in {"upload", "rename", "delete"}
                      /\ j.kind # "rename" => j.to = j.path
    BY DEF JobsTyped
  <2>1. CASE j \in re
    BY <1>1, <1>5, <2>1
  <2> QED
    BY <1>2, <1>4, <2>1
<1>8. UploadsFit(all, head, index, wt)
  BY <1>2, <1>6 DEF UploadsFit
<1>9. RenamesFit(all, again, head, index, wt)
  <2>1. ASSUME NEW j \in re
        PROVE  /\ head[j.path] # 0 /\ index[j.path] = 0
               /\ head[j.to] = 0 /\ index[j.to] = head[j.path]
               /\ wt[j.path] # 0 => j.to \in again
    <3>1. PICK r \in pairs : j.path = r[1] /\ j.to = r[2]
      BY <1>5
    <3>2. r[1] \in Repository
      BY <1>1
    <3> QED
      BY <1>0, <1>1, <3>1, <3>2
  <2>2. ASSUME NEW i \in re, NEW j \in re, i.path = j.path \/ i.to = j.to PROVE i = j
    <3>1. PICK r \in pairs : i = remote!Rename("index", r[1], r[2]) /\ i.path = r[1] /\ i.to = r[2]
      BY <1>5
    <3>2. PICK q \in pairs : j = remote!Rename("index", q[1], q[2]) /\ j.path = q[1] /\ j.to = q[2]
      BY <1>5
    <3>3. r = q
      BY <1>1, <2>2, <3>1, <3>2
    <3> QED
      BY <3>1, <3>2, <3>3
  <2> QED
    BY <1>6, <2>1, <2>2 DEF RenamesFit
<1>10. DeletesFit(all, head, index, wt)
  <2>1. ASSUME NEW j \in de, NEW i \in re, \A r \in pairs : r[1] # j.path PROVE i.path # j.path
    BY <1>5, <2>1
  <2> QED
    BY <1>4, <1>6, <2>1 DEF DeletesFit
<1>11. EachCovered(all, again, head, index, wt)
  <2> SUFFICES ASSUME NEW f \in Repository
               PROVE  /\ wt[f] \notin {0, index[f]} => \E j \in up : j.path = f
                      /\ index[f] \notin {0, head[f]} =>
                           (\E j \in up : j.path = f) \/ (\E j \in re : j.to = f)
                      /\ index[f] # 0 /\ wt[f] = 0 => \E j \in de : j.path = f
                      /\ head[f] # 0 /\ index[f] = 0 =>
                           (\E j \in de : j.path = f) \/ (\E j \in re : j.path = f)
                      /\ head[f] # 0 /\ index[f] = 0 /\ wt[f] # 0 => f \in again
    BY <1>6 DEF EachCovered
  <2>1. ASSUME wt[f] \notin {0, index[f]} PROVE \E j \in up : j.path = f
    <3>1. remote!Upload("tree", f) \in up
      BY <1>0, <2>1 DEF remote!UploadsOf
    <3>2. remote!Upload("tree", f).path = f
      BY DEF remote!Upload, remote!Job
    <3> QED
      BY <3>1, <3>2
  <2>2. ASSUME index[f] \notin {0, head[f]}
        PROVE  (\E j \in up : j.path = f) \/ (\E j \in re : j.to = f)
    <3>1. CASE \A r \in pairs : r[2] # f
      <4>1. remote!Upload("index", f) \in up
        BY <1>0, <2>2, <3>1 DEF remote!UploadsOf
      <4>2. remote!Upload("index", f).path = f
        BY DEF remote!Upload, remote!Job
      <4> QED
        BY <4>1, <4>2
    <3>2. CASE \E r \in pairs : r[2] = f
      <4>1. PICK r \in pairs : r[2] = f
        BY <3>2
      <4>2. remote!Rename("index", r[1], r[2]) \in re
        BY <1>0
      <4> QED
        BY <1>3, <4>1, <4>2
    <3> QED
      BY <3>1, <3>2
  <2>3. ASSUME index[f] # 0, wt[f] = 0 PROVE \E j \in de : j.path = f
    <3>1. remote!Delete("tree", f) \in de
      BY <1>0, <2>3 DEF remote!DeletesOf
    <3>2. remote!Delete("tree", f).path = f
      BY DEF remote!Delete, remote!Job
    <3> QED
      BY <3>1, <3>2
  <2>4. ASSUME head[f] # 0, index[f] = 0
        PROVE  (\E j \in de : j.path = f) \/ (\E j \in re : j.path = f)
    <3>1. CASE \A r \in pairs : r[1] # f
      <4>1. remote!Delete("index", f) \in de
        BY <1>0, <2>4, <3>1 DEF remote!DeletesOf
      <4>2. remote!Delete("index", f).path = f
        BY DEF remote!Delete, remote!Job
      <4> QED
        BY <4>1, <4>2
    <3>2. CASE \E r \in pairs : r[1] = f
      <4>1. PICK r \in pairs : r[1] = f
        BY <3>2
      <4>2. remote!Rename("index", r[1], r[2]) \in re
        BY <1>0
      <4> QED
        BY <1>3, <4>1, <4>2
    <3> QED
      BY <3>1, <3>2
  <2>5. ASSUME head[f] # 0, index[f] = 0, wt[f] # 0 PROVE f \in again
    BY <1>0, <2>5
  <2> QED
    BY <2>1, <2>2, <2>3, <2>4, <2>5
<1>12. JobsFit(all, again, head, index, wt)
  BY <1>7, <1>8, <1>9, <1>10, <1>11 DEF JobsFit
<1> QED
  BY <1>6, <1>12

\* The groups that are left, and that the others are over; who is done with is not in a group
\* that is to come.
PlanFits(all) ==
  /\ plan \in {<<OfKind(all, "upload"), OfKind(all, "rename"), OfKind(all, "delete")>>,
               <<OfKind(all, "rename"), OfKind(all, "delete")>>, <<OfKind(all, "delete")>>, <<>>}
  /\ Len(plan) < 3 => \A j \in OfKind(all, "upload") : remote!Settled(j)
  /\ Len(plan) < 2 => \A j \in OfKind(all, "rename") : remote!Settled(j)
  /\ Len(plan) < 1 => \A j \in OfKind(all, "delete") : remote!Settled(j)
  /\ \A j \in OfKind(all, "rename") : job[j] \in {"done", "gone"} => Len(plan) < 3
  /\ \A j \in OfKind(all, "delete") : job[j] \in {"done", "gone"} => Len(plan) < 2

\* Whoever looks or acts has a folder to do so in, and who ensures one has noted what to make.
Over(p) == Cut(p, Len(p) - 1)
Frames(to) == [dir : {Cut(to, n) : n \in 1..(Len(to) - 1)}, again : BOOLEAN]
MissingFits(t, m, to) ==
  /\ m \in Seq(Frames(to))
  /\ m = <<>> => IsFolder(t, Over(to))
  /\ m # <<>> => m[1].dir = Over(to)
GroundedIn(t, j, place, m, wt) ==
  /\ place \in {"look", "act"} /\ j.kind # "delete" /\ (j.kind = "upload" => wt[j.path] # 0) =>
       IsFolder(t, Over(j.to))
  /\ place = "ensure" => MissingFits(t, m, j.to)
Grounded(all, wt) ==
  DOMAIN missing = all /\ \A j \in all : GroundedIn(tree, j, job[j], missing[j], wt)

\* What the jobs made of the files.
Has(t, f, content) == f \in DOMAIN t /\ t[f] = content
UploadsTold(all, again, wt) ==
  \A j \in OfKind(all, "upload") :
    /\ job[j] = "done" => wt[j.path] # 0 /\ (j.path \notin again => Has(tree, j.path, wt[j.path]))
    /\ job[j] = "gone" => wt[j.path] = 0
RenamesTold(all, head, wt) ==
  \A j \in OfKind(all, "rename") : wt[j.path] = 0 =>
    /\ job[j] # "gone"
    /\ job[j] = "done" => /\ j.path \notin DOMAIN tree
                          /\ wt[j.to] # 0 => Has(tree, j.to, head[j.path])
    /\ job[j] # "done" => Has(tree, j.path, head[j.path])
DeletesTold(all, wt) ==
  \A j \in OfKind(all, "delete") :
    job[j] \in {"done", "gone"} /\ wt[j.path] = 0 => j.path \notin DOMAIN tree
OthersStay(all, head) ==
  \A f \in Repository : (\A j \in all : j.path # f /\ j.to # f) =>
    IF head[f] # 0 THEN Has(tree, f, head[f]) ELSE f \notin DOMAIN tree
FilesTold(all, again, head, wt) ==
  /\ UploadsTold(all, again, wt) /\ RenamesTold(all, head, wt)
  /\ DeletesTold(all, wt) /\ OthersStay(all, head)

GitTo(all, again, head, index, wt) ==
  /\ DOMAIN job = all /\ files = wt /\ reused = again /\ ~replaces
  /\ JobsFit(all, again, head, index, wt)
  /\ PlanFits(all) /\ OfRepository(tree) /\ Grounded(all, wt) /\ FilesTold(all, again, head, wt)

\* At the end this is what was promised.
LEMMA GitArrives ==
  ASSUME NEW all, NEW again, NEW head, NEW index, NEW wt, GitTo(all, again, head, index, wt),
         plan = <<>>, NEW f \in Repository, f \notin reused
  PROVE  \/ \E j \in DOMAIN job : job[j] = "refused" /\ f \in {j.path, j.to}
         \/ IF files[f] = 0 THEN f \notin DOMAIN tree ELSE Has(tree, f, files[f])
<1> SUFFICES ASSUME \A j \in all : job[j] = "refused" => f # j.path /\ f # j.to
             PROVE  IF wt[f] = 0 THEN f \notin DOMAIN tree ELSE Has(tree, f, wt[f])
  BY DEF GitTo
<1>1. /\ JobsTyped(all) /\ UploadsFit(all, head, index, wt)
      /\ RenamesFit(all, again, head, index, wt) /\ DeletesFit(all, head, index, wt)
      /\ EachCovered(all, again, head, index, wt) /\ f \notin again
  BY DEF GitTo, JobsFit
<1>2. \A j \in all : f \in {j.path, j.to} => job[j] \in {"done", "gone"}
  <2>1. Len(plan) = 0
    OBVIOUS
  <2>2. \A j \in all : remote!Settled(j)
    BY <1>1, <2>1 DEF GitTo, PlanFits, JobsTyped, OfKind
  <2> QED
    BY <2>2 DEF remote!Settled
<1>3. /\ UploadsTold(all, again, wt) /\ RenamesTold(all, head, wt)
      /\ DeletesTold(all, wt) /\ OthersStay(all, head)
  BY DEF GitTo, FilesTold
<1>4. ASSUME NEW j \in OfKind(all, "upload"), j.path = f, wt[f] # 0
      PROVE  Has(tree, f, wt[f])
  BY <1>1, <1>2, <1>3, <1>4 DEF UploadsTold, OfKind
<1>5. ASSUME NEW j \in OfKind(all, "delete"), j.path = f, wt[f] = 0
      PROVE  f \notin DOMAIN tree
  BY <1>2, <1>3, <1>5 DEF DeletesTold, OfKind
<1>6. ASSUME NEW j \in OfKind(all, "rename"), j.path = f, wt[f] = 0
      PROVE  f \notin DOMAIN tree
  BY <1>2, <1>3, <1>6 DEF RenamesTold, OfKind
<1>7. ASSUME NEW j \in OfKind(all, "rename"), j.to = f, wt[f] = index[f], wt[f] # 0
      PROVE  Has(tree, f, wt[f])
  <2>1. wt[j.path] = 0 /\ index[f] = head[j.path]
    BY <1>1, <1>7 DEF RenamesFit
  <2>2. job[j] \in {"done", "gone"}
    BY <1>2, <1>7 DEF OfKind
  <2> QED
    BY <1>3, <1>7, <2>1, <2>2 DEF RenamesTold
<1>8. CASE wt[f] = 0
  <2>1. CASE index[f] # 0
    BY <1>1, <1>5, <1>8, <2>1 DEF EachCovered
  <2>2. CASE index[f] = 0 /\ head[f] # 0
    BY <1>1, <1>5, <1>6, <1>8, <2>2 DEF EachCovered
  <2>3. CASE index[f] = 0 /\ head[f] = 0
    <3>1. \A j \in all : j.path # f /\ j.to # f
      <4> SUFFICES ASSUME NEW j \in all PROVE j.path # f /\ j.to # f
        OBVIOUS
      <4>1. CASE j.kind = "upload"
        BY <1>1, <1>8, <2>3, <4>1 DEF JobsTyped, UploadsFit, OfKind
      <4>2. CASE j.kind = "rename"
        <5>1. head[j.path] # 0 /\ index[j.to] = head[j.path]
          BY <1>1, <4>2 DEF RenamesFit, OfKind
        <5> QED
          BY <2>3, <5>1
      <4>3. CASE j.kind = "delete"
        <5>1. head[j.path] # 0 \/ index[j.path] # 0
          BY <1>1, <4>3 DEF DeletesFit, OfKind
        <5> QED
          BY <1>1, <2>3, <4>3, <5>1 DEF JobsTyped
      <4> QED
        BY <1>1, <4>1, <4>2, <4>3 DEF JobsTyped
    <3> QED
      BY <1>3, <1>8, <2>3, <3>1 DEF OthersStay
  <2> QED
    BY <1>8, <2>1, <2>2, <2>3
<1>9. CASE wt[f] # 0
  <2>1. CASE wt[f] # index[f]
    BY <1>1, <1>4, <1>9, <2>1 DEF EachCovered
  <2>2. CASE wt[f] = index[f] /\ index[f] # head[f]
    BY <1>1, <1>4, <1>7, <1>9, <2>2 DEF EachCovered
  <2>3. CASE wt[f] = index[f] /\ index[f] = head[f]
    <3>1. \A j \in all : j.path # f /\ j.to # f
      <4> SUFFICES ASSUME NEW j \in all PROVE j.path # f /\ j.to # f
        OBVIOUS
      <4>1. CASE j.kind = "upload"
        BY <1>1, <1>9, <2>3, <4>1 DEF JobsTyped, UploadsFit, OfKind
      <4>2. CASE j.kind = "rename"
        <5>1. head[j.to] = 0 /\ index[j.path] = 0
          BY <1>1, <4>2 DEF RenamesFit, OfKind
        <5> QED
          BY <1>9, <2>3, <5>1
      <4>3. CASE j.kind = "delete"
        <5>1. index[j.path] = 0 \/ wt[j.path] = 0
          BY <1>1, <4>3 DEF DeletesFit, OfKind
        <5> QED
          BY <1>1, <1>9, <2>3, <4>3, <5>1 DEF JobsTyped
      <4> QED
        BY <1>1, <4>1, <4>2, <4>3 DEF JobsTyped
    <3> QED
      BY <1>3, <1>9, <2>3, <3>1 DEF OthersStay
  <2> QED
    BY <1>9, <2>1, <2>2, <2>3
<1> QED
  BY <1>8, <1>9

LEMMA OverIn ==
  ASSUME NEW p \in Repository \union Folders
  PROVE  Over(p) \in Folders \union {<<>>}
<1>1. p \in Seq(Name) /\ Len(p) \in Nat \ {0}
  BY RepositoryPaths, FolderPaths, EmptySeq
<1>2. CASE Len(p) = 1
  BY <1>2, SubSeqEmpty DEF Cut, Over
<1>3. CASE Len(p) # 1
  <2> DEFINE n == Len(p) - 1
  <2>1. \A k \in Nat \ {0} : k # 1 => k - 1 \in 1..(k - 1)
    OBVIOUS
  <2>2. n \in 1..(Len(p) - 1)
    BY <1>1, <1>3, <2>1
  <2>3. CASE p \in Repository
    BY <2>2, <2>3 DEF Folders, Over
  <2>4. CASE p \in Folders
    <3>1. PICK f \in Repository : \E m \in 1..(Len(f) - 1) : p = Cut(f, m)
      BY <2>4 DEF Folders
    <3>2. PICK m \in 1..(Len(f) - 1) : p = Cut(f, m)
      BY <3>1
    <3>3. f \in Seq(Name) /\ Len(f) \in Nat \ {0} /\ m \in 0..Len(f)
      BY RepositoryPaths
    <3>4. Len(p) = m
      BY <3>2, <3>3, CutFacts
    <3>5. n \in 0..m /\ n \in 1..(Len(f) - 1)
      BY <2>2, <3>3, <3>4
    <3> HIDE DEF n
    <3>6. Cut(p, n) = Cut(f, n)
      BY <3>2, <3>3, <3>5, CutCut
    <3> QED
      BY <3>5, <3>6 DEF Folders, Over, n
  <2> QED
    BY <2>3, <2>4
<1> QED
  BY <1>2, <1>3

\* The server has the last commit.
LEMMA CommittedTree ==
  ASSUME NEW head \in [Repository -> {0, 1}]
  PROVE  /\ OfRepository(remote!Committed(head))
         /\ \A f \in Repository : IF head[f] # 0 THEN Has(remote!Committed(head), f, head[f])
                                  ELSE f \notin DOMAIN remote!Committed(head)
<1> DEFINE stored == {f \in Repository : head[f] # 0}
           dirs == UNION {{Cut(f, n) : n \in 1..(Len(f) - 1)} : f \in stored}
           t == [p \in stored \union dirs |-> IF p \in stored THEN head[p] ELSE Dir]
<1>1. remote!Committed(head) = t
  BY DEF remote!Committed, Cut
<1>2. dirs \subseteq Folders
  BY DEF Folders
<1>3. \A f \in Repository : f \notin dirs
  BY <1>2, FolderPaths
<1>4. ASSUME NEW f \in stored, NEW n \in 1..(Len(f) - 1)
      PROVE  Cut(f, n) \in DOMAIN t /\ t[Cut(f, n)] = Dir
  <2>1. Cut(f, n) \in dirs
    OBVIOUS
  <2> QED
    BY <1>3, <2>1
<1>5. ASSUME NEW f \in stored, NEW m \in 1..(Len(f) - 1), NEW n \in 1..(Len(Cut(f, m)) - 1)
      PROVE  Cut(Cut(f, m), n) \in DOMAIN t /\ t[Cut(Cut(f, m), n)] = Dir
  <2>1. f \in Seq(Name) /\ Len(f) \in Nat \ {0} /\ m \in 0..Len(f)
    BY RepositoryPaths
  <2>2. Len(Cut(f, m)) = m
    BY <2>1, CutFacts
  <2>3. n \in 0..m /\ n \in 1..(Len(f) - 1)
    BY <2>1, <2>2
  <2>4. Cut(Cut(f, m), n) = Cut(f, n)
    BY <2>1, <2>3, CutCut
  <2> QED
    BY <1>4, <2>3, <2>4
<1>6. \A p \in DOMAIN t : \A n \in 1..(Len(p) - 1) : Cut(p, n) \in DOMAIN t /\ t[Cut(p, n)] = Dir
  <2> SUFFICES ASSUME NEW p \in DOMAIN t, NEW n \in 1..(Len(p) - 1)
               PROVE  Cut(p, n) \in DOMAIN t /\ t[Cut(p, n)] = Dir
    OBVIOUS
  <2>1. CASE p \in stored
    BY <1>4, <2>1
  <2>2. CASE p \in dirs
    <3>1. PICK f \in stored : \E m \in 1..(Len(f) - 1) : p = Cut(f, m)
      BY <2>2
    <3>2. PICK m \in 1..(Len(f) - 1) : p = Cut(f, m)
      BY <3>1
    <3> QED
      BY <1>5, <3>2
  <2> QED
    BY <2>1, <2>2
<1>7. DOMAIN t \subseteq Repository \union Folders
  BY <1>2
<1>8. DOMAIN t \subseteq Seq(Name) \ {<<>>}
  BY <1>7, FolderPaths, RepositoryPaths
<1>9. \A f \in Repository : IF head[f] # 0 THEN Has(t, f, head[f]) ELSE f \notin DOMAIN t
  BY <1>3 DEF Has
<1> HIDE DEF t
<1> QED
  BY <1>1, <1>6, <1>7, <1>8, <1>9 DEF OfRepository, Closed

LEMMA FirstFrame ==
  ASSUME NEW t, NEW to \in Repository, NEW m,
         m = (IF remote!Parent(to) = <<>> THEN <<>>
              ELSE <<[dir |-> remote!Parent(to), again |-> FALSE]>>)
  PROVE  MissingFits(t, m, to)
<1>1. remote!Parent(to) = Over(to)
  BY ParentIs DEF Over
<1>2. CASE Over(to) = <<>>
  <2>1. m = <<>>
    BY <1>1, <1>2
  <2> QED
    BY <1>2, <2>1, EmptySeq DEF MissingFits, IsFolder
<1>3. CASE Over(to) # <<>>
  <2>1. m = <<[dir |-> Over(to), again |-> FALSE]>>
    BY <1>1, <1>3
  <2>2. to \in Seq(Name) /\ Len(to) \in Nat \ {0}
    BY RepositoryPaths
  <2>3. Len(to) # 1
    <3> SUFFICES ASSUME Len(to) = 1 PROVE FALSE
      OBVIOUS
    <3>1. Over(to) = SubSeq(to, 1, 0)
      BY DEF Over, Cut
    <3>2. SubSeq(to, 1, 0) = <<>>
      BY SubSeqEmpty
    <3> QED
      BY <1>3, <3>1, <3>2
  <2>4. Len(to) - 1 \in 1..(Len(to) - 1)
    <3>1. \A k \in Nat \ {0} : k # 1 => k - 1 \in 1..(k - 1)
      OBVIOUS
    <3> QED
      BY <2>2, <2>3, <3>1
  <2>5. [dir |-> Over(to), again |-> FALSE] \in Frames(to)
    BY <2>4 DEF Frames, Over
  <2> DEFINE frame == [dir |-> Over(to), again |-> FALSE]
  <2>6. frame.dir = Over(to)
    OBVIOUS
  <2> HIDE DEF frame
  <2>7. <<frame>> \in Seq(Frames(to)) /\ <<frame>> # <<>> /\ <<frame>>[1] = frame
    BY <2>5 DEF frame
  <2> QED
    BY <2>1, <2>6, <2>7 DEF MissingFits, frame
<1> QED
  BY <1>2, <1>3

GitInv ==
  order = "git" => \E all, again, head, index, wt : GitTo(all, again, head, index, wt)

LEMMA GitStart ==
  ASSUME remote!InitGit,
         missing = [j \in DOMAIN job |->
           IF job[j] # "ensure" \/ remote!Parent(j.to) = <<>> THEN <<>>
           ELSE <<[dir |-> remote!Parent(j.to), again |-> FALSE]>>]
  PROVE  \E all, again, head, index, wt : GitTo(all, again, head, index, wt)
<1>1. PICK head \in [Repository -> {0, 1}], index \in [Repository -> Staged],
           wt \in [Repository -> Content] :
        \E pairs \in remote!Pairings(head, index) :
         LET uploads == remote!UploadsOf(head, index, wt, pairs)
             renames == {remote!Rename("index", r[1], r[2]) : r \in pairs}
             deletes == remote!DeletesOf(head, index, wt, pairs)
             again == {f \in Repository : head[f] # 0 /\ index[f] = 0 /\ wt[f] # 0}
         IN /\ files = wt /\ tree = remote!Committed(head) /\ first = tree
            /\ reused = again \union {r[2] : r \in {s \in pairs : s[1] \in again}}
            /\ plan = remote!Phases(uploads, renames, deletes)
            /\ job = [j \in uploads \union renames \union deletes |-> remote!Begin(j, wt)]
  BY DEF remote!InitGit
<1>2. PICK pairs \in remote!Pairings(head, index) :
         LET uploads == remote!UploadsOf(head, index, wt, pairs)
             renames == {remote!Rename("index", r[1], r[2]) : r \in pairs}
             deletes == remote!DeletesOf(head, index, wt, pairs)
             again == {f \in Repository : head[f] # 0 /\ index[f] = 0 /\ wt[f] # 0}
         IN /\ files = wt /\ tree = remote!Committed(head) /\ first = tree
            /\ reused = again \union {r[2] : r \in {s \in pairs : s[1] \in again}}
            /\ plan = remote!Phases(uploads, renames, deletes)
            /\ job = [j \in uploads \union renames \union deletes |-> remote!Begin(j, wt)]
  BY <1>1
<1> DEFINE up == remote!UploadsOf(head, index, wt, pairs)
           re == {remote!Rename("index", r[1], r[2]) : r \in pairs}
           de == remote!DeletesOf(head, index, wt, pairs)
           fresh == {f \in Repository : head[f] # 0 /\ index[f] = 0 /\ wt[f] # 0}
           again == fresh \union {r[2] : r \in {s \in pairs : s[1] \in fresh}}
           all == up \union re \union de
<1>3. /\ files = wt /\ tree = remote!Committed(head) /\ reused = again /\ ~replaces
      /\ plan = remote!Phases(up, re, de) /\ job = [j \in all |-> remote!Begin(j, wt)]
  BY <1>2 DEF remote!InitGit
<1>4. /\ JobsFit(all, again, head, index, wt)
      /\ up = OfKind(all, "upload") /\ re = OfKind(all, "rename") /\ de = OfKind(all, "delete")
  <2>1. Staging(head, index, wt, pairs, up, re, de, again)
    BY DEF Staging
  <2> HIDE DEF again, up, re, de
  <2> QED
    BY <2>1, JobsBegin
<1> HIDE DEF again, all, up, re, de
<1>5. /\ OfRepository(tree)
      /\ \A f \in Repository : IF head[f] # 0 THEN Has(tree, f, head[f]) ELSE f \notin DOMAIN tree
  BY <1>3, CommittedTree
<1>6. DOMAIN job = all /\ \A j \in all : job[j] = remote!Begin(j, wt)
  BY <1>3
<1>7. \A j \in all : job[j] \in {"ensure", "look", "act"}
  BY <1>6 DEF remote!Begin
<1>8. PlanFits(all)
  <2>1. plan = <<OfKind(all, "upload"), OfKind(all, "rename"), OfKind(all, "delete")>>
    BY <1>3, <1>4 DEF remote!Phases
  <2>2. Len(plan) = 3
    BY <2>1
  <2>3. \A j \in all : job[j] \notin {"done", "gone"}
    BY <1>7
  <2> QED
    BY <2>1, <2>2, <2>3 DEF PlanFits, OfKind
<1>9. FilesTold(all, again, head, wt)
  <2>1. \A j \in all : job[j] \notin {"done", "gone"}
    BY <1>7
  <2>2. \A j \in OfKind(all, "rename") : j.path \in Repository /\ head[j.path] # 0
    BY <1>4 DEF JobsFit, JobsTyped, RenamesFit, OfKind
  <2> QED
    BY <1>5, <2>1, <2>2 DEF FilesTold, UploadsTold, RenamesTold, DeletesTold, OthersStay, OfKind
<1>10. Grounded(all, wt)
  <2>1. DOMAIN missing = all
    BY <1>6
  <2> SUFFICES ASSUME NEW j \in all PROVE GroundedIn(tree, j, job[j], missing[j], wt)
    BY <2>1 DEF Grounded
  <2>2. /\ j.path \in Repository /\ j.to \in Repository
        /\ j.kind \in {"upload", "rename", "delete"}
        /\ j.kind # "rename" => j.to = j.path
    BY <1>4 DEF JobsFit, JobsTyped
  <2>3. CASE job[j] = "ensure"
    <3>1. missing[j] = (IF remote!Parent(j.to) = <<>> THEN <<>>
                        ELSE <<[dir |-> remote!Parent(j.to), again |-> FALSE]>>)
      BY <1>6, <2>3
    <3>2. MissingFits(tree, missing[j], j.to)
      BY <2>2, <3>1, FirstFrame
    <3> QED
      BY <2>3, <3>2 DEF GroundedIn
  <2>4. CASE job[j] = "look"
    <3>1. j.kind = "rename" /\ remote!Parent(j.path) = remote!Parent(j.to)
      BY <1>6, <2>2, <2>4 DEF remote!Begin
    <3>2. j.path \in DOMAIN tree
      BY <1>4, <1>5, <2>2, <3>1 DEF JobsFit, RenamesFit, OfKind, Has
    <3>3. IsFolder(tree, Over(j.path))
      BY <1>5, <3>2, ParentFolder DEF Over, OfRepository
    <3>4. Over(j.path) = Over(j.to)
      BY <3>1, ParentIs DEF Over
    <3> QED
      BY <2>4, <3>3, <3>4 DEF GroundedIn
  <2>5. CASE job[j] = "act"
    <3>0. remote!Begin(j, wt) = "act"
      BY <1>6, <2>5
    <3>1. j.kind = "delete" \/ (j.kind = "upload" /\ wt[j.path] = 0)
      <4>1. j.kind # "rename"
        BY <3>0 DEF remote!Begin
      <4>2. j.kind = "upload" => wt[j.path] = 0
        BY <3>0 DEF remote!Begin
      <4> QED
        BY <2>2, <4>1, <4>2
    <3> QED
      BY <2>5, <3>1 DEF GroundedIn
  <2> QED
    BY <1>7, <2>3, <2>4, <2>5
<1>11. GitTo(all, again, head, index, wt)
  BY <1>3, <1>4, <1>5, <1>6, <1>8, <1>9, <1>10 DEF GitTo
<1> QED
  BY <1>11

\* The jobs, the folders and the files that a step leaves alone.
JobsBut(all, j) == \A i \in all : i # j => job'[i] = job[i]
JobGoes(all, j, place) == DOMAIN job' = all /\ job'[j] = place /\ JobsBut(all, j)
FoldersStay == \A d \in Folders : Has(tree, d, Dir) => Has(tree', d, Dir)
FilesBut(F) ==
  \A f \in Repository \ F : /\ f \in DOMAIN tree' <=> f \in DOMAIN tree
                            /\ f \in DOMAIN tree => tree'[f] = tree[f]

LEMMA HeadKind ==
  ASSUME NEW all, PlanFits(all), plan # <<>>, NEW j \in Head(plan)
  PROVE  /\ j \in all
         /\ \/ Len(plan) = 3 /\ j.kind = "upload"
            \/ Len(plan) = 2 /\ j.kind = "rename"
            \/ Len(plan) = 1 /\ j.kind = "delete"
<1>1. CASE plan = <<OfKind(all, "upload"), OfKind(all, "rename"), OfKind(all, "delete")>>
  BY <1>1 DEF OfKind
<1>2. CASE plan = <<OfKind(all, "rename"), OfKind(all, "delete")>>
  BY <1>2 DEF OfKind
<1>3. CASE plan = <<OfKind(all, "delete")>>
  BY <1>3 DEF OfKind
<1> QED
  BY <1>1, <1>2, <1>3 DEF PlanFits

LEMMA PlanStep ==
  ASSUME NEW all, PlanFits(all), JobsTyped(all), DOMAIN job = all, plan # <<>>, NEW j \in Head(plan),
         NEW place, JobGoes(all, j, place), plan' = plan
  PROVE  PlanFits(all)'
<1>1. /\ j \in all
      /\ \/ Len(plan) = 3 /\ j.kind = "upload"
         \/ Len(plan) = 2 /\ j.kind = "rename"
         \/ Len(plan) = 1 /\ j.kind = "delete"
  BY HeadKind
<1>2. \A i \in all : i # j => job'[i] = job[i]
  BY DEF JobGoes, JobsBut
<1>3. \A i \in all : i # j => (remote!Settled(i) => remote!Settled(i)')
  BY <1>2 DEF remote!Settled
<1>4. Len(plan)' = Len(plan)
  OBVIOUS
<1> DEFINE n == Len(plan)
<1>5. /\ n < 3 => \A i \in OfKind(all, "upload") : remote!Settled(i)'
      /\ n < 2 => \A i \in OfKind(all, "rename") : remote!Settled(i)'
      /\ n < 1 => \A i \in OfKind(all, "delete") : remote!Settled(i)'
  BY <1>1, <1>3 DEF PlanFits, OfKind
<1>6. /\ \A i \in OfKind(all, "rename") : job'[i] \in {"done", "gone"} => n < 3
      /\ \A i \in OfKind(all, "delete") : job'[i] \in {"done", "gone"} => n < 2
  <2>1. /\ \A i \in OfKind(all, "rename") : job[i] \in {"done", "gone"} => n < 3
        /\ \A i \in OfKind(all, "delete") : job[i] \in {"done", "gone"} => n < 2
    BY DEF PlanFits
  <2>4. j.kind = "rename" => n = 2
    BY <1>1
  <2>5. j.kind = "delete" => n = 1
    BY <1>1
  <2> HIDE DEF n
  <2>2. ASSUME NEW i \in OfKind(all, "rename"), job'[i] \in {"done", "gone"} PROVE n < 3
    <3>1. i \in all /\ i.kind = "rename"
      BY DEF OfKind
    <3>2. CASE i = j
      BY <2>4, <2>5, <3>1, <3>2
    <3>3. CASE i # j
      BY <1>2, <2>1, <2>2, <3>1, <3>3
    <3> QED
      BY <3>2, <3>3
  <2>3. ASSUME NEW i \in OfKind(all, "delete"), job'[i] \in {"done", "gone"} PROVE n < 2
    <3>1. i \in all /\ i.kind = "delete"
      BY DEF OfKind
    <3>2. CASE i = j
      BY <2>4, <2>5, <3>1, <3>2
    <3>3. CASE i # j
      BY <1>2, <2>1, <2>3, <3>1, <3>3
    <3> QED
      BY <3>2, <3>3
  <2> QED
    BY <2>2, <2>3
<1> QED
  BY <1>4, <1>5, <1>6 DEF PlanFits

LEMMA PlanProceeds ==
  ASSUME NEW all, PlanFits(all), DOMAIN job = all, remote!Proceed
  PROVE  PlanFits(all)'
<1>1. plan # <<>> /\ plan' = Tail(plan) /\ job' = job /\ \A j \in Head(plan) : remote!Settled(j)
  BY DEF remote!Proceed
<1> DEFINE up == OfKind(all, "upload")
           re == OfKind(all, "rename")
           de == OfKind(all, "delete")
<1>2. \/ plan = <<up, re, de>> /\ plan' = <<re, de>> /\ Head(plan) = up
      \/ plan = <<re, de>> /\ plan' = <<de>> /\ Head(plan) = re
      \/ plan = <<de>> /\ plan' = <<>> /\ Head(plan) = de
  <2>1. plan \in {<<up, re, de>>, <<re, de>>, <<de>>}
    BY <1>1 DEF PlanFits
  <2> HIDE DEF up, re, de
  <2>2. Tail(<<up, re, de>>) = <<re, de>> /\ Tail(<<re, de>>) = <<de>> /\ Tail(<<de>>) = <<>>
    OBVIOUS
  <2>3. Head(<<up, re, de>>) = up /\ Head(<<re, de>>) = re /\ Head(<<de>>) = de
    OBVIOUS
  <2> QED
    BY <1>1, <2>1, <2>2, <2>3
<1>3. \A j \in all : remote!Settled(j)' <=> remote!Settled(j)
  BY <1>1 DEF remote!Settled
<1>4. \/ Len(plan) = 3 /\ Len(plan') = 2 /\ \A j \in up : remote!Settled(j)
      \/ Len(plan) = 2 /\ Len(plan') = 1 /\ \A j \in re : remote!Settled(j)
      \/ Len(plan) = 1 /\ Len(plan') = 0 /\ \A j \in de : remote!Settled(j)
  <2> HIDE DEF up, re, de
  <2> QED
    BY <1>1, <1>2
<1>5. plan' \in {<<up, re, de>>, <<re, de>>, <<de>>, <<>>}
  BY <1>2
<1>6. /\ Len(plan') < 3 => \A j \in up : remote!Settled(j)
      /\ Len(plan') < 2 => \A j \in re : remote!Settled(j)
      /\ Len(plan') < 1 => \A j \in de : remote!Settled(j)
      /\ \A j \in re : job[j] \in {"done", "gone"} => Len(plan') < 3
      /\ \A j \in de : job[j] \in {"done", "gone"} => Len(plan') < 2
  <2>1. /\ Len(plan) < 3 => \A j \in up : remote!Settled(j)
        /\ Len(plan) < 2 => \A j \in re : remote!Settled(j)
        /\ Len(plan) < 1 => \A j \in de : remote!Settled(j)
        /\ \A j \in re : job[j] \in {"done", "gone"} => Len(plan) < 3
        /\ \A j \in de : job[j] \in {"done", "gone"} => Len(plan) < 2
    BY DEF PlanFits
  <2> DEFINE n == Len(plan)
             m == Len(plan')
  <2> HIDE DEF up, re, de, n, m
  <2>2. /\ n < 3 => \A j \in up : remote!Settled(j)
        /\ n < 2 => \A j \in re : remote!Settled(j)
        /\ \A j \in re : job[j] \in {"done", "gone"} => n < 3
        /\ \A j \in de : job[j] \in {"done", "gone"} => n < 2
    BY <2>1 DEF n
  <2>3. \/ n = 3 /\ m = 2 /\ \A j \in up : remote!Settled(j)
        \/ n = 2 /\ m = 1 /\ \A j \in re : remote!Settled(j)
        \/ n = 1 /\ m = 0 /\ \A j \in de : remote!Settled(j)
    BY <1>4 DEF n, m
  <2>4. /\ m < 3 => \A j \in up : remote!Settled(j)
        /\ m < 2 => \A j \in re : remote!Settled(j)
        /\ m < 1 => \A j \in de : remote!Settled(j)
        /\ \A j \in re : job[j] \in {"done", "gone"} => m < 3
        /\ \A j \in de : job[j] \in {"done", "gone"} => m < 2
    BY <2>2, <2>3
  <2> QED
    BY <2>4 DEF m
<1>7. /\ Len(plan') < 3 => \A j \in up : remote!Settled(j)'
      /\ Len(plan') < 2 => \A j \in re : remote!Settled(j)'
      /\ Len(plan') < 1 => \A j \in de : remote!Settled(j)'
      /\ \A j \in re : job'[j] \in {"done", "gone"} => Len(plan') < 3
      /\ \A j \in de : job'[j] \in {"done", "gone"} => Len(plan') < 2
  BY <1>1, <1>3, <1>6 DEF OfKind
<1> QED
  BY <1>5, <1>7 DEF PlanFits

\* Nobody takes a folder away, and only j's place changes.
LEMMA GroundedStep ==
  ASSUME NEW all, NEW wt, JobsTyped(all), Grounded(all, wt), NEW j \in all,
         FoldersStay,
         \A i \in all : i # j => job'[i] = job[i] /\ missing'[i] = missing[i],
         DOMAIN missing' = all, GroundedIn(tree', j, job'[j], missing'[j], wt)
  PROVE  Grounded(all, wt)'
<1> SUFFICES ASSUME NEW i \in all, i # j PROVE GroundedIn(tree', i, job'[i], missing'[i], wt)
  BY DEF Grounded
<1>1. GroundedIn(tree, i, job[i], missing[i], wt) /\ job'[i] = job[i] /\ missing'[i] = missing[i]
  BY DEF Grounded
<1>2. Over(i.to) \in Folders \union {<<>>}
  BY OverIn DEF JobsTyped
<1>3. IsFolder(tree, Over(i.to)) => IsFolder(tree', Over(i.to))
  BY <1>2 DEF IsFolder, Has, FoldersStay
<1> QED
  BY <1>1, <1>3 DEF GroundedIn, MissingFits

\* What leaves the files alone, and is the end of no job.
LEMMA FilesSame ==
  ASSUME NEW all, NEW again, NEW head, NEW wt, JobsTyped(all), FilesTold(all, again, head, wt),
         \A f \in Repository : /\ f \in DOMAIN tree' <=> f \in DOMAIN tree
                               /\ f \in DOMAIN tree => tree'[f] = tree[f],
         \A i \in all : job'[i] = job[i] \/ {job[i], job'[i]} \intersect {"done", "gone"} = {}
  PROVE  FilesTold(all, again, head, wt)'
<1>1. \A f \in Repository : \A content : Has(tree', f, content) <=> Has(tree, f, content)
  BY DEF Has
<1>2. \A i \in all : /\ job'[i] = "done" <=> job[i] = "done"
                     /\ job'[i] = "gone" <=> job[i] = "gone"
  OBVIOUS
<1>3. \A kind : \A i \in OfKind(all, kind) : i \in all /\ i.path \in Repository /\ i.to \in Repository
  BY DEF JobsTyped, OfKind
<1>4. UploadsTold(all, again, wt)'
  BY <1>1, <1>2, <1>3 DEF UploadsTold, FilesTold
<1>5. RenamesTold(all, head, wt)'
  BY <1>1, <1>2, <1>3 DEF RenamesTold, FilesTold
<1>6. DeletesTold(all, wt)'
  BY <1>2, <1>3 DEF DeletesTold, FilesTold
<1>7. OthersStay(all, head)'
  BY <1>1 DEF OthersStay, FilesTold
<1> QED
  BY <1>4, <1>5, <1>6, <1>7 DEF FilesTold

LEMMA FilesPut ==
  ASSUME NEW all, NEW again, NEW head, NEW wt, JobsTyped(all), FilesTold(all, again, head, wt),
         NEW j \in OfKind(all, "upload"), JobsBut(all, j), job'[j] = "done", wt[j.path] # 0,
         Has(tree', j.path, wt[j.path]), FilesBut({j.path}),
         \A i \in all : i.kind # "upload" => job[i] \notin {"done", "gone"}
  PROVE  FilesTold(all, again, head, wt)'
<1>1. \A f \in Repository \ {j.path} : \A content : Has(tree', f, content) <=> Has(tree, f, content)
  BY DEF Has, FilesBut
<1>2. \A kind : \A i \in OfKind(all, kind) :
        i \in all /\ i.path \in Repository /\ i.to \in Repository /\ i.kind = kind
  BY DEF JobsTyped, OfKind
<1>3. UploadsTold(all, again, wt)'
  BY <1>1, <1>2 DEF UploadsTold, FilesTold, JobsBut
<1>4. RenamesTold(all, head, wt)'
  <2> SUFFICES ASSUME NEW i \in OfKind(all, "rename"), wt[i.path] = 0
               PROVE  job'[i] \notin {"done", "gone"} /\ Has(tree', i.path, head[i.path])
    BY DEF RenamesTold
  <2>1. i \in all /\ i.kind = "rename" /\ i # j /\ i.path # j.path /\ i.path \in Repository
    BY <1>2
  <2>2. job'[i] = job[i] /\ job[i] \notin {"done", "gone"}
    BY <2>1 DEF JobsBut
  <2>3. Has(tree, i.path, head[i.path])
    BY <2>2 DEF RenamesTold, FilesTold
  <2> QED
    BY <1>1, <2>1, <2>2, <2>3
<1>5. DeletesTold(all, wt)'
  <2>1. \A i \in OfKind(all, "delete") : job'[i] \notin {"done", "gone"}
    BY <1>2 DEF JobsBut
  <2> QED
    BY <2>1 DEF DeletesTold
<1>6. OthersStay(all, head)'
  <2>1. \A f \in Repository : (\A i \in all : i.path # f /\ i.to # f) => f # j.path
    BY <1>2
  <2> QED
    BY <1>1, <2>1 DEF OthersStay, FilesTold, FilesBut
<1> QED
  BY <1>3, <1>4, <1>5, <1>6 DEF FilesTold

\* An upload of what is no longer there, and a rename of it.
LEMMA FilesGone ==
  ASSUME NEW all, NEW again, NEW head, NEW wt, JobsTyped(all), FilesTold(all, again, head, wt),
         NEW j \in all, JobsBut(all, j), job'[j] = "gone", FilesBut({}),
         \/ j.kind = "upload" /\ wt[j.path] = 0
         \/ j.kind = "rename" /\ wt[j.path] # 0
  PROVE  FilesTold(all, again, head, wt)'
<1>1. \A f \in Repository : \A content : Has(tree', f, content) <=> Has(tree, f, content)
  BY DEF Has, FilesBut
<1>2. \A kind : \A i \in OfKind(all, kind) :
        i \in all /\ i.path \in Repository /\ i.to \in Repository /\ i.kind = kind
  BY DEF JobsTyped, OfKind
<1>3. UploadsTold(all, again, wt)'
  BY <1>1, <1>2 DEF UploadsTold, FilesTold, JobsBut
<1>4. RenamesTold(all, head, wt)'
  <2> SUFFICES ASSUME NEW i \in OfKind(all, "rename"), wt[i.path] = 0
               PROVE  /\ job'[i] # "gone"
                      /\ job'[i] = "done" => /\ i.path \notin DOMAIN tree'
                                             /\ wt[i.to] # 0 => Has(tree', i.to, head[i.path])
                      /\ job'[i] # "done" => Has(tree', i.path, head[i.path])
    BY DEF RenamesTold
  <2>1. i \in all /\ i # j /\ job'[i] = job[i] /\ i.path \in Repository /\ i.to \in Repository
    BY <1>2 DEF JobsBut
  <2> QED
    BY <1>1, <2>1 DEF RenamesTold, FilesTold, FilesBut
<1>5. DeletesTold(all, wt)'
  BY <1>2 DEF DeletesTold, FilesTold, FilesBut, JobsBut
<1>6. OthersStay(all, head)'
  BY <1>1 DEF OthersStay, FilesTold, FilesBut
<1> QED
  BY <1>3, <1>4, <1>5, <1>6 DEF FilesTold

LEMMA FilesMoved ==
  ASSUME NEW all, NEW again, NEW head, NEW index, NEW wt, JobsFit(all, again, head, index, wt),
         FilesTold(all, again, head, wt), NEW j \in OfKind(all, "rename"), JobsBut(all, j),
         job[j] \notin {"done", "gone"}, job'[j] = "done",
         j.path \in DOMAIN tree, j.to \notin DOMAIN tree, j.path \notin DOMAIN tree',
         Has(tree', j.to, tree[j.path]), FilesBut({j.path, j.to}),
         \A i \in all : i.kind = "delete" => job[i] \notin {"done", "gone"}
  PROVE  FilesTold(all, again, head, wt)'
<1>1. \A f \in Repository \ {j.path, j.to} :
        \A content : Has(tree', f, content) <=> Has(tree, f, content)
  BY DEF Has, FilesBut
<1>2. \A kind : \A i \in OfKind(all, kind) :
        i \in all /\ i.path \in Repository /\ i.to \in Repository /\ i.kind = kind
  BY DEF JobsFit, JobsTyped, OfKind
<1>3. head[j.path] # 0 /\ index[j.path] = 0 /\ head[j.to] = 0
  BY DEF JobsFit, RenamesFit
<1>4. UploadsTold(all, again, wt)'
  <2> SUFFICES ASSUME NEW i \in OfKind(all, "upload")
               PROVE  /\ job'[i] = "done" => wt[i.path] # 0
                           /\ (i.path \notin again => Has(tree', i.path, wt[i.path]))
                      /\ job'[i] = "gone" => wt[i.path] = 0
    BY DEF UploadsTold
  <2>1. i \in all /\ i # j /\ job'[i] = job[i] /\ i.path \in Repository
    BY <1>2 DEF JobsBut
  <2>2. /\ job[i] = "done" => wt[i.path] # 0
             /\ (i.path \notin again => Has(tree, i.path, wt[i.path]))
        /\ job[i] = "gone" => wt[i.path] = 0
    BY DEF FilesTold, UploadsTold
  <2>3. ASSUME job[i] = "done", i.path \notin again PROVE i.path # j.path /\ i.path # j.to
    <3>1. wt[i.path] # 0 /\ i.path \in DOMAIN tree
      BY <2>2, <2>3 DEF Has
    <3>2. i.path # j.path
      BY <1>3, <2>1, <2>3, <3>1 DEF JobsFit, EachCovered
    <3> QED
      BY <3>1, <3>2
  <2> QED
    BY <1>1, <2>1, <2>2, <2>3
<1>5. RenamesTold(all, head, wt)'
  <2> SUFFICES ASSUME NEW i \in OfKind(all, "rename"), wt[i.path] = 0
               PROVE  /\ job'[i] # "gone"
                      /\ job'[i] = "done" => /\ i.path \notin DOMAIN tree'
                                             /\ wt[i.to] # 0 => Has(tree', i.to, head[i.path])
                      /\ job'[i] # "done" => Has(tree', i.path, head[i.path])
    BY DEF RenamesTold
  <2>1. /\ job[i] # "gone"
        /\ job[i] = "done" => /\ i.path \notin DOMAIN tree
                              /\ wt[i.to] # 0 => Has(tree, i.to, head[i.path])
        /\ job[i] # "done" => Has(tree, i.path, head[i.path])
    BY DEF FilesTold, RenamesTold
  <2>2. CASE i = j
    <3>1. tree[j.path] = head[j.path]
      BY <2>1, <2>2 DEF Has
    <3> QED
      BY <2>2, <3>1
  <2>3. CASE i # j
    <3>1. i \in all /\ job'[i] = job[i] /\ i.path \in Repository /\ i.to \in Repository
      BY <1>2, <2>3 DEF JobsBut
    <3>2. i.path # j.path /\ i.to # j.to
      BY <2>3 DEF JobsFit, RenamesFit
    <3>3. i.path # j.to /\ i.to # j.path
      BY <1>3 DEF JobsFit, RenamesFit
    <3>4. i.path \in DOMAIN tree' <=> i.path \in DOMAIN tree
      BY <3>1, <3>2, <3>3 DEF FilesBut
    <3> QED
      BY <1>1, <2>1, <3>1, <3>2, <3>3, <3>4
  <2> QED
    BY <2>2, <2>3
<1>6. DeletesTold(all, wt)'
  <2>1. \A i \in OfKind(all, "delete") : job'[i] \notin {"done", "gone"}
    BY <1>2 DEF JobsBut
  <2> QED
    BY <2>1 DEF DeletesTold
<1>7. OthersStay(all, head)'
  <2>1. \A f \in Repository : (\A i \in all : i.path # f /\ i.to # f) => f \notin {j.path, j.to}
    BY <1>2
  <2> QED
    BY <1>1, <2>1 DEF OthersStay, FilesTold, FilesBut
<1> QED
  BY <1>4, <1>5, <1>6, <1>7 DEF FilesTold

LEMMA FilesErased ==
  ASSUME NEW all, NEW again, NEW head, NEW index, NEW wt, JobsFit(all, again, head, index, wt),
         FilesTold(all, again, head, wt), NEW j \in OfKind(all, "delete"), JobsBut(all, j),
         job'[j] \in {"done", "gone"}, j.path \notin DOMAIN tree', FilesBut({j.path})
  PROVE  FilesTold(all, again, head, wt)'
<1>1. \A f \in Repository \ {j.path} : \A content : Has(tree', f, content) <=> Has(tree, f, content)
  BY DEF Has, FilesBut
<1>2. \A kind : \A i \in OfKind(all, kind) :
        i \in all /\ i.path \in Repository /\ i.to \in Repository /\ i.kind = kind
  BY DEF JobsFit, JobsTyped, OfKind
<1>3. \/ /\ head[j.path] # 0 /\ index[j.path] = 0
         /\ \A i \in OfKind(all, "rename") : i.path # j.path
      \/ index[j.path] # 0 /\ wt[j.path] = 0
  BY DEF JobsFit, DeletesFit
<1>4. UploadsTold(all, again, wt)'
  <2> SUFFICES ASSUME NEW i \in OfKind(all, "upload")
               PROVE  /\ job'[i] = "done" => wt[i.path] # 0
                           /\ (i.path \notin again => Has(tree', i.path, wt[i.path]))
                      /\ job'[i] = "gone" => wt[i.path] = 0
    BY DEF UploadsTold
  <2>1. i \in all /\ i # j /\ job'[i] = job[i] /\ i.path \in Repository
    BY <1>2 DEF JobsBut
  <2>2. /\ job[i] = "done" => wt[i.path] # 0
             /\ (i.path \notin again => Has(tree, i.path, wt[i.path]))
        /\ job[i] = "gone" => wt[i.path] = 0
    BY DEF FilesTold, UploadsTold
  <2>3. ASSUME job[i] = "done", i.path \notin again PROVE i.path # j.path
    <3>1. wt[i.path] # 0
      BY <2>2, <2>3
    <3> QED
      BY <1>3, <2>1, <2>3, <3>1 DEF JobsFit, EachCovered
  <2> QED
    BY <1>1, <2>1, <2>2, <2>3
<1>5. RenamesTold(all, head, wt)'
  <2> SUFFICES ASSUME NEW i \in OfKind(all, "rename"), wt[i.path] = 0
               PROVE  /\ job'[i] # "gone"
                      /\ job'[i] = "done" => /\ i.path \notin DOMAIN tree'
                                             /\ wt[i.to] # 0 => Has(tree', i.to, head[i.path])
                      /\ job'[i] # "done" => Has(tree', i.path, head[i.path])
    BY DEF RenamesTold
  <2>1. /\ job[i] # "gone"
        /\ job[i] = "done" => /\ i.path \notin DOMAIN tree
                              /\ wt[i.to] # 0 => Has(tree, i.to, head[i.path])
        /\ job[i] # "done" => Has(tree, i.path, head[i.path])
    BY DEF FilesTold, RenamesTold
  <2>2. i \in all /\ i # j /\ job'[i] = job[i] /\ i.path \in Repository /\ i.to \in Repository
    BY <1>2 DEF JobsBut
  <2>3. i.path # j.path
    BY <1>3 DEF JobsFit, RenamesFit
  <2>4. wt[i.to] # 0 => i.to # j.path
    BY <1>3 DEF JobsFit, RenamesFit
  <2>5. i.path \in DOMAIN tree' <=> i.path \in DOMAIN tree
    BY <2>2, <2>3 DEF FilesBut
  <2> QED
    BY <1>1, <2>1, <2>2, <2>3, <2>4, <2>5
<1>6. DeletesTold(all, wt)'
  <2> SUFFICES ASSUME NEW i \in OfKind(all, "delete"), job'[i] \in {"done", "gone"}, wt[i.path] = 0
               PROVE  i.path \notin DOMAIN tree'
    BY DEF DeletesTold
  <2>1. CASE i.path = j.path
    BY <2>1
  <2>2. CASE i.path # j.path
    <3>1. i \in all /\ i # j /\ i.path \in Repository
      BY <1>2, <2>2
    <3>2. i.path \notin DOMAIN tree
      BY <3>1 DEF FilesTold, DeletesTold, JobsBut
    <3> QED
      BY <2>2, <3>1, <3>2 DEF FilesBut
  <2> QED
    BY <2>1, <2>2
<1>7. OthersStay(all, head)'
  <2>1. \A f \in Repository : (\A i \in all : i.path # f /\ i.to # f) => f # j.path
    BY <1>2
  <2> QED
    BY <1>1, <2>1 DEF OthersStay, FilesTold, FilesBut
<1> QED
  BY <1>4, <1>5, <1>6, <1>7 DEF FilesTold

LEMMA GitNext ==
  ASSUME NEW all, NEW again, NEW head, NEW index, NEW wt, GitTo(all, again, head, index, wt),
         plan # <<>>, NEW j \in Head(plan), NEW place, JobGoes(all, j, place),
         remote!Unchanged, OfRepository(tree'), Grounded(all, wt)', FilesTold(all, again, head, wt)'
  PROVE  GitTo(all, again, head, index, wt)'
<1>1. /\ PlanFits(all) /\ JobsTyped(all) /\ DOMAIN job = all /\ files = wt /\ reused = again
      /\ ~replaces /\ JobsFit(all, again, head, index, wt)
  BY DEF GitTo, JobsFit
<1>2. UNCHANGED <<files, reused, replaces, plan>>
  BY DEF remote!Unchanged
<1>3. PlanFits(all)'
  BY <1>1, <1>2, PlanStep
<1>4. DOMAIN job' = all
  BY DEF JobGoes
<1> QED
  BY <1>1, <1>2, <1>3, <1>4 DEF GitTo

\* What a job that is next is, and what is known of it.
LEMMA GitFacts ==
  ASSUME NEW all, NEW again, NEW head, NEW index, NEW wt, GitTo(all, again, head, index, wt),
         plan # <<>>, NEW j \in Head(plan)
  PROVE  /\ j \in all /\ j.path \in Repository /\ j.to \in Repository
         /\ j.kind # "rename" => j.to = j.path
         /\ \/ j.kind = "upload" /\ \A i \in all : i.kind # "upload" => job[i] \notin {"done", "gone"}
            \/ j.kind = "rename" /\ \A i \in all : i.kind = "delete" => job[i] \notin {"done", "gone"}
            \/ j.kind = "delete"
         /\ GroundedIn(tree, j, job[j], missing[j], wt)
<1>1. /\ j \in all
      /\ \/ Len(plan) = 3 /\ j.kind = "upload"
         \/ Len(plan) = 2 /\ j.kind = "rename"
         \/ Len(plan) = 1 /\ j.kind = "delete"
  BY HeadKind DEF GitTo
<1>2. j.path \in Repository /\ j.to \in Repository /\ (j.kind # "rename" => j.to = j.path)
  BY <1>1 DEF GitTo, JobsFit, JobsTyped
<1> DEFINE n == Len(plan)
<1>3. /\ \A i \in OfKind(all, "rename") : job[i] \in {"done", "gone"} => n < 3
      /\ \A i \in OfKind(all, "delete") : job[i] \in {"done", "gone"} => n < 2
  BY DEF GitTo, PlanFits
<1>4. /\ j.kind = "upload" => n = 3
      /\ j.kind = "rename" => n = 2
  BY <1>1
<1> HIDE DEF n
<1>5. \A i \in all : i.kind \in {"upload", "rename", "delete"}
  BY DEF GitTo, JobsFit, JobsTyped
<1>6. \A i \in all : i.kind = "delete" /\ n >= 2 /\ n \in Nat => job[i] \notin {"done", "gone"}
  BY <1>3 DEF OfKind
<1>7. \A i \in all : i.kind = "rename" /\ n >= 3 /\ n \in Nat => job[i] \notin {"done", "gone"}
  BY <1>3 DEF OfKind
<1>8. j.kind = "upload" => \A i \in all : i.kind # "upload" => job[i] \notin {"done", "gone"}
  BY <1>4, <1>5, <1>6, <1>7
<1>9. j.kind = "rename" => \A i \in all : i.kind = "delete" => job[i] \notin {"done", "gone"}
  BY <1>4, <1>6
<1>10. GroundedIn(tree, j, job[j], missing[j], wt)
  BY <1>1 DEF GitTo, Grounded
<1> QED
  BY <1>1, <1>2, <1>8, <1>9, <1>10

\* A job that goes on, or fails, and changes no file.
LEMMA GitGoes ==
  ASSUME NEW all, NEW again, NEW head, NEW index, NEW wt, GitTo(all, again, head, index, wt),
         plan # <<>>, NEW j \in Head(plan), NEW place, JobGoes(all, j, place),
         remote!Unchanged, {job[j], place} \intersect {"done", "gone"} = {},
         OfRepository(tree'), DOMAIN missing' = all,
         \A i \in all : i # j => missing'[i] = missing[i],
         FoldersStay,
         FilesBut({}), GroundedIn(tree', j, place, missing'[j], wt)
  PROVE  GitTo(all, again, head, index, wt)'
<1>1. j \in all /\ JobsTyped(all) /\ DOMAIN job = all
  BY HeadKind DEF GitTo, JobsFit
<1>2. job'[j] = place /\ \A i \in all : i # j => job'[i] = job[i]
  BY DEF JobGoes, JobsBut
<1>3. Grounded(all, wt)'
  BY <1>1, <1>2, GroundedStep DEF GitTo
<1>4. FilesTold(all, again, head, wt)'
  <2>1. \A i \in all : job'[i] = job[i] \/ {job[i], job'[i]} \intersect {"done", "gone"} = {}
    BY <1>2
  <2>2. \A f \in Repository : /\ f \in DOMAIN tree' <=> f \in DOMAIN tree
                              /\ f \in DOMAIN tree => tree'[f] = tree[f]
    BY DEF FilesBut
  <2> QED
    BY <1>1, <2>1, <2>2, FilesSame DEF GitTo
<1> QED
  BY <1>3, <1>4, GitNext

LEMMA GitStays ==
  ASSUME NEW all, NEW again, NEW head, NEW index, NEW wt, GitTo(all, again, head, index, wt),
         plan # <<>>, NEW j \in Head(plan), NEW place, JobGoes(all, j, place),
         remote!Unchanged, {job[j], place} \intersect {"done", "gone"} = {},
         UNCHANGED <<tree, missing>>, GroundedIn(tree, j, place, missing[j], wt)
  PROVE  GitTo(all, again, head, index, wt)'
<1>1. OfRepository(tree) /\ DOMAIN missing = all
  BY DEF GitTo, Grounded
<1>2. FilesBut({}) /\ FoldersStay
  BY DEF FilesBut, FoldersStay, Has
<1>3. OfRepository(tree') /\ DOMAIN missing' = all /\ \A i \in all : i # j => missing'[i] = missing[i]
  BY <1>1
<1>4. GroundedIn(tree', j, place, missing'[j], wt)
  OBVIOUS
<1> QED
  BY <1>2, <1>3, <1>4, GitGoes

LEMMA FrontFacts ==
  ASSUME NEW S, NEW m \in Seq(S), m # <<>>
  PROVE  /\ remote!Front(m) \in Seq(S) /\ remote!Last(m) \in S
         /\ remote!Front(m) = <<>> => remote!Last(m) = m[1]
         /\ remote!Front(m) # <<>> => remote!Front(m)[1] = m[1]
<1>1. Len(m) \in Nat \ {0} /\ \A i \in 1..Len(m) : m[i] \in S
  BY EmptySeq, ElementOfSeq
<1> DEFINE n == Len(m) - 1
           r == SubSeq(m, 1, n)
<1>2. n \in Nat /\ n < Len(m) /\ Len(m) = n + 1
  BY <1>1
<1>3. \A i \in 1..n : m[i] \in S
  BY <1>1, <1>2
<1> HIDE DEF n
<1>4. /\ r \in Seq(S) /\ Len(r) = IF 1 <= n THEN n - 1 + 1 ELSE 0
      /\ \A i \in 1..(n - 1 + 1) : r[i] = m[1 + i - 1]
  BY <1>2, <1>3, SubSeqProperties
<1>5. Len(r) = n
  BY <1>2, <1>4
<1>6. n # 0 => r[1] = m[1]
  BY <1>2, <1>4
<1>7. remote!Front(m) = r /\ remote!Last(m) = m[n + 1]
  BY <1>2 DEF remote!Front, remote!Last, n
<1>8. m[n + 1] \in S
  BY <1>1, <1>2
<1> HIDE DEF r
<1>9. r = <<>> <=> n = 0
  BY <1>4, <1>5, EmptySeq
<1> QED
  BY <1>4, <1>6, <1>7, <1>8, <1>9

LEMMA GitEnsures ==
  ASSUME NEW all, NEW again, NEW head, NEW index, NEW wt, GitTo(all, again, head, index, wt),
         plan # <<>>, NEW j \in Head(plan), remote!EnsureDir(j)
  PROVE  GitTo(all, again, head, index, wt)'
<1> DEFINE m == missing[j]
           frame == remote!Last(m)
           rest == remote!Front(m)
           above == remote!Parent(frame.dir)
<1>1. /\ j \in all /\ j.to \in Repository /\ job[j] = "ensure" /\ MissingFits(tree, m, j.to) /\ m # <<>>
  BY GitFacts DEF GroundedIn, remote!EnsureDir
<1>2. /\ m \in Seq(Frames(j.to)) /\ m[1].dir = Over(j.to)
  BY <1>1 DEF MissingFits
<1>3. /\ rest \in Seq(Frames(j.to)) /\ frame \in Frames(j.to)
      /\ rest = <<>> => frame = m[1]
      /\ rest # <<>> => rest[1] = m[1]
  BY <1>1, <1>2, FrontFacts
<1>4. PICK n \in 1..(Len(j.to) - 1) : frame.dir = Cut(j.to, n)
  BY <1>3 DEF Frames
<1>5. /\ frame.dir \in Folders /\ frame.again \in BOOLEAN
      /\ frame.dir \in Seq(Name) \ {<<>>} /\ frame.dir \notin Repository
  BY <1>1, <1>3, <1>4, FolderPaths DEF Folders, Frames
<1>6. above = Over(frame.dir) /\ above \in Folders \union {<<>>}
  BY <1>5, ParentIs, OverIn DEF Over
<1>7. OfRepository(tree) /\ DOMAIN missing = all /\ DOMAIN job = all
  BY DEF GitTo, Grounded
<1>8. remote!Unchanged
  BY DEF remote!EnsureDir
<1>9. \/ /\ ~remote!Exists(frame.dir) /\ remote!IsDir(above)
         /\ tree' = remote!With(tree, frame.dir, Dir)
         /\ missing' = [missing EXCEPT ![j] = rest] /\ job' = job
      \/ /\ ~remote!Exists(above) /\ ~frame.again
         /\ missing' = [missing EXCEPT ![j] =
              rest \o <<[frame EXCEPT !.again = TRUE], [dir |-> above, again |-> FALSE]>>]
         /\ tree' = tree /\ job' = job
      \/ /\ remote!IsDir(frame.dir)
         /\ missing' = [missing EXCEPT ![j] = rest] /\ tree' = tree /\ job' = job
      \/ job' = [job EXCEPT ![j] = "refused"] /\ tree' = tree /\ missing' = missing
  BY DEF remote!EnsureDir, remote!Go
<1>10. job' = job => JobGoes(all, j, "ensure")
  BY <1>1, <1>7 DEF JobGoes, JobsBut
<1> HIDE DEF m, frame, rest, above
<1>11. CASE /\ ~remote!Exists(frame.dir) /\ remote!IsDir(above)
            /\ tree' = remote!With(tree, frame.dir, Dir)
            /\ missing' = [missing EXCEPT ![j] = rest] /\ job' = job
  <2>1. IsFolder(tree, Cut(frame.dir, Len(frame.dir) - 1))
    BY <1>6, <1>11 DEF remote!IsDir, IsFolder, Over
  <2>2. OfRepository(tree')
    <3> DEFINE w == remote!With(tree, frame.dir, Dir)
    <3>1. OfRepository(w)
      BY <1>5, <1>7, <2>1, WithKeeps
    <3> QED
      BY <1>11, <3>1
  <2>3. /\ DOMAIN tree' = DOMAIN tree \union {frame.dir} /\ tree'[frame.dir] = Dir
        /\ \A q \in DOMAIN tree : q # frame.dir => tree'[q] = tree[q]
    BY <1>11 DEF remote!With
  <2>4. FilesBut({}) /\ FoldersStay
    BY <1>5, <2>3 DEF FilesBut, FoldersStay, Has
  <2>5. /\ DOMAIN missing' = all /\ missing'[j] = rest
        /\ \A i \in all : i # j => missing'[i] = missing[i]
    BY <1>1, <1>7, <1>11
  <2>6. MissingFits(tree', rest, j.to)
    BY <1>2, <1>3, <2>3 DEF MissingFits, IsFolder
  <2>7. GroundedIn(tree', j, "ensure", missing'[j], wt)
    BY <2>5, <2>6 DEF GroundedIn
  <2>8. JobGoes(all, j, "ensure") /\ {job[j], "ensure"} \intersect {"done", "gone"} = {}
    BY <1>1, <1>10, <1>11
  <2> QED
    BY <1>8, <2>2, <2>4, <2>5, <2>7, <2>8, GitGoes
<1>12. CASE /\ ~remote!Exists(above) /\ ~frame.again
            /\ missing' = [missing EXCEPT ![j] =
                 rest \o <<[frame EXCEPT !.again = TRUE], [dir |-> above, again |-> FALSE]>>]
            /\ tree' = tree /\ job' = job
  <2> DEFINE first2 == [frame EXCEPT !.again = TRUE]
             second == [dir |-> above, again |-> FALSE]
             both == <<first2, second>>
             more == rest \o both
  <2>1. above # <<>>
    BY <1>12 DEF remote!Exists
  <2>2. above \in {Cut(j.to, i) : i \in 1..(Len(j.to) - 1)}
    <3>1. /\ j.to \in Seq(Name) /\ Len(j.to) \in Nat \ {0} /\ n \in 0..Len(j.to) /\ n \in Nat \ {0}
      BY <1>1, RepositoryPaths
    <3>2. Len(frame.dir) = n
      BY <1>4, <3>1, CutFacts
    <3>3. n # 1
      <4> SUFFICES ASSUME n = 1 PROVE FALSE
        OBVIOUS
      <4>1. above = SubSeq(frame.dir, 1, 0)
        BY <1>6, <3>2 DEF Over, Cut
      <4>2. SubSeq(frame.dir, 1, 0) = <<>>
        BY SubSeqEmpty
      <4> QED
        BY <2>1, <4>1, <4>2
    <3>4. n - 1 \in 1..(Len(j.to) - 1) /\ n - 1 \in 0..n
      BY <3>1, <3>3
    <3>5. above = Cut(Cut(j.to, n), n - 1)
      BY <1>4, <1>6, <3>2 DEF Over
    <3>6. Cut(Cut(j.to, n), n - 1) = Cut(j.to, n - 1)
      BY <3>1, <3>4, CutCut
    <3> QED
      BY <3>4, <3>5, <3>6
  <2>3. first2 \in Frames(j.to) /\ second \in Frames(j.to) /\ first2.dir = frame.dir
    BY <1>3, <2>2 DEF Frames
  <2> HIDE DEF first2, second
  <2>4. both \in Seq(Frames(j.to)) /\ Len(both) = 2 /\ both[1] = first2
    BY <2>3
  <2> HIDE DEF both
  <2>5. /\ more \in Seq(Frames(j.to)) /\ Len(more) = Len(rest) + Len(both) /\ Len(rest) \in Nat
        /\ \A i \in 1..(Len(rest) + Len(both)) :
             more[i] = IF i <= Len(rest) THEN rest[i] ELSE both[i - Len(rest)]
    BY <1>3, <2>4, ConcatProperties, LenProperties
  <2>6. more[1].dir = Over(j.to)
    <3>1. CASE rest = <<>>
      <4>1. Len(rest) = 0
        BY <3>1, EmptySeq
      <4>2. more[1] = first2
        BY <2>4, <2>5, <4>1
      <4> QED
        BY <1>2, <1>3, <2>3, <3>1, <4>2
    <3>2. CASE rest # <<>>
      <4>1. Len(rest) # 0
        BY <1>3, <3>2, EmptySeq
      <4>2. more[1] = rest[1]
        BY <2>4, <2>5, <4>1
      <4> QED
        BY <1>2, <1>3, <3>2, <4>2
    <3> QED
      BY <3>1, <3>2
  <2>7. more # <<>>
    BY <2>4, <2>5, EmptySeq
  <2>8. /\ DOMAIN missing' = all /\ missing'[j] = more
        /\ \A i \in all : i # j => missing'[i] = missing[i]
    BY <1>1, <1>7, <1>12 DEF both, first2, second
  <2> HIDE DEF more
  <2>9. GroundedIn(tree', j, "ensure", missing'[j], wt)
    BY <2>5, <2>6, <2>7, <2>8 DEF GroundedIn, MissingFits
  <2>10. JobGoes(all, j, "ensure") /\ {job[j], "ensure"} \intersect {"done", "gone"} = {}
    BY <1>1, <1>10, <1>12
  <2>11. /\ FilesBut({}) /\ FoldersStay
         /\ OfRepository(tree')
    BY <1>7, <1>12 DEF FilesBut, FoldersStay, Has
  <2> QED
    BY <1>8, <2>8, <2>9, <2>10, <2>11, GitGoes
<1>13. CASE /\ remote!IsDir(frame.dir)
            /\ missing' = [missing EXCEPT ![j] = rest] /\ tree' = tree /\ job' = job
  <2>1. /\ DOMAIN missing' = all /\ missing'[j] = rest
        /\ \A i \in all : i # j => missing'[i] = missing[i]
    BY <1>1, <1>7, <1>13
  <2>2. MissingFits(tree', rest, j.to)
    BY <1>2, <1>3, <1>13 DEF MissingFits, IsFolder, remote!IsDir
  <2>3. GroundedIn(tree', j, "ensure", missing'[j], wt)
    BY <2>1, <2>2 DEF GroundedIn
  <2>4. JobGoes(all, j, "ensure") /\ {job[j], "ensure"} \intersect {"done", "gone"} = {}
    BY <1>1, <1>10, <1>13
  <2>5. /\ FilesBut({}) /\ FoldersStay
        /\ OfRepository(tree')
    BY <1>7, <1>13 DEF FilesBut, FoldersStay, Has
  <2> QED
    BY <1>8, <2>1, <2>3, <2>4, <2>5, GitGoes
<1>14. CASE job' = [job EXCEPT ![j] = "refused"] /\ tree' = tree /\ missing' = missing
  <2>1. GroundedIn(tree, j, "refused", missing[j], wt) /\ {job[j], "refused"} \intersect {"done", "gone"} = {}
    BY <1>1 DEF GroundedIn
  <2>2. JobGoes(all, j, "refused")
    BY <1>1, <1>7, <1>14 DEF JobGoes, JobsBut
  <2> QED
    BY <1>8, <1>14, <2>1, <2>2, GitStays
<1> QED
  BY <1>9, <1>11, <1>12, <1>13, <1>14 DEF m, frame, rest, above

\* A job that has ended is in no need of a folder.
LEMMA GitEnds ==
  ASSUME NEW all, NEW again, NEW head, NEW index, NEW wt, GitTo(all, again, head, index, wt),
         plan # <<>>, NEW j \in Head(plan), NEW place \in {"done", "gone"}, JobGoes(all, j, place),
         remote!Unchanged, UNCHANGED missing, OfRepository(tree'), FoldersStay,
         FilesTold(all, again, head, wt)'
  PROVE  GitTo(all, again, head, index, wt)'
<1>1. j \in all /\ JobsTyped(all) /\ Grounded(all, wt) /\ DOMAIN missing = all
  BY HeadKind DEF GitTo, JobsFit, Grounded
<1>2. GroundedIn(tree', j, job'[j], missing'[j], wt)
  BY DEF GroundedIn, JobGoes
<1>3. \A i \in all : i # j => job'[i] = job[i] /\ missing'[i] = missing[i]
  BY DEF JobGoes, JobsBut
<1>4. Grounded(all, wt)'
  BY <1>1, <1>2, <1>3, GroundedStep
<1> QED
  BY <1>4, GitNext

LEMMA GitPuts ==
  ASSUME NEW all, NEW again, NEW head, NEW index, NEW wt, GitTo(all, again, head, index, wt),
         plan # <<>>, NEW j \in Head(plan), remote!Put(j)
  PROVE  GitTo(all, again, head, index, wt)'
<1>1. /\ j \in all /\ j.path \in Repository /\ j.to = j.path /\ j.kind = "upload" /\ job[j] = "act"
      /\ \A i \in all : i.kind # "upload" => job[i] \notin {"done", "gone"}
      /\ GroundedIn(tree, j, job[j], missing[j], wt)
  BY GitFacts DEF remote!Put
<1>2. /\ JobsTyped(all) /\ FilesTold(all, again, head, wt) /\ OfRepository(tree) /\ DOMAIN job = all
      /\ files = wt
  BY DEF GitTo, JobsFit
<1>3. remote!Unchanged /\ UNCHANGED missing
  BY DEF remote!Put
<1>4. CASE wt[j.path] = 0
  <2>1. JobGoes(all, j, "gone") /\ tree' = tree
    BY <1>1, <1>2, <1>4 DEF remote!Put, remote!Go, JobGoes, JobsBut
  <2>2. FilesBut({}) /\ FoldersStay /\ OfRepository(tree')
    BY <1>2, <2>1 DEF FilesBut, FoldersStay, Has
  <2>3. FilesTold(all, again, head, wt)'
    BY <1>1, <1>2, <1>4, <2>1, <2>2, FilesGone DEF JobGoes
  <2> QED
    BY <1>3, <2>1, <2>2, <2>3, GitEnds
<1>5. CASE wt[j.path] # 0
  <2>1. JobGoes(all, j, "done") /\ tree' = remote!With(tree, j.path, wt[j.path])
    BY <1>1, <1>2, <1>5 DEF remote!Put, remote!Go, JobGoes, JobsBut
  <2>2. /\ DOMAIN tree' = DOMAIN tree \union {j.path} /\ tree'[j.path] = wt[j.path]
        /\ \A q \in DOMAIN tree : q # j.path => tree'[q] = tree[q]
    BY <2>1 DEF remote!With
  <2>3. /\ Has(tree', j.path, wt[j.path]) /\ FilesBut({j.path}) /\ FoldersStay
    BY <1>1, <2>2, FolderPaths DEF FilesBut, FoldersStay, Has
  <2>4. IsFolder(tree, Over(j.path))
    BY <1>1, <1>5 DEF GroundedIn
  <2>5. OfRepository(tree')
    <3> DEFINE w == remote!With(tree, j.path, wt[j.path])
    <3>1. OfRepository(w)
      BY <1>1, <1>2, <2>4, WithKeeps, FolderPaths DEF Over
    <3> QED
      BY <2>1, <3>1
  <2>6. j \in OfKind(all, "upload")
    BY <1>1 DEF OfKind
  <2>7. FilesTold(all, again, head, wt)'
    BY <1>1, <1>2, <1>5, <2>1, <2>3, <2>6, FilesPut DEF JobGoes
  <2> QED
    BY <1>3, <2>1, <2>3, <2>5, <2>7, GitEnds
<1> QED
  BY <1>4, <1>5

\* A move of a file to a place that is free.
LEMMA GitMovesFile ==
  ASSUME NEW all, NEW again, NEW head, NEW index, NEW wt, GitTo(all, again, head, index, wt),
         plan # <<>>, NEW j \in Head(plan), remote!Move(j),
         j.path \in DOMAIN tree, j.to \notin DOMAIN tree
  PROVE  /\ JobGoes(all, j, "done") /\ OfRepository(tree')
         /\ DOMAIN tree' = (DOMAIN tree \ {j.path}) \union {j.to}
         /\ tree'[j.to] = tree[j.path]
         /\ \A q \in DOMAIN tree : q # j.path => tree'[q] = tree[q]
<1>1. /\ j \in all /\ j.path \in Repository /\ j.to \in Repository /\ j.kind = "rename"
      /\ job[j] = "act" /\ GroundedIn(tree, j, job[j], missing[j], wt)
  BY GitFacts DEF remote!Move
<1>2. OfRepository(tree) /\ DOMAIN job = all
  BY DEF GitTo
<1>3. remote!Exists(j.path) /\ ~remote!Exists(j.to)
  BY <1>1, RepositoryPaths DEF remote!Exists
<1>4. IsFolder(tree, Over(j.to))
  BY <1>1 DEF GroundedIn
<1>5. JobGoes(all, j, "done") /\ tree' = remote!Moved(tree, j.path, j.to)
  BY <1>1, <1>2, <1>3 DEF remote!Move, remote!Go, JobGoes, JobsBut
<1>6. /\ OfRepository(tree')
      /\ DOMAIN tree' = (DOMAIN tree \ {j.path}) \union {j.to}
      /\ tree'[j.to] = tree[j.path]
      /\ \A q \in DOMAIN tree : q # j.path => tree'[q] = tree[q]
  <2> DEFINE Arrived(t, f, g, M) ==
               /\ OfRepository(M) /\ DOMAIN M = (DOMAIN t \ {f}) \union {g}
               /\ M[g] = t[f]
               /\ \A q \in DOMAIN t : q # f => M[q] = t[q]
  <2>1. \A t : OfRepository(t) =>
          \A f \in Repository : f \in DOMAIN t =>
            \A g \in Repository : g \notin DOMAIN t =>
              (IsFolder(t, Cut(g, Len(g) - 1)) => Arrived(t, f, g, remote!Moved(t, f, g)))
    <3> SUFFICES ASSUME NEW t, OfRepository(t), NEW f \in Repository, f \in DOMAIN t,
                        NEW g \in Repository, g \notin DOMAIN t,
                        IsFolder(t, Cut(g, Len(g) - 1))
                 PROVE  Arrived(t, f, g, remote!Moved(t, f, g))
      OBVIOUS
    <3>1. /\ OfRepository(remote!Moved(t, f, g))
          /\ DOMAIN remote!Moved(t, f, g) = (DOMAIN t \ {f}) \union {g}
          /\ remote!Moved(t, f, g)[g] = t[f]
          /\ \A q \in DOMAIN t : q # f => remote!Moved(t, f, g)[q] = t[q]
      BY MovedFile
    <3> QED
      BY <3>1
  <2> HIDE DEF Arrived
  <2>2. IsFolder(tree, Cut(j.to, Len(j.to) - 1))
    BY <1>4 DEF Over
  <2>3. Arrived(tree, j.path, j.to, remote!Moved(tree, j.path, j.to))
    BY <1>1, <1>2, <2>1, <2>2
  <2>4. Arrived(tree, j.path, j.to, tree')
    BY <1>5, <2>3
  <2> QED
    BY <2>4 DEF Arrived
<1> QED
  BY <1>5, <1>6

LEMMA GitMoves ==
  ASSUME NEW all, NEW again, NEW head, NEW index, NEW wt, GitTo(all, again, head, index, wt),
         plan # <<>>, NEW j \in Head(plan), remote!Move(j)
  PROVE  GitTo(all, again, head, index, wt)'
<1>1. /\ j \in all /\ j.path \in Repository /\ j.to \in Repository /\ j.kind = "rename"
      /\ job[j] = "act"
      /\ \A i \in all : i.kind = "delete" => job[i] \notin {"done", "gone"}
      /\ GroundedIn(tree, j, job[j], missing[j], wt)
  BY GitFacts DEF remote!Move
<1>2. /\ JobsTyped(all) /\ FilesTold(all, again, head, wt) /\ OfRepository(tree) /\ DOMAIN job = all
      /\ files = wt /\ JobsFit(all, again, head, index, wt) /\ ~replaces
  BY DEF GitTo, JobsFit
<1>3. remote!Unchanged /\ UNCHANGED missing
  BY DEF remote!Move
<1>4. /\ remote!Exists(j.path) <=> j.path \in DOMAIN tree
      /\ remote!Exists(j.to) <=> j.to \in DOMAIN tree
  BY <1>1, RepositoryPaths DEF remote!Exists
<1>5. j \in OfKind(all, "rename")
  BY <1>1 DEF OfKind
<1>6. CASE j.path \notin DOMAIN tree
  <2>1. JobGoes(all, j, "gone") /\ tree' = tree
    <3>1. ~remote!Exists(j.path)
      BY <1>4, <1>6
    <3>2. remote!Go(j, "gone") /\ UNCHANGED tree
      BY <3>1 DEF remote!Move
    <3> QED
      BY <1>1, <1>2, <3>2 DEF remote!Go, JobGoes, JobsBut
  <2>2. FilesBut({}) /\ FoldersStay /\ OfRepository(tree')
    BY <1>2, <2>1 DEF FilesBut, FoldersStay, Has
  <2>3. wt[j.path] # 0
    BY <1>1, <1>2, <1>5, <1>6 DEF FilesTold, RenamesTold, Has
  <2>4. FilesTold(all, again, head, wt)'
    BY <1>1, <1>2, <2>1, <2>2, <2>3, FilesGone DEF JobGoes
  <2> QED
    BY <1>3, <2>1, <2>2, <2>4, GitEnds
<1>7. CASE j.path \in DOMAIN tree /\ j.to \in DOMAIN tree
  <2>1. JobGoes(all, j, "refused") /\ tree' = tree
    BY <1>1, <1>2, <1>4, <1>7 DEF remote!Move, remote!Go, JobGoes, JobsBut, remote!Replaceable
  <2>2. GroundedIn(tree, j, "refused", missing[j], wt) /\ {job[j], "refused"} \intersect {"done", "gone"} = {}
    BY <1>1 DEF GroundedIn
  <2> QED
    BY <1>3, <2>1, <2>2, GitStays
<1>8. CASE j.path \in DOMAIN tree /\ j.to \notin DOMAIN tree
  <2>1. /\ JobGoes(all, j, "done") /\ OfRepository(tree')
        /\ DOMAIN tree' = (DOMAIN tree \ {j.path}) \union {j.to}
        /\ tree'[j.to] = tree[j.path]
        /\ \A q \in DOMAIN tree : q # j.path => tree'[q] = tree[q]
    BY <1>8, GitMovesFile
  <2>2. j.path # j.to /\ j.path \notin DOMAIN tree'
    BY <1>8, <2>1
  <2>3. Has(tree', j.to, tree[j.path]) /\ FilesBut({j.path, j.to}) /\ FoldersStay
    BY <1>1, <2>1, FolderPaths DEF FilesBut, FoldersStay, Has
  <2>4. FilesTold(all, again, head, wt)'
    BY <1>1, <1>2, <1>5, <1>8, <2>1, <2>2, <2>3, FilesMoved DEF JobGoes
  <2> QED
    BY <1>3, <2>1, <2>3, <2>4, GitEnds
<1> QED
  BY <1>6, <1>7, <1>8

LEMMA GitErases ==
  ASSUME NEW all, NEW again, NEW head, NEW index, NEW wt, GitTo(all, again, head, index, wt),
         plan # <<>>, NEW j \in Head(plan), remote!Erase(j)
  PROVE  GitTo(all, again, head, index, wt)'
<1>1. j \in all /\ j.path \in Repository /\ j.kind = "delete"
  BY GitFacts DEF remote!Erase
<1>2. /\ FilesTold(all, again, head, wt) /\ OfRepository(tree) /\ DOMAIN job = all
      /\ JobsFit(all, again, head, index, wt)
  BY DEF GitTo
<1>3. remote!Unchanged /\ UNCHANGED missing
  BY DEF remote!Erase
<1>4. remote!Exists(j.path) <=> j.path \in DOMAIN tree
  BY <1>1, RepositoryPaths DEF remote!Exists
<1>5. j \in OfKind(all, "delete")
  BY <1>1 DEF OfKind
<1>6. CASE j.path \notin DOMAIN tree
  <2>1. JobGoes(all, j, "gone") /\ tree' = tree
    BY <1>1, <1>2, <1>4, <1>6 DEF remote!Erase, remote!Go, JobGoes, JobsBut
  <2>2. FilesBut({j.path}) /\ FoldersStay /\ OfRepository(tree') /\ j.path \notin DOMAIN tree'
    BY <1>2, <1>6, <2>1 DEF FilesBut, FoldersStay, Has
  <2>3. FilesTold(all, again, head, wt)'
    BY <1>2, <1>5, <2>1, <2>2, FilesErased DEF JobGoes
  <2> QED
    BY <1>3, <2>1, <2>2, <2>3, GitEnds
<1>7. CASE j.path \in DOMAIN tree
  <2>1. JobGoes(all, j, "done") /\ tree' = remote!Without(tree, j.path)
    BY <1>1, <1>2, <1>4, <1>7 DEF remote!Erase, remote!Go, JobGoes, JobsBut
  <2>2. /\ OfRepository(tree') /\ DOMAIN tree' = DOMAIN tree \ {j.path}
        /\ \A q \in DOMAIN tree : q # j.path => tree'[q] = tree[q]
    <3> DEFINE w == remote!Without(tree, j.path)
    <3>1. /\ OfRepository(w) /\ DOMAIN w = DOMAIN tree \ {j.path}
          /\ \A q \in DOMAIN tree : q # j.path => w[q] = tree[q]
      BY <1>1, <1>2, WithoutIs, WithoutKeeps
    <3> HIDE DEF w
    <3>2. tree' = w
      BY <2>1 DEF w
    <3> QED
      BY <3>1, <3>2
  <2>3. FilesBut({j.path}) /\ FoldersStay /\ j.path \notin DOMAIN tree'
    BY <1>1, <2>2, FolderPaths DEF FilesBut, FoldersStay, Has
  <2>4. FilesTold(all, again, head, wt)'
    BY <1>2, <1>5, <2>1, <2>3, FilesErased DEF JobGoes
  <2> QED
    BY <1>3, <2>1, <2>2, <2>3, <2>4, GitEnds
<1> QED
  BY <1>6, <1>7

LEMMA GitStep ==
  ASSUME NEW all, NEW again, NEW head, NEW index, NEW wt, GitTo(all, again, head, index, wt),
         remote!Next
  PROVE  GitTo(all, again, head, index, wt)'
<1>1. CASE remote!Proceed
  <2>1. UNCHANGED <<files, reused, replaces, tree, job, missing>>
    BY <1>1 DEF remote!Proceed
  <2>2. PlanFits(all)'
    BY <1>1, PlanProceeds DEF GitTo
  <2>3. /\ OfRepository(tree') /\ Grounded(all, wt)' /\ FilesTold(all, again, head, wt)'
    BY <2>1 DEF GitTo, Grounded, FilesTold, UploadsTold, RenamesTold, DeletesTold, OthersStay
  <2> QED
    BY <2>1, <2>2, <2>3 DEF GitTo
<1>2. ASSUME plan # <<>>, NEW j \in Head(plan), remote!Step(j)
      PROVE  GitTo(all, again, head, index, wt)'
  <2>1. /\ j \in all /\ DOMAIN job = all /\ GroundedIn(tree, j, job[j], missing[j], wt)
    BY <1>2, GitFacts DEF GitTo
  <2>2. CASE remote!EnsureDir(j)
    BY <1>2, <2>2, GitEnsures
  <2>3. CASE remote!Ensured(j)
    <3>1. PICK place \in {"look", "act"} : remote!Go(j, place)
      BY <2>3 DEF remote!Ensured
    <3>2. /\ job[j] = "ensure" /\ missing[j] = <<>> /\ remote!Unchanged /\ UNCHANGED <<tree, missing>>
      BY <2>3 DEF remote!Ensured
    <3>3. JobGoes(all, j, place) /\ {job[j], place} \intersect {"done", "gone"} = {}
      BY <2>1, <3>1, <3>2 DEF JobGoes, JobsBut, remote!Go
    <3>4. GroundedIn(tree, j, place, missing[j], wt)
      BY <2>1, <3>2 DEF GroundedIn, MissingFits
    <3> QED
      BY <1>2, <3>2, <3>3, <3>4, GitStays
  <2>4. CASE remote!Look(j)
    <3>1. PICK place \in {"refused", "act"} : remote!Go(j, place)
      BY <2>4 DEF remote!Look
    <3>2. job[j] = "look" /\ remote!Unchanged /\ UNCHANGED <<tree, missing>>
      BY <2>4 DEF remote!Look
    <3>3. JobGoes(all, j, place) /\ {job[j], place} \intersect {"done", "gone"} = {}
      BY <2>1, <3>1, <3>2 DEF JobGoes, JobsBut, remote!Go
    <3>4. GroundedIn(tree, j, place, missing[j], wt)
      BY <2>1, <3>2 DEF GroundedIn
    <3> QED
      BY <1>2, <3>2, <3>3, <3>4, GitStays
  <2>5. CASE remote!Put(j)
    BY <1>2, <2>5, GitPuts
  <2>6. CASE remote!Move(j)
    BY <1>2, <2>6, GitMoves
  <2>7. CASE remote!Erase(j)
    BY <1>2, <2>7, GitErases
  <2>8. CASE remote!Fail(j)
    <3>1. /\ job[j] \notin {"done", "gone"} /\ remote!Go(j, "refused") /\ remote!Unchanged
          /\ UNCHANGED <<tree, missing>>
      BY <2>8 DEF remote!Fail, remote!Settled
    <3>2. JobGoes(all, j, "refused") /\ {job[j], "refused"} \intersect {"done", "gone"} = {}
      BY <2>1, <3>1 DEF JobGoes, JobsBut, remote!Go
    <3>3. GroundedIn(tree, j, "refused", missing[j], wt)
      BY DEF GroundedIn
    <3> QED
      BY <1>2, <3>1, <3>2, <3>3, GitStays
  <2> QED
    BY <1>2, <2>2, <2>3, <2>4, <2>5, <2>6, <2>7, <2>8 DEF remote!Step
<1> QED
  BY <1>1, <1>2 DEF remote!Next

LEMMA GitInvStart == remote!Init => GitInv
<1> SUFFICES ASSUME remote!Init, order = "git"
             PROVE  \E all, again, head, index, wt : GitTo(all, again, head, index, wt)
  BY DEF GitInv
<1>1. remote!InitGit
  BY DEF remote!Init, remote!InitDrop
<1> QED
  BY <1>1, GitStart DEF remote!Init, remote!Jobs

LEMMA GitInvStep ==
  ASSUME GitInv, [MCNext]_<<part, vars, activityVars, changesVars, clientsVars, explorerVars>>
  PROVE  GitInv'
<1>1. CASE UNCHANGED changesVars
  <2>1. UNCHANGED <<order, replaces, files, reused, tree, plan, job, missing>>
    BY <1>1 DEF changesVars
  <2>2. ASSUME NEW all, NEW again, NEW head, NEW index, NEW wt, GitTo(all, again, head, index, wt)
        PROVE  GitTo(all, again, head, index, wt)'
    <3>1. PlanFits(all)'
      BY <2>1, <2>2 DEF GitTo, PlanFits, remote!Settled
    <3>2. OfRepository(tree') /\ Grounded(all, wt)'
      BY <2>1, <2>2 DEF GitTo, Grounded
    <3>3. FilesTold(all, again, head, wt)'
      BY <2>1, <2>2 DEF GitTo, FilesTold, UploadsTold, RenamesTold, DeletesTold, OthersStay
    <3> QED
      BY <2>1, <2>2, <3>1, <3>2, <3>3 DEF GitTo
  <2> QED
    BY <2>1, <2>2 DEF GitInv
<1>2. CASE remote!Next
  <2>1. order' = order
    BY <1>2, OrderStays
  <2> QED
    BY <1>2, <2>1, GitStep DEF GitInv
<1> QED
  BY <1>1, <1>2 DEF MCNext

\* Upload Changed Files brings the server to the working tree, for any files, commits, indexes
\* and working trees and any ways to tell renames: what is not promised aside, each changed
\* file is the business of a job, and none undoes what another did
\* (commandUploadChangedFiles.ts).
THEOREM ChangesArrive == MCSpec => []ChangedFilesArrive
<1>1. MCInit => GitInv
  BY GitInvStart DEF MCInit
<1>2. GitInv /\ [MCNext]_<<part, vars, activityVars, changesVars, clientsVars, explorerVars>> => GitInv'
  BY GitInvStep
<1>3. GitInv => ChangedFilesArrive
  <2> SUFFICES ASSUME GitInv, order = "git", plan = <<>>, NEW f \in Repository \ reused
               PROVE  \/ \E j \in DOMAIN job : job[j] = "refused" /\ f \in {j.path, j.to}
                      \/ IF files[f] = 0 THEN ~remote!Exists(f)
                         ELSE remote!Exists(f) /\ tree[f] = files[f]
    BY DEF ChangedFilesArrive, remote!ChangedFilesArrive, remote!Jobs
  <2>1. PICK all, again, head, index, wt : GitTo(all, again, head, index, wt)
    BY DEF GitInv
  <2>2. \/ \E j \in DOMAIN job : job[j] = "refused" /\ f \in {j.path, j.to}
        \/ IF files[f] = 0 THEN f \notin DOMAIN tree ELSE Has(tree, f, files[f])
    BY <2>1, GitArrives
  <2>3. f # <<>>
    BY RepositoryPaths
  <2> QED
    BY <2>2, <2>3 DEF remote!Exists, Has
<1> QED
  BY <1>1, <1>2, <1>3, PTL DEF MCSpec

-------------------------------------------------------------------------------
(* The types of the parts                                                    *)

\* The clients between are listed once each, in the order in which they are made; the current
\* one is when its secrets are asked for.
InLine ==
  /\ attempt \in 0..MaxAttempt /\ told \in [Hop -> BOOLEAN] /\ trusted \subseteq Hop \X Key
  /\ \A i, j \in DOMAIN hopping : hopping[i] = hopping[j] => i = j
  /\ Length \notin Range(hopping)
  /\ step \in {"password", "forward", "privateKey"} => \A c \in Range(hopping) : c < cur
  /\ step \in {"secrets", "verify", "confirm", "save", "login", "sftp"} =>
       \A c \in Range(hopping) : c <= cur

LEMMA InLineStart == clients!Init => InLine
<1> SUFFICES ASSUME clients!Init PROVE InLine
  OBVIOUS
<1>1. /\ attempt = 0 /\ step = "idle" /\ told = [c \in Hop |-> FALSE] /\ hopping = <<>>
  BY DEF clients!Init, clients!Client, Hop
<1>2. trusted \subseteq Hop \X Key
  <2>1. PICK entry \in [scoped : Key \union {None}, legacy : Key \union {None}] :
          known = [c \in Hop |-> entry]
    BY DEF clients!Init, clients!Client, Hop
  <2>2. trusted = {p \in Hop \X Key : p[2] \in {known[p[1]].scoped, known[p[1]].legacy}}
    BY DEF clients!Init, clients!Client, Hop
  <2> QED
    BY <2>2
<1>3. DOMAIN hopping = {} /\ Range(hopping) = {}
  BY <1>1 DEF Range
<1> QED
  BY <1>1, <1>2, <1>3, EndpointAssumption DEF InLine

\* Reversing keeps apart what is apart.
LEMMA ReverseApart ==
  ASSUME NEW S, NEW s \in Seq(S), \A i, j \in DOMAIN s : s[i] = s[j] => i = j
  PROVE  LET r == clients!Reverse(s) IN \A i, j \in DOMAIN r : r[i] = r[j] => i = j
<1>1. clients!Reverse(s) = [i \in 1..Len(s) |-> s[(Len(s) - i) + 1]] /\ Len(s) \in Nat
  BY DEF clients!Reverse
<1> DEFINE r == clients!Reverse(s)
<1>2. DOMAIN r = 1..Len(s) /\ DOMAIN s = 1..Len(s)
      /\ \A i \in 1..Len(s) : r[i] = s[(Len(s) - i) + 1] /\ (Len(s) - i) + 1 \in 1..Len(s)
  BY <1>1
<1>3. \A i, j \in 1..Len(s) : (Len(s) - i) + 1 = (Len(s) - j) + 1 => i = j
  BY <1>1
<1> HIDE DEF r
<1>4. \A i, j \in DOMAIN r : r[i] = r[j] => i = j
  BY <1>2, <1>3
<1> QED
  BY <1>4 DEF r

LEMMA AppendApart ==
  ASSUME NEW S, NEW s \in Seq(S), \A i, j \in DOMAIN s : s[i] = s[j] => i = j,
         NEW e \in S, e \notin Range(s)
  PROVE  LET r == Append(s, e) IN
           /\ \A i, j \in DOMAIN r : r[i] = r[j] => i = j
           /\ \A c \in Range(r) : c \in Range(s) \/ c = e
<1>1. /\ Append(s, e) \in Seq(S) /\ Len(Append(s, e)) = Len(s) + 1 /\ Len(s) \in Nat
      /\ \A i \in 1..Len(s) : Append(s, e)[i] = s[i]
      /\ Append(s, e)[Len(s) + 1] = e
  BY AppendProperties, LenProperties
<1> DEFINE r == Append(s, e)
<1>2. /\ DOMAIN r = 1..(Len(s) + 1) /\ DOMAIN s = 1..Len(s)
      /\ \A i \in 1..Len(s) : r[i] = s[i]
      /\ r[Len(s) + 1] = e
  BY <1>1
<1> HIDE DEF r
<1>3. \A i \in 1..Len(s) : r[i] # e /\ r[i] \in Range(s)
  BY <1>2 DEF Range
<1>4. \A i \in DOMAIN r : i \in 1..Len(s) \/ i = Len(s) + 1
  BY <1>1, <1>2
<1>5. \A i, j \in DOMAIN r : r[i] = r[j] => i = j
  BY <1>2, <1>3, <1>4
<1>6. \A c \in Range(r) : c \in Range(s) \/ c = e
  BY <1>2, <1>3, <1>4 DEF Range
<1> QED
  BY <1>5, <1>6 DEF r

LEMMA InLineStep ==
  ASSUME ChainInv, InLine, [clients!Next]_clientsVars PROVE InLine'
<1>0. /\ cur \in Hop \union {0} /\ (step # "idle" => cur \in Hop) /\ hopping \in Seq(Hop)
      /\ hostKey \in [Hop -> Key] /\ Range(hopping) \subseteq Hop
      /\ clients!Client = Hop /\ Length \in Nat \ {0} /\ Length \in Hop
      /\ \A c \in Hop : c \in Nat /\ 1 <= c /\ c <= Length
      /\ MaxAttempt \in Nat
  <2>1. Range(hopping) \subseteq Hop
    BY DEF ChainInv, ChainTypes, Range
  <2> QED
    BY <2>1, EndpointAssumption DEF ChainInv, ChainTypes, clients!Client, Hop
\* The clients and the keys that are trusted stay as they are.
<1>1. ASSUME UNCHANGED <<attempt, told, hopping, trusted>>,
             \/ step \in {"password", "forward"} /\ step' = "privateKey" /\ cur' = cur
             \/ step \in {"secrets", "verify", "confirm", "save", "login"} /\ cur' = cur
                /\ step' \in {"verify", "confirm", "save", "login", "sftp"}
             \/ step = "sftp" /\ step' = "done"
             \/ step = "sftp" /\ step' = "forward" /\ cur' = cur + 1
             \/ step' = step /\ cur' = cur
      PROVE  InLine'
  <2>1. /\ attempt' \in 0..MaxAttempt /\ told' \in [Hop -> BOOLEAN] /\ trusted' \subseteq Hop \X Key
        /\ \A i, j \in DOMAIN hopping' : hopping'[i] = hopping'[j] => i = j
        /\ Length \notin Range(hopping')
    BY <1>1 DEF InLine
  <2>2. step' \in {"password", "forward", "privateKey"} => \A c \in Range(hopping') : c < cur'
    BY <1>0, <1>1 DEF InLine
  <2>3. step' \in {"secrets", "verify", "confirm", "save", "login", "sftp"} =>
          \A c \in Range(hopping') : c <= cur'
    BY <1>1 DEF InLine
  <2> QED
    BY <2>1, <2>2, <2>3 DEF InLine
<1>2. CASE clients!Password \/ clients!Forward \/ clients!Sftp \/ clients!Save \/ clients!Login
           \/ clients!Dial
  BY <1>1, <1>2 DEF clients!Password, clients!Forward, clients!Sftp, clients!Save, clients!Login,
     clients!Dial, clients!Go, clients!Alone, clients!keys
<1>3. CASE clients!Verify
  <2>1. /\ step = "verify" /\ step' \in {"login", "save", "confirm"}
        /\ UNCHANGED <<attempt, cur, told, hopping, trusted>>
    BY <1>3 DEF clients!Verify, clients!Go
  <2> QED
    BY <1>1, <2>1
<1>4. CASE clients!OtherReads \/ clients!OtherSaves \/ (\E c \in Hop : clients!Drop(c))
           \/ UNCHANGED clientsVars
  BY <1>1, <1>4 DEF clients!OtherReads, clients!OtherSaves, clients!Drop, clients!connection,
     clients!keys, clientsVars
<1>5. CASE clients!Connect
  <2>1. /\ attempt' = attempt + 1 /\ attempt < MaxAttempt /\ told' = [c \in Hop |-> FALSE]
        /\ hopping' = <<>> /\ UNCHANGED trusted
    BY <1>0, <1>5 DEF clients!Connect, clients!keys
  <2>2. DOMAIN hopping' = {} /\ Range(hopping') = {}
    BY <2>1 DEF Range
  <2>3. attempt' \in 0..MaxAttempt
    BY <1>0, <2>1 DEF InLine
  <2> QED
    BY <2>1, <2>2, <2>3 DEF InLine
<1>6. CASE clients!PrivateKey
  <2>1. /\ step = "privateKey" /\ step' = "secrets" /\ cur' = cur
        /\ hopping' = IF cur < Length THEN Append(hopping, cur) ELSE hopping
        /\ UNCHANGED <<attempt, told, trusted>>
    BY <1>6 DEF clients!PrivateKey, clients!Go, clients!keys
  <2>2. \A c \in Range(hopping) : c < cur
    BY <2>1 DEF InLine
  <2>3. cur \in Hop /\ cur \notin Range(hopping)
    BY <1>0, <2>1, <2>2
  <2>4. /\ \A i, j \in DOMAIN hopping' : hopping'[i] = hopping'[j] => i = j
        /\ \A c \in Range(hopping') : c \in Range(hopping) \/ (c = cur /\ cur < Length)
    <3>1. CASE cur < Length
      <4>1. \A i, j \in DOMAIN hopping : hopping[i] = hopping[j] => i = j
        BY DEF InLine
      <4>2. LET r == Append(hopping, cur) IN
              /\ \A i, j \in DOMAIN r : r[i] = r[j] => i = j
              /\ \A c \in Range(r) : c \in Range(hopping) \/ c = cur
        BY <1>0, <2>3, <4>1, AppendApart
      <4>3. hopping' = Append(hopping, cur)
        BY <2>1, <3>1
      <4> QED
        BY <3>1, <4>2, <4>3
    <3>2. CASE ~(cur < Length)
      BY <2>1, <3>2 DEF InLine
    <3> QED
      BY <3>1, <3>2
  <2>5. ASSUME NEW c \in Range(hopping') PROVE c <= cur /\ c # Length
    <3>1. CASE c \in Range(hopping)
      <4>1. c < cur /\ c \in Nat /\ cur \in Nat /\ c # Length
        BY <1>0, <2>2, <2>3, <3>1 DEF InLine
      <4> QED
        BY <4>1
    <3>2. CASE c = cur /\ cur < Length
      BY <1>0, <2>3, <3>2
    <3> QED
      BY <2>4, <3>1, <3>2
  <2>6. Length \notin Range(hopping')
    BY <2>5
  <2> QED
    BY <2>1, <2>4, <2>5, <2>6 DEF InLine
<1>7. CASE clients!Accept
  <2>1. /\ step = "confirm" /\ step' = "save" /\ trusted' = trusted \union {<<cur, hostKey[cur]>>}
        /\ UNCHANGED <<attempt, cur, told, hopping>>
    BY <1>7 DEF clients!Accept, clients!Go
  <2>2. <<cur, hostKey[cur]>> \in Hop \X Key
    BY <1>0, <2>1
  <2>3. trusted' \subseteq Hop \X Key
    BY <2>1, <2>2 DEF InLine
  <2> QED
    BY <2>1, <2>3 DEF InLine
<1>8. CASE clients!LateAnswer
  <2> DEFINE asked == <<late.client, late.file[late.client].scoped>>
  <2>1. /\ late # clients!Nothing /\ trusted' = trusted \union {asked}
        /\ UNCHANGED <<attempt, cur, step, told, hopping>>
    BY <1>8 DEF clients!LateAnswer, clients!connection
  <2>2. late.client \in Hop /\ late.file[late.client].scoped # None
    BY <2>1 DEF ChainInv, KeysVouched, Asking
  <2>3. late.file[late.client].scoped \in Key
    BY <2>2 DEF ChainInv, ChainTypes, Reading, KnownKeys
  <2>4. asked \in Hop \X Key
    BY <2>2, <2>3
  <2> HIDE DEF asked
  <2>5. trusted' \subseteq Hop \X Key
    BY <2>1, <2>4 DEF InLine
  <2> QED
    BY <2>1, <2>5 DEF InLine
<1>9. CASE clients!Fail \/ clients!End
  <2>1. /\ clients!Tell(clients!Ended) /\ UNCHANGED <<attempt, cur, trusted>>
        /\ step' \in {step, "failed"}
    BY <1>9 DEF clients!Fail, clients!End, clients!keys
  <2>2. /\ told' = [c \in Hop |-> told[c] \/ c \in clients!Ended]
        /\ hopping' = clients!Reverse(hopping)
    BY <1>0, <2>1 DEF clients!Tell
  <2>3. told' \in [Hop -> BOOLEAN]
    BY <2>2
  <2>4. Range(hopping') = Range(hopping)
    BY <1>0, <2>2, ReverseKeeps
  <2>5. \A i, j \in DOMAIN hopping' : hopping'[i] = hopping'[j] => i = j
    <3>1. \A i, j \in DOMAIN hopping : hopping[i] = hopping[j] => i = j
      BY DEF InLine
    <3>2. LET r == clients!Reverse(hopping) IN \A i, j \in DOMAIN r : r[i] = r[j] => i = j
      BY <1>0, <3>1, ReverseApart
    <3> QED
      BY <2>2, <3>2
  <2> QED
    BY <2>1, <2>3, <2>4, <2>5 DEF InLine
<1> QED
  BY <1>0, <1>2, <1>3, <1>4, <1>5, <1>6, <1>7, <1>8, <1>9 DEF clients!Next

LEMMA ChainTyped == ChainInv /\ InLine => clients!TypeOK
<1> SUFFICES ASSUME ChainInv, InLine PROVE clients!TypeOK
  OBVIOUS
<1>1. /\ cur \in Hop \union {0} /\ step \in Steps
      /\ socket \in [Hop -> {"none", "connecting", "open", "closed"}]
      /\ hopping \in Seq(Hop) /\ hostKey \in [Hop -> Key]
      /\ known \in KnownKeys /\ read \in Reading /\ late \in Reading /\ other \in Reading
      /\ clients!Client = Hop /\ Length \in Nat \ {0}
  BY EndpointAssumption DEF ChainInv, ChainTypes, clients!Client, Hop
<1>2. clients!ToSet(hopping) \subseteq 1..(Length - 1)
  <2>1. clients!ToSet(hopping) = Range(hopping)
    BY DEF clients!ToSet, Range
  <2>2. Range(hopping) \subseteq Hop /\ Length \notin Range(hopping)
    BY <1>1 DEF Range, InLine
  <2>3. \A c \in Hop : c # Length => c \in 1..(Length - 1)
    BY <1>1 DEF Hop
  <2> QED
    BY <2>1, <2>2, <2>3
<1>3. clients!IsInjective(hopping)
  BY DEF clients!IsInjective, InLine
<1>4. \A r \in {read, late, other} : r.client \in Hop \union {0} /\ DOMAIN r.file = Hop
  BY <1>1 DEF Reading, KnownKeys
<1>5. known \in [Hop -> [scoped : Key \union {None}, legacy : Key \union {None}]]
  BY <1>1 DEF KnownKeys
<1> QED
  BY <1>1, <1>2, <1>3, <1>4, <1>5 DEF clients!TypeOK, InLine, Steps

\* What the tree knows of services is of one there was.
Ids == 0..(MaxChange + 1)
OfServices ==
  /\ altered \in 0..MaxChange /\ untold \in 0..altered /\ asks \in 0..MaxAsk
  /\ service.id <= altered + 1 /\ roots.id \in Ids
  /\ \A i \in nodes : i.path \in Path /\ i.id \in Ids
  /\ failing \subseteq [id : Ids, path : Folder] /\ due \subseteq [id : Ids, path : Folder]
  /\ \A l \in listings : l.id \in Ids

LEMMA OfServicesStart == explorer!Init => OfServices
<1> SUFFICES ASSUME explorer!Init PROVE OfServices
  OBVIOUS
<1>1. /\ service.id = 1 /\ roots.id = 0 /\ altered = 0 /\ untold = 0 /\ asks = 0
      /\ nodes = {} /\ failing = {} /\ due = {} /\ listings = {}
  BY DEF explorer!Init
<1> QED
  BY <1>1, EndpointAssumption DEF OfServices, Ids

\* A step that refreshes.
Refreshed ==
  /\ roots'.id \in Ids /\ \A i \in nodes' : i.path \in Path /\ i.id \in Ids
  /\ failing' \subseteq [id : Ids, path : Folder] /\ due' \subseteq [id : Ids, path : Folder]
  /\ listings' = listings

LEMMA ServiceIds ==
  ASSUME TreeInv, OfServices
  PROVE  /\ service.id \in Ids /\ explorer!Served \subseteq Ids /\ 0 \in Ids
         /\ explorer!Built.id \in Ids
         /\ explorer!Cached \subseteq nodes
<1>1. service.id \in Nat /\ altered \in 0..MaxChange /\ service.id <= altered + 1 /\ MaxChange \in Nat
  BY EndpointAssumption DEF TreeInv, TreeTypes, OfServices
<1>2. service.id \in Ids /\ explorer!Served \subseteq Ids /\ 0 \in Ids
  BY <1>1 DEF Ids, explorer!Served
<1>3. explorer!Built.id \in Ids
  BY <1>2 DEF OfServices, explorer!Built
<1> QED
  BY <1>2, <1>3 DEF explorer!Cached

LEMMA EverythingRefreshes ==
  ASSUME TreeInv, OfServices, explorer!Everything, service'.id \in Ids
  PROVE  Refreshed
<1>1. /\ roots' = [roots EXCEPT !.built = FALSE] /\ failing' = {}
      /\ UNCHANGED <<nodes, listings>>
      /\ \E open \in SUBSET Folder : due' = [id : {service'.id} \ {0}, path : open]
  BY DEF explorer!Everything, explorer!Unbuilt
<1>2. roots'.id = roots.id
  BY <1>1 DEF TreeInv, TreeTypes, Roots
<1> QED
  BY <1>1, <1>2 DEF OfServices, Refreshed

LEMMA FoldersRefresh ==
  ASSUME TreeInv, OfServices, NEW id \in Ids, NEW folders \in SUBSET Folder, NEW kept, NEW failures,
         explorer!RefreshFolders(id, folders, kept, failures), UNCHANGED service,
         \A i \in kept : i.path \in Path /\ i.id \in Ids, failures \subseteq failing
  PROVE  Refreshed
<1>1. CASE ~explorer!FindRoot(id)
  BY <1>1, EverythingRefreshes, ServiceIds DEF explorer!RefreshFolders
<1>2. CASE explorer!FindRoot(id)
  <2> DEFINE refreshed == {explorer!Item(id, f) : f \in folders}
  <2>1. /\ roots' = explorer!Built /\ nodes' = kept /\ failing' = failures \ refreshed
        /\ due' = due \union refreshed /\ listings' = listings
    BY <1>2 DEF explorer!RefreshFolders
  <2>2. refreshed \subseteq [id : Ids, path : Folder]
    BY DEF explorer!Item
  <2> HIDE DEF refreshed
  <2> QED
    BY <2>1, <2>2, ServiceIds DEF OfServices, Refreshed
<1> QED
  BY <1>1, <1>2

LEMMA ParentsRefresh ==
  ASSUME NEW id \in Ids, NEW paths \in SUBSET (Path \ {Root}), NEW kept,
         \A i \in kept : i.path \in Path /\ i.id \in Ids
  PROVE  \A i \in kept \union explorer!ParentItems(id, paths, kept) : i.path \in Path /\ i.id \in Ids
<1>1. \A p \in paths : ParentOf[p] \in Path
  BY EndpointAssumption
<1> QED
  BY <1>1 DEF explorer!ParentItems

LEMMA FilesRefresh ==
  ASSUME TreeInv, OfServices, NEW id \in Ids, NEW paths \in SUBSET (Path \ {Root}),
         NEW kept \in SUBSET explorer!Cached, NEW failures,
         explorer!RefreshFiles(id, paths, kept, failures), UNCHANGED service,
         failures \subseteq failing
  PROVE  Refreshed
<1> DEFINE folders == {ParentOf[p] : p \in paths}
           all == kept \union explorer!ParentItems(id, paths, kept)
<1>1. explorer!RefreshFolders(id, folders, all, failures)
  BY DEF explorer!RefreshFiles
<1>2. folders \in SUBSET Folder
  BY EndpointAssumption
<1>3. \A i \in kept : i.path \in Path /\ i.id \in Ids
  BY ServiceIds DEF OfServices
<1>4. \A i \in all : i.path \in Path /\ i.id \in Ids
  BY <1>3, ParentsRefresh
<1> HIDE DEF folders, all
<1> QED
  BY <1>1, <1>2, <1>4, FoldersRefresh

LEMMA OfServicesStep ==
  ASSUME TreeInv, OfServices, [explorer!Next]_explorerVars PROVE OfServices'
<1>0. /\ altered \in 0..MaxChange /\ untold \in 0..altered /\ asks \in 0..MaxAsk
      /\ service.id <= altered + 1 /\ service.id \in Nat /\ MaxChange \in Nat /\ MaxAsk \in Nat
      /\ \A l \in listings : l.id \in Ids /\ l.path \in Folder
      /\ due \subseteq [id : Ids, path : Folder] /\ failing \subseteq [id : Ids, path : Folder]
      /\ \A i \in explorer!Cached : i.path \in Path /\ i.id \in Ids
  BY EndpointAssumption, ServiceIds DEF TreeInv, TreeTypes, OfServices
<1>1. ASSUME UNCHANGED <<service, altered, untold>>, explorer!Ask, Refreshed
      PROVE  OfServices'
  <2>1. asks' \in 0..MaxAsk
    BY <1>0, <1>1 DEF explorer!Ask
  <2> QED
    BY <1>0, <1>1, <2>1 DEF OfServices, Refreshed
<1>2. CASE explorer!Refresh
  <2>1. UNCHANGED <<service, altered, untold>> /\ explorer!Ask
    BY <1>2 DEF explorer!Refresh
  <2>2. CASE explorer!Everything
    BY <1>1, <2>1, <2>2, EverythingRefreshes, ServiceIds
  <2>3. ASSUME NEW id \in explorer!Served, NEW f \in Folder,
               explorer!RefreshFolders(id, {f}, explorer!Cached, failing)
        PROVE  OfServices'
    <3>1. id \in Ids /\ {f} \in SUBSET Folder
      BY ServiceIds
    <3> QED
      BY <1>0, <1>1, <2>1, <2>3, <3>1, FoldersRefresh
  <2>4. ASSUME NEW id \in explorer!Served, NEW p \in Path \ {Root},
               explorer!RefreshFiles(id, {p}, explorer!Cached, failing)
        PROVE  OfServices'
    <3>1. id \in Ids /\ {p} \in SUBSET (Path \ {Root})
      BY ServiceIds
    <3> QED
      BY <1>1, <2>1, <2>4, <3>1, FilesRefresh
  <2> QED
    BY <1>2, <2>2, <2>3, <2>4 DEF explorer!Refresh
<1>3. ASSUME NEW id \in explorer!Served, NEW from \in Path \ {Root}, NEW to \in Path \ {Root},
             explorer!Rename(id, from, to)
      PROVE  OfServices'
  <2> DEFINE gone == {i \in nodes : i.id = id /\ explorer!Below(from, i.path)}
             kept == explorer!Cached \ gone
             failures == failing \ {explorer!Item(i.id, i.path) : i \in gone}
  <2>1. /\ UNCHANGED <<service, altered, untold>> /\ explorer!Ask
        /\ explorer!RefreshFiles(id, {from, to}, kept, failures)
    BY <1>3 DEF explorer!Rename
  <2>2. /\ id \in Ids /\ {from, to} \in SUBSET (Path \ {Root}) /\ kept \in SUBSET explorer!Cached
        /\ failures \subseteq failing
    BY ServiceIds
  <2> HIDE DEF gone, kept, failures
  <2> QED
    BY <1>1, <2>1, <2>2, FilesRefresh
\* A step that makes the roots if there are none.
<1>4. ASSUME UNCHANGED <<service, altered, untold, asks>>, roots' = explorer!Built,
             \A i \in nodes' : i.path \in Path /\ i.id \in Ids,
             failing' \subseteq [id : Ids, path : Folder], due' \subseteq [id : Ids, path : Folder],
             \A l \in listings' : l.id \in Ids
      PROVE  OfServices'
  BY <1>0, <1>4, ServiceIds DEF OfServices
<1>5. CASE explorer!GetRoots
  BY <1>0, <1>4, <1>5 DEF explorer!GetRoots
<1>6. ASSUME NEW p \in Path \ {Root}, explorer!Reveal(p)
      PROVE  OfServices'
  <2>1. {p} \in SUBSET (Path \ {Root})
    OBVIOUS
  <2>2. \A i \in explorer!Cached \union explorer!ParentItems(service.id, {p}, explorer!Cached) :
          i.path \in Path /\ i.id \in Ids
    BY <1>0, <2>1, ServiceIds, ParentsRefresh
  <2> QED
    BY <1>0, <1>4, <1>6, <2>2 DEF explorer!Reveal
<1>7. CASE explorer!SaveConfig
  <2>1. /\ altered < MaxChange /\ altered' = altered + 1 /\ untold' = untold + 1
        /\ \E id \in {0, altered + 2} : service' = [service EXCEPT !.id = id]
        /\ UNCHANGED <<roots, nodes, failing, due, listings, asks>>
    BY <1>7 DEF explorer!SaveConfig
  <2>2. service'.id \in {0, altered + 2}
    BY <2>1 DEF TreeInv, TreeTypes
  <2>3. altered' \in 0..MaxChange /\ untold' \in 0..altered' /\ service'.id <= altered' + 1
    BY <1>0, <2>1, <2>2
  <2> QED
    BY <2>1, <2>3 DEF OfServices
\* The tree is told of a change.
<1>8. ASSUME explorer!Everything, service'.id = service.id, asks' = asks,
             altered' \in 0..MaxChange, altered <= altered', untold' \in 0..altered'
      PROVE  OfServices'
  <2>1. Refreshed
    BY <1>8, EverythingRefreshes, ServiceIds
  <2>2. service'.id <= altered' + 1
    BY <1>0, <1>8
  <2> QED
    BY <1>0, <1>8, <2>1, <2>2 DEF OfServices, Refreshed
<1>9. CASE explorer!TellSaved
  <2>1. /\ untold > 0 /\ untold' = untold - 1 /\ UNCHANGED <<service, altered, asks>>
        /\ explorer!Everything
    BY <1>9 DEF explorer!TellSaved
  <2>2. untold' \in 0..altered'
    BY <1>0, <2>1
  <2> QED
    BY <1>0, <1>8, <2>1, <2>2
<1>10. ASSUME NEW profile \in Profile, explorer!SetProfile(profile)
       PROVE  OfServices'
  <2>1. /\ altered < MaxChange /\ altered' = altered + 1 /\ UNCHANGED <<untold, asks>>
        /\ service' = [service EXCEPT !.profile = profile] /\ explorer!Everything
    BY <1>10 DEF explorer!SetProfile
  <2>2. service'.id = service.id
    BY <2>1 DEF TreeInv, TreeTypes
  <2>3. altered' \in 0..MaxChange /\ altered <= altered' /\ untold' \in 0..altered'
    BY <1>0, <2>1
  <2> QED
    BY <1>8, <2>1, <2>2, <2>3
<1>11. ASSUME NEW f \in Folder, explorer!Expand(f)
       PROVE  OfServices'
  <2>1. PICK id \in explorer!Served : due' = due \union {explorer!Item(id, f)}
    BY <1>11 DEF explorer!Expand
  <2>2. due' \subseteq [id : Ids, path : Folder]
    BY <1>0, <2>1, ServiceIds DEF explorer!Item
  <2>3. asks' \in 0..MaxAsk /\ UNCHANGED <<service, altered, untold, roots, nodes, failing, listings>>
    BY <1>0, <1>11 DEF explorer!Expand, explorer!Ask
  <2> QED
    BY <2>2, <2>3 DEF OfServices
<1>12. ASSUME NEW i \in due, explorer!GetChildren(i)
       PROVE  OfServices'
  <2>1. i.id \in Ids
    BY <1>0
  <2>2. /\ UNCHANGED <<service, altered, untold, failing, asks>> /\ roots' = explorer!Built
        /\ nodes' = explorer!Cached /\ due' = due \ {i}
        /\ \A l \in listings' : l \in listings \/ l.id = i.id
    BY <1>12 DEF explorer!GetChildren
  <2> QED
    BY <1>0, <1>4, <2>1, <2>2
<1>13. ASSUME NEW l \in listings, explorer!Listed(l)
       PROVE  OfServices'
  <2>1. PICK found \in SUBSET {p \in Path \ {Root} : ParentOf[p] = l.path} :
          nodes' = IF explorer!SameRoot(l)
                  THEN explorer!Cached \union {[id |-> l.id, path |-> p, from |-> l.from] :
                                        p \in {q \in found : \A k \in explorer!Cached : k.path # q}}
                  ELSE explorer!Cached
    BY <1>13 DEF explorer!Listed
  <2>2. \A i \in nodes' : i.path \in Path /\ i.id \in Ids
    BY <1>0, <2>1
  <2>3. /\ UNCHANGED <<service, altered, untold, failing, due, asks>> /\ roots' = explorer!Built
        /\ listings' = listings \ {l}
    BY <1>13 DEF explorer!Listed
  <2> QED
    BY <1>0, <1>4, <2>2, <2>3
<1>14. ASSUME NEW l \in listings, explorer!ListFails(l)
       PROVE  OfServices'
  <2>1. explorer!Item(l.id, l.path) \in [id : Ids, path : Folder]
    BY <1>0 DEF explorer!Item
  <2>2. /\ UNCHANGED <<service, altered, untold, asks>> /\ roots' = explorer!Built
        /\ nodes' = explorer!Cached /\ listings' = listings \ {l}
        /\ failing' \subseteq failing \union {explorer!Item(l.id, l.path)}
        /\ due' \subseteq due \union {explorer!Item(l.id, l.path)}
    BY <1>14 DEF explorer!ListFails
  <2> QED
    BY <1>0, <1>4, <2>1, <2>2
<1>15. CASE UNCHANGED explorerVars
  BY <1>15 DEF explorerVars, OfServices
<1> QED
  BY <1>2, <1>3, <1>5, <1>6, <1>7, <1>9, <1>10, <1>11, <1>12, <1>13, <1>14, <1>15
     DEF explorer!Next

LEMMA TreeTyped == TreeInv /\ OfServices => explorer!TypeOK
<1> SUFFICES ASSUME TreeInv, OfServices PROVE explorer!TypeOK
  OBVIOUS
<1>1. /\ service \in [id : Nat, profile : Profile] /\ roots \in Roots
      /\ credit \in [Folder -> Int] /\ \A l \in listings : l.path \in Folder /\ l.made <= roots.made
  BY DEF TreeInv, TreeTypes, OfTheRoots
<1>2. service \in [id : Ids, profile : Profile]
  BY <1>1, ServiceIds
<1>3. roots \in [built : BOOLEAN, made : Nat, id : Ids, profile : Profile]
  BY <1>1 DEF OfServices, Roots
<1>4. untold \in 0..MaxChange
  BY EndpointAssumption DEF OfServices
<1> QED
  BY <1>1, <1>2, <1>3, <1>4 DEF OfServices, Ids, explorer!TypeOK

\* What a command changes, and what its jobs do.
Job6 == {"ensure", "look", "act", "done", "gone", "refused"}
ChangesTyped ==
  /\ order \in {"git", "drop"} /\ replaces \in BOOLEAN
  /\ files \in [Repository -> Content] /\ reused \subseteq Repository
  /\ \A j \in DOMAIN job : job[j] \in Job6
  /\ DOMAIN missing = DOMAIN job
  /\ order = "git" => \A p \in DOMAIN tree : tree[p] = Dir \/ tree[p] \in Content

LEMMA JobsTypedStart ==
  ASSUME NEW S, NEW wt, job = [j \in S |-> remote!Begin(j, wt)]
  PROVE  \A j \in DOMAIN job : job[j] \in Job6
<1>1. \A j \in S : remote!Begin(j, wt) \in Job6
  BY DEF remote!Begin, Job6
<1> QED
  BY <1>1

LEMMA ChangesTypedStart == remote!Init => ChangesTyped
<1> SUFFICES ASSUME remote!Init PROVE ChangesTyped
  OBVIOUS
<1>1. DOMAIN missing = DOMAIN job /\ 0 \in Content /\ 1 \in Content
  BY ChangesAssumption DEF remote!Init, remote!Jobs
<1>2. CASE remote!InitGit
  <2>1. PICK head \in [Repository -> {0, 1}], index \in [Repository -> Staged],
             wt \in [Repository -> Content] :
          \E pairs \in remote!Pairings(head, index) :
           LET uploads == remote!UploadsOf(head, index, wt, pairs)
               renames == {remote!Rename("index", r[1], r[2]) : r \in pairs}
               deletes == remote!DeletesOf(head, index, wt, pairs)
               again == {f \in Repository : head[f] # 0 /\ index[f] = 0 /\ wt[f] # 0}
           IN /\ files = wt /\ tree = remote!Committed(head) /\ first = tree
              /\ reused = again \union {r[2] : r \in {s \in pairs : s[1] \in again}}
              /\ plan = remote!Phases(uploads, renames, deletes)
              /\ job = [j \in uploads \union renames \union deletes |-> remote!Begin(j, wt)]
    BY <1>2 DEF remote!InitGit
  <2>2. PICK pairs \in remote!Pairings(head, index) :
           LET uploads == remote!UploadsOf(head, index, wt, pairs)
               renames == {remote!Rename("index", r[1], r[2]) : r \in pairs}
               deletes == remote!DeletesOf(head, index, wt, pairs)
               again == {f \in Repository : head[f] # 0 /\ index[f] = 0 /\ wt[f] # 0}
           IN /\ files = wt /\ tree = remote!Committed(head)
              /\ reused = again \union {r[2] : r \in {s \in pairs : s[1] \in again}}
              /\ job = [j \in uploads \union renames \union deletes |-> remote!Begin(j, wt)]
    BY <2>1
  <2>3. files = wt /\ tree = remote!Committed(head)
    BY <2>2
  <2>4. reused \subseteq Repository
    <3>1. \A r \in pairs : r[2] \in Repository
      BY DEF remote!Pairings, remote!RenamesOf
    <3> QED
      BY <2>2, <3>1
  <2>5. \A j \in DOMAIN job : job[j] \in Job6
    <3> DEFINE all == remote!UploadsOf(head, index, wt, pairs)
                        \union {remote!Rename("index", r[1], r[2]) : r \in pairs}
                        \union remote!DeletesOf(head, index, wt, pairs)
    <3>1. job = [j \in all |-> remote!Begin(j, wt)]
      BY <2>2
    <3> HIDE DEF all
    <3> QED
      BY <3>1, JobsTypedStart
  <2>6. \A p \in DOMAIN tree : tree[p] = Dir \/ tree[p] \in Content
    <3> DEFINE stored == {f \in Repository : head[f] # 0}
               dirs == UNION {{SubSeq(f, 1, n) : n \in 1..(Len(f) - 1)} : f \in stored}
    <3>1. tree = [p \in stored \union dirs |-> IF p \in stored THEN head[p] ELSE Dir]
      BY <2>3 DEF remote!Committed
    <3>2. \A p \in stored : head[p] \in Content
      BY <1>1
    <3> HIDE DEF stored, dirs
    <3> QED
      BY <3>1, <3>2
  <2>7. order = "git" /\ replaces = FALSE
    BY <1>2 DEF remote!InitGit
  <2> QED
    BY <1>1, <2>3, <2>4, <2>5, <2>6, <2>7 DEF ChangesTyped
<1>3. CASE remote!InitDrop
  <2>1. /\ order = "drop" /\ replaces \in BOOLEAN /\ reused = {}
        /\ files = [f \in Repository |-> 0]
        /\ \E moves : job = [j \in moves |-> remote!Begin(j, files)]
    BY <1>3 DEF remote!InitDrop
  <2>2. \A j \in DOMAIN job : job[j] \in Job6
    BY <2>1, JobsTypedStart
  <2> QED
    BY <1>1, <2>1, <2>2 DEF ChangesTyped
<1> QED
  BY <1>2, <1>3 DEF remote!Init

LEMMA JobsStay ==
  ASSUME ChangesTyped, remote!Next
  PROVE  /\ UNCHANGED <<order, replaces, files, reused>>
         /\ \A j \in DOMAIN job' : job'[j] \in Job6
         /\ DOMAIN missing' = DOMAIN job'
<1>1. CASE remote!Proceed
  BY <1>1 DEF remote!Proceed, ChangesTyped
<1>2. ASSUME NEW j, remote!Step(j)
      PROVE  /\ UNCHANGED <<order, replaces, files, reused>>
             /\ UNCHANGED job \/ \E place \in Job6 : job' = [job EXCEPT ![j] = place]
             /\ UNCHANGED missing \/ \E m : missing' = [missing EXCEPT ![j] = m]
  <2>1. CASE remote!EnsureDir(j)
    BY <2>1 DEF remote!EnsureDir, remote!Unchanged, remote!Go, Job6
  <2>2. CASE remote!Ensured(j)
    BY <2>2 DEF remote!Ensured, remote!Unchanged, remote!Go, Job6
  <2>3. CASE remote!Look(j)
    BY <2>3 DEF remote!Look, remote!Unchanged, remote!Go, Job6
  <2>4. CASE remote!Put(j)
    BY <2>4 DEF remote!Put, remote!Unchanged, remote!Go, Job6
  <2>5. CASE remote!Move(j)
    BY <2>5 DEF remote!Move, remote!Unchanged, remote!Go, Job6
  <2>6. CASE remote!Erase(j)
    BY <2>6 DEF remote!Erase, remote!Unchanged, remote!Go, Job6
  <2>7. CASE remote!Fail(j)
    BY <2>7 DEF remote!Fail, remote!Unchanged, remote!Go, Job6
  <2> QED
    BY <1>2, <2>1, <2>2, <2>3, <2>4, <2>5, <2>6, <2>7 DEF remote!Step
<1>3. ASSUME NEW j, remote!Step(j)
      PROVE  /\ UNCHANGED <<order, replaces, files, reused>>
             /\ \A i \in DOMAIN job' : job'[i] \in Job6
             /\ DOMAIN missing' = DOMAIN job'
  <2>1. DOMAIN job' = DOMAIN job /\ \A i \in DOMAIN job : job'[i] \in Job6
    BY <1>2, <1>3 DEF ChangesTyped
  <2>2. DOMAIN missing' = DOMAIN missing
    BY <1>2, <1>3
  <2> QED
    BY <1>2, <1>3, <2>1, <2>2 DEF ChangesTyped
<1> QED
  BY <1>1, <1>3 DEF remote!Next

LEMMA ContentsStay ==
  ASSUME ChangesTyped, GitInv, order = "git", remote!Next
  PROVE  \A p \in DOMAIN tree' : tree'[p] = Dir \/ tree'[p] \in Content
<1>1. PICK all, again, head, index, wt : GitTo(all, again, head, index, wt)
  BY DEF GitInv
<1>2. /\ \A p \in DOMAIN tree : tree[p] = Dir \/ tree[p] \in Content
      /\ files \in [Repository -> Content]
  BY DEF ChangesTyped
<1>3. CASE UNCHANGED tree
  BY <1>2, <1>3
<1>4. ASSUME plan # <<>>, NEW j \in Head(plan), remote!Step(j)
      PROVE  \A p \in DOMAIN tree' : tree'[p] = Dir \/ tree'[p] \in Content
  <2>1. j.path \in Repository /\ j.to \in Repository
    BY <1>1, <1>4, GitFacts
  <2>2. CASE \E dir : tree' = remote!With(tree, dir, Dir)
    BY <1>2, <2>2 DEF remote!With
  <2>3. CASE remote!EnsureDir(j)
    BY <1>3, <2>2, <2>3 DEF remote!EnsureDir
  <2>4. CASE remote!Put(j)
    <3>1. tree' = tree \/ tree' = remote!With(tree, j.path, files[j.path])
      BY <2>4 DEF remote!Put
    <3>2. files[j.path] \in Content
      BY <1>2, <2>1
    <3> QED
      BY <1>2, <3>1, <3>2 DEF remote!With
  <2>5. CASE remote!Move(j)
    <3>1. ~replaces
      BY <1>1 DEF GitTo
    <3>2. /\ remote!Exists(j.path) <=> j.path \in DOMAIN tree
          /\ remote!Exists(j.to) <=> j.to \in DOMAIN tree
      BY <2>1, RepositoryPaths DEF remote!Exists
    <3>3. CASE ~remote!Exists(j.path) \/ remote!Exists(j.to)
      BY <1>3, <2>5, <3>1, <3>3 DEF remote!Move, remote!Replaceable
    <3>4. CASE remote!Exists(j.path) /\ ~remote!Exists(j.to)
      <4>1. /\ DOMAIN tree' = (DOMAIN tree \ {j.path}) \union {j.to}
            /\ tree'[j.to] = tree[j.path]
            /\ \A q \in DOMAIN tree : q # j.path => tree'[q] = tree[q]
        BY <1>1, <1>4, <2>5, <3>2, <3>4, GitMovesFile
      <4> QED
        BY <1>2, <3>2, <3>4, <4>1
    <3> QED
      BY <3>3, <3>4
  <2>6. CASE remote!Erase(j)
    <3>1. tree' = tree \/ tree' = remote!Without(tree, j.path)
      BY <2>6 DEF remote!Erase
    <3> QED
      BY <1>2, <3>1 DEF remote!Without
  <2>7. CASE remote!Ensured(j) \/ remote!Look(j) \/ remote!Fail(j)
    BY <1>3, <2>7 DEF remote!Ensured, remote!Look, remote!Fail
  <2> QED
    BY <1>4, <2>3, <2>4, <2>5, <2>6, <2>7 DEF remote!Step
<1> QED
  BY <1>3, <1>4 DEF remote!Next, remote!Proceed

LEMMA ChangesTypedStep ==
  ASSUME ChangesTyped, GitInv, [remote!Next]_changesVars PROVE ChangesTyped'
<1>1. CASE UNCHANGED changesVars
  BY <1>1 DEF changesVars, ChangesTyped
<1>2. CASE remote!Next
  <2>1. order' = order
    BY <1>2, JobsStay
  <2>2. (order = "git" => \A p \in DOMAIN tree : tree[p] = Dir \/ tree[p] \in Content)'
    BY <1>2, <2>1, ContentsStay
  <2> QED
    BY <1>2, <2>2, JobsStay DEF ChangesTyped
<1> QED
  BY <1>1, <1>2

LEMMA ChangesAreTyped == ChangesTyped /\ GitInv /\ DropInv => remote!TypeOK
<1> SUFFICES ASSUME ChangesTyped, GitInv, DropInv PROVE remote!TypeOK
  OBVIOUS
<1>1. Closed(tree)
  BY DEF ChangesTyped, GitInv, GitTo, OfRepository, DropInv, DropTo
<1>2. ASSUME NEW p \in DOMAIN tree PROVE remote!IsDir(remote!Parent(p))
  <2>1. IsFolder(tree, Cut(p, Len(p) - 1))
    BY <1>1, ParentFolder
  <2>2. remote!Parent(p) = Cut(p, Len(p) - 1)
    BY ParentIs
  <2> QED
    BY <2>1, <2>2 DEF IsFolder, remote!IsDir
<1>3. ASSUME NEW p \in DOMAIN tree
      PROVE  tree[p] = Dir \/ tree[p] \in remote!Held(first) \union Content
  <2>1. CASE order = "git"
    BY <2>1 DEF ChangesTyped
  <2>2. CASE order = "drop"
    <3>1. remote!Held(tree) = remote!Held(first)
      BY <2>2 DEF DropInv, DropTo
    <3>2. tree[p] = Dir \/ tree[p] \in remote!Held(tree)
      BY DEF remote!Held
    <3> QED
      BY <3>1, <3>2
  <2> QED
    BY <2>1, <2>2 DEF ChangesTyped
<1> QED
  BY <1>2, <1>3 DEF ChangesTyped, Job6, remote!TypeOK, remote!Jobs

\* Why operations failed, and which schedulers were stopped.
Reasons == {"error", "cancel"}
Blamed == stopped \in [Op -> BOOLEAN] /\ failed \in [Op -> SUBSET Reasons]

LEMMA BlamedStep ==
  ASSUME Blamed, GroupInv, [activity!Next]_activityVars PROVE Blamed'
<1>0. /\ groups \in [Numbers -> [state : {"none", "listed", "removed"}, pending : Nat, owners : Nat,
                                 cancelled : BOOLEAN, ended : BOOLEAN, issue : BOOLEAN]]
      /\ \A o \in Op : at[o] \in {"hook", "collect", "run"} => member[o] \in Numbers
  BY DEF GroupInv, GroupsBut, GroupTypes, ChildrenFit
<1>1. ASSUME NEW ops, NEW wrk, activity!Stop(ops, wrk) PROVE stopped' \in [Op -> BOOLEAN]
  BY <1>1 DEF activity!Stop
<1>2. ASSUME NEW o, NEW why \in SUBSET Reasons, activity!Blames(o, why)
      PROVE  failed' \in [Op -> SUBSET Reasons]
  BY <1>2 DEF activity!Blames, Blamed
<1>3. {"error"} \in SUBSET Reasons /\ {"cancel"} \in SUBSET Reasons
  BY DEF Reasons
<1>4. ASSUME NEW o \in Op, activity!Operation(o) PROVE Blamed'
  <2>1. CASE activity!Enter(o) \/ activity!EnterCancelled(o)
    BY <2>1 DEF activity!Enter, activity!EnterCancelled, Blamed
  <2>2. CASE activity!Register(o)
    <3>1. groups[member[o]].cancelled \in BOOLEAN
      BY <1>0, <2>2 DEF activity!Register
    <3>2. /\ stopped' = [stopped EXCEPT ![o] = groups[member[o]].cancelled]
          /\ failed' = failed
      BY <2>2 DEF activity!Register
    <3> QED
      BY <3>1, <3>2 DEF Blamed
  <2>3. CASE activity!Breaks(o)
    BY <1>3, <2>3 DEF activity!Breaks, Blamed
  <2>4. CASE activity!Collected(o)
    <3>1. failed' = failed
      BY <2>4 DEF activity!Collected
    <3>2. stopped' \in [Op -> BOOLEAN]
      <4>1. UNCHANGED stopped \/ activity!Stop({o}, work)
        BY <2>4 DEF activity!Collected
      <4> QED
        BY <1>1, <4>1 DEF Blamed
    <3> QED
      BY <3>1, <3>2 DEF Blamed
  <2>5. CASE activity!End(o)
    <3>1. failed' = failed /\ \E ops : activity!Stop(ops, work)
      BY <2>5 DEF activity!End
    <3> QED
      BY <1>1, <3>1 DEF Blamed
  <2> QED
    BY <1>4, <2>1, <2>2, <2>3, <2>4, <2>5 DEF activity!Operation
\* A child blames its operation, or does not.
<1>5. ASSUME UNCHANGED stopped,
             \/ UNCHANGED failed
             \/ \E o \in Op, why \in SUBSET Reasons : activity!Blames(o, why)
      PROVE  Blamed'
  BY <1>2, <1>5 DEF Blamed
<1>6. ASSUME NEW o \in Op, NEW f \in File, activity!Child(o, f) PROVE Blamed'
  <2>1. CASE activity!Found(o, f) \/ activity!Act(o, f) \/ activity!ActEnds(o, f)
             \/ activity!ChildFails(o, f) \/ activity!Expire(o, f) \/ activity!Done(o, f)
    <3>1. /\ UNCHANGED stopped
          /\ \/ UNCHANGED failed
             \/ activity!Blames(o, {"error"})
             \/ activity!Blames(o, {"cancel"})
      BY <2>1 DEF activity!Found, activity!Act, activity!ActEnds, activity!ChildFails,
         activity!Expire, activity!Done, activity!UnchangedAround
    <3> QED
      BY <1>3, <1>5, <3>1
  <2>2. CASE activity!Review(o, f) \/ activity!Queue(o, f) \/ activity!Start(o, f)
    BY <1>5, <2>2 DEF activity!Review, activity!Queue, activity!Start, activity!UnchangedAround
  <2>3. CASE activity!Refuse(o, f)
    <3>1. activity!Blames(o, {"cancel"}) /\ \E ops, wrk : activity!Stop(ops, wrk)
      BY <2>3 DEF activity!Refuse
    <3> QED
      BY <1>1, <1>2, <1>3, <3>1 DEF Blamed
  <2> QED
    BY <1>6, <2>1, <2>2, <2>3 DEF activity!Child
<1>7. ASSUME NEW g \in Numbers, activity!Cancel(g) PROVE Blamed'
  <2>1. failed' = failed /\ \E ops : activity!Stop(ops, work)
    BY <1>7 DEF activity!Cancel
  <2> QED
    BY <1>1, <2>1 DEF Blamed
<1>8. CASE activity!Invoke \/ activity!InvocationEnds \/ activity!ClearCompleted
  BY <1>8 DEF activity!Invoke, activity!InvocationEnds, activity!ClearCompleted,
     activity!operations, Blamed
<1>9. CASE UNCHANGED activityVars
  BY <1>9 DEF activityVars, Blamed
<1> QED
  BY <1>4, <1>6, <1>7, <1>8, <1>9 DEF activity!Next, Numbers

\* No group counts more operations than there are, or more than one command.
LEMMA GroupsTyped == GroupInv /\ OfOperations /\ Blamed => activity!TypeOK
<1> SUFFICES ASSUME GroupInv, OfOperations, Blamed PROVE activity!TypeOK
  OBVIOUS
<1>0. /\ GroupTypes(groups, items, background, command, at, member, work)
      /\ Counted(groups, command, at, member)
  BY DEF GroupInv, GroupsBut
<1>1. ASSUME NEW g \in Numbers
      PROVE  groups[g].pending \in 0..Cardinality(Op) /\ groups[g].owners \in 0..1
  <2> DEFINE S == Inside(at, member, g)
  <2>1. S \in SUBSET Op
    BY DEF Inside
  <2>2. groups[g].pending = Cardinality(S) /\ groups[g].owners \in {0, 1}
    BY <1>0 DEF Counted
  <2> HIDE DEF S
  <2>3. Cardinality(S) <= Cardinality(Op) /\ Cardinality(S) \in Nat /\ Cardinality(Op) \in Nat
    BY <2>1, EndpointAssumption, FS_Subset, FS_CardinalityType
  <2> QED
    BY <2>2, <2>3
<1>2. groups \in [Numbers -> [state : {"none", "listed", "removed"}, pending : 0..Cardinality(Op),
                              owners : 0..1, cancelled : BOOLEAN, ended : BOOLEAN, issue : BOOLEAN]]
  <2>1. groups \in [Numbers -> [state : {"none", "listed", "removed"}, pending : Nat, owners : Nat,
                                cancelled : BOOLEAN, ended : BOOLEAN, issue : BOOLEAN]]
    BY <1>0 DEF GroupTypes
  <2> QED
    BY <1>1, <2>1
<1>3. activity!Cardinality(Op) = Cardinality(Op)
  BY DEF activity!Cardinality, Cardinality
<1> QED
  BY <1>0, <1>2, <1>3 DEF GroupTypes, Numbers, Places, OfOperations, Blamed, Reasons, activity!TypeOK

\* Every part keeps its types, for any callers, connections, clients, keys, folders, operations,
\* files, trees and repositories: a client between is listed once, no group counts more operations
\* than there are, and what is on the server lies in folders (remoteFs.ts, activity.ts,
\* sshClient.ts, treeDataProvider.ts, dragAndDrop.ts, commandUploadChangedFiles.ts).
THEOREM EndpointTyped == MCSpec => []EndpointTypeOK
<1> DEFINE all == <<part, vars, activityVars, changesVars, clientsVars, explorerVars>>
           AllInv == /\ IInv /\ ChainInv /\ InLine /\ TreeInv /\ OfServices
                     /\ DropInv /\ GitInv /\ ChangesTyped /\ GroupInv /\ OfOperations /\ Blamed
<1>1. MCInit => AllInv
  <2> SUFFICES ASSUME MCInit PROVE AllInv
    OBVIOUS
  <2>1. /\ Init /\ clients!Init /\ remote!Init /\ explorer!Init /\ activity!Init
    BY DEF MCInit
  <2>2. Blamed
    BY <2>1 DEF activity!Init, Blamed
  <2>3. GroupInv /\ OfOperations
    BY GroupsPart
  <2> QED
    BY <2>1, <2>2, <2>3, InitIInv, ChainStart, InLineStart, TreeStart, OfServicesStart, DropInvStart,
       GitInvStart, ChangesTypedStart
<1>2. AllInv /\ [MCNext]_all => AllInv'
  <2> SUFFICES ASSUME AllInv, [MCNext]_all PROVE AllInv'
    OBVIOUS
  <2>1. /\ [Next]_vars /\ [clients!Next]_clientsVars /\ [explorer!Next]_explorerVars
        /\ [remote!Next]_changesVars /\ [activity!Next]_activityVars
    BY DEF MCNext
  <2>2. IInv'
    BY <2>1, NextStep
  <2>3. ChainInv' /\ InLine'
    BY <2>1, ChainStep, InLineStep
  <2>4. TreeInv' /\ OfServices'
    BY <2>1, TreeStep, OfServicesStep
  <2>5. DropInv' /\ GitInv' /\ ChangesTyped'
    BY <2>1, DropInvStep, GitInvStep, ChangesTypedStep
  <2>6. GroupInv' /\ OfOperations' /\ Blamed'
    BY <2>1, GroupsStep, OperationsStay, BlamedStep
  <2> QED
    BY <2>2, <2>3, <2>4, <2>5, <2>6
<1>3. AllInv => EndpointTypeOK
  BY ChainTyped, TreeTyped, ChangesAreTyped, GroupsTyped DEF IInv, EndpointTypeOK
<1> QED
  BY <1>1, <1>2, <1>3, PTL DEF MCSpec
================================================================================
