------------------------- MODULE RemoteFsCache_proofs -------------------------
(* Type correctness of RemoteFsCache, and that an endpoint has one connection *)
(* at most that was not told to end: for any callers and any number of        *)
(* connections and events.                                                    *)
EXTENDS RemoteFsCache, TLAPS

\* An object that would connect anew has ended the connection it holds: what makes
\* OneConnection survive GetFresh.
SpentIsEnded ==
  table # 0 /\ ~isValid[table] /\ pending[table] = 0 => fs[table] # 0 /\ ended[fs[table]]

\* A promise that GetPending would hand out is open: what makes WaitersAreServed survive
\* GetPending.
JoinableIsOpen ==
  \A k \in Conn : ~isValid[k] /\ pending[k] # 0 => promise[pending[k]] = "pending"

\* The object in the table holds a connection, and promises belong to connections made.
Held ==
  /\ table # 0 => fs[table] # 0
  /\ \A c \in Conn : promise[c] = "pending" => c \in Made

IInv == TypeOK /\ OneConnection /\ WaitersAreServed /\ SpentIsEnded /\ JoinableIsOpen /\ Held

\* The invariant holds at the start.
LEMMA InitIInv == Init => IInv
  BY BoundsAssumption
     DEF Init, IInv, TypeOK, HoldsOwn, OneConnection, WaitersAreServed, SpentIsEnded,
         JoinableIsOpen, Held, Conn, Made

-------------------------------------------------------------------------------
(* What the type invariant says of one object, and what ending does.        *)

\* The fields of an object, in the ranges the steps need.
LEMMA Fields ==
  ASSUME TypeOK, NEW k \in Conn
  PROVE  /\ fs[k] \in 0..made /\ pending[k] \in {0, fs[k]} /\ owner[k] \in 0..made
         /\ fs[k] # 0 => fs[k] \in Made /\ owner[fs[k]] = k
         /\ made \in Nat /\ Made \subseteq Conn
         /\ table # 0 => table \in Conn
         /\ k \in Made => owner[k] \in Made
  BY BoundsAssumption DEF TypeOK, HoldsOwn, Conn, Made

\* What ending the connection of an object ends.
LEMMA EndedAfter ==
  ASSUME TypeOK, NEW k, ended' = EndedBy(k), NEW d \in Conn
  PROVE  ended'[d] <=> ended[d] \/ d = fs[k]
  BY DEF TypeOK, EndedBy

\* invalid() leaves the object in the table with nothing that was not ended.
LEMMA InvalidatedSpent ==
  ASSUME IInv, NEW k, Invalidates(k), table' = table, fs' = fs,
         \A d \in Conn : ended[d] \/ d = fs[k] => ended'[d]
  PROVE  SpentIsEnded'
<1> SUFFICES ASSUME table # 0, ~isValid'[table], pending'[table] = 0
             PROVE  fs[table] # 0 /\ ended'[fs[table]]
  BY DEF SpentIsEnded
<1>1. table \in Conn /\ fs[table] # 0 /\ fs[table] \in Conn
  <2>1. table \in Conn
    BY BoundsAssumption DEF IInv, TypeOK, Conn
  <2> QED
    BY <2>1, Fields DEF IInv, Held
<1>2. CASE table = k
  BY <1>1, <1>2
<1>3. CASE table # k
  BY <1>1, <1>3 DEF IInv, TypeOK, SpentIsEnded, Invalidates
<1> QED
  BY <1>2, <1>3

-------------------------------------------------------------------------------
(* Types.                                                                    *)

\* The object that connects holds the connection it makes, the others keep theirs.
LEMMA FreshHoldsOwn == ASSUME TypeOK, NEW a \in Caller, GetFresh(a) PROVE HoldsOwn'
<1> DEFINE d == made + 1
           k == IF table = 0 THEN d ELSE table
<1>0. d \in Conn /\ k \in Conn /\ made' = d /\ made \in Nat
  BY BoundsAssumption DEF TypeOK, Conn, GetFresh, CacheObject
<1>1. /\ pending' = [pending EXCEPT ![k] = d] /\ fs' = [fs EXCEPT ![k] = d]
      /\ owner' = [owner EXCEPT ![d] = k]
  BY DEF GetFresh, CacheObject, Created
<1>2. /\ pending \in [Conn -> 0..made] /\ fs \in [Conn -> 0..made] /\ owner \in [Conn -> 0..made]
      /\ HoldsOwn
  BY DEF TypeOK
<1> HIDE DEF k
<1>3. ASSUME NEW c \in Conn, c \in Made' PROVE owner'[c] # 0
  BY <1>0, <1>1, <1>2, <1>3 DEF HoldsOwn, Made, Conn
<1>4. ASSUME NEW j \in Conn PROVE pending'[j] \in {0, fs'[j]} /\ (fs'[j] # 0 => owner'[fs'[j]] = j)
  <2>1. CASE j = k
    BY <2>1, <1>0, <1>1, <1>2
  <2>2. CASE j # k
    <3>1. pending'[j] = pending[j] /\ fs'[j] = fs[j] /\ fs[j] \in 0..made
      BY <2>2, <1>1, <1>2
    <3>2. fs[j] # 0 => fs[j] \in Conn /\ fs[j] # d
      BY <3>1, <1>0, BoundsAssumption DEF Conn
    <3> QED
      BY <3>1, <3>2, <1>1, <1>2 DEF HoldsOwn
  <2> QED
    BY <2>1, <2>2
<1> QED
  BY <1>3, <1>4 DEF HoldsOwn

\* An object that was told of an end awaits nothing.
LEMMA EventPending == ASSUME TypeOK, NEW c \in Conn, Event(c) PROVE pending' \in [Conn -> 0..made']
<1>1. pending' = [pending EXCEPT ![owner[c]] = 0] /\ made' = made
  BY DEF Event, Invalidates
<1>2. pending \in [Conn -> 0..made] /\ 0 \in 0..made
  BY DEF TypeOK
<1> QED
  BY <1>1, <1>2

\* An object whose connecting failed awaits nothing.
LEMMA FailsPending == ASSUME TypeOK, NEW c \in Conn, Fails(c) PROVE pending' \in [Conn -> 0..made']
<1>1. pending' = [pending EXCEPT ![owner[c]] = 0] /\ made' = made
  BY DEF Fails, Invalidates
<1>2. pending \in [Conn -> 0..made] /\ 0 \in 0..made
  BY DEF TypeOK
<1> QED
  BY <1>1, <1>2

\* GetCached keeps the types.
LEMMA GetCachedTypes == ASSUME TypeOK, NEW a \in Caller, GetCached(a) PROVE TypeOK'
<1> USE BoundsAssumption DEF TypeOK, Conn, GetCached, Usable, Idle, connections
<1>0. table \in Conn /\ fs[table] \in 0..made
  OBVIOUS
<1>1. made' \in 0..MaxConn /\ table' \in 0..made' /\ isValid' \in [Conn -> BOOLEAN]
  BY <1>0
<1>2. pending' \in [Conn -> 0..made']
  BY <1>0
<1>3. fs' \in [Conn -> 0..made']
  BY <1>0
<1>4. owner' \in [Conn -> 0..made']
  BY <1>0
<1>5. client' \in [Conn -> {"unused", "connecting", "open", "closed"}]
  BY <1>0
<1>6. promise' \in [Conn -> {"none", "pending", "resolved", "rejected"}]
  BY <1>0
<1>7. ended' \in [Conn -> BOOLEAN] /\ events' \in [Conn -> 0..MaxEvents]
  BY <1>0
<1>8. wait' \in [Caller -> 0..made']
  BY <1>0
<1>9. given' \in [Caller -> 0..made']
  BY <1>0
<1>10. HoldsOwn'
  BY <1>0 DEF HoldsOwn, Made
<1> QED
  BY <1>1, <1>2, <1>3, <1>4, <1>5, <1>6, <1>7, <1>8, <1>9, <1>10

\* GetPending keeps the types.
LEMMA GetPendingTypes == ASSUME TypeOK, NEW a \in Caller, GetPending(a) PROVE TypeOK'
<1> USE BoundsAssumption DEF TypeOK, Conn, GetPending, Idle, objects, connections
<1>0. table \in Conn /\ pending[table] \in 0..made
  OBVIOUS
<1>1. made' \in 0..MaxConn /\ table' \in 0..made' /\ isValid' \in [Conn -> BOOLEAN]
  BY <1>0
<1>2. pending' \in [Conn -> 0..made']
  BY <1>0
<1>3. fs' \in [Conn -> 0..made']
  BY <1>0
<1>4. owner' \in [Conn -> 0..made']
  BY <1>0
<1>5. client' \in [Conn -> {"unused", "connecting", "open", "closed"}]
  BY <1>0
<1>6. promise' \in [Conn -> {"none", "pending", "resolved", "rejected"}]
  BY <1>0
<1>7. ended' \in [Conn -> BOOLEAN] /\ events' \in [Conn -> 0..MaxEvents]
  BY <1>0
<1>8. wait' \in [Caller -> 0..made']
  BY <1>0
<1>9. given' \in [Caller -> 0..made']
  BY <1>0
<1>10. HoldsOwn'
  BY <1>0 DEF HoldsOwn, Made
<1> QED
  BY <1>1, <1>2, <1>3, <1>4, <1>5, <1>6, <1>7, <1>8, <1>9, <1>10

\* GetFresh keeps the types.
LEMMA GetFreshTypes == ASSUME TypeOK, NEW a \in Caller, GetFresh(a) PROVE TypeOK'
<1> USE BoundsAssumption
        DEF TypeOK, Conn, GetFresh, CacheObject, MustConnect, Usable, Created, Replaced,
            EndedBy, Idle
<1> DEFINE d == made + 1
              k == IF table = 0 THEN d ELSE table
<1>0. /\ d \in Conn /\ k \in Conn /\ made' = d
      /\ 0..made \subseteq 0..made' /\ d \in 0..made' /\ k \in 0..made'
  OBVIOUS
<1>1. made' \in 0..MaxConn /\ table' \in 0..made' /\ isValid' \in [Conn -> BOOLEAN]
  BY <1>0
<1>2. pending' \in [Conn -> 0..made']
  BY <1>0
<1>3. fs' \in [Conn -> 0..made']
  BY <1>0
<1>4. owner' \in [Conn -> 0..made']
  BY <1>0
<1>5. client' \in [Conn -> {"unused", "connecting", "open", "closed"}]
  BY <1>0
<1>6. promise' \in [Conn -> {"none", "pending", "resolved", "rejected"}]
  BY <1>0
<1>7. ended' \in [Conn -> BOOLEAN] /\ events' \in [Conn -> 0..MaxEvents]
  BY <1>0
<1>8. wait' \in [Caller -> 0..made']
  BY <1>0
<1>9. given' \in [Caller -> 0..made']
  BY <1>0
<1>10. HoldsOwn'
  BY FreshHoldsOwn
<1> QED
  BY <1>1, <1>2, <1>3, <1>4, <1>5, <1>6, <1>7, <1>8, <1>9, <1>10

\* Connects keeps the types.
LEMMA ConnectsTypes == ASSUME TypeOK, NEW c \in Conn, Connects(c) PROVE TypeOK'
<1> USE BoundsAssumption DEF TypeOK, Conn, Connects, Waiters
<1>1. made' \in 0..MaxConn /\ table' \in 0..made' /\ isValid' \in [Conn -> BOOLEAN]
  OBVIOUS
<1>2. pending' \in [Conn -> 0..made']
  OBVIOUS
<1>3. fs' \in [Conn -> 0..made']
  OBVIOUS
<1>4. owner' \in [Conn -> 0..made']
  OBVIOUS
<1>5. client' \in [Conn -> {"unused", "connecting", "open", "closed"}]
  OBVIOUS
<1>6. promise' \in [Conn -> {"none", "pending", "resolved", "rejected"}]
  OBVIOUS
<1>7. ended' \in [Conn -> BOOLEAN] /\ events' \in [Conn -> 0..MaxEvents]
  OBVIOUS
<1>8. wait' \in [Caller -> 0..made']
  OBVIOUS
<1>9. given' \in [Caller -> 0..made']
  OBVIOUS
<1>10. HoldsOwn'
  BY DEF HoldsOwn, Made
<1> QED
  BY <1>1, <1>2, <1>3, <1>4, <1>5, <1>6, <1>7, <1>8, <1>9, <1>10

\* Fails keeps the types.
LEMMA FailsTypes == ASSUME TypeOK, NEW c \in Conn, Fails(c) PROVE TypeOK'
<1> USE BoundsAssumption DEF TypeOK, Conn, Fails, Waiters, EndedBy, Invalidates
<1>1. made' \in 0..MaxConn /\ table' \in 0..made' /\ isValid' \in [Conn -> BOOLEAN]
  OBVIOUS
<1>2. pending' \in [Conn -> 0..made']
  BY FailsPending
<1>3. fs' \in [Conn -> 0..made']
  OBVIOUS
<1>4. owner' \in [Conn -> 0..made']
  OBVIOUS
<1>5. client' \in [Conn -> {"unused", "connecting", "open", "closed"}]
  OBVIOUS
<1>6. promise' \in [Conn -> {"none", "pending", "resolved", "rejected"}]
  OBVIOUS
<1>7. ended' \in [Conn -> BOOLEAN] /\ events' \in [Conn -> 0..MaxEvents]
  OBVIOUS
<1>8. wait' \in [Caller -> 0..made']
  OBVIOUS
<1>9. given' \in [Caller -> 0..made']
  OBVIOUS
<1>10. HoldsOwn'
  BY DEF HoldsOwn, Made
<1> QED
  BY <1>1, <1>2, <1>3, <1>4, <1>5, <1>6, <1>7, <1>8, <1>9, <1>10

\* Drop keeps the types.
LEMMA DropTypes == ASSUME TypeOK, NEW c \in Conn, Drop(c) PROVE TypeOK'
<1> USE BoundsAssumption DEF TypeOK, Conn, Drop, objects, callers
<1>1. made' \in 0..MaxConn /\ table' \in 0..made' /\ isValid' \in [Conn -> BOOLEAN]
  OBVIOUS
<1>2. pending' \in [Conn -> 0..made']
  OBVIOUS
<1>3. fs' \in [Conn -> 0..made']
  OBVIOUS
<1>4. owner' \in [Conn -> 0..made']
  OBVIOUS
<1>5. client' \in [Conn -> {"unused", "connecting", "open", "closed"}]
  OBVIOUS
<1>6. promise' \in [Conn -> {"none", "pending", "resolved", "rejected"}]
  OBVIOUS
<1>7. ended' \in [Conn -> BOOLEAN] /\ events' \in [Conn -> 0..MaxEvents]
  OBVIOUS
<1>8. wait' \in [Caller -> 0..made']
  OBVIOUS
<1>9. given' \in [Caller -> 0..made']
  OBVIOUS
<1>10. HoldsOwn'
  BY DEF HoldsOwn, Made
<1> QED
  BY <1>1, <1>2, <1>3, <1>4, <1>5, <1>6, <1>7, <1>8, <1>9, <1>10

\* Event keeps the types.
LEMMA EventTypes == ASSUME TypeOK, NEW c \in Conn, Event(c) PROVE TypeOK'
<1> USE BoundsAssumption DEF TypeOK, Conn, Event, EndedBy, Invalidates, callers
<1>1. made' \in 0..MaxConn /\ table' \in 0..made' /\ isValid' \in [Conn -> BOOLEAN]
  OBVIOUS
<1>2. pending' \in [Conn -> 0..made']
  BY EventPending
<1>3. fs' \in [Conn -> 0..made']
  OBVIOUS
<1>4. owner' \in [Conn -> 0..made']
  OBVIOUS
<1>5. client' \in [Conn -> {"unused", "connecting", "open", "closed"}]
  OBVIOUS
<1>6. promise' \in [Conn -> {"none", "pending", "resolved", "rejected"}]
  OBVIOUS
<1>7. ended' \in [Conn -> BOOLEAN] /\ events' \in [Conn -> 0..MaxEvents]
  OBVIOUS
<1>8. wait' \in [Caller -> 0..made']
  OBVIOUS
<1>9. given' \in [Caller -> 0..made']
  OBVIOUS
<1>10. HoldsOwn'
  BY DEF HoldsOwn, Made
<1> QED
  BY <1>1, <1>2, <1>3, <1>4, <1>5, <1>6, <1>7, <1>8, <1>9, <1>10

\* Remove keeps the types.
LEMMA RemoveTypes == ASSUME TypeOK, Remove PROVE TypeOK'
<1> USE BoundsAssumption DEF TypeOK, Conn, Remove, EndedBy, callers
<1>1. made' \in 0..MaxConn /\ table' \in 0..made' /\ isValid' \in [Conn -> BOOLEAN]
  OBVIOUS
<1>2. pending' \in [Conn -> 0..made']
  OBVIOUS
<1>3. fs' \in [Conn -> 0..made']
  OBVIOUS
<1>4. owner' \in [Conn -> 0..made']
  OBVIOUS
<1>5. client' \in [Conn -> {"unused", "connecting", "open", "closed"}]
  OBVIOUS
<1>6. promise' \in [Conn -> {"none", "pending", "resolved", "rejected"}]
  OBVIOUS
<1>7. ended' \in [Conn -> BOOLEAN] /\ events' \in [Conn -> 0..MaxEvents]
  OBVIOUS
<1>8. wait' \in [Caller -> 0..made']
  OBVIOUS
<1>9. given' \in [Caller -> 0..made']
  OBVIOUS
<1>10. HoldsOwn'
  BY DEF HoldsOwn, Made
<1> QED
  BY <1>1, <1>2, <1>3, <1>4, <1>5, <1>6, <1>7, <1>8, <1>9, <1>10

\* Finish keeps the types.
LEMMA FinishTypes == ASSUME TypeOK, NEW a \in Caller, Finish(a) PROVE TypeOK'
<1> USE BoundsAssumption DEF TypeOK, Conn, Finish, objects, connections
<1>1. made' \in 0..MaxConn /\ table' \in 0..made' /\ isValid' \in [Conn -> BOOLEAN]
  OBVIOUS
<1>2. pending' \in [Conn -> 0..made']
  OBVIOUS
<1>3. fs' \in [Conn -> 0..made']
  OBVIOUS
<1>4. owner' \in [Conn -> 0..made']
  OBVIOUS
<1>5. client' \in [Conn -> {"unused", "connecting", "open", "closed"}]
  OBVIOUS
<1>6. promise' \in [Conn -> {"none", "pending", "resolved", "rejected"}]
  OBVIOUS
<1>7. ended' \in [Conn -> BOOLEAN] /\ events' \in [Conn -> 0..MaxEvents]
  OBVIOUS
<1>8. wait' \in [Caller -> 0..made']
  OBVIOUS
<1>9. given' \in [Caller -> 0..made']
  OBVIOUS
<1>10. HoldsOwn'
  BY DEF HoldsOwn, Made
<1> QED
  BY <1>1, <1>2, <1>3, <1>4, <1>5, <1>6, <1>7, <1>8, <1>9, <1>10

\* A stutter keeps the types.
LEMMA StutterTypes == ASSUME TypeOK, UNCHANGED vars PROVE TypeOK'
<1> USE BoundsAssumption DEF TypeOK, Conn, vars, objects, connections, callers
<1>1. made' \in 0..MaxConn /\ table' \in 0..made' /\ isValid' \in [Conn -> BOOLEAN]
  OBVIOUS
<1>2. pending' \in [Conn -> 0..made']
  OBVIOUS
<1>3. fs' \in [Conn -> 0..made']
  OBVIOUS
<1>4. owner' \in [Conn -> 0..made']
  OBVIOUS
<1>5. client' \in [Conn -> {"unused", "connecting", "open", "closed"}]
  OBVIOUS
<1>6. promise' \in [Conn -> {"none", "pending", "resolved", "rejected"}]
  OBVIOUS
<1>7. ended' \in [Conn -> BOOLEAN] /\ events' \in [Conn -> 0..MaxEvents]
  OBVIOUS
<1>8. wait' \in [Caller -> 0..made']
  OBVIOUS
<1>9. given' \in [Caller -> 0..made']
  OBVIOUS
<1>10. HoldsOwn'
  BY DEF HoldsOwn, Made
<1> QED
  BY <1>1, <1>2, <1>3, <1>4, <1>5, <1>6, <1>7, <1>8, <1>9, <1>10

-------------------------------------------------------------------------------
(* The rest of the invariant, given the types.                               *)

\* GetCached keeps the invariant.
LEMMA GetCachedStep == ASSUME IInv, NEW a \in Caller, GetCached(a) PROVE IInv'
<1>1. TypeOK'
  BY GetCachedTypes DEF IInv
<1>2. WaitersAreServed'
  <2>1. wait[a] = 0 /\ wait' = wait /\ promise' = promise
    BY DEF GetCached, Idle, connections
  <2>2. \A b \in Caller \ {a} : given'[b] = given[b]
    BY DEF GetCached, IInv, TypeOK
  <2> QED
    BY <2>1, <2>2 DEF IInv, WaitersAreServed
<1>3. OneConnection'
  BY <1>1, BoundsAssumption DEF IInv, TypeOK, Conn, Made, OneConnection, SpentIsEnded, Held,
       GetCached, Usable, Idle, connections
<1>4. SpentIsEnded'
  BY <1>1, BoundsAssumption DEF IInv, TypeOK, Conn, Made, SpentIsEnded, Held, GetCached,
       Usable, Idle, connections
<1>5. JoinableIsOpen'
  BY <1>1, BoundsAssumption DEF IInv, TypeOK, Conn, Made, JoinableIsOpen, HoldsOwn,
       GetCached, Usable, Idle, connections
<1>6. Held'
  BY <1>1, BoundsAssumption DEF IInv, TypeOK, Conn, Made, Held, GetCached, Usable, Idle,
       connections
<1> QED
  BY <1>1, <1>2, <1>3, <1>4, <1>5, <1>6 DEF IInv

\* GetPending keeps the invariant.
LEMMA GetPendingStep == ASSUME IInv, NEW a \in Caller, GetPending(a) PROVE IInv'
<1>1. TypeOK'
  BY GetPendingTypes DEF IInv
<1>2. WaitersAreServed'
  <2>1. table \in Conn /\ promise[pending[table]] = "pending"
    BY Fields, BoundsAssumption DEF GetPending, IInv, TypeOK, JoinableIsOpen, Conn
  <2>2. given[a] = 0 /\ given' = given /\ promise' = promise /\ wait'[a] = pending[table]
        /\ \A b \in Caller \ {a} : wait'[b] = wait[b]
    BY DEF GetPending, Idle, connections, objects, IInv, TypeOK
  <2> QED
    BY <2>1, <2>2 DEF IInv, WaitersAreServed
<1>3. OneConnection'
  BY <1>1, BoundsAssumption DEF IInv, TypeOK, Conn, Made, OneConnection, SpentIsEnded, Held,
       GetPending, Idle, objects, connections
<1>4. SpentIsEnded'
  BY <1>1, BoundsAssumption DEF IInv, TypeOK, Conn, Made, SpentIsEnded, Held, GetPending,
       Idle, objects, connections
<1>5. JoinableIsOpen'
  BY <1>1, BoundsAssumption DEF IInv, TypeOK, Conn, Made, JoinableIsOpen, HoldsOwn,
       GetPending, Idle, objects, connections
<1>6. Held'
  BY <1>1, BoundsAssumption DEF IInv, TypeOK, Conn, Made, Held, GetPending, Idle, objects,
       connections
<1> QED
  BY <1>1, <1>2, <1>3, <1>4, <1>5, <1>6 DEF IInv

\* GetFresh keeps the invariant.
LEMMA GetFreshStep == ASSUME IInv, NEW a \in Caller, GetFresh(a) PROVE IInv'
<1>1. TypeOK'
  BY GetFreshTypes DEF IInv
<1>2. OneConnection' /\ JoinableIsOpen' /\ WaitersAreServed' /\ SpentIsEnded' /\ Held'
  <2> DEFINE d == made + 1
             k == IF table = 0 THEN d ELSE table
  <2>0. made \in Nat /\ d \in Conn /\ k \in Conn /\ k # 0
    BY BoundsAssumption DEF GetFresh, CacheObject, IInv, TypeOK, Conn
  <2>1. /\ table' = k /\ made' = d
        /\ isValid' = [isValid EXCEPT ![k] = FALSE] /\ pending' = [pending EXCEPT ![k] = d]
        /\ fs' = [fs EXCEPT ![k] = d] /\ promise' = [promise EXCEPT ![d] = "pending"]
        /\ isValid \in [Conn -> BOOLEAN] /\ pending \in [Conn -> 0..made] /\ fs \in [Conn -> 0..made]
        /\ promise \in [Conn -> {"none", "pending", "resolved", "rejected"}]
    BY DEF GetFresh, CacheObject, Created, IInv, TypeOK
  <2>2. ASSUME NEW c \in Made PROVE c \in Conn /\ ended'[c]
    <3>1. c \in Conn
      BY BoundsAssumption DEF IInv, TypeOK, Conn, Made
    <3>2. CASE ended[c]
      BY <3>1, <3>2 DEF GetFresh, Replaced, EndedBy, IInv, TypeOK
    <3>3. CASE ~ended[c]
      <4>1. table # 0 /\ c = fs[table] /\ c # 0
        BY <3>3 DEF IInv, OneConnection, Made
      <4>2. isValid[table]
        BY <3>3, <4>1 DEF GetFresh, MustConnect, IInv, SpentIsEnded
      <4> QED
        BY <3>1, <4>1, <4>2 DEF GetFresh, Replaced, EndedBy
    <3> QED
      BY <3>2, <3>3
  <2>3. OneConnection'
    <3>1. \A c \in Made' : c \in Made \/ c = d
      BY <2>0, <2>1 DEF Made
    <3>2. fs'[table'] = d /\ table' # 0
      BY <2>0, <2>1
    <3> QED
      BY <3>1, <3>2, <2>2 DEF OneConnection
  <2>4. ASSUME NEW j \in Conn, ~isValid'[j], pending'[j] # 0 PROVE promise'[pending'[j]] = "pending"
    <3>1. CASE j = k
      BY <3>1, <2>0, <2>1
    <3>2. CASE j # k
      <4>1. pending'[j] = pending[j] /\ isValid'[j] = isValid[j] /\ pending[j] \in 0..made
        BY <3>2, <2>1
      <4>2. pending[j] # d /\ pending[j] \in Conn
        BY <4>1, <2>0, <2>1, <2>4, Fields DEF IInv
      <4>3. promise[pending[j]] = "pending"
        BY <4>1, <2>4 DEF IInv, JoinableIsOpen
      <4> QED
        BY <4>1, <4>2, <4>3, <2>0, <2>1
    <3> QED
      BY <3>1, <3>2
  <2>5. WaitersAreServed'
    <3>1. wait' = [wait EXCEPT ![a] = d] /\ given' = given /\ given[a] = 0
      BY DEF GetFresh, Idle
    <3>2. wait \in [Caller -> 0..made] /\ WaitersAreServed
      BY DEF IInv, TypeOK
    <3>3. ASSUME NEW b \in Caller, wait'[b] # 0
          PROVE promise'[wait'[b]] = "pending" /\ given'[b] = 0
      <4>1. CASE b = a
        BY <4>1, <3>1, <3>2, <2>0, <2>1
      <4>2. CASE b # a
        <5>1. wait'[b] = wait[b] /\ wait[b] \in 0..made /\ wait[b] # d
          BY <4>2, <3>1, <3>2, <2>0
        <5>2. wait[b] \in Conn
          BY <5>1, <3>3, <2>0, BoundsAssumption DEF Conn
        <5>3. promise[wait[b]] = "pending" /\ given[b] = 0
          BY <5>1, <3>2, <3>3 DEF WaitersAreServed
        <5> QED
          BY <5>1, <5>2, <5>3, <3>1, <2>1
      <4> QED
        BY <4>1, <4>2
    <3> QED
      BY <3>3 DEF WaitersAreServed
  <2>6. SpentIsEnded'
    <3>1. pending'[table'] # 0
      BY <2>0, <2>1
    <3> QED
      BY <3>1 DEF SpentIsEnded
  <2>7. Held'
    <3>1. fs'[table'] # 0 /\ Made \subseteq Made' /\ d \in Made'
      BY <2>0, <2>1 DEF Made
    <3>2. ASSUME NEW c \in Conn, promise'[c] = "pending" PROVE c \in Made'
      <4>1. c = d \/ promise[c] = "pending"
        BY <3>2, <2>1
      <4> QED
        BY <4>1, <3>1 DEF IInv, Held
    <3> QED
      BY <3>1, <3>2 DEF Held
  <2> QED
    BY <2>3, <2>4, <2>5, <2>6, <2>7 DEF JoinableIsOpen
<1> QED
  BY <1>1, <1>2 DEF IInv

\* Connects keeps the invariant.
LEMMA ConnectsStep == ASSUME IInv, NEW c \in Conn, Connects(c) PROVE IInv'
<1>1. TypeOK'
  BY ConnectsTypes DEF IInv
<1>2. SpentIsEnded' /\ JoinableIsOpen'
  <2>1. /\ table' = table /\ pending' = pending /\ fs' = fs /\ ended' = ended
        /\ isValid' = [isValid EXCEPT ![owner[c]] = TRUE]
        /\ promise' = [promise EXCEPT ![c] = "resolved"] /\ promise[c] = "pending"
        /\ isValid \in [Conn -> BOOLEAN]
        /\ promise \in [Conn -> {"none", "pending", "resolved", "rejected"}]
    BY DEF Connects, IInv, TypeOK
  <2>2. \A k \in Conn : ~isValid'[k] => ~isValid[k] /\ k # owner[c]
    BY <2>1
  <2>3. SpentIsEnded'
    BY <2>1, <2>2, Fields DEF IInv, SpentIsEnded, TypeOK
  <2>4. ASSUME NEW k \in Conn, ~isValid'[k], pending'[k] # 0 PROVE promise'[pending'[k]] = "pending"
    <3>1. pending[k] = fs[k] /\ pending[k] \in Conn /\ owner[pending[k]] = k
      BY <2>1, <2>4, Fields DEF IInv
    <3>2. pending[k] # c /\ promise[pending[k]] = "pending"
      BY <3>1, <2>1, <2>2, <2>4 DEF IInv, JoinableIsOpen
    <3> QED
      BY <2>1, <3>1, <3>2
  <2> QED
    BY <2>3, <2>4 DEF JoinableIsOpen
<1>3. OneConnection'
  BY <1>1, BoundsAssumption DEF IInv, TypeOK, Conn, Made, OneConnection, SpentIsEnded, Held,
       Connects, Waiters
<1>4. WaitersAreServed'
  BY <1>1, BoundsAssumption DEF IInv, TypeOK, Conn, Made, WaitersAreServed, JoinableIsOpen,
       Connects, Waiters
<1>5. Held'
  BY <1>1, BoundsAssumption DEF IInv, TypeOK, Conn, Made, Held, Connects, Waiters
<1> QED
  BY <1>1, <1>2, <1>3, <1>4, <1>5 DEF IInv

\* Fails keeps the invariant.
LEMMA FailsStep == ASSUME IInv, NEW c \in Conn, Fails(c) PROVE IInv'
<1>1. TypeOK'
  BY FailsTypes DEF IInv
<1>2. OneConnection' /\ SpentIsEnded' /\ JoinableIsOpen'
  <2>1. /\ table' = table /\ fs' = fs /\ made' = made /\ Invalidates(owner[c])
        /\ promise' = [promise EXCEPT ![c] = "rejected"] /\ promise[c] = "pending"
        /\ promise \in [Conn -> {"none", "pending", "resolved", "rejected"}]
    BY DEF Fails, IInv, TypeOK
  <2>2. \A d \in Conn : ended'[d] <=> ended[d] \/ d = c \/ d = fs[owner[c]]
    BY DEF Fails, EndedBy, IInv, TypeOK
  <2>3. OneConnection'
    BY <2>1, <2>2, Fields DEF IInv, OneConnection, Made
  <2>4. SpentIsEnded'
    BY <2>1, <2>2, InvalidatedSpent
  <2>5. ASSUME NEW k \in Conn, ~isValid'[k], pending'[k] # 0 PROVE promise'[pending'[k]] = "pending"
    <3>1. k # owner[c] /\ pending'[k] = pending[k] /\ isValid'[k] = isValid[k]
      BY <2>1, <2>5 DEF Invalidates, IInv, TypeOK
    <3>2. pending[k] = fs[k] /\ pending[k] \in Conn /\ owner[pending[k]] = k
      BY <3>1, <2>5, Fields DEF IInv
    <3> QED
      BY <3>1, <3>2, <2>1, <2>5 DEF IInv, JoinableIsOpen
  <2> QED
    BY <2>3, <2>4, <2>5 DEF JoinableIsOpen
<1>3. WaitersAreServed'
  BY <1>1, BoundsAssumption DEF IInv, TypeOK, Conn, Made, WaitersAreServed, JoinableIsOpen,
       Fails, Waiters, EndedBy, Invalidates
<1>4. Held'
  BY <1>1, BoundsAssumption DEF IInv, TypeOK, Conn, Made, Held, Fails, Waiters, EndedBy,
       Invalidates
<1> QED
  BY <1>1, <1>2, <1>3, <1>4 DEF IInv

\* Drop keeps the invariant.
LEMMA CloseStep == ASSUME IInv, NEW c \in Conn, Drop(c) PROVE IInv'
<1>1. TypeOK'
  BY DropTypes DEF IInv
<1>2. OneConnection'
  BY <1>1, BoundsAssumption DEF IInv, TypeOK, Conn, Made, OneConnection, SpentIsEnded, Held,
       Drop, objects, callers
<1>3. WaitersAreServed'
  BY <1>1, BoundsAssumption DEF IInv, TypeOK, Conn, Made, WaitersAreServed, JoinableIsOpen,
       Drop, objects, callers
<1>4. SpentIsEnded'
  BY <1>1, BoundsAssumption DEF IInv, TypeOK, Conn, Made, SpentIsEnded, Held, Drop, objects,
       callers
<1>5. JoinableIsOpen'
  BY <1>1, BoundsAssumption DEF IInv, TypeOK, Conn, Made, JoinableIsOpen, HoldsOwn, Drop,
       objects, callers
<1>6. Held'
  BY <1>1, BoundsAssumption DEF IInv, TypeOK, Conn, Made, Held, Drop, objects, callers
<1> QED
  BY <1>1, <1>2, <1>3, <1>4, <1>5, <1>6 DEF IInv

\* Event keeps the invariant.
LEMMA EventStep == ASSUME IInv, NEW c \in Conn, Event(c) PROVE IInv'
<1>1. TypeOK'
  BY EventTypes DEF IInv
<1>2. SpentIsEnded'
  <2>1. table' = table /\ fs' = fs /\ Invalidates(owner[c]) /\ ended' = EndedBy(owner[c])
    BY DEF Event
  <2>2. \A d \in Conn : ended'[d] <=> ended[d] \/ d = fs[owner[c]]
    BY <2>1, EndedAfter DEF IInv
  <2> QED
    BY <2>1, <2>2, InvalidatedSpent
<1>3. OneConnection'
  BY <1>1, BoundsAssumption DEF IInv, TypeOK, Conn, Made, OneConnection, SpentIsEnded, Held,
       Event, EndedBy, Invalidates, callers
<1>4. WaitersAreServed'
  BY <1>1, BoundsAssumption DEF IInv, TypeOK, Conn, Made, WaitersAreServed, JoinableIsOpen,
       Event, EndedBy, Invalidates, callers
<1>5. JoinableIsOpen'
  BY <1>1, BoundsAssumption DEF IInv, TypeOK, Conn, Made, JoinableIsOpen, HoldsOwn, Event,
       EndedBy, Invalidates, callers
<1>6. Held'
  BY <1>1, BoundsAssumption DEF IInv, TypeOK, Conn, Made, Held, Event, EndedBy, Invalidates,
       callers
<1> QED
  BY <1>1, <1>2, <1>3, <1>4, <1>5, <1>6 DEF IInv

\* Remove keeps the invariant.
LEMMA RemoveStep == ASSUME IInv, Remove PROVE IInv'
<1>1. TypeOK'
  BY RemoveTypes DEF IInv
<1>2. OneConnection'
  <2>1. table # 0 /\ ended' = EndedBy(table) /\ made' = made
    BY DEF Remove
  <2>2. \A d \in Conn : ended'[d] <=> ended[d] \/ d = fs[table]
    BY <2>1, EndedAfter DEF IInv
  <2>3. \A d \in Made : d \in Conn
    BY BoundsAssumption DEF IInv, TypeOK, Conn, Made
  <2>4. \A d \in Made : ended'[d]
    BY <2>1, <2>2, <2>3 DEF IInv, OneConnection
  <2> QED
    BY <2>1, <2>4 DEF OneConnection, Made
<1>3. WaitersAreServed'
  BY <1>1, BoundsAssumption DEF IInv, TypeOK, Conn, Made, WaitersAreServed, JoinableIsOpen,
       Remove, EndedBy, callers
<1>4. SpentIsEnded'
  BY <1>1, BoundsAssumption DEF IInv, TypeOK, Conn, Made, SpentIsEnded, Held, Remove,
       EndedBy, callers
<1>5. JoinableIsOpen'
  BY <1>1, BoundsAssumption DEF IInv, TypeOK, Conn, Made, JoinableIsOpen, HoldsOwn, Remove,
       EndedBy, callers
<1>6. Held'
  BY <1>1, BoundsAssumption DEF IInv, TypeOK, Conn, Made, Held, Remove, EndedBy, callers
<1> QED
  BY <1>1, <1>2, <1>3, <1>4, <1>5, <1>6 DEF IInv

\* Finish keeps the invariant.
LEMMA SettleStep == ASSUME IInv, NEW a \in Caller, Finish(a) PROVE IInv'
<1>1. TypeOK'
  BY FinishTypes DEF IInv
<1>2. OneConnection'
  BY <1>1, BoundsAssumption DEF IInv, TypeOK, Conn, Made, OneConnection, SpentIsEnded, Held,
       Finish, objects, connections
<1>3. WaitersAreServed'
  BY <1>1, BoundsAssumption DEF IInv, TypeOK, Conn, Made, WaitersAreServed, JoinableIsOpen,
       Finish, objects, connections
<1>4. SpentIsEnded'
  BY <1>1, BoundsAssumption DEF IInv, TypeOK, Conn, Made, SpentIsEnded, Held, Finish,
       objects, connections
<1>5. JoinableIsOpen'
  BY <1>1, BoundsAssumption DEF IInv, TypeOK, Conn, Made, JoinableIsOpen, HoldsOwn, Finish,
       objects, connections
<1>6. Held'
  BY <1>1, BoundsAssumption DEF IInv, TypeOK, Conn, Made, Held, Finish, objects, connections
<1> QED
  BY <1>1, <1>2, <1>3, <1>4, <1>5, <1>6 DEF IInv

\* A stutter keeps the invariant.
LEMMA StutterStep == ASSUME IInv, UNCHANGED vars PROVE IInv'
<1>1. TypeOK'
  BY StutterTypes DEF IInv
<1>2. OneConnection'
  BY <1>1, BoundsAssumption DEF IInv, TypeOK, Conn, Made, OneConnection, SpentIsEnded, Held,
       vars, objects, connections, callers
<1>3. WaitersAreServed'
  BY <1>1, BoundsAssumption DEF IInv, TypeOK, Conn, Made, WaitersAreServed, JoinableIsOpen,
       vars, objects, connections, callers
<1>4. SpentIsEnded'
  BY <1>1, BoundsAssumption DEF IInv, TypeOK, Conn, Made, SpentIsEnded, Held, vars, objects,
       connections, callers
<1>5. JoinableIsOpen'
  BY <1>1, BoundsAssumption DEF IInv, TypeOK, Conn, Made, JoinableIsOpen, HoldsOwn, vars,
       objects, connections, callers
<1>6. Held'
  BY <1>1, BoundsAssumption DEF IInv, TypeOK, Conn, Made, Held, vars, objects, connections,
       callers
<1> QED
  BY <1>1, <1>2, <1>3, <1>4, <1>5, <1>6 DEF IInv

-------------------------------------------------------------------------------
\* Every step keeps the invariant.
LEMMA NextStep == ASSUME IInv, [Next]_vars PROVE IInv'
<1>1. CASE \E a \in Caller : Ask(a) \/ Finish(a)
  BY <1>1, GetCachedStep, GetPendingStep, GetFreshStep, SettleStep DEF Ask
<1>2. CASE \E c \in Conn : Network(c)
  BY <1>2, ConnectsStep, FailsStep, CloseStep, EventStep DEF Network
<1>3. CASE Remove
  BY <1>3, RemoveStep
<1>4. CASE UNCHANGED vars
  BY <1>4, StutterStep
<1> QED
  BY <1>1, <1>2, <1>3, <1>4 DEF Next

\* The invariant holds in every reachable state.
LEMMA Invariance == Spec => []IInv
  BY InitIInv, NextStep, PTL DEF Spec

\* Every variable keeps its type, and an object the connection it made last.
THEOREM TypeCorrect == Spec => []TypeOK
<1>1. IInv => TypeOK
  BY DEF IInv
<1> QED
  BY <1>1, Invariance, PTL

\* However asking, failing, closing, late callbacks and removal interleave, one connection
\* of the endpoint at most was not told to end, and the cache holds it.
THEOREM OneConnectionHeld == Spec => []OneConnection
<1>1. IInv => OneConnection
  BY DEF IInv
<1> QED
  BY <1>1, Invariance, PTL

\* A caller that waits in getFs waits for a promise that is still to be settled.
THEOREM WaitingIsServed == Spec => []WaitersAreServed
<1>1. IInv => WaitersAreServed
  BY DEF IInv
<1> QED
  BY <1>1, Invariance, PTL

\* A connection handed to a caller was open when it was handed out.
THEOREM HandedOutIsOpen == Spec => HandedOutOpen
<1> DEFINE Handed == \A a \in Caller : given'[a] \notin {0, given[a]} => client'[given'[a]] = "open"
<1>1. ASSUME IInv, [Next]_vars PROVE Handed
  <2>1. TypeOK
    BY <1>1 DEF IInv
  <2>2. ASSUME NEW a \in Caller, GetCached(a) PROVE Handed
    BY <2>1, <2>2 DEF GetCached, Usable, TypeOK, connections
  <2>3. ASSUME NEW c \in Conn, Connects(c) PROVE Handed
    BY <2>1, <2>3 DEF Connects, TypeOK
  <2>4. CASE UNCHANGED given
    BY <2>4
  <2>5. ASSUME NEW a \in Caller, Finish(a) PROVE Handed
    BY <2>1, <2>5 DEF Finish, TypeOK
  <2> QED
    BY <1>1, <2>2, <2>3, <2>4, <2>5
       DEF Next, Ask, Network, GetPending, GetFresh, Fails, Drop, Event, Remove, vars, callers
<1>2. ASSUME IInv, [Next]_vars PROVE [Handed]_vars
  BY <1>1, <1>2
<1> QED
  BY <1>2, Invariance, PTL DEF Spec, HandedOutOpen
===============================================================================
