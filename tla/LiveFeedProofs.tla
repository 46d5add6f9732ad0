--------------------------- MODULE LiveFeedProofs ---------------------------
(***************************************************************************)
(* Theorems about the live pages, for any sockets, pairs, rows and events: *)
(* events are shown in their order, and never before what they tell of.    *)
(***************************************************************************)
EXTENDS LiveFeed, TLAPS

-----------------------------------------------------------------------------
(* The inductive invariant *)

\* Only a connection that is up carries events; they are in order, newer than
\* what the page shows, and about rows that are written.
Carries(q, s) ==
  /\ q # << >> => link[s] = "up"
  /\ \A i, k \in DOMAIN q : i < k => q[i].no < q[k].no
  /\ \A i \in DOMAIN q :
       /\ q[i].no <= emitted /\ q[i].row <= rows
       /\ q[i].type \in Pair => q[i].no > prices[q[i].type]
       /\ q[i].type \notin Pair => \A n \in DOMAIN store : q[i].no > store[n].no

ClientInv == \A s \in Socket : Carries(toClient[s], s)

StoreInv ==
  /\ \A i, k \in DOMAIN store : i < k => store[i].no > store[k].no
  /\ \A i \in DOMAIN store : store[i].no <= emitted
  /\ \A p \in Pair : prices[p] <= emitted

LoadInv ==
  \A l \in loads : l.about <= rows /\ (l.rows # NotRead => l.rows >= l.about /\ l.rows <= rows)

\* TypeOK, with the functions that it says nothing of.
TypeInv ==
  /\ TypeOK
  /\ toServer \in [Socket -> Seq(SUBSET Topic)] /\ toClient \in [Socket -> Seq(Event)]

Inv == TypeInv /\ ClientInv /\ StoreInv /\ LoadInv

\* What an event of a queue or of the store is.
LEMMA EventFields ==
  ASSUME NEW q \in Seq(Event), NEW i \in DOMAIN q
  PROVE  /\ q[i] \in Event /\ q[i].no \in 1..MaxEvents /\ q[i].row \in 0..MaxRows
         /\ q[i].type \in {"row", "started"} \cup Pair
         /\ q[i].no \in Int /\ q[i].row \in Int
<1>1. q[i] \in Event
  OBVIOUS
<1>2. q[i].no \in 1..MaxEvents /\ q[i].row \in 0..MaxRows
      /\ q[i].type \in {"row", "started"} \cup Pair
  BY <1>1 DEF Event
<1> QED
  BY <1>1, <1>2, LiveFeedAssumption

-----------------------------------------------------------------------------
(* Connections *)

\* A client receives what it did, or what was on its way is lost.
Loses ==
  \A s \in Socket :
    /\ toClient'[s] = toClient[s] \/ toClient'[s] = << >>
    /\ toClient'[s] # << >> => link'[s] = "up"

\* What a step of a connection does to what its client receives.
LEMMA LinkKeeps ==
  ASSUME Inv, UNCHANGED <<rows, emitted, store, prices, loads>>,
         Loses
  PROVE  ClientInv' /\ StoreInv' /\ LoadInv'
<1>1. ASSUME NEW s \in Socket
      PROVE  Carries(toClient[s], s)' 
  <2>1. CASE toClient'[s] = << >>
    BY <2>1 DEF Carries
  <2>2. CASE toClient'[s] = toClient[s]
    BY <2>2 DEF Carries, Inv, ClientInv, Loses
  <2> QED
    BY <2>1, <2>2 DEF Loses
<1> QED
  BY <1>1 DEF Inv, ClientInv, StoreInv, LoadInv

LEMMA BreakKeeps ==
  ASSUME Inv, NEW s \in Socket, NEW state \in {"opening", "closed"}, Breaks(s, state)
  PROVE  /\ link' \in [Socket -> {"none", "opening", "up", "closed"}]
         /\ toServer' \in [Socket -> Seq(SUBSET Topic)] /\ toClient' \in [Socket -> Seq(Event)]
         /\ rooms' \in [Socket -> SUBSET Topic]
         /\ link'[s] = state /\ \A t \in Socket : t # s => link'[t] = link[t]
         /\ Loses
<1>1. link \in [Socket -> {"none", "opening", "up", "closed"}] /\ rooms \in [Socket -> SUBSET Topic]
      /\ toServer \in [Socket -> Seq(SUBSET Topic)] /\ toClient \in [Socket -> Seq(Event)]
      /\ \A t \in Socket : toClient[t] # << >> => link[t] = "up"
  BY DEF Inv, TypeInv, TypeOK, ClientInv, Carries
<1>2. << >> \in Seq(SUBSET Topic) /\ << >> \in Seq(Event)
  OBVIOUS
<1> QED
  BY <1>1, <1>2 DEF Breaks, Loses

LEMMA ConnectKeeps ==
  ASSUME Inv, NEW s \in Socket, connect(s)
  PROVE  Inv'
<1>1. socket = NoSocket /\ socket' = s /\ link' = [link EXCEPT ![s] = "opening"]
      /\ UNCHANGED <<page, toServer, toClient, rooms, drops, serverVars, pageVars>>
      /\ link[s] = "none"
  BY DEF connect, Fresh, Inv, TypeInv, TypeOK, Socket
<1>2. link \in [Socket -> {"none", "opening", "up", "closed"}]
      /\ \A t \in Socket : link[t] \notin {"opening", "up"}
  BY <1>1, LiveFeedAssumption DEF Inv, TypeInv, TypeOK, Socket, NoSocket
<1>3. TypeInv'
  BY <1>1, <1>2 DEF Inv, TypeInv, TypeOK, serverVars, pageVars
<1>4. \A t \in Socket : toClient[t] = << >>
  BY <1>2 DEF Inv, ClientInv, Carries
<1> QED
  BY <1>1, <1>3, <1>4, LinkKeeps DEF Inv, Loses, serverVars, pageVars

LEMMA DisconnectKeeps ==
  ASSUME Inv, disconnect
  PROVE  Inv'
<1>1. socket \in Socket /\ Breaks(socket, "closed") /\ socket' = NoSocket
      /\ UNCHANGED <<page, drops, serverVars, pageVars>>
  BY DEF disconnect, Inv, TypeInv, TypeOK
<1>2. /\ link' \in [Socket -> {"none", "opening", "up", "closed"}]
      /\ toServer' \in [Socket -> Seq(SUBSET Topic)] /\ toClient' \in [Socket -> Seq(Event)]
      /\ rooms' \in [Socket -> SUBSET Topic]
      /\ link'[socket] = "closed" /\ \A t \in Socket : t # socket => link'[t] = link[t]
      /\ Loses
  BY <1>1, BreakKeeps
<1>3. TypeInv'
  BY <1>1, <1>2 DEF Inv, TypeInv, TypeOK, serverVars, pageVars
<1>4. UNCHANGED <<rows, emitted, store, prices, loads>>
  BY <1>1 DEF serverVars, pageVars
<1>6. ClientInv' /\ StoreInv' /\ LoadInv'
  BY <1>2, <1>4, LinkKeeps
<1> QED
  BY <1>3, <1>6 DEF Inv

LEMMA DropKeeps ==
  ASSUME Inv, NEW s \in Socket, drop(s)
  PROVE  Inv'
<1>1. link[s] = "up" /\ Breaks(s, "opening") /\ drops' \in 0..MaxDrops
      /\ UNCHANGED <<page, socket, serverVars, pageVars>>
  BY LiveFeedAssumption DEF drop, Inv, TypeInv, TypeOK
<1>2. /\ link' \in [Socket -> {"none", "opening", "up", "closed"}]
      /\ toServer' \in [Socket -> Seq(SUBSET Topic)] /\ toClient' \in [Socket -> Seq(Event)]
      /\ rooms' \in [Socket -> SUBSET Topic]
      /\ link'[s] = "opening" /\ \A t \in Socket : t # s => link'[t] = link[t]
      /\ Loses
  BY <1>1, BreakKeeps
<1>3. TypeInv'
  BY <1>1, <1>2 DEF Inv, TypeInv, TypeOK, serverVars, pageVars
<1>4. UNCHANGED <<rows, emitted, store, prices, loads>>
  BY <1>1 DEF serverVars, pageVars
<1>6. ClientInv' /\ StoreInv' /\ LoadInv'
  BY <1>2, <1>4, LinkKeeps
<1> QED
  BY <1>3, <1>6 DEF Inv

LEMMA OnConnectKeeps ==
  ASSUME Inv, NEW s \in Socket, onConnect(s)
  PROVE  Inv'
<1>1. link[s] = "opening" /\ link' = [link EXCEPT ![s] = "up"]
      /\ toServer' = [toServer EXCEPT ![s] = IF topics = {} THEN << >> ELSE <<topics>>]
      /\ UNCHANGED <<page, socket, toClient, rooms, drops, serverVars, pageVars>>
  BY DEF onConnect
<1>2. link' \in [Socket -> {"none", "opening", "up", "closed"}] /\ link'[s] = "up"
      /\ \A t \in Socket : t # s => link'[t] = link[t]
  BY <1>1 DEF Inv, TypeInv, TypeOK
<1>3. << >> \in Seq(SUBSET Topic) /\ <<topics>> \in Seq(SUBSET Topic)
  BY DEF Inv, TypeInv, TypeOK
<1>4. toServer' \in [Socket -> Seq(SUBSET Topic)]
  BY <1>1, <1>3 DEF Inv, TypeInv
<1>5. TypeInv'
  BY <1>1, <1>2, <1>4 DEF Inv, TypeInv, TypeOK, serverVars, pageVars
<1>6. \A t \in Socket : toClient[t] # << >> => link'[t] = "up"
  BY <1>1, <1>2 DEF Inv, ClientInv, Carries
<1> QED
  BY <1>1, <1>5, <1>6, LinkKeeps DEF Inv, Loses, serverVars, pageVars

LEMMA SubscribeKeeps ==
  ASSUME Inv, NEW p \in Topic, subscribe(p)
  PROVE  Inv'
<1>1. topics' = topics \cup {p}
      /\ (toServer' = toServer \/ \E s \in Socket : toServer' = [toServer EXCEPT ![s] = Append(@, {p})])
      /\ UNCHANGED <<page, socket, link, toClient, rooms, drops, serverVars>>
      /\ UNCHANGED <<store, prices, loads, asked, list>>
  BY DEF subscribe, Inv, TypeInv, TypeOK
<1>2. toServer' \in [Socket -> Seq(SUBSET Topic)]
  <2>1. CASE toServer' = toServer
    BY <2>1 DEF Inv, TypeInv
  <2>2. ASSUME NEW s \in Socket, toServer' = [toServer EXCEPT ![s] = Append(@, {p})]
        PROVE  toServer' \in [Socket -> Seq(SUBSET Topic)]
    <3>1. toServer[s] \in Seq(SUBSET Topic) /\ {p} \in SUBSET Topic
      BY DEF Inv, TypeInv
    <3>2. Append(toServer[s], {p}) \in Seq(SUBSET Topic)
      BY <3>1
    <3> QED
      BY <2>2, <3>2 DEF Inv, TypeInv
  <2> QED
    BY <1>1, <2>1, <2>2
<1>3. TypeInv'
  BY <1>1, <1>2 DEF Inv, TypeInv, TypeOK, serverVars
<1>4. \A t \in Socket : toClient[t] # << >> => link[t] = "up"
  BY DEF Inv, ClientInv, Carries
<1> QED
  BY <1>1, <1>3, <1>4, LinkKeeps DEF Inv, Loses, serverVars

LEMMA HandleSubscribeKeeps ==
  ASSUME Inv, NEW s \in Socket, handleSubscribe(s)
  PROVE  Inv'
<1>1. toServer[s] # << >> /\ toServer[s] \in Seq(SUBSET Topic)
      /\ toServer' = [toServer EXCEPT ![s] = Tail(toServer[s])]
      /\ rooms' = [rooms EXCEPT ![s] = rooms[s] \cup Head(toServer[s])]
      /\ UNCHANGED <<page, socket, link, toClient, drops, serverVars, pageVars>>
  BY DEF handleSubscribe, Inv, TypeInv
<1>2. Tail(toServer[s]) \in Seq(SUBSET Topic) /\ Head(toServer[s]) \in SUBSET Topic
  BY <1>1
<1>3. toServer' \in [Socket -> Seq(SUBSET Topic)] /\ rooms' \in [Socket -> SUBSET Topic]
  BY <1>1, <1>2 DEF Inv, TypeInv, TypeOK
<1>4. TypeInv'
  BY <1>1, <1>3 DEF Inv, TypeInv, TypeOK, serverVars, pageVars
<1>5. \A t \in Socket : toClient[t] # << >> => link[t] = "up"
  BY DEF Inv, ClientInv, Carries
<1> QED
  BY <1>1, <1>4, <1>5, LinkKeeps DEF Inv, Loses, serverVars, pageVars

-----------------------------------------------------------------------------
(* The server *)

LEMMA WriteKeeps ==
  ASSUME Inv, write
  PROVE  Inv'
<1>1. rows \in Nat /\ rows' = rows + 1 /\ rows' \in 0..MaxRows /\ unsent' = unsent \cup {rows + 1}
      /\ UNCHANGED <<page, emitted, linkVars, pageVars>>
  BY LiveFeedAssumption DEF write, Inv, TypeInv, TypeOK
<1>2. unsent' \subseteq 1..rows' /\ list \in 0..rows'
  BY <1>1 DEF Inv, TypeInv, TypeOK
<1>3. TypeInv'
  BY <1>1, <1>2 DEF Inv, TypeInv, TypeOK, linkVars, pageVars
<1>4. ClientInv'
  <2> SUFFICES ASSUME NEW s \in Socket PROVE Carries(toClient[s], s)'
    BY DEF ClientInv
  <2>1. Carries(toClient[s], s) /\ toClient[s] \in Seq(Event)
    BY DEF Inv, ClientInv, TypeInv
  <2>2. \A i \in DOMAIN toClient[s] : toClient[s][i].row \in Int
    BY <2>1, EventFields
  <2>3. UNCHANGED <<toClient, link, emitted, prices, store>> /\ rows' = rows + 1
    BY <1>1 DEF linkVars, pageVars
  <2>4. \A i \in DOMAIN toClient[s] : toClient[s][i].row <= rows + 1
    BY <1>1, <2>1, <2>2 DEF Carries
  <2> QED
    BY <2>1, <2>3, <2>4 DEF Carries
<1>5. \A l \in loads : l.about \in Nat /\ l.rows \in Int
  BY LiveFeedAssumption DEF Inv, TypeInv, TypeOK, Load, NotRead
<1>6. StoreInv' /\ LoadInv'
  BY <1>1, <1>5 DEF Inv, StoreInv, LoadInv, pageVars
<1> QED
  BY <1>3, <1>4, <1>6 DEF Inv

\* An event is newer than all that were emitted before.
LEMMA SendsKeeps ==
  ASSUME Inv, NEW type \in {"row", "started"} \cup Pair, NEW row \in 0..MaxRows, row <= rows,
         Sends(type, row), unsent' \subseteq unsent,
         UNCHANGED <<page, rows, socket, link, toServer, rooms, drops, pageVars>>
  PROVE  Inv'
<1> DEFINE e == [type |-> type, no |-> emitted + 1, row |-> row]
           gets(s) == link[s] = "up" /\ (type \in Pair => type \in rooms[s])
<1>1. emitted \in Nat /\ emitted < MaxEvents /\ emitted' = emitted + 1 /\ MaxEvents \in Nat
      /\ emitted' \in 0..MaxEvents /\ emitted + 1 \in 1..MaxEvents
  BY LiveFeedAssumption DEF Sends, Inv, TypeInv, TypeOK
<1>2. toClient' = [s \in Socket |-> IF gets(s) THEN Append(toClient[s], e) ELSE toClient[s]]
  BY DEF Sends
<1>3. e \in Event /\ e.type = type /\ e.no = emitted + 1 /\ e.row = row
  BY <1>1 DEF Event
<1> HIDE DEF e
<1>4. toClient' \in [Socket -> Seq(Event)]
  BY <1>2, <1>3 DEF Inv, TypeInv
<1>5. TypeInv'
  BY <1>1, <1>4 DEF Inv, TypeInv, TypeOK, pageVars
<1>6. StoreInv'
  <2>1. \A i \in DOMAIN store : store[i] \in Event /\ store[i].no \in Int
    BY EventFields DEF Inv, TypeInv, TypeOK
  <2>2. \A p \in Pair : prices[p] \in Int
    BY <1>1 DEF Inv, TypeInv, TypeOK
  <2>3. \A i \in DOMAIN store : store[i].no <= emitted + 1
    BY <1>1, <2>1 DEF Inv, StoreInv
  <2>4. \A p \in Pair : prices[p] <= emitted + 1
    BY <1>1, <2>2 DEF Inv, StoreInv
  <2>5. UNCHANGED <<store, prices>> /\ emitted' = emitted + 1
    BY <1>1 DEF pageVars
  <2> QED
    BY <2>3, <2>4, <2>5 DEF Inv, StoreInv
<1>7. ClientInv'
  <2> SUFFICES ASSUME NEW s \in Socket PROVE Carries(toClient[s], s)'
    BY DEF ClientInv
  <2> DEFINE q == toClient[s]
             n == Len(q)
  <2>1. Carries(q, s) /\ q \in Seq(Event) /\ n \in Nat /\ DOMAIN q = 1..n
    BY DEF Inv, ClientInv, TypeInv
  <2>2. \A i \in 1..n : q[i] \in Event /\ q[i].no \in Int
    BY <2>1, EventFields
  <2>3. \A i \in 1..n : q[i].no < emitted + 1 /\ q[i].no <= emitted'
    BY <2>1, <2>2, <1>1 DEF Carries
  <2>4. CASE ~gets(s)
    <3>1. toClient'[s] = q
      BY <2>4, <1>2
    <3> QED
      BY <3>1, <2>1, <2>3 DEF Carries, pageVars
  <2>5. CASE gets(s)
    <3> DEFINE r == toClient'[s]
    <3>1. r = Append(q, e) /\ link[s] = "up"
      BY <2>5, <1>2
    <3>2. DOMAIN r = 1..(n + 1) /\ r[n + 1] = e /\ \A i \in 1..n : r[i] = q[i]
      BY <3>1, <2>1
    <3> HIDE DEF r, q, n
    <3>3. \A i, k \in DOMAIN r : i < k => r[i].no < r[k].no
      <4> SUFFICES ASSUME NEW i \in DOMAIN r, NEW k \in DOMAIN r, i < k PROVE r[i].no < r[k].no
        OBVIOUS
      <4>1. i \in 1..n
        BY <3>2, <2>1
      <4>2. CASE k = n + 1
        BY <4>1, <4>2, <3>2, <2>3, <1>3
      <4>3. CASE k # n + 1
        <5>1. k \in 1..n
          BY <3>2, <2>1, <4>3
        <5> QED
          BY <4>1, <5>1, <3>2, <2>1 DEF Carries
      <4> QED
        BY <4>2, <4>3
    <3>4. ASSUME NEW i \in DOMAIN r
          PROVE  /\ r[i].no <= emitted' /\ r[i].row <= rows
                 /\ r[i].type \in Pair => r[i].no > prices[r[i].type]
                 /\ r[i].type \notin Pair => \A m \in DOMAIN store : r[i].no > store[m].no
      <4>1. CASE i = n + 1
        <5>1. \A m \in DOMAIN store : emitted + 1 > store[m].no
          <6>1. \A m \in DOMAIN store : store[m].no \in Int
            BY EventFields DEF Inv, TypeInv, TypeOK
          <6> QED
            BY <6>1, <1>1 DEF Inv, StoreInv
        <5>2. \A p \in Pair : emitted + 1 > prices[p]
          BY <1>1 DEF Inv, StoreInv, TypeInv, TypeOK
        <5>3. r[i] = e /\ e.no <= emitted'
          BY <4>1, <3>2, <1>1, <1>3
        <5> QED
          BY <5>1, <5>2, <5>3, <1>3
      <4>2. CASE i # n + 1
        <5>1. i \in 1..n /\ r[i] = q[i]
          BY <4>2, <3>2, <2>1
        <5> QED
          BY <5>1, <2>1, <2>3 DEF Carries
      <4> QED
        BY <4>1, <4>2
    <3> QED
      BY <3>1, <3>3, <3>4 DEF Carries, r, pageVars
  <2> QED
    BY <2>4, <2>5
<1>8. LoadInv'
  BY DEF Inv, LoadInv, pageVars
<1> QED
  BY <1>5, <1>6, <1>7, <1>8 DEF Inv

LEMMA EmitKeeps ==
  ASSUME Inv,
         \/ \E r \in 1..MaxRows : emitTradeEvent(r)
         \/ \E p \in Pair : emitPriceUpdate(p)
         \/ emitStarted
  PROVE  Inv'
<1>0. rows \in 0..MaxRows /\ unsent \subseteq 1..rows /\ MaxRows \in Nat
  BY LiveFeedAssumption DEF Inv, TypeInv, TypeOK
<1>1. ASSUME NEW r \in 1..MaxRows, emitTradeEvent(r) PROVE Inv'
  <2>1. r \in 0..MaxRows /\ r <= rows
    BY <1>0, <1>1 DEF emitTradeEvent
  <2> QED
    BY <1>1, <2>1, SendsKeeps DEF emitTradeEvent
<1>2. ASSUME NEW p \in Pair, emitPriceUpdate(p) PROVE Inv'
  <2>1. 0 \in 0..MaxRows /\ 0 <= rows
    BY <1>0
  <2> QED
    BY <1>2, <2>1, SendsKeeps DEF emitPriceUpdate
<1>3. ASSUME emitStarted PROVE Inv'
  <2>1. 0 \in 0..MaxRows /\ 0 <= rows
    BY <1>0
  <2> QED
    BY <1>3, <2>1, SendsKeeps DEF emitStarted
<1> QED
  BY <1>1, <1>2, <1>3

-----------------------------------------------------------------------------
(* The page *)

LEMMA AsksKeeps ==
  ASSUME Inv, NEW row \in 0..MaxRows, row <= rows, Asks(row), UNCHANGED rows
  PROVE  loads' \subseteq Load /\ asked' \in 0..MaxLoads /\ LoadInv'
<1>1. asked \in Nat /\ MaxLoads \in Nat /\ asked < MaxLoads /\ asked' = asked + 1
      /\ loads' = loads \cup {[no |-> asked + 1, about |-> row, rows |-> NotRead]}
  BY LiveFeedAssumption DEF Asks, Inv, TypeInv, TypeOK
<1>2. [no |-> asked + 1, about |-> row, rows |-> NotRead] \in Load
  BY <1>1 DEF Load
<1>3. loads \subseteq Load
  BY DEF Inv, TypeInv, TypeOK
<1> QED
  BY <1>1, <1>2, <1>3 DEF Inv, LoadInv

\* Another connection has nothing on its way: there is one.
LEMMA OthersEmpty ==
  ASSUME Inv, NEW s \in Socket, toClient[s] # << >>, NEW t \in Socket, t # s
  PROVE  toClient[t] = << >>
BY DEF Inv, TypeInv, TypeOK, ClientInv, Carries

LEMMA OnEventKeeps ==
  ASSUME Inv, NEW s \in Socket, onEvent(s)
  PROVE  Inv'
<1> DEFINE q == toClient[s]
           e == Head(q)
           n == Len(q)
<1>1. q \in Seq(Event) /\ q # << >> /\ n \in Nat /\ n >= 1 /\ DOMAIN q = 1..n /\ e = q[1]
      /\ Carries(q, s)
  BY DEF onEvent, Inv, TypeInv, ClientInv
<1>2. Tail(q) \in Seq(Event) /\ Len(Tail(q)) = n - 1 /\ DOMAIN Tail(q) = 1..(n - 1)
      /\ \A i \in 1..(n - 1) : Tail(q)[i] = q[i + 1]
  BY <1>1
<1>3. toClient' = [toClient EXCEPT ![s] = Tail(q)]
      /\ UNCHANGED <<page, socket, link, toServer, rooms, drops, rows, unsent, emitted, topics, list>>
  BY DEF onEvent, serverVars
<1>4. toClient' \in [Socket -> Seq(Event)] /\ toClient'[s] = Tail(q)
      /\ \A t \in Socket : t # s => toClient'[t] = << >>
  BY <1>1, <1>2, <1>3, OthersEmpty DEF Inv, TypeInv
<1>5. e \in Event /\ e.no \in 1..MaxEvents /\ e.row \in 0..MaxRows /\ e.no \in Int
      /\ e.no <= emitted /\ e.row <= rows
  BY <1>1, EventFields DEF Carries
<1>6. \A i \in 1..n : q[i].no \in Int
  BY <1>1, EventFields
<1>7. \A i \in 2..n : q[i].no > e.no
  BY <1>1, <1>5, <1>6 DEF Carries
<1> DEFINE r == toClient'[s]
<1>r. DOMAIN r = 1..(n - 1) /\ (\A i \in 1..(n - 1) : i + 1 \in 2..n /\ r[i] = q[i + 1])
      /\ link'[s] = "up" /\ emitted' = emitted /\ rows' = rows
  BY <1>1, <1>2, <1>3, <1>4 DEF Carries
<1>k. /\ \A i, k \in DOMAIN r : i < k => r[i].no < r[k].no
      /\ \A i \in DOMAIN r : r[i].no <= emitted /\ r[i].row <= rows
  <2> HIDE DEF r, e, q, n
  <2>1. ASSUME NEW i \in DOMAIN r
        PROVE  i + 1 \in DOMAIN q /\ r[i] = q[i + 1]
    BY <1>1, <1>r
  <2>2. ASSUME NEW i \in DOMAIN r, NEW k \in DOMAIN r, i < k
        PROVE  r[i].no < r[k].no
    <3>1. i + 1 \in DOMAIN q /\ k + 1 \in DOMAIN q /\ i + 1 < k + 1
      BY <2>1, <2>2, <1>1, <1>r
    <3> QED
      BY <3>1, <2>1, <1>1 DEF Carries
  <2> QED
    BY <2>1, <2>2, <1>1 DEF Carries
<1>e. ASSUME NEW t \in Socket, t # s
      PROVE  Carries(toClient[t], t)'
  <2>1. toClient'[t] = << >>
    BY <1>4, <1>e
  <2> QED
    BY <2>1 DEF Carries
<1>8. CASE e.type \in Pair
  <2>1. prices' = [prices EXCEPT ![e.type] = e.no] /\ UNCHANGED <<store, loads, asked>>
    BY <1>8 DEF onEvent
  <2>2. prices \in [Pair -> 0..MaxEvents] /\ prices' \in [Pair -> 0..MaxEvents]
    BY <1>5, <1>8, <2>1 DEF Inv, TypeInv, TypeOK
  <2>3. prices'[e.type] = e.no /\ \A p \in Pair : p # e.type => prices'[p] = prices[p]
    BY <1>8, <2>1, <2>2
  <2>4. TypeInv'
    BY <1>3, <1>4, <2>1, <2>2 DEF Inv, TypeInv, TypeOK
  <2>5. \A i \in 2..n : q[i].type \in Pair => q[i].no > prices'[q[i].type]
    <3> SUFFICES ASSUME NEW i \in 2..n, q[i].type \in Pair PROVE q[i].no > prices'[q[i].type]
      OBVIOUS
    <3>1. i \in DOMAIN q
      BY <1>1
    <3>2. q[i].no > prices[q[i].type] /\ q[i].no > e.no
      BY <3>1, <1>1, <1>7 DEF Carries
    <3> QED
      BY <3>2, <2>3
  <2> HIDE DEF r, e, q, n
  <2>6. Carries(toClient[s], s)'
    <3>1. \A i \in DOMAIN r :
            /\ r[i].type \in Pair => r[i].no > prices'[r[i].type]
            /\ r[i].type \notin Pair => \A k \in DOMAIN store : r[i].no > store[k].no
      <4> SUFFICES ASSUME NEW i \in DOMAIN r
                   PROVE  /\ r[i].type \in Pair => r[i].no > prices'[r[i].type]
                          /\ r[i].type \notin Pair => \A k \in DOMAIN store : r[i].no > store[k].no
        OBVIOUS
      <4>1. i + 1 \in 2..n /\ i + 1 \in DOMAIN q /\ r[i] = q[i + 1]
        BY <1>1, <1>r
      <4> QED
        BY <4>1, <1>1, <2>5 DEF Carries
    <3>2. store' = store
      BY <2>1
    <3> QED
      BY <3>1, <3>2, <1>r, <1>k DEF Carries, r
  <2>7. ClientInv'
    BY <1>e, <2>6 DEF ClientInv
  <2>8. StoreInv'
    BY <1>3, <1>5, <2>1, <2>3, <1>8 DEF Inv, StoreInv
  <2>9. LoadInv'
    BY <1>3, <2>1 DEF Inv, LoadInv
  <2> QED
    BY <2>4, <2>7, <2>8, <2>9 DEF Inv
<1>9. CASE e.type \notin Pair
  <2> DEFINE m == Len(store)
             cut == IF m < MaxFeed THEN m + 1 ELSE MaxFeed
             longer == <<e>> \o store
  <2>1. store' = SubSeq(longer, 1, cut) /\ UNCHANGED prices
        /\ (Asks(e.row) \/ UNCHANGED <<loads, asked>>)
    BY <1>9 DEF onEvent
  <2>2. store \in Seq(Event) /\ m \in Nat /\ m <= MaxFeed /\ MaxFeed \in Nat \ {0}
        /\ DOMAIN store = 1..m
    BY LiveFeedAssumption DEF Inv, TypeInv, TypeOK
  <2>3. longer \in Seq(Event) /\ Len(longer) = m + 1 /\ longer[1] = e
        /\ \A i \in 2..(m + 1) : longer[i] = store[i - 1]
    BY <1>5, <2>2
  <2>4. cut \in 1..(m + 1) /\ cut <= MaxFeed /\ cut \in Nat
    BY <2>2
  <2> HIDE DEF longer, cut
  <2>5. store' \in Seq(Event) /\ Len(store') = cut /\ DOMAIN store' = 1..cut
        /\ \A i \in 1..cut : store'[i] = longer[i]
    BY <2>1, <2>3, <2>4
  <2>6. store'[1] = e /\ \A i \in 2..cut : i - 1 \in 1..m /\ store'[i] = store[i - 1]
    BY <2>2, <2>3, <2>4, <2>5
  <2>7. \A i \in 1..m : store[i].no \in Int /\ store[i].no <= emitted /\ e.no > store[i].no
    BY <1>1, <1>9, <2>2, EventFields DEF Inv, StoreInv, Carries
  <2>8. loads' \subseteq Load /\ asked' \in 0..MaxLoads /\ LoadInv'
    <3>1. CASE Asks(e.row)
      BY <1>3, <1>5, <3>1, AsksKeeps
    <3>2. CASE UNCHANGED <<loads, asked>>
      BY <1>3, <3>2 DEF Inv, TypeInv, TypeOK, LoadInv
    <3> QED
      BY <2>1, <3>1, <3>2
  <2>9. TypeInv'
    BY <1>3, <1>4, <2>1, <2>4, <2>5, <2>8 DEF Inv, TypeInv, TypeOK
  <2>10. \A i, k \in 1..cut : i < k => store'[i].no > store'[k].no
    <3> SUFFICES ASSUME NEW i \in 1..cut, NEW k \in 1..cut, i < k
                 PROVE  store'[i].no > store'[k].no
      OBVIOUS
    <3>1. k \in 2..cut
      BY <2>4
    <3>2. CASE i = 1
      BY <3>1, <3>2, <2>6, <2>7
    <3>3. CASE i # 1
      <4>1. i \in 2..cut /\ i - 1 \in DOMAIN store /\ k - 1 \in DOMAIN store /\ i - 1 < k - 1
        BY <3>1, <3>3, <2>2, <2>4, <2>6
      <4> QED
        BY <4>1, <3>1, <2>6 DEF Inv, StoreInv
    <3> QED
      BY <3>2, <3>3
  <2>11. \A i \in 1..cut : store'[i].no <= e.no
    <3> SUFFICES ASSUME NEW i \in 1..cut PROVE store'[i].no <= e.no
      OBVIOUS
    <3>1. CASE i = 1
      BY <3>1, <2>6, <1>5
    <3>2. CASE i # 1
      <4>1. i \in 2..cut
        BY <3>2, <2>4
      <4> QED
        BY <4>1, <2>6, <2>7, <1>5
    <3> QED
      BY <3>1, <3>2
  <2>12. \A i \in 1..cut : store'[i].no \in Int
    <3> SUFFICES ASSUME NEW i \in 1..cut PROVE store'[i].no \in Int
      OBVIOUS
    <3> QED
      BY <2>5, EventFields
  <2>13. StoreInv'
    <3>1. \A i \in 1..cut : store'[i].no <= emitted
      BY <2>11, <2>12, <1>5 DEF Inv, TypeInv, TypeOK
    <3> QED
      BY <1>3, <2>1, <2>5, <2>10, <3>1 DEF Inv, StoreInv
  <2>14. \A i \in 2..n : \A k \in 1..cut : q[i].no > store'[k].no
    <3> SUFFICES ASSUME NEW i \in 2..n, NEW k \in 1..cut PROVE q[i].no > store'[k].no
      OBVIOUS
    <3>1. i \in 1..n
      BY <1>1
    <3> QED
      BY <3>1, <1>5, <1>6, <1>7, <2>11, <2>12
  <2> HIDE DEF r, e, q, n, m
  <2>15. \A i \in DOMAIN r : \A k \in DOMAIN store' : r[i].no > store'[k].no
    BY <1>r, <2>5, <2>14
  <2>16. Carries(toClient[s], s)'
    <3>1. \A i \in DOMAIN r : r[i].type \in Pair => r[i].no > prices[r[i].type]
      <4> SUFFICES ASSUME NEW i \in DOMAIN r, r[i].type \in Pair
                   PROVE  r[i].no > prices[r[i].type]
        OBVIOUS
      <4>1. i + 1 \in DOMAIN q /\ r[i] = q[i + 1]
        BY <1>1, <1>r
      <4> QED
        BY <4>1, <1>1 DEF Carries
    <3> QED
      BY <3>1, <2>1, <2>15, <1>r, <1>k DEF Carries, r
  <2>17. ClientInv'
    BY <1>e, <2>16 DEF ClientInv
  <2> QED
    BY <2>8, <2>9, <2>13, <2>17 DEF Inv
<1> QED
  BY <1>8, <1>9

LEMMA RefreshKeeps ==
  ASSUME Inv, refresh
  PROVE  Inv'
<1>1. Asks(0) /\ UNCHANGED <<page, linkVars, serverVars, topics, store, prices, list>>
  BY DEF refresh
<1>2. 0 \in 0..MaxRows /\ 0 <= rows /\ UNCHANGED rows
  BY <1>1, LiveFeedAssumption DEF serverVars, Inv, TypeInv, TypeOK
<1>3. loads' \subseteq Load /\ asked' \in 0..MaxLoads /\ LoadInv'
  BY <1>1, <1>2, AsksKeeps
<1>4. TypeInv'
  BY <1>1, <1>3 DEF Inv, TypeInv, TypeOK, linkVars, serverVars
<1>5. ClientInv' /\ StoreInv'
  BY <1>1 DEF Inv, ClientInv, StoreInv, Carries, linkVars, serverVars
<1> QED
  BY <1>3, <1>4, <1>5 DEF Inv

LEMMA ReadKeeps ==
  ASSUME Inv, NEW l \in Load, read(l)
  PROVE  Inv'
<1> DEFINE answered == [l EXCEPT !.rows = rows]
<1>1. l \in loads /\ loads' = (loads \ {l}) \cup {answered}
      /\ UNCHANGED <<page, linkVars, serverVars, topics, store, prices, asked, list>>
  BY DEF read
<1>2. rows \in 0..MaxRows /\ loads \subseteq Load /\ l.about \in Nat /\ l.about <= rows
  BY <1>1, LiveFeedAssumption DEF Inv, TypeInv, TypeOK, LoadInv, Load
<1>3. answered \in Load /\ answered.about = l.about /\ answered.rows = rows
  BY <1>2 DEF Load
<1> HIDE DEF answered
<1>4. TypeInv'
  <2>1. loads' \subseteq Load
    BY <1>1, <1>2, <1>3
  <2> QED
    BY <1>1, <2>1 DEF Inv, TypeInv, TypeOK, linkVars, serverVars
<1>5. ClientInv' /\ StoreInv'
  BY <1>1 DEF Inv, ClientInv, StoreInv, Carries, linkVars, serverVars
<1>6. LoadInv'
  BY <1>1, <1>2, <1>3 DEF Inv, LoadInv, serverVars
<1> QED
  BY <1>4, <1>5, <1>6 DEF Inv

LEMMA LoadedKeeps ==
  ASSUME Inv, NEW l \in Load, loaded(l)
  PROVE  Inv'
<1>1. l \in loads /\ loads' = loads \ {l} /\ (list' = list \/ (l.rows # NotRead /\ list' = l.rows))
      /\ UNCHANGED <<page, linkVars, serverVars, topics, store, prices, asked>>
  BY DEF loaded
<1>2. list' \in 0..rows
  <2>1. list \in 0..rows /\ l \in Load /\ (l.rows # NotRead => l.rows <= rows)
    BY <1>1 DEF Inv, TypeInv, TypeOK, LoadInv
  <2>2. l.rows # NotRead => l.rows \in 0..MaxRows
    BY <2>1 DEF Load
  <2>3. l.rows # NotRead => l.rows \in 0..rows
    BY <2>1, <2>2, LiveFeedAssumption DEF Inv, TypeInv, TypeOK
  <2> QED
    BY <1>1, <2>1, <2>3
<1>3. TypeInv'
  BY <1>1, <1>2 DEF Inv, TypeInv, TypeOK, linkVars, serverVars
<1>4. ClientInv' /\ StoreInv' /\ LoadInv'
  BY <1>1 DEF Inv, ClientInv, StoreInv, LoadInv, Carries, linkVars, serverVars
<1> QED
  BY <1>3, <1>4 DEF Inv

-----------------------------------------------------------------------------
(* Every behaviour *)

LEMMA Starts == Init => Inv
<1> SUFFICES ASSUME Init PROVE Inv
  OBVIOUS
<1>1. << >> \in Seq(SUBSET Topic) /\ << >> \in Seq(Event) /\ Len(<< >>) = 0
  OBVIOUS
<1>2. [no |-> 1, about |-> 0, rows |-> NotRead] \in Load /\ asked \in 0..MaxLoads
  BY LiveFeedAssumption DEF Init, Load
<1>3. TypeInv
  BY <1>1, <1>2, LiveFeedAssumption DEF Init, TypeInv, TypeOK
<1>4. ClientInv /\ StoreInv /\ LoadInv
  BY LiveFeedAssumption DEF Init, ClientInv, StoreInv, LoadInv, Carries, NotRead
<1> QED
  BY <1>3, <1>4 DEF Inv

LEMMA Inductive == Inv /\ [Next]_vars => Inv'
<1> SUFFICES ASSUME Inv, [Next]_vars PROVE Inv'
  OBVIOUS
<1>1. ASSUME NEW s \in Socket, connect(s) \/ drop(s) \/ onConnect(s) \/ handleSubscribe(s) \/ onEvent(s)
      PROVE  Inv'
  BY <1>1, ConnectKeeps, DropKeeps, OnConnectKeeps, HandleSubscribeKeeps, OnEventKeeps
<1>2. ASSUME NEW l \in Load, read(l) \/ loaded(l)
      PROVE  Inv'
  BY <1>2, ReadKeeps, LoadedKeeps
<1>3. ASSUME NEW p \in Topic, subscribe(p)
      PROVE  Inv'
  BY <1>3, SubscribeKeeps
<1>4. CASE disconnect \/ write \/ refresh
  BY <1>4, DisconnectKeeps, WriteKeeps, RefreshKeeps
<1>5. CASE emitStarted \/ (\E p \in Pair : emitPriceUpdate(p)) \/ (\E r \in 1..MaxRows : emitTradeEvent(r))
  BY <1>5, EmitKeeps
<1>6. CASE UNCHANGED vars
  BY <1>6 DEF vars, linkVars, serverVars, pageVars,
              Inv, TypeInv, TypeOK, ClientInv, StoreInv, LoadInv, Carries
<1> QED
  BY <1>1, <1>2, <1>3, <1>4, <1>5, <1>6 DEF Next, Connection

LEMMA Invariance == Spec => []Inv
BY Starts, Inductive, PTL DEF Spec

\* The page and its sockets stay in their types: one socket at most is in use,
\* though the application mounts twice, and the store keeps its length.
THEOREM TypeCorrect == Spec => []TypeOK
<1>1. Inv => TypeOK
  BY DEF Inv, TypeInv
<1> QED
  BY <1>1, Invariance, PTL

\* Over reconnections and the double mount, each event of the gateways is stored
\* once, newest first, and no price gives way to an older one.
THEOREM OrderSafety == Spec => []FeedInOrder
<1>1. Inv => FeedInOrder
  <2> SUFFICES ASSUME Inv PROVE FeedInOrder
    OBVIOUS
  <2>1. \A i, k \in DOMAIN store : i < k => store[i].no > store[k].no
    BY DEF Inv, StoreInv
  <2>2. ASSUME NEW s \in Socket, NEW e \in Range(toClient[s])
        PROVE  \/ e.type \in Pair /\ e.no > prices[e.type]
               \/ e.type \notin Pair /\ \A i \in DOMAIN store : e.no > store[i].no
    <3>1. PICK i \in DOMAIN toClient[s] : e = toClient[s][i]
      BY DEF Range
    <3> QED
      BY <3>1 DEF Inv, ClientInv, Carries
  <2> QED
    BY <2>1, <2>2 DEF FeedInOrder
<1> QED
  BY <1>1, Invariance, PTL

\* An answer that an event asked for holds the row of that event.
THEOREM AnswerSafety == Spec => []AnswerShowsItsEvent
<1>1. Inv => AnswerShowsItsEvent
  BY DEF Inv, LoadInv, AnswerShowsItsEvent
<1> QED
  BY <1>1, Invariance, PTL

=============================================================================
