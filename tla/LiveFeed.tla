------------------------------ MODULE LiveFeed ------------------------------
(***************************************************************************)
(* The live pages of the web client: RealtimeGateway and                   *)
(* OfflineAgentGateway on the server, the shared sockets of websocket.ts   *)
(* with their subscriptions and their store of events, and the page that   *)
(* loads its list over REST whenever an event arrives.                     *)
(*                                                                         *)
(* A behaviour follows one page and its socket: LiveTradingPage and        *)
(* /realtime, or InsightsPage and /offline.  A row of the page's list      *)
(* stands for a write of the server; TradeLifecycle and OfflinePipeline    *)
(* say which there are.                                                    *)
(*                                                                         *)
(* Mut_X, before a definition it mutates, is that definition with a bug a  *)
(* change of the code could introduce; no action refers to it.             *)
(***************************************************************************)
EXTENDS Integers, Sequences, FiniteSets, SequencesExt

CONSTANTS
  Page,       \* "live" or "insights"
  Pair, Prepared,   \* what LiveTradingPage subscribes to: pairs, its trades
  MaxSockets, \* bound on the sockets the application opens
  MaxFeed,    \* MAX_TRADE_EVENTS, MAX_OFFLINE_EVENTS
  MaxRows, MaxEvents, MaxDrops, MaxLoads   \* bounds

ASSUME LiveFeedAssumption ==
  /\ Page \subseteq {"live", "insights"}
  /\ MaxSockets \in Nat
  /\ MaxFeed \in Nat \ {0} /\ MaxRows \in Nat /\ MaxEvents \in Nat
  /\ MaxDrops \in Nat /\ MaxLoads \in Nat \ {0}

Topic == Pair \cup Prepared
Socket == 1..MaxSockets
NoSocket == 0

VARIABLES
  page,       \* the page that is open
  socket,     \* realtimeSocket, offlineSocket: the module's variable
  link,       \* link[s]: "none", "opening", "up", "closed"
  toServer,   \* toServer[s]: subscriptions on their way
  toClient,   \* toClient[s]: events on their way
  rooms,      \* rooms[s]: the rooms the server's end of s has joined
  topics,     \* priceSubscriptions and tradeSubscriptions
  rows,       \* rows the server has written
  unsent,     \* rows whose event is still to be emitted
  emitted,    \* events emitted
  store,      \* tradeEvents, offlineEvents: newest first
  prices,     \* prices[p]: the number of the price event shown
  loads,      \* the page's REST requests
  asked,      \* how many it has made
  list,       \* the list it shows: the rows there were when it was read
  drops

serverVars == <<rows, unsent, emitted>>
linkVars == <<socket, link, toServer, toClient, rooms, drops>>
pageVars == <<topics, store, prices, loads, asked, list>>
vars == <<page, linkVars, serverVars, pageVars>>

\* An event names the row it is about; started and price events name none.
Event == [type : {"row", "started"} \cup Pair, no : 1..MaxEvents, row : 0..MaxRows]
NotRead == -1
Load == [no : 1..MaxLoads, about : 0..MaxRows, rows : {NotRead} \cup 0..MaxRows]

TypeOK ==
  /\ page \in Page
  /\ socket \in Socket \cup {NoSocket}
  /\ link \in [Socket -> {"none", "opening", "up", "closed"}]
  /\ \A s \in Socket : link[s] \in {"opening", "up"} => socket = s
  /\ \A s \in Socket : toServer[s] \in Seq(SUBSET Topic) /\ toClient[s] \in Seq(Event)
  /\ rooms \in [Socket -> SUBSET Topic] /\ topics \subseteq Topic
  /\ rows \in 0..MaxRows /\ unsent \subseteq 1..rows
  /\ emitted \in 0..MaxEvents
  /\ store \in Seq(Event) /\ Len(store) <= MaxFeed
  /\ prices \in [Pair -> 0..MaxEvents]
  /\ loads \subseteq Load /\ asked \in 0..MaxLoads
  /\ list \in 0..rows /\ drops \in 0..MaxDrops

\* The page has just mounted, and loads its list.
Init ==
  /\ page \in Page
  /\ socket = NoSocket
  /\ link = [s \in Socket |-> "none"]
  /\ toServer = [s \in Socket |-> << >>]
  /\ toClient = [s \in Socket |-> << >>]
  /\ rooms = [s \in Socket |-> {}]
  /\ topics = {} /\ store = << >> /\ prices = [p \in Pair |-> 0]
  /\ loads = {[no |-> 1, about |-> 0, rows |-> NotRead]} /\ asked = 1 /\ list = 0
  /\ rows = 0 /\ unsent = {} /\ emitted = 0
  /\ drops = 0

-----------------------------------------------------------------------------
(* websocket.ts: the connection *)

Fresh(s) == \A t \in Socket : link[t] = "none" <=> t >= s

Mut_ConnectAlways(s) ==
  /\ Fresh(s)
  /\ socket' = s
  /\ link' = [link EXCEPT ![s] = "opening"]
  /\ UNCHANGED <<page, toServer, toClient, rooms, drops, serverVars, pageVars>>

\* The application mounts, in development twice.
connect(s) ==
  /\ Fresh(s) /\ socket = NoSocket
  /\ socket' = s
  /\ link' = [link EXCEPT ![s] = "opening"]
  /\ UNCHANGED <<page, toServer, toClient, rooms, drops, serverVars, pageVars>>

\* What a closed or broken connection had on its way is lost.
Breaks(s, state) ==
  /\ link' = [link EXCEPT ![s] = state]
  /\ toServer' = [toServer EXCEPT ![s] = << >>]
  /\ toClient' = [toClient EXCEPT ![s] = << >>]
  /\ rooms' = [rooms EXCEPT ![s] = {}]

disconnect ==
  /\ socket # NoSocket
  /\ Breaks(socket, "closed")
  /\ socket' = NoSocket
  /\ UNCHANGED <<page, drops, serverVars, pageVars>>

drop(s) ==
  /\ drops < MaxDrops /\ drops' = drops + 1
  /\ link[s] = "up"
  /\ Breaks(s, "opening")
  /\ UNCHANGED <<page, socket, serverVars, pageVars>>

Mut_NoResubscribe(s) ==
  /\ link[s] = "opening"
  /\ link' = [link EXCEPT ![s] = "up"]
  /\ UNCHANGED <<page, socket, toServer, toClient, rooms, drops, serverVars, pageVars>>

\* The connect handler subscribes again to all that was ever subscribed to.
onConnect(s) ==
  /\ link[s] = "opening"
  /\ link' = [link EXCEPT ![s] = "up"]
  /\ toServer' = [toServer EXCEPT ![s] = IF topics = {} THEN << >> ELSE <<topics>>]
  /\ UNCHANGED <<page, socket, toClient, rooms, drops, serverVars, pageVars>>

\* subscribeToPrices, subscribeToTrade: remembered, and sent when connected.
subscribe(p) ==
  /\ page = "live" /\ p \notin topics
  /\ topics' = topics \cup {p}
  /\ toServer' = IF socket # NoSocket /\ link[socket] = "up"
                 THEN [toServer EXCEPT ![socket] = Append(@, {p})] ELSE toServer
  /\ UNCHANGED <<page, socket, link, toClient, rooms, drops, serverVars>>
  /\ UNCHANGED <<store, prices, loads, asked, list>>

-----------------------------------------------------------------------------
(* The gateways and the server behind them *)

handleSubscribe(s) ==
  /\ toServer[s] # << >>
  /\ toServer' = [toServer EXCEPT ![s] = Tail(@)]
  /\ rooms' = [rooms EXCEPT ![s] = @ \cup Head(toServer[s])]
  /\ UNCHANGED <<page, socket, link, toClient, drops, serverVars, pageVars>>

\* To the sockets that are up and, for a price, in its room.  The rooms of trades
\* get an event that no client listens to.
Sends(type, row) ==
  /\ emitted < MaxEvents
  /\ emitted' = emitted + 1
  /\ toClient' = [s \in Socket |->
       IF link[s] = "up" /\ (type \in Pair => type \in rooms[s])
       THEN Append(toClient[s], [type |-> type, no |-> emitted + 1, row |-> row])
       ELSE toClient[s]]

\* A handler writes, and emits when the write is acknowledged; handlers emit in
\* any order.
write ==
  /\ rows < MaxRows
  /\ rows' = rows + 1
  /\ unsent' = unsent \cup {rows + 1}
  /\ UNCHANGED <<page, emitted, linkVars, pageVars>>

Mut_EmitsBeforeWrite(r) ==
  /\ r = rows + 1
  /\ Sends("row", r)
  /\ UNCHANGED <<page, rows, unsent, socket, link, toServer, rooms, drops, pageVars>>

emitTradeEvent(r) ==
  /\ r \in unsent
  /\ unsent' = unsent \ {r}
  /\ Sends("row", r)
  /\ UNCHANGED <<page, rows, socket, link, toServer, rooms, drops, pageVars>>

emitPriceUpdate(p) ==
  /\ page = "live"
  /\ Sends(p, 0)
  /\ UNCHANGED <<page, rows, unsent, socket, link, toServer, rooms, drops, pageVars>>

emitStarted ==
  /\ page = "insights"
  /\ Sends("started", 0)
  /\ UNCHANGED <<page, rows, unsent, socket, link, toServer, rooms, drops, pageVars>>

\* GET of the list.
read(l) ==
  /\ l \in loads /\ l.rows = NotRead
  /\ loads' = (loads \ {l}) \cup {[l EXCEPT !.rows = rows]}
  /\ UNCHANGED <<page, linkVars, serverVars, topics, store, prices, asked, list>>

-----------------------------------------------------------------------------
(* The store and the page *)

\* refreshTrades and reload, of an effect of the newest event.
Asks(row) ==
  /\ asked < MaxLoads
  /\ asked' = asked + 1
  /\ loads' = loads \cup {[no |-> asked + 1, about |-> row, rows |-> NotRead]}

Mut_StoreNotCut(s) ==
  /\ toClient[s] # << >>
  /\ toClient' = [toClient EXCEPT ![s] = Tail(@)]
  /\ LET e == Head(toClient[s])
     IN  IF e.type \in Pair
         THEN /\ prices' = [prices EXCEPT ![e.type] = e.no]
              /\ UNCHANGED <<store, loads, asked>>
         ELSE /\ store' = <<e>> \o store
              /\ IF e.type = "row" THEN Asks(e.row) ELSE UNCHANGED <<loads, asked>>
              /\ UNCHANGED prices
  /\ UNCHANGED <<page, socket, link, toServer, rooms, drops, serverVars, topics, list>>

\* Events are put in front of the store and cut at its length; the effect runs
\* before the next one.  InsightsPage takes no notice of a started pipeline.
onEvent(s) ==
  /\ toClient[s] # << >>
  /\ toClient' = [toClient EXCEPT ![s] = Tail(@)]
  /\ LET e == Head(toClient[s])
     IN  IF e.type \in Pair
         THEN /\ prices' = [prices EXCEPT ![e.type] = e.no]
              /\ UNCHANGED <<store, loads, asked>>
         ELSE /\ store' = SubSeq(<<e>> \o store, 1,
                                 IF Len(store) < MaxFeed THEN Len(store) + 1 ELSE MaxFeed)
              /\ IF e.type = "row" THEN Asks(e.row) ELSE UNCHANGED <<loads, asked>>
              /\ UNCHANGED prices
  /\ UNCHANGED <<page, socket, link, toServer, rooms, drops, serverVars, topics, list>>

\* A handler of the page (prepare, confirm, execute, run) refreshes at its end.
refresh ==
  /\ Asks(0)
  /\ UNCHANGED <<page, linkVars, serverVars, topics, store, prices, list>>

\* Whatever answer comes last is shown; a request that fails changes nothing.
loaded(l) ==
  /\ l \in loads
  /\ loads' = loads \ {l}
  /\ \/ l.rows # NotRead /\ list' = l.rows
     \/ UNCHANGED list
  /\ UNCHANGED <<page, linkVars, serverVars, topics, store, prices, asked>>

Connection == \E s \in Socket : onConnect(s) \/ handleSubscribe(s) \/ onEvent(s)

Next ==
  \/ Connection
  \/ \E s \in Socket : connect(s) \/ drop(s)
  \/ disconnect \/ write \/ refresh \/ emitStarted
  \/ \E p \in Topic : subscribe(p)
  \/ \E p \in Pair : emitPriceUpdate(p)
  \/ \E r \in 1..MaxRows : emitTradeEvent(r)
  \/ \E l \in Load : read(l) \/ loaded(l)

Spec == Init /\ [][Next]_vars

\* The sockets reconnect and deliver.
FairSpec == Spec /\ WF_vars(Connection)

-----------------------------------------------------------------------------
(* Properties *)

\* Each event is in the store once, and the newest first, over reconnections and
\* the double mount; a price never gives way to an older one.
FeedInOrder ==
  /\ \A i, k \in DOMAIN store : i < k => store[i].no > store[k].no
  /\ \A s \in Socket : \A e \in Range(toClient[s]) :
       \/ e.type \in Pair /\ e.no > prices[e.type]
       \/ e.type \notin Pair /\ \A i \in DOMAIN store : e.no > store[i].no

\* An answer shows the row whose event asked for it: the gateway's event never
\* overtakes the write that REST reads.
AnswerShowsItsEvent ==
  \A l \in loads : l.rows # NotRead => l.rows >= l.about

\* A subscription is in the rooms of the server in the end, though it was taken
\* while the socket was away or lost with it, unless the application closes.
SubscriptionsArrive ==
  \A p \in Topic :
    p \in topics /\ socket # NoSocket ~>
      socket = NoSocket \/ (link[socket] = "up" /\ p \in rooms[socket])

=============================================================================
