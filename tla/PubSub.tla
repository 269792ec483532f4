--------------------------------- MODULE PubSub ---------------------------------
(***************************************************************************)
(* Subscriptions: what a server publishes (putSubdata, setFilter and       *)
(* notify in lib/transport/beepish/server.js), the copy of it that a       *)
(* client keeps (lib/transport/beepish/client.js), and the Subscription    *)
(* that connects again when its connection is lost (lib/util/              *)
(* subscription.js, with the heartbeat of connection.js).                  *)
(*                                                                         *)
(* Each connection of a subscription has a client of its own, with an      *)
(* empty copy; they are numbered.  A message is one element of a queue,    *)
(* and is handled when it has arrived completely.  The end of a message    *)
(* longer than the flow control's window waits for an acknowledgement, so  *)
(* that later messages may complete before it (Long).                      *)
(***************************************************************************)
EXTENDS Integers, Sequences, SequencesExt

CONSTANTS Sub,        \* the subscriptions
          Item,       \* what is published: pairs of a code and a key
          CodeOf,     \* CodeOf[i]: the code of item i
          Filter,     \* Filter[s]: the codes s subscribes to
          Refused,    \* the subscriptions whose filter the server does not accept
          Value,      \* published values
          Objects,    \* the values that are objects, which never equal one another
          Null,       \* no value
          MinDelay,   \* TruncBackoff: first delay
          MaxDelay,   \* TruncBackoff: greatest delay
          Long,       \* the contents of events that are longer than the window
          MaxPut,     \* BOUND: calls of putSubdata
          MaxLoss     \* BOUND: connections that a subscription loses

ASSUME ItemAssumption   == DOMAIN CodeOf = Item
ASSUME SubAssumption    == Refused \subseteq Sub /\ DOMAIN Filter = Sub
ASSUME ValueAssumption  == Objects \subseteq Value /\ Null \notin Value
ASSUME LongAssumption   == [i \in {} |-> Null] \notin Long    \* Empty
ASSUME DelayAssumption  == MinDelay \in Nat \ {0} /\ MaxDelay \in Nat /\ MinDelay <= MaxDelay
ASSUME BoundAssumption  == MaxPut \in Nat /\ MaxLoss \in Nat

VARIABLES
    subdata,    \* _subdata of the server: subdata[i] is a value, or Null
    registered, \* _subscribed_connections: the connections of s that are in it
    link,       \* the connection of s: "none", "connecting", "open", or "dead":
                \*   it no longer carries anything and nobody has noticed
    conn,       \* its number
    asked,      \* the subscribe message is on its way to the server
    queue,      \* the messages on their way to the client
    sdata,      \* _sdata of the client
    ready,      \* _ready
    waiting,    \* TruncBackoff.wait is under way
    delay,      \* _cur, the delay of the next wait
    closed,     \* _closed
    stale,      \* HISTORY: the items of which a newer message has overtaken an
                \*   older one, and nothing newer was sent
    fails,      \* HISTORY: losses since the last 'subscribe_done'
    puts,       \* HISTORY: calls of putSubdata
    losses      \* HISTORY: connections that s has lost

serverVars == <<subdata, registered>>
linkVars   == <<link, conn, asked, queue>>
subVars    == <<ready, waiting, delay, closed>>
boundVars  == <<puts, losses>>
vars == <<serverVars, linkVars, sdata, subVars, stale, fails, boundVars>>

Nothing == [i \in Item |-> Null]

Empty == [i \in {} |-> Null]

(* new Subscription connects at once, and its request waits in _outBuf.    *)
Init ==
    /\ subdata = Nothing
    /\ registered = [s \in Sub |-> {}]
    /\ link = [s \in Sub |-> "connecting"]
    /\ conn = [s \in Sub |-> 1]
    /\ asked = [s \in Sub |-> TRUE]
    /\ queue = [s \in Sub |-> <<>>]
    /\ sdata = [s \in Sub |-> Nothing]
    /\ ready = [s \in Sub |-> FALSE]
    /\ waiting = [s \in Sub |-> FALSE]
    /\ delay = [s \in Sub |-> MinDelay]
    /\ closed = [s \in Sub |-> FALSE]
    /\ stale = [s \in Sub |-> {}]
    /\ fails = [s \in Sub |-> 0]
    /\ puts = 0
    /\ losses = [s \in Sub |-> 0]

-------------------------------------------------------------------------------
(* The server.                                                             *)

Wants(s, i) == s \notin Refused /\ CodeOf[i] \in Filter[s]

(* notify: the connections that are told of i.                             *)
(* Bug: whoever is registered is told of everything.                       *)
MutantNotified(s, i) == conn[s] \in registered[s]
Notified(s, i) == conn[s] \in registered[s] /\ Wants(s, i)

Message(type, recs) == [type |-> type, recs |-> recs]

Update(i, v) == Message("update", [j \in {i} |-> v])

(* putSubdata: what is equal to the present value is not published again;  *)
(* Null deletes.  What is sent to a connection that is gone is lost.       *)
Put(i, v) ==
    /\ puts < MaxPut
    /\ v # subdata[i] \/ v \in Objects
    /\ subdata' = [subdata EXCEPT ![i] = v]
    /\ LET told == {s \in Sub : link[s] = "open" /\ Notified(s, i)} IN
       /\ queue' = [s \in Sub |-> IF s \in told THEN Append(queue[s], Update(i, v)) ELSE queue[s]]
       /\ stale' = [s \in Sub |-> IF s \in told THEN stale[s] \ {i} ELSE stale[s]]
    /\ puts' = puts + 1
    /\ UNCHANGED <<registered, link, conn, asked, sdata, subVars, fails, losses>>

Snapshot(s) ==
    Message("snapshot", [i \in {j \in Item : Wants(s, j) /\ subdata[j] # Null} |-> subdata[i]])

Done == Message("done", Empty)

(* Bug: the answer is sent before the present values.                      *)
MutantGreeting(s) == <<Done, Snapshot(s)>>
Greeting(s) == <<Snapshot(s), Done>>

(* A subscribe message is answered; a filter the server refuses, too.      *)
OnSubscribe(s) ==
    /\ link[s] = "open" /\ asked[s]
    /\ asked' = [asked EXCEPT ![s] = FALSE]
    /\ IF s \in Refused
       THEN /\ queue' = [queue EXCEPT ![s] = Append(@, Done)]
            /\ UNCHANGED registered
       ELSE /\ queue' = [queue EXCEPT ![s] = @ \o Greeting(s)]
            /\ registered' = [registered EXCEPT ![s] = @ \union {conn[s]}]
    /\ UNCHANGED <<subdata, link, conn, sdata, subVars, stale, fails, boundVars>>

-------------------------------------------------------------------------------
(* The client and the subscription.                                        *)

Connected(s) ==
    /\ link[s] = "connecting"
    /\ link' = [link EXCEPT ![s] = "open"]
    /\ UNCHANGED <<serverVars, conn, asked, queue, sdata, subVars, stale, fails, boundVars>>

(* onEvent.                                                                *)
(* Bug: a deletion is not applied.                                         *)
MutantApplied(view, recs) ==
    [i \in Item |-> IF i \in DOMAIN recs /\ recs[i] # Null THEN recs[i] ELSE view[i]]
Applied(view, recs) == [i \in Item |-> IF i \in DOMAIN recs THEN recs[i] ELSE view[i]]

(* Bug: the delay is not reset.                                            *)
MutantDelayReset(s) == delay[s]
DelayReset(s) == MinDelay

NextDelay(d) == IF d * 2 < MaxDelay THEN d * 2 ELSE MaxDelay

(* The messages on their way to s that say something about i.              *)
Mentions(s, i) == {k \in DOMAIN queue[s] : i \in DOMAIN queue[s][k].recs}

(* The items of which the k-th message is the newest and not the oldest on *)
(* its way.                                                                *)
Overtaken(s, k) ==
    {i \in DOMAIN queue[s][k].recs :
        /\ \E j \in Mentions(s, i) : j < k
        /\ \A j \in Mentions(s, i) : j <= k}

(* The k-th message has arrived, and older ones if they are not longer     *)
(* than the window.  The contents of 'subscribe_done', which say whether   *)
(* the filter was accepted, are not looked at.                             *)
Receive(s, k) ==
    LET m == queue[s][k] IN
    /\ link[s] \in {"open", "dead"}
    /\ \A j \in 1 .. k - 1 : queue[s][j].recs \in Long
    /\ queue' = [queue EXCEPT ![s] = RemoveAt(@, k)]
    /\ IF m.type = "done"
       THEN /\ ready' = [ready EXCEPT ![s] = TRUE]
            /\ delay' = [delay EXCEPT ![s] = DelayReset(s)]
            /\ fails' = [fails EXCEPT ![s] = 0]
            /\ UNCHANGED <<sdata, stale>>
       ELSE /\ sdata' = [sdata EXCEPT ![s] = Applied(@, m.recs)]
            /\ stale' = [stale EXCEPT ![s] = @ \union Overtaken(s, k)]
            /\ UNCHANGED <<ready, delay, fails>>
    /\ UNCHANGED <<serverVars, link, conn, asked, waiting, closed, boundVars>>

(* The transport fails without a word.                                     *)
Break(s) ==
    /\ link[s] = "open" /\ losses[s] < MaxLoss
    /\ losses' = [losses EXCEPT ![s] = @ + 1]
    /\ link' = [link EXCEPT ![s] = "dead"]
    /\ \E n \in 0 .. Len(queue[s]) : queue' = [queue EXCEPT ![s] = SubSeq(@, 1, n)]
    /\ UNCHANGED <<serverVars, conn, asked, sdata, subVars, stale, fails, puts>>

(***************************************************************************)
(* 'lost': the subscription forgets its client and waits.  If its          *)
(* 'subscribe_done' was arriving just then, _onerror ends it with an       *)
(* error, which client.js:57-61 takes for a 'subscribe_done' all the same: *)
(* the delay is reset first.  The server calls setFilter(null), which      *)
(* deletes the entry of this.id; a Server has no id, so nothing goes.      *)
(***************************************************************************)
HandleLost(s) ==
    /\ \E greeted \in BOOLEAN :
          /\ greeted => \E k \in DOMAIN queue[s] : queue[s][k].type = "done"
          /\ delay' = [delay EXCEPT ![s] = NextDelay(IF greeted THEN DelayReset(s) ELSE @)]
          /\ fails' = [fails EXCEPT ![s] = IF greeted THEN 1 ELSE @ + 1]
    /\ ready' = [ready EXCEPT ![s] = FALSE]
    /\ waiting' = [waiting EXCEPT ![s] = TRUE]
    /\ link' = [link EXCEPT ![s] = "none"]
    /\ asked' = [asked EXCEPT ![s] = FALSE]
    /\ queue' = [queue EXCEPT ![s] = <<>>]
    /\ sdata' = [sdata EXCEPT ![s] = Nothing]
    /\ stale' = [stale EXCEPT ![s] = {}]
    /\ UNCHANGED <<serverVars, conn, closed, puts>>

Lose(s) ==
    /\ link[s] \in {"connecting", "open"} /\ losses[s] < MaxLoss
    /\ losses' = [losses EXCEPT ![s] = @ + 1]
    /\ HandleLost(s)

(* setHeartbeat: the PING of 15 seconds ago was not answered.              *)
HeartbeatExpires(s) == link[s] = "dead" /\ HandleLost(s) /\ UNCHANGED losses

(* The wait is over: _reconnect, unless the subscription was closed.       *)
Reconnect(s) ==
    /\ waiting[s]
    /\ waiting' = [waiting EXCEPT ![s] = FALSE]
    /\ IF closed[s] THEN UNCHANGED <<link, conn, asked>>
       ELSE /\ link' = [link EXCEPT ![s] = "connecting"]
            /\ conn' = [conn EXCEPT ![s] = @ + 1]
            /\ asked' = [asked EXCEPT ![s] = TRUE]
    /\ UNCHANGED <<serverVars, queue, sdata, ready, delay, closed, stale, fails, boundVars>>

(* close, which closes no connection: a Client has no method of that name. *)
Close(s) ==
    /\ ~closed[s]
    /\ closed' = [closed EXCEPT ![s] = TRUE]
    /\ UNCHANGED <<serverVars, linkVars, sdata, ready, waiting, delay, stale, fails, boundVars>>

-------------------------------------------------------------------------------
Next ==
    \/ \E i \in Item, v \in Value \union {Null} : Put(i, v)
    \/ \E s \in Sub :
          \/ Connected(s) \/ OnSubscribe(s)
          \/ \E k \in DOMAIN queue[s] : Receive(s, k)
          \/ Break(s) \/ Lose(s) \/ HeartbeatExpires(s)
          \/ Reconnect(s) \/ Close(s)

(* The event loops run, the timers fire, and the server can be reached;    *)
(* that connections are lost now and then is not excluded.                 *)
Fairness ==
    \A s \in Sub :
       /\ WF_vars(Connected(s)) /\ WF_vars(OnSubscribe(s))
       /\ WF_vars(queue[s] # <<>> /\ Receive(s, 1))
       /\ WF_vars(HeartbeatExpires(s)) /\ WF_vars(Reconnect(s))

Spec == Init /\ [][Next]_vars

FairSpec == Spec /\ Fairness

-------------------------------------------------------------------------------
(* Properties                                                              *)

Content == UNION {[S -> Value \union {Null}] : S \in SUBSET Item}

(* Every variable keeps its type; the delay keeps its limits.              *)
TypeOK ==
    /\ subdata \in [Item -> Value \union {Null}]
    /\ registered \in [Sub -> SUBSET (1 .. MaxLoss + 1)]
    /\ link \in [Sub -> {"none", "connecting", "open", "dead"}]
    /\ conn \in [Sub -> 1 .. MaxLoss + 1]
    /\ asked \in [Sub -> BOOLEAN]
    /\ queue \in [Sub -> Seq([type : {"snapshot", "update", "done"}, recs : Content])]
    /\ sdata \in [Sub -> [Item -> Value \union {Null}]]
    /\ ready \in [Sub -> BOOLEAN] /\ waiting \in [Sub -> BOOLEAN] /\ closed \in [Sub -> BOOLEAN]
    /\ delay \in [Sub -> MinDelay .. MaxDelay]
    /\ stale \in [Sub -> SUBSET Item] /\ fails \in [Sub -> Nat]
    /\ puts \in 0 .. MaxPut /\ losses \in [Sub -> 0 .. MaxLoss]

(* The last message on its way that says something about i.                *)
LastMention(s, i, k) == k \in Mentions(s, i) /\ \A j \in Mentions(s, i) : j <= k

(* The client will have v for i when everything on its way has arrived.    *)
WillHave(s, i, v) ==
    /\ Mentions(s, i) = {} => sdata[s][i] = v
    /\ \A k \in DOMAIN queue[s] : LastMention(s, i, k) => queue[s][k].recs[i] = v

(* What the server has for a subscriber.                                   *)
Offered(s, i) == IF Wants(s, i) THEN subdata[i] ELSE Null

(***************************************************************************)
(* From the moment the server has registered a connection nothing is       *)
(* missed and nothing else is sent: the client's copy, with what is on its *)
(* way, is what the server has of the codes it asked for (server.js:86-    *)
(* 131).  The one exception is an item of which a newer message overtook   *)
(* an older one longer than the window: nothing numbers the events, and    *)
(* the older value is written over the newer one (client.js:96-113).       *)
(***************************************************************************)
Mirror ==
    \A s \in Sub : link[s] = "open" /\ conn[s] \in registered[s] =>
       \A i \in Item \ stale[s] : WillHave(s, i, Offered(s, i))

(***************************************************************************)
(* A subscription that says it is ready shows the values the server had    *)
(* when it subscribed, or later ones, never the empty copy it began with   *)
(* (subscription.js:57-61, 79-81), if its filter was not refused; unless   *)
(* those values were longer than the window, when 'subscribe_done' may     *)
(* have overtaken them (server.js:86-97).                                  *)
(***************************************************************************)
ReadyShown ==
    \A s \in Sub \ Refused :
       ready[s] => /\ conn[s] \in registered[s]
                   /\ \A k \in DOMAIN queue[s] :
                         \/ queue[s][k].type = "update"
                         \/ queue[s][k].type = "snapshot" /\ queue[s][k].recs \in Long

(***************************************************************************)
(* The delay before a new connection doubles with every loss that no       *)
(* 'subscribe_done' came between, up to its limit (subscription.js:6-32,   *)
(* 57-68).                                                                 *)
(***************************************************************************)
BackoffDoubles ==
    \A s \in Sub :
       delay[s] = IF MinDelay * 2 ^ fails[s] < MaxDelay THEN MinDelay * 2 ^ fails[s] ELSE MaxDelay

(***************************************************************************)
(* Once nothing is published or lost any more, every subscription that is  *)
(* not closed, and whose filter the server did not refuse, is ready and    *)
(* shows what the server has, but for the items of which a newer message   *)
(* overtook an older one longer than the window: of those it may show the  *)
(* older value, until the next change or the next connection.              *)
(***************************************************************************)
Shows(s) ==
    ready[s] /\ \A i \in Item \ stale[s] : sdata[s][i] = Offered(s, i)

SubscribersFollow == \A s \in Sub \ Refused : <>[](closed[s] \/ Shows(s))
=============================================================================
