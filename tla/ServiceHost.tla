------------------------------ MODULE ServiceHost ------------------------------
(***************************************************************************)
(* A service with its connections: the requests it has accepted, the idle  *)
(* timer of each connection, and its orderly stop.                         *)
(* lib/transport/beepish/server.js (ServerConnection), lib/actor/service.js*)
(* (handleRequest, the handlers, stopService), and of connection.js what   *)
(* decides when an idle connection is dropped (_setTimeout).               *)
(*                                                                         *)
(* A request is counted twice, by its connection (count, which makes it    *)
(* busy) and by the service (_activeRequests, for which a stop waits).     *)
(* How the bytes of a message travel is the subject of Connection.tla.     *)
(***************************************************************************)
EXTENDS Integers, FiniteSets

CONSTANTS Conn,       \* connections that clients have made
          Request,    \* requests that clients send
          ConnOf,     \* ConnOf[r]: the connection r comes in on
          Kind        \* handlers that requests are for, see HandlerKind

(* No such action; fullHandler and cookedHandler, which reply when the     *)
(* request has ended; staticJsonHandler, which replies some time after     *)
(* that, and not at all to a request that is not JSON ("mute"); a handler  *)
(* of it that calls return_handler and returns a value as well, and so     *)
(* replies twice (service.js:217-219).                                     *)
HandlerKind == {"unknown", "whole", "later", "mute", "twice"}

ASSUME ConnOfAssumption == ConnOf \in [Request -> Conn]
ASSUME KindAssumption   == Kind \subseteq HandlerKind
ASSUME FiniteAssumption == IsFiniteSet(Request)

VARIABLES
    closed,     \* _closed of the connection
    incoming,   \* _incoming: requests that have not ended
    outgoing,   \* _outgoing: the number of replies that have not ended
    count,      \* count; the connection is busy unless it is 0
    timer,      \* the socket's idle timer is set
    phase,      \* "new", "running" or "replied"
    kind,       \* the handler of a request that has arrived
    again,      \* requests whose handler has replied twice
    active,     \* _activeRequests
    onNone,     \* _onNoActiveRequests is set
    stopping,   \* stopService: "no", "delay", "waiting", "draining", "stopped"
    early       \* HISTORY: requests accepted before the delay was over

connVars    == <<closed, incoming, outgoing, count, timer>>
serviceVars == <<phase, kind, again, active>>
stopVars    == <<onNone, stopping, early>>
vars == <<connVars, serviceVars, stopVars>>

Init ==
    /\ closed = [c \in Conn |-> FALSE]
    /\ incoming = [c \in Conn |-> {}]
    /\ outgoing = [c \in Conn |-> 0]
    /\ count = [c \in Conn |-> 0]
    /\ timer = [c \in Conn |-> TRUE]        \* setBaseTimeout
    /\ phase = [r \in Request |-> "new"]
    /\ kind = [r \in Request |-> "unknown"]
    /\ again = {}
    /\ active = 0
    /\ onNone = FALSE
    /\ stopping = "no"
    /\ early = {}

Running == {r \in Request : phase[r] = "running"}

-------------------------------------------------------------------------------
(***************************************************************************)
(* _setTimeout, where a connection has the given count and messages.       *)
(***************************************************************************)
(* Bug: pending requests are not looked at.                                *)
MutantIdle(n, in, out) == in = {} /\ out = 0
Idle(n, in, out) == n = 0 /\ in = {} /\ out = 0

(***************************************************************************)
(* The service's part of onrpy, called n times in a row: the call that     *)
(* brings the count to 0 lets a stop go on.                                *)
(***************************************************************************)
(* Bug: a reply is not counted off.                                        *)
MutantCounted(n) == active
Counted(n) == active - n

CountOff(n) ==
    /\ active' = Counted(n)
    /\ IF active > 0 /\ active' <= 0 /\ onNone
       THEN onNone' = FALSE /\ stopping' = "draining"
       ELSE UNCHANGED <<onNone, stopping>>

(* The requests R are answered.                                            *)
Replied(R) ==
    /\ phase' = [r \in Request |-> IF r \in R THEN "replied" ELSE phase[r]]
    /\ CountOff(Cardinality(R))

(* A request arrives (HEADER, handleRequest).  One for an action that does *)
(* not exist is answered at once, with a reply that ends at once.          *)
Arrive(r, k) ==
    LET c == ConnOf[r] IN
    /\ ~closed[c] /\ phase[r] = "new"
    /\ incoming' = [incoming EXCEPT ![c] = @ \union {r}]
    /\ timer' = [timer EXCEPT ![c] = FALSE]
    /\ kind' = [kind EXCEPT ![r] = k]
    /\ IF k = "unknown"
       THEN /\ phase' = [phase EXCEPT ![r] = "replied"]
            /\ UNCHANGED <<count, active>>
       ELSE /\ phase' = [phase EXCEPT ![r] = "running"]
            /\ count' = [count EXCEPT ![c] = @ + 1]
            /\ active' = active + 1
    /\ UNCHANGED <<closed, outgoing, again, stopVars>>

(* Requests whose 'end' makes their handler reply.                         *)
AnsweredAtEnd(R) == {r \in R : kind[r] = "whole" /\ phase[r] = "running"}

(***************************************************************************)
(* A request ends (EOF, TXERR): its handler runs while it is still listed  *)
(* as incoming, and the idle timer is seen to after that.  The reply's     *)
(* body follows, or the reply ends at once (an error).                     *)
(***************************************************************************)
ReceiveEnd(r) ==
    LET c == ConnOf[r]
        R == AnsweredAtEnd({r})
    IN
    /\ ~closed[c] /\ r \in incoming[c]
    /\ incoming' = [incoming EXCEPT ![c] = @ \ {r}]
    /\ count' = [count EXCEPT ![c] = @ - Cardinality(R)]
    /\ \E bodies \in {0, Cardinality(R)} :
          outgoing' = [outgoing EXCEPT ![c] = @ + bodies]
    /\ timer' = [timer EXCEPT ![c] = Idle(count'[c], incoming'[c], outgoing'[c])]
    /\ Replied(R)
    /\ UNCHANGED <<closed, kind, again, early>>

(***************************************************************************)
(* The connection's part of onrpy, outside the handling of a message       *)
(* (server.js:28-33): it is told that it is not busy before it is given    *)
(* the reply.                                                              *)
(***************************************************************************)
GiveReply(c) ==
    /\ count' = [count EXCEPT ![c] = @ - 1]
    /\ timer' = [timer EXCEPT ![c] = Idle(count'[c], incoming[c], outgoing[c])]
    /\ \E bodies \in {0, 1} : outgoing' = [outgoing EXCEPT ![c] = @ + bodies]
    /\ UNCHANGED <<closed, incoming>>

(* A handler replies some time after the end of its request.               *)
ReplyLater(r) ==
    /\ kind[r] \in {"later", "twice"} /\ phase[r] = "running"
    /\ r \notin incoming[ConnOf[r]]
    /\ GiveReply(ConnOf[r])
    /\ Replied({r})
    /\ UNCHANGED <<kind, again, early>>

(* It has called return_handler and returns a value, or the other way      *)
(* round (an async function): onrpy is called, and counts, once more.      *)
ReplyAgain(r) ==
    /\ kind[r] = "twice" /\ phase[r] = "replied" /\ r \notin again
    /\ again' = again \union {r}
    /\ GiveReply(ConnOf[r])
    /\ CountOff(1)
    /\ UNCHANGED <<phase, kind, early>>

(* The body of a reply has been sent; nobody looks at the timer.           *)
ReplyEnd(c) ==
    /\ outgoing[c] > 0
    /\ outgoing' = [outgoing EXCEPT ![c] = @ - 1]
    /\ UNCHANGED <<closed, incoming, count, timer, serviceVars, stopVars>>

(***************************************************************************)
(* The connection is lost (_onerror): what is incoming ends, with an error,*)
(* and the handlers that wait for the end reply to nobody.                 *)
(***************************************************************************)
(* Bug: incoming messages are forgotten without being ended.               *)
MutantEnded(c) == {}
Ended(c) == AnsweredAtEnd(incoming[c])

Lose(c) ==
    /\ ~closed[c]
    /\ closed' = [closed EXCEPT ![c] = TRUE]
    /\ incoming' = [incoming EXCEPT ![c] = {}]
    /\ outgoing' = [outgoing EXCEPT ![c] = 0]
    /\ count' = [count EXCEPT ![c] = @ - Cardinality(Ended(c))]
    /\ timer' = [timer EXCEPT ![c] = FALSE]
    /\ Replied(Ended(c))
    /\ UNCHANGED <<kind, again, early>>

(* Nothing was sent or received for a while.                               *)
IdleLimit(c) == timer[c] /\ Lose(c)

-------------------------------------------------------------------------------
(* stopService: announce it, wait five seconds, wait for the requests,     *)
(* wait one second.  What becomes of the process then is the caller's.     *)
StopService ==
    /\ stopping = "no"
    /\ stopping' = "delay"
    /\ UNCHANGED <<connVars, serviceVars, onNone, early>>

(* Bug: it does not wait for the requests.                                 *)
MutantMustWait == FALSE
MustWait == active > 0

DelayOver ==
    /\ stopping = "delay"
    /\ onNone' = MustWait
    /\ stopping' = IF MustWait THEN "waiting" ELSE "draining"
    /\ early' = {r \in Request : phase[r] # "new"}
    /\ UNCHANGED <<connVars, serviceVars>>

Drained ==
    /\ stopping = "draining"
    /\ stopping' = "stopped"
    /\ UNCHANGED <<connVars, serviceVars, onNone, early>>

-------------------------------------------------------------------------------
OfRequest(r) ==
    \/ \E k \in Kind : Arrive(r, k)
    \/ ReceiveEnd(r)
    \/ ReplyLater(r)
    \/ ReplyAgain(r)

Next ==
    \/ \E r \in Request : OfRequest(r)
    \/ \E c \in Conn : ReplyEnd(c) \/ Lose(c) \/ IdleLimit(c)
    \/ StopService \/ DelayOver \/ Drained

(***************************************************************************)
(* The timers of a stop fire, and a handler that replies after the end of  *)
(* its request does so.  Nothing is assumed of the other end: it may       *)
(* never end a request, and if it vanishes silently in the middle of one   *)
(* nothing here finds out, the idle timer being off (connection.js:317).   *)
(***************************************************************************)
Fairness ==
    /\ WF_vars(DelayOver) /\ WF_vars(Drained)
    /\ \A r \in Request : WF_vars(ReplyLater(r))

Spec == Init /\ [][Next]_vars

FairSpec == Spec /\ Fairness

-------------------------------------------------------------------------------
(* Properties                                                              *)

(* Every variable keeps its type.                                          *)
TypeOK ==
    /\ closed \in [Conn -> BOOLEAN]
    /\ incoming \in [Conn -> SUBSET Request] /\ outgoing \in [Conn -> Nat]
    /\ count \in [Conn -> Int]
    /\ timer \in [Conn -> BOOLEAN]
    /\ phase \in [Request -> {"new", "running", "replied"}]
    /\ kind \in [Request -> HandlerKind]
    /\ again \subseteq Request
    /\ active \in Int
    /\ onNone \in BOOLEAN
    /\ stopping \in {"no", "delay", "waiting", "draining", "stopped"}
    /\ early \subseteq Request

(* The members of R that came in on connection c.                          *)
On(c, R) == {r \in R : ConnOf[r] = c}

(***************************************************************************)
(* "do not drop connections for inactivity if there are pending requests   *)
(* or inflight messages" (connection.js:314).                              *)
(***************************************************************************)
NoDropInFlight ==
    \A c \in Conn : timer[c] /\ ~closed[c] => Idle(count[c], incoming[c], outgoing[c])

(***************************************************************************)
(* What holds of it: a connection that may be dropped for inactivity has   *)
(* no request that is being received, and none that waits for its reply,   *)
(* whatever the order in which messages end and handlers reply; only a     *)
(* handler that replied twice on it hides a request of the connection from *)
(* the count (connection.js:311-320, server.js:26-33, service.js:217-219). *)
(***************************************************************************)
RequestsKeepOpen ==
    \A c \in Conn : timer[c] /\ ~closed[c] =>
       /\ incoming[c] = {}
       /\ Cardinality(On(c, Running)) <= Cardinality(On(c, again))

(***************************************************************************)
(* _activeRequests and the connections' counts agree with the requests     *)
(* that are not answered, also after losses in the middle of a request,    *)
(* but for the handlers that replied twice: each of those is counted off   *)
(* twice, for good, and a count may be negative (service.js:237-254,       *)
(* server.js:26-33).                                                       *)
(***************************************************************************)
CountsAgree ==
    /\ active = Cardinality(Running) - Cardinality(again)
    /\ \A c \in Conn :
          count[c] = Cardinality(On(c, Running)) - Cardinality(On(c, again))

(***************************************************************************)
(* A service that is stopping waits for every request it had accepted when *)
(* the five seconds were over, but for one that each second reply counted  *)
(* off in its place (service.js:78-91); it misses no end of the waiting,   *)
(* and waits for nothing.                                                  *)
(***************************************************************************)
StopWaits ==
    /\ stopping \in {"draining", "stopped"} =>
          Cardinality(early \intersect Running) <= Cardinality(again)
    /\ onNone <=> stopping = "waiting"
    /\ stopping = "waiting" => active > 0

(***************************************************************************)
(* stopService() comes to an end, unless from some moment on one request   *)
(* holds it: one that the handler has that never replies (a body that is   *)
(* not JSON, service.js:164), or one whose end never comes, from a client  *)
(* that vanished or just does not end it.  Nothing else makes a stop wait  *)
(* for ever, no loss in the middle of a request, no reply at whatever time *)
(* and no second reply (service.js:82-91); of requests that go on coming   *)
(* for ever nothing is said.                                               *)
(***************************************************************************)
Holds(r) ==
    phase[r] = "running" /\ (kind[r] = "mute" \/ r \in incoming[ConnOf[r]])

StopEnds ==
    stopping # "no" ~> (stopping = "stopped" \/ \E r \in Request : []Holds(r))
=============================================================================
