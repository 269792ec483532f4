---------------------------------- MODULE Rpc ----------------------------------
(***************************************************************************)
(* A request on the calling side: Requester.makeRequest and forwardRequest *)
(* (lib/actor/requester.js), the connection cache (lib/util/connectionMgr  *)
(* .js) and the BEEPish client (lib/transport/beepish/client.js).          *)
(*                                                                         *)
(* A request is dispatched to an address and, when that connection could   *)
(* not be established, once more.  Each dispatch is an attempt <<r, k>>.   *)
(* Clients are numbered in the order they are created; every attempt       *)
(* creates at most one, so the numbers never run out.                      *)
(*                                                                         *)
(* JavaScript runs callbacks inside the call that triggers them.  Where a  *)
(* handler calls back more than once (the loss of a connection ends every  *)
(* arriving reply, tells the cache, then answers every pending request)    *)
(* it is cut into steps, between which only the calls that a callback may  *)
(* make can happen: `losing' says where the handler is.                    *)
(***************************************************************************)
EXTENDS Integers, FiniteSets

CONSTANTS Request,    \* the calls of makeRequest
          Address     \* the addresses that services announce

ASSUME RequestAssumption == IsFiniteSet(Request)

Attempt == Request \X {1, 2}

Client == 1 .. 2 * Cardinality(Request)

NoLoss == [client |-> 0, phase |-> "none"]

VARIABLES
    calls,      \* calls[r]: how often the caller's callback ran
    outcome,    \* outcome[r]: "idle", "waiting", or what the callback was given
    pinned,     \* the requests made with params.ident
    cache,      \* Manager._cache: the client of an address, 0 if none
    phase,      \* phase[c]: "unused", "connecting", "open" (started); a lost client
                \*   is "failed" if it never started, else "lost"
    at,         \* at[a]: the client attempt a was handed to, 0 before that
    pending,    \* the attempts in the _pending table of their client
    queued,     \* the attempts whose request waits in _outBuf for the connection
    sent,       \* the attempts whose request left on the wire
    executed,   \* EXTERNAL: the attempts the service has acted on
    replied,    \* the attempts whose reply header has arrived
    streaming,  \* the attempts whose caller is reading the body of the reply
    suspect,    \* HISTORY: the clients on which a request timed out
    losing      \* the connection whose loss is being handled, and how far

callVars   == <<calls, outcome, pinned>>
clientVars == <<cache, phase>>
wireVars   == <<at, pending, queued, sent>>
serverVars == <<executed, replied>>
vars == <<callVars, clientVars, wireVars, serverVars, streaming, suspect, losing>>

Init ==
    /\ calls = [r \in Request |-> 0]
    /\ outcome = [r \in Request |-> "idle"]
    /\ pinned = {}
    /\ cache = [ad \in Address |-> 0]
    /\ phase = [c \in Client |-> "unused"]
    /\ at = [a \in Attempt |-> 0]
    /\ pending = {} /\ queued = {} /\ sent = {}
    /\ executed = {} /\ replied = {}
    /\ streaming = {}
    /\ suspect = {}
    /\ losing = NoLoss

-------------------------------------------------------------------------------
(* Definitions named Mutant... are bugs the properties are tested against; *)
(* nothing uses them.                                                      *)

(* The event loop is between two callbacks.                                *)
Idle == losing.phase = "none"

On(c, attempts) == {a \in attempts : at[a] = c}

(* The caller's callback of r runs with o.                                 *)
Answer(r, o) ==
    /\ calls' = [calls EXCEPT ![r] = @ + 1]
    /\ outcome' = [outcome EXCEPT ![r] = o]

(***************************************************************************)
(* getClient: the cached client of an address, or a new one.               *)
(***************************************************************************)
Unused(c) == phase[c] = "unused" /\ \A d \in Client : d < c => phase[d] # "unused"

GetClient(ad, c) ==
    IF cache[ad] # 0
    THEN c = cache[ad] /\ UNCHANGED clientVars
    ELSE /\ Unused(c)
         /\ cache' = [cache EXCEPT ![ad] = c]
         /\ phase' = [phase EXCEPT ![c] = "connecting"]

(* The pending attempts once _call has taken a out of its table.           *)
MutantSettled(a) == pending
Settled(a) == pending \ {a}

(* Bug: the cache does not listen.                                         *)
MutantNeverEvicted(c) == cache

(* The cache's own 'lost' listener: a client is only ever cached under the *)
(* address it was created for.                                             *)
Evicted(c) == [ad \in Address |-> IF cache[ad] = c THEN 0 ELSE cache[ad]]

(* Bug: a request enters the table only once the connection is open.       *)
MutantClientRequest(a, c, rest) ==
    /\ at' = [at EXCEPT ![a] = c]
    /\ pending' = IF phase'[c] = "open" THEN rest \union {a} ELSE rest
    /\ queued' = IF phase'[c] = "connecting" THEN queued \union {a} ELSE queued
    /\ sent' = IF phase'[c] = "open" THEN sent \union {a} ELSE sent

(***************************************************************************)
(* Client.request with attempt a, the other pending attempts being rest:   *)
(* the connection sends it, keeps it until it starts, or, when it is       *)
(* closed, drops it.                                                       *)
(***************************************************************************)
ClientRequest(a, c, rest) ==
    /\ at' = [at EXCEPT ![a] = c]
    /\ pending' = rest \union {a}
    /\ queued' = IF phase'[c] = "connecting" THEN queued \union {a} ELSE queued
    /\ sent' = IF phase'[c] = "open" THEN sent \union {a} ELSE sent

(* forwardRequest: findAction chooses an address, getClient the client.    *)
Forward(a, ad, rest) == \E c \in Client : GetClient(ad, c) /\ ClientRequest(a, c, rest)

(***************************************************************************)
(* The caller.  makeRequest may be called at any time, from a callback     *)
(* too.                                                                    *)
(***************************************************************************)
MakeRequest(r, ad) ==
    /\ outcome[r] = "idle"
    /\ outcome' = [outcome EXCEPT ![r] = "waiting"]
    /\ pinned' \in {pinned, pinned \union {r}}
    /\ Forward(<<r, 1>>, ad, pending)
    /\ UNCHANGED <<calls, serverVars, streaming, suspect, losing>>

(* No action is found, or the address makes no client.                     *)
RefuseRequest(r) ==
    /\ outcome[r] = "idle"
    /\ Answer(r, "error")
    /\ UNCHANGED <<pinned, clientVars, wireVars, serverVars, streaming, suspect, losing>>

-------------------------------------------------------------------------------
(* The connection and the service.                                         *)

(* The TLS connection is made: proto.start() writes what is queued.        *)
Connect(c) ==
    /\ Idle
    /\ phase[c] = "connecting"
    /\ phase' = [phase EXCEPT ![c] = "open"]
    /\ sent' = sent \union On(c, queued)
    /\ queued' = queued \ On(c, queued)
    /\ UNCHANGED <<callVars, cache, at, pending, serverVars, streaming, suspect, losing>>

(* EXTERNAL: the service acts on a request that reached it.                *)
Execute(a) ==
    /\ a \in sent \ executed
    /\ executed' = executed \union {a}
    /\ UNCHANGED <<callVars, clientVars, wireVars, replied, streaming, suspect, losing>>

(* A reply header arrives: the 'message' listener.  _call ignores a reply  *)
(* nobody waits for any more.                                              *)
OnReply(a) ==
    /\ Idle
    /\ a \in executed \ replied
    /\ phase[at[a]] = "open"
    /\ replied' = replied \union {a}
    /\ IF a \in pending
       THEN /\ pending' = Settled(a)
            /\ streaming' = streaming \union {a}
            /\ Answer(a[1], "reply")
       ELSE UNCHANGED <<pending, streaming, calls, outcome>>
    /\ UNCHANGED <<pinned, clientVars, at, queued, sent, executed, suspect, losing>>

(* The body of a reply ends, well or with the service's error.             *)
OnReplyEnd(a) ==
    /\ Idle
    /\ a \in streaming
    /\ streaming' = streaming \ {a}
    /\ UNCHANGED <<callVars, clientVars, wireVars, serverVars, suspect, losing>>

(* tmout: the timer of a pending attempt.  `lost' is emitted for the cache *)
(* only: the connection itself stays, with its other requests.             *)
Timeout(a) ==
    /\ Idle
    /\ a \in pending
    /\ cache' = Evicted(at[a])
    /\ suspect' = suspect \union {at[a]}
    /\ pending' = Settled(a)
    /\ Answer(a[1], "error")
    /\ UNCHANGED <<pinned, phase, at, queued, sent, serverVars, streaming, losing>>

-------------------------------------------------------------------------------
(***************************************************************************)
(* The loss of a connection: Connection._onerror and the 'lost' listeners. *)
(***************************************************************************)

(* The connection is closed; what it had queued will never be sent.        *)
Lose(c) ==
    /\ Idle
    /\ phase[c] \in {"connecting", "open"}
    /\ phase' = [phase EXCEPT ![c] = IF @ = "open" THEN "lost" ELSE "failed"]
    /\ queued' = queued \ On(c, queued)
    /\ losing' = [client |-> c, phase |-> "ending"]
    /\ UNCHANGED <<callVars, cache, at, pending, sent, serverVars, streaming, suspect>>

(* First every arriving reply ends with an error; its reader is told.      *)
LoseReply(a) ==
    /\ losing.phase = "ending"
    /\ a \in On(losing.client, streaming)
    /\ streaming' = streaming \ {a}
    /\ UNCHANGED <<callVars, clientVars, wireVars, serverVars, suspect, losing>>

(* Then `lost' reaches the cache.                                          *)
EmitLost ==
    /\ losing.phase = "ending"
    /\ On(losing.client, streaming) = {}
    /\ cache' = Evicted(losing.client)
    /\ losing' = [losing EXCEPT !.phase = "draining"]
    /\ UNCHANGED <<callVars, phase, wireVars, serverVars, streaming, suspect>>

(***************************************************************************)
(* Then every pending attempt is answered, in a loop over the live table.  *)
(* One that was never sent is a dispatch failure: makeRequest tries it     *)
(* once more unless the caller asked for one particular service.           *)
(***************************************************************************)
Draining(a) == losing.phase = "draining" /\ a \in On(losing.client, pending)

(* Bug: every lost request is dispatched again.                            *)
MutantRetries(a) == a[2] = 1 /\ a[1] \notin pinned

Retries(a) == phase[losing.client] = "failed" /\ a[2] = 1 /\ a[1] \notin pinned

Redispatch(a, ad) ==
    /\ Draining(a) /\ Retries(a)
    /\ Forward(<<a[1], 2>>, ad, Settled(a))
    /\ UNCHANGED <<callVars, serverVars, streaming, suspect, losing>>

(* A retry that finds no action or no client fails like a first dispatch.  *)
FailPending(a) ==
    /\ Draining(a)
    /\ pending' = Settled(a)
    /\ Answer(a[1], "error")
    /\ UNCHANGED <<pinned, clientVars, at, queued, sent, serverVars, streaming, suspect, losing>>

LossHandled ==
    /\ losing.phase = "draining"
    /\ On(losing.client, pending) = {}
    /\ losing' = NoLoss
    /\ UNCHANGED <<callVars, clientVars, wireVars, serverVars, streaming, suspect>>

HandleLoss ==
    \/ \E a \in Attempt : \/ LoseReply(a)
                          \/ FailPending(a)
                          \/ \E ad \in Address : Redispatch(a, ad)
    \/ EmitLost
    \/ LossHandled

-------------------------------------------------------------------------------
Next ==
    \/ \E r \in Request : RefuseRequest(r) \/ \E ad \in Address : MakeRequest(r, ad)
    \/ \E c \in Client : Connect(c) \/ Lose(c)
    \/ \E a \in Attempt : Execute(a) \/ OnReply(a) \/ OnReplyEnd(a) \/ Timeout(a)
    \/ HandleLoss

(***************************************************************************)
(* Timers fire and a handler that began finishes.  Neither connections     *)
(* nor services owe us anything.                                           *)
(***************************************************************************)
Fairness ==
    /\ WF_vars(HandleLoss)
    /\ \A a \in Attempt : WF_vars(Timeout(a))

Spec == Init /\ [][Next]_vars

FairSpec == Spec /\ Fairness
-------------------------------------------------------------------------------
(* Properties                                                              *)

Phases == {"unused", "connecting", "open", "lost", "failed"}

(* Every variable keeps its type.                                          *)
TypeOK ==
    /\ calls \in [Request -> Nat]
    /\ outcome \in [Request -> {"idle", "waiting", "reply", "error"}]
    /\ pinned \subseteq Request
    /\ cache \in [Address -> Client \union {0}]
    /\ phase \in [Client -> Phases]
    /\ at \in [Attempt -> Client \union {0}]
    /\ pending \subseteq Attempt /\ queued \subseteq Attempt /\ sent \subseteq Attempt
    /\ executed \subseteq Attempt /\ replied \subseteq Attempt
    /\ streaming \subseteq Attempt
    /\ suspect \subseteq Client
    /\ losing \in [client : Client \union {0}, phase : {"none", "ending", "draining"}]

(***************************************************************************)
(* The caller's callback never runs twice, though a late reply, the        *)
(* timeout, the loss of the connection and the retry all compete to answer *)
(* (client.js:115-122, requester.js:49-60).                                *)
(***************************************************************************)
AnsweredOnce == \A r \in Request : calls[r] <= 1

(***************************************************************************)
(* A request whose caller still waits is in exactly one pending table, so  *)
(* exactly one timer runs for it; one that was answered is in none.        *)
(***************************************************************************)
WaitingIsPending ==
    \A r \in Request :
       /\ outcome[r] = "waiting" <=> \E k \in {1, 2} : <<r, k>> \in pending
       /\ ~({<<r, 1>>, <<r, 2>>} \subseteq pending)

(***************************************************************************)
(* Dispatching again never makes a service act twice on one request: the   *)
(* first attempt was neither sent nor will be (requester.js:50-57,         *)
(* client.js:72-74).                                                       *)
(***************************************************************************)
RunsOnce == \A r \in Request : ~({<<r, 1>>, <<r, 2>>} \subseteq executed)

(***************************************************************************)
(* The cache holds no client whose connection is closed, except while that *)
(* loss is being told to the readers of its replies: _onerror ends them    *)
(* before it emits 'lost' (connection.js:88-95), so a request one of them  *)
(* makes is given the closed client.                                       *)
(***************************************************************************)
CacheAlive ==
    \A ad \in Address :
       cache[ad] # 0 => \/ phase[cache[ad]] \in {"connecting", "open"}
                        \/ losing = [client |-> cache[ad], phase |-> "ending"]

(***************************************************************************)
(* Nobody waits on a connection that is gone: a pending attempt is on a    *)
(* live client or about to be answered by the loop in progress, and a      *)
(* reply is only read from an open connection or one whose readers are     *)
(* being told.                                                             *)
(***************************************************************************)
NobodyStranded ==
    /\ \A a \in pending : phase[at[a]] \in {"connecting", "open"} \/ at[a] = losing.client
    /\ \A a \in streaming : \/ phase[at[a]] = "open"
                            \/ losing = [client |-> at[a], phase |-> "ending"]

(***************************************************************************)
(* "instruct connection manager to open a new connection, this one is now  *)
(* suspect" (client.js:128): no attempt is handed to a client on which a   *)
(* request has timed out.                                                  *)
(***************************************************************************)
SuspectUnused ==
    [][\A a \in Attempt : at'[a] # at[a] => at'[a] \notin suspect]_vars

(* Timeouts, losses, late replies and retries implement RemoteCall.        *)
Runs(r) == IF {<<r, 1>>, <<r, 2>>} \subseteq executed THEN 2
           ELSE IF <<r, 1>> \in executed \/ <<r, 2>> \in executed THEN 1 ELSE 0

Call == INSTANCE RemoteCall WITH runs <- [r \in Request |-> Runs(r)]

ImplementsCall == Call!Spec

(* Every request is answered, even if its service never is.                *)
EventuallyAnswered == \A r \in Request : outcome[r] = "waiting" ~> outcome[r] # "waiting"
=============================================================================
