------------------------------- MODULE RpcProofs -------------------------------
(***************************************************************************)
(* Proofs about Rpc, for any finite set of requests and any set of         *)
(* addresses.                                                              *)
(*                                                                         *)
(* The argument: an attempt is pending, queued or sent only on the client  *)
(* it was handed to (Placed); what is queued waits on a connecting client  *)
(* and what was sent went over one that opened (Carried); and a request is *)
(* dispatched again only after its first client failed without opening     *)
(* (SecondAttempt).  The bookkeeping of the callbacks (CallsMatch,         *)
(* WaitingIsPending) and the state of the cache while a loss is handled    *)
(* (CacheAlive, NobodyStranded, LosingClosed) are inductive with it.  That *)
(* Rpc implements RemoteCall needs no more than this invariant.            *)
(***************************************************************************)
EXTENDS Rpc, FiniteSetTheorems, WellFoundedInduction, TLAPS

CallsMatch ==
    \A r \in Request : calls[r] = IF outcome[r] \in {"idle", "waiting"} THEN 0 ELSE 1

SecondAttempt ==
    \A r \in Request :
       /\ outcome[r] = "idle" => at[<<r, 1>>] = 0
       /\ at[<<r, 2>>] # 0 => /\ at[<<r, 1>>] # 0
                              /\ phase[at[<<r, 1>>]] = "failed"
                              /\ <<r, 1>> \notin pending

Placed == \A a \in pending \union queued \union sent \union streaming : at[a] # 0

Carried ==
    /\ \A a \in queued : phase[at[a]] = "connecting"
    /\ \A a \in sent : phase[at[a]] \in {"open", "lost"}
    /\ executed \subseteq sent

LosingClosed ==
    /\ losing.phase = "none" <=> losing.client = 0
    /\ losing.phase # "none" => phase[losing.client] \in {"lost", "failed"}

SuspectEvicted ==
    \A c \in suspect : phase[c] # "unused" /\ \A ad \in Address : cache[ad] # c

IInv ==
    /\ TypeOK
    /\ CallsMatch
    /\ WaitingIsPending
    /\ SecondAttempt
    /\ Placed
    /\ Carried
    /\ CacheAlive
    /\ NobodyStranded
    /\ LosingClosed
    /\ SuspectEvicted

-------------------------------------------------------------------------------
(* Clients are positive numbers, so 0 is none of them.                     *)
LEMMA ClientNumbers == Client \subseteq Nat /\ 0 \notin Client
BY RequestAssumption, FS_CardinalityType DEF Client

(* A request has two attempts, and no two requests share one.              *)
LEMMA AttemptPairs ==
    \A r \in Request :
       /\ <<r, 1>> \in Attempt /\ <<r, 2>> \in Attempt
       /\ \A q \in Request : <<q, 2>> # <<r, 1>> /\ (<<q, 1>> = <<r, 1>> => q = r)
BY DEF Attempt

(* The initial states satisfy the invariant.                               *)
LEMMA InvInit == Init => IInv
BY ClientNumbers, AttemptPairs
DEF Init, NoLoss, IInv, TypeOK, CallsMatch, WaitingIsPending, SecondAttempt, Placed, Carried,
    CacheAlive, NobodyStranded, LosingClosed, SuspectEvicted, Phases

(***************************************************************************)
(* Taking an attempt out of the table and answering its request keeps the  *)
(* bookkeeping of the callbacks: the part that a reply, a timeout and a    *)
(* loss share.                                                             *)
(***************************************************************************)
LEMMA AnswerKeeps ==
    ASSUME TypeOK, CallsMatch, WaitingIsPending,
           NEW a \in pending, NEW o \in {"reply", "error"},
           Answer(a[1], o), pending' = Settled(a)
    PROVE  CallsMatch' /\ WaitingIsPending'
<1> PICK r \in Request, k \in {1, 2} : a = <<r, k>>
  BY DEF TypeOK, Attempt
<1>1. outcome[r] = "waiting" /\ calls[r] = 0
  BY DEF WaitingIsPending, CallsMatch
<1>2. /\ outcome' = [outcome EXCEPT ![r] = o]
      /\ calls' = [calls EXCEPT ![r] = 1]
  BY <1>1 DEF Answer, TypeOK
<1>3. CallsMatch'
  BY <1>2 DEF CallsMatch, TypeOK
<1>4. pending' = pending \ {<<r, k>>}
  BY DEF Settled
<1>5. WaitingIsPending'
  <2> SUFFICES ASSUME NEW q \in Request
               PROVE  /\ outcome'[q] = "waiting" <=> \E j \in {1, 2} : <<q, j>> \in pending'
                      /\ ~({<<q, 1>>, <<q, 2>>} \subseteq pending')
    BY DEF WaitingIsPending
  <2>1. CASE q = r
    BY <1>2, <1>4, <2>1 DEF WaitingIsPending, TypeOK
  <2>2. CASE q # r
    BY <1>2, <1>4, <2>2 DEF WaitingIsPending, TypeOK
  <2> QED BY <2>1, <2>2
<1> QED BY <1>3, <1>5

-------------------------------------------------------------------------------
(* One lemma per action: a step of it keeps the invariant.                 *)

LEMMA RefuseRequestKeeps ==
    ASSUME IInv, NEW r \in Request, RefuseRequest(r)
    PROVE  IInv'
<1> USE DEF IInv, TypeOK, RefuseRequest, Answer, clientVars, wireVars, serverVars
<1>1. TypeOK'
  BY DEF Phases
<1>2. CallsMatch'
  BY DEF CallsMatch
<1>3. WaitingIsPending' /\ SecondAttempt'
  BY DEF WaitingIsPending, SecondAttempt
<1>4. Placed' /\ Carried' /\ CacheAlive' /\ NobodyStranded' /\ LosingClosed' /\ SuspectEvicted'
  BY DEF Placed, Carried, CacheAlive, NobodyStranded, LosingClosed, SuspectEvicted
<1> QED BY <1>1, <1>2, <1>3, <1>4

LEMMA ConnectKeeps ==
    ASSUME IInv, NEW c \in Client, Connect(c)
    PROVE  IInv'
<1> USE DEF IInv, TypeOK, Connect, On, callVars, serverVars
<1>1. TypeOK'
  BY DEF Phases
<1>2. CallsMatch' /\ WaitingIsPending'
  BY DEF CallsMatch, WaitingIsPending
<1>3. SecondAttempt'
  BY AttemptPairs DEF SecondAttempt
<1>4. Placed'
  BY DEF Placed
<1>5. Carried'
  BY DEF Carried
<1>6. CacheAlive' /\ NobodyStranded'
  BY DEF CacheAlive, NobodyStranded
<1>7. LosingClosed' /\ SuspectEvicted'
  BY DEF LosingClosed, SuspectEvicted
<1> QED BY <1>1, <1>2, <1>3, <1>4, <1>5, <1>6, <1>7

(* The attempts pending on the client become those the loop will answer.   *)
LEMMA LoseKeeps ==
    ASSUME IInv, NEW c \in Client, Lose(c)
    PROVE  IInv'
<1> USE DEF IInv, TypeOK, Lose, Idle, On, callVars, serverVars
<1>1. TypeOK'
  BY DEF Phases
<1>2. CallsMatch' /\ WaitingIsPending'
  BY DEF CallsMatch, WaitingIsPending
<1>3. SecondAttempt'
  BY AttemptPairs DEF SecondAttempt
<1>4. Placed'
  BY DEF Placed
<1>5. Carried'
  BY DEF Carried
<1>6. CacheAlive'
  BY DEF CacheAlive
<1>7. NobodyStranded'
  BY DEF NobodyStranded, Placed, LosingClosed
<1>8. LosingClosed'
  BY ClientNumbers DEF LosingClosed
<1>9. SuspectEvicted'
  BY DEF SuspectEvicted
<1> QED BY <1>1, <1>2, <1>3, <1>4, <1>5, <1>6, <1>7, <1>8, <1>9

LEMMA ExecuteKeeps ==
    ASSUME IInv, NEW a \in Attempt, Execute(a)
    PROVE  IInv'
<1> USE DEF IInv, TypeOK, Execute, callVars, clientVars, wireVars
<1>1. TypeOK' /\ CallsMatch' /\ WaitingIsPending' /\ SecondAttempt'
  BY DEF CallsMatch, WaitingIsPending, SecondAttempt
<1>2. Carried'
  BY DEF Carried
<1>3. Placed' /\ CacheAlive' /\ NobodyStranded' /\ LosingClosed' /\ SuspectEvicted'
  BY DEF Placed, CacheAlive, NobodyStranded, LosingClosed, SuspectEvicted
<1> QED BY <1>1, <1>2, <1>3

(* A reply for a pending attempt answers its request; another is ignored.  *)
LEMMA OnReplyKeeps ==
    ASSUME IInv, NEW a \in Attempt, OnReply(a)
    PROVE  IInv'
<1> USE DEF IInv, OnReply, clientVars
<1>1. TypeOK'
  BY DEF TypeOK, Answer, Settled, Attempt
<1>2. CallsMatch' /\ WaitingIsPending'
  <2>1. CASE a \in pending
    BY <2>1, AnswerKeeps
  <2>2. CASE a \notin pending
    BY <2>2 DEF CallsMatch, WaitingIsPending
  <2> QED BY <2>1, <2>2
<1>3. pending' \subseteq pending /\ \A r \in Request : outcome'[r] = "idle" => outcome[r] = "idle"
  BY DEF Answer, Settled, TypeOK
<1>4. SecondAttempt'
  BY <1>3 DEF SecondAttempt
<1>5. Placed' /\ NobodyStranded'
  BY DEF Placed, Carried, NobodyStranded, Settled, TypeOK
<1>6. Carried' /\ CacheAlive' /\ LosingClosed' /\ SuspectEvicted'
  BY DEF Carried, CacheAlive, LosingClosed, SuspectEvicted
<1> QED BY <1>1, <1>2, <1>4, <1>5, <1>6

LEMMA OnReplyEndKeeps ==
    ASSUME IInv, NEW a \in Attempt, OnReplyEnd(a)
    PROVE  IInv'
<1> USE DEF IInv, TypeOK, OnReplyEnd, callVars, clientVars, wireVars, serverVars
<1>1. TypeOK' /\ CallsMatch' /\ WaitingIsPending' /\ SecondAttempt'
  BY DEF CallsMatch, WaitingIsPending, SecondAttempt
<1>2. Placed' /\ NobodyStranded'
  BY DEF Placed, NobodyStranded
<1>3. Carried' /\ CacheAlive' /\ LosingClosed' /\ SuspectEvicted'
  BY DEF Carried, CacheAlive, LosingClosed, SuspectEvicted
<1> QED BY <1>1, <1>2, <1>3

(* A client that is made suspect leaves the cache in the same step.        *)
LEMMA TimeoutKeeps ==
    ASSUME IInv, NEW a \in Attempt, Timeout(a)
    PROVE  IInv'
<1> USE DEF IInv, Timeout
<1>1. at[a] \in Client
  BY DEF Placed, TypeOK
<1>2. TypeOK'
  BY <1>1 DEF TypeOK, Answer, Settled, Evicted, Attempt, serverVars
<1>3. CallsMatch' /\ WaitingIsPending'
  <2> a \in pending /\ Answer(a[1], "error") /\ pending' = Settled(a)
    OBVIOUS
  <2> QED BY AnswerKeeps
<1>4. pending' \subseteq pending /\ \A r \in Request : outcome'[r] = "idle" => outcome[r] = "idle"
  BY DEF Answer, Settled, TypeOK
<1>5. SecondAttempt'
  BY <1>4 DEF SecondAttempt
<1>6. Placed' /\ NobodyStranded'
  BY <1>4 DEF Placed, NobodyStranded
<1>7. \A ad \in Address : cache'[ad] = IF cache[ad] = at[a] THEN 0 ELSE cache[ad]
  BY DEF Evicted
<1>8. CacheAlive'
  BY <1>7 DEF CacheAlive
<1>9. phase[at[a]] # "unused"
  BY <1>1, ClientNumbers DEF NobodyStranded, LosingClosed, Idle
<1>10. SuspectEvicted'
  BY <1>1, <1>7, <1>9, ClientNumbers DEF SuspectEvicted, TypeOK
<1>11. Carried' /\ LosingClosed'
  BY DEF Carried, LosingClosed, serverVars
<1> QED BY <1>2, <1>3, <1>5, <1>6, <1>8, <1>10, <1>11

LEMMA LoseReplyKeeps ==
    ASSUME IInv, NEW a \in Attempt, LoseReply(a)
    PROVE  IInv'
<1> USE DEF IInv, TypeOK, LoseReply, callVars, clientVars, wireVars, serverVars
<1>1. TypeOK' /\ CallsMatch' /\ WaitingIsPending' /\ SecondAttempt'
  BY DEF CallsMatch, WaitingIsPending, SecondAttempt
<1>2. Placed' /\ NobodyStranded'
  BY DEF Placed, NobodyStranded
<1>3. Carried' /\ CacheAlive' /\ LosingClosed' /\ SuspectEvicted'
  BY DEF Carried, CacheAlive, LosingClosed, SuspectEvicted
<1> QED BY <1>1, <1>2, <1>3

(* Once the cache is told, it holds no closed client.                      *)
LEMMA EmitLostKeeps ==
    ASSUME IInv, EmitLost
    PROVE  IInv'
<1> USE DEF IInv, EmitLost, callVars, wireVars, serverVars
<1>1. \A ad \in Address : cache'[ad] = IF cache[ad] = losing.client THEN 0 ELSE cache[ad]
  BY DEF Evicted
<1>2. TypeOK'
  BY DEF TypeOK, Evicted
<1>3. CallsMatch' /\ WaitingIsPending' /\ SecondAttempt'
  BY DEF CallsMatch, WaitingIsPending, SecondAttempt
<1>4. Placed' /\ Carried'
  BY DEF Placed, Carried
<1>5. losing'.client = losing.client /\ losing'.phase = "draining"
  BY DEF TypeOK
<1>6. CacheAlive'
  BY <1>1, <1>5 DEF CacheAlive
<1>7. NobodyStranded'
  BY <1>5 DEF NobodyStranded, On
<1>8. LosingClosed'
  BY <1>5 DEF LosingClosed
<1>9. SuspectEvicted'
  BY <1>1, ClientNumbers DEF SuspectEvicted, TypeOK
<1> QED BY <1>2, <1>3, <1>4, <1>6, <1>7, <1>8, <1>9

LEMMA FailPendingKeeps ==
    ASSUME IInv, NEW a \in Attempt, FailPending(a)
    PROVE  IInv'
<1> USE DEF IInv, FailPending, clientVars, serverVars
<1>1. a \in pending
  BY DEF Draining, On
<1>2. TypeOK'
  BY <1>1 DEF TypeOK, Answer, Settled, Attempt
<1>3. CallsMatch' /\ WaitingIsPending'
  BY <1>1, AnswerKeeps
<1>4. pending' \subseteq pending /\ \A r \in Request : outcome'[r] = "idle" => outcome[r] = "idle"
  BY DEF Answer, Settled, TypeOK
<1>5. SecondAttempt'
  BY <1>4 DEF SecondAttempt
<1>6. Placed' /\ NobodyStranded'
  BY <1>4 DEF Placed, NobodyStranded
<1>7. Carried' /\ CacheAlive' /\ LosingClosed' /\ SuspectEvicted'
  BY DEF Carried, CacheAlive, LosingClosed, SuspectEvicted
<1> QED BY <1>2, <1>3, <1>5, <1>6, <1>7

(* When the loop ends nothing is pending on the client any more.           *)
LEMMA LossHandledKeeps ==
    ASSUME IInv, LossHandled
    PROVE  IInv'
<1> USE DEF IInv, LossHandled, NoLoss, callVars, clientVars, wireVars, serverVars
<1>1. TypeOK'
  BY DEF TypeOK
<1>2. CallsMatch' /\ WaitingIsPending' /\ SecondAttempt'
  BY DEF CallsMatch, WaitingIsPending, SecondAttempt
<1>3. Placed' /\ Carried' /\ SuspectEvicted'
  BY DEF Placed, Carried, SuspectEvicted
<1>4. CacheAlive'
  BY DEF CacheAlive
<1>5. NobodyStranded'
  BY DEF NobodyStranded, On
<1>6. LosingClosed'
  BY DEF LosingClosed
<1> QED BY <1>1, <1>2, <1>3, <1>4, <1>5, <1>6

-------------------------------------------------------------------------------
(***************************************************************************)
(* Dispatching.  What getClient does to the table of clients: it gives a   *)
(* client on which nothing has timed out, alive or (its loss being told to *)
(* the readers of its replies) about to be drained.                        *)
(***************************************************************************)
LEMMA GetClientResult ==
    ASSUME IInv, NEW ad \in Address, NEW c \in Client, GetClient(ad, c)
    PROVE  /\ cache' \in [Address -> Client \union {0}]
           /\ phase' \in [Client -> Phases]
           /\ \A d \in Client : phase[d] # "unused" => phase'[d] = phase[d]
           /\ phase'[c] # "unused"
           /\ phase'[c] \in {"connecting", "open"} \/ losing = [client |-> c, phase |-> "ending"]
           /\ c \notin suspect
           /\ \A x \in Address : cache'[x] = cache[x] \/ cache'[x] = c
<1>1. CASE cache[ad] # 0
  <2> c = cache[ad] /\ cache' = cache /\ phase' = phase
    BY <1>1 DEF GetClient, clientVars
  <2>1. phase[c] \in {"connecting", "open"} \/ losing = [client |-> c, phase |-> "ending"]
    BY <1>1 DEF IInv, CacheAlive
  <2>2. phase[c] # "unused"
    BY <2>1 DEF IInv, LosingClosed
  <2>3. c \notin suspect
    BY DEF IInv, SuspectEvicted
  <2> QED BY <2>1, <2>2, <2>3 DEF IInv, TypeOK
<1>2. CASE cache[ad] = 0
  <2>1. /\ phase[c] = "unused"
        /\ cache' = [cache EXCEPT ![ad] = c]
        /\ phase' = [phase EXCEPT ![c] = "connecting"]
    BY <1>2 DEF GetClient, Unused
  <2>2. c \notin suspect
    BY <2>1 DEF IInv, SuspectEvicted
  <2> QED BY <2>1, <2>2 DEF IInv, TypeOK, Phases
<1> QED BY <1>1, <1>2

(***************************************************************************)
(* Handing a new attempt <<r, k>> to a client keeps the parts of the       *)
(* invariant that are not about the bookkeeping of the callbacks.          *)
(***************************************************************************)
LEMMA ForwardKeeps ==
    ASSUME IInv, NEW r \in Request, NEW k \in {1, 2}, NEW ad \in Address,
           NEW rest \in SUBSET pending,
           at[<<r, k>>] = 0, Forward(<<r, k>>, ad, rest),
           UNCHANGED <<serverVars, streaming, suspect, losing>>
    PROVE  /\ cache' \in [Address -> Client \union {0}] /\ phase' \in [Client -> Phases]
           /\ at' \in [Attempt -> Client \union {0}]
           /\ pending' = rest \union {<<r, k>>}
           /\ queued' \subseteq Attempt /\ sent' \subseteq Attempt
           /\ at'[<<r, k>>] # 0
           /\ \A b \in Attempt : b # <<r, k>> => at'[b] = at[b]
           /\ \A d \in Client : phase[d] # "unused" => phase'[d] = phase[d]
           /\ Placed' /\ Carried' /\ CacheAlive' /\ NobodyStranded' /\ LosingClosed'
           /\ SuspectEvicted'
           /\ at'[<<r, k>>] \notin suspect
<1> DEFINE a == <<r, k>>
<1> a \in Attempt
  BY AttemptPairs
<1> PICK c \in Client : GetClient(ad, c) /\ ClientRequest(a, c, rest)
  BY DEF Forward
<1> USE DEF IInv, serverVars
<1>1. /\ cache' \in [Address -> Client \union {0}]
      /\ phase' \in [Client -> Phases]
      /\ \A d \in Client : phase[d] # "unused" => phase'[d] = phase[d]
      /\ phase'[c] # "unused"
      /\ phase'[c] \in {"connecting", "open"} \/ losing = [client |-> c, phase |-> "ending"]
      /\ c \notin suspect
      /\ \A x \in Address : cache'[x] = cache[x] \/ cache'[x] = c
  BY GetClientResult
<1>2. /\ at' = [at EXCEPT ![a] = c]
      /\ pending' = rest \union {a}
      /\ queued' = IF phase'[c] = "connecting" THEN queued \union {a} ELSE queued
      /\ sent' = IF phase'[c] = "open" THEN sent \union {a} ELSE sent
  BY DEF ClientRequest
<1>3. /\ at' \in [Attempt -> Client \union {0}]
      /\ queued' \subseteq Attempt /\ sent' \subseteq Attempt
      /\ at'[a] = c
      /\ \A b \in Attempt : b # a => at'[b] = at[b]
  BY <1>2 DEF TypeOK
<1>4. c # 0
  BY ClientNumbers
<1>5. a \notin pending /\ a \notin queued /\ a \notin sent /\ a \notin streaming
  BY DEF Placed
<1>6. \A b \in pending \union queued \union sent \union streaming :
         /\ at'[b] = at[b]
         /\ at[b] \in Client
  BY <1>3, <1>5 DEF Placed, TypeOK
<1>7. Placed'
  BY <1>2, <1>3, <1>4, <1>6 DEF Placed
<1>8. Carried'
  <2>1. \A b \in queued : phase'[at'[b]] = "connecting"
    BY <1>1, <1>6 DEF Carried
  <2>2. \A b \in sent : phase'[at'[b]] \in {"open", "lost"}
    BY <1>1, <1>6 DEF Carried
  <2> QED BY <1>2, <1>3, <2>1, <2>2 DEF Carried
<1>9. CacheAlive'
  <2> SUFFICES ASSUME NEW x \in Address, cache'[x] # 0
               PROVE  \/ phase'[cache'[x]] \in {"connecting", "open"}
                      \/ losing' = [client |-> cache'[x], phase |-> "ending"]
    BY DEF CacheAlive
  <2>1. CASE cache'[x] = c
    BY <1>1, <2>1
  <2>2. CASE cache'[x] = cache[x]
    BY <1>1, <2>2 DEF CacheAlive, TypeOK
  <2> QED BY <1>1, <2>1, <2>2
<1>10. NobodyStranded'
  <2>1. \A b \in pending : phase'[at'[b]] \in {"connecting", "open"} \/ at'[b] = losing.client
    BY <1>1, <1>6 DEF NobodyStranded
  <2>2. phase'[at'[a]] \in {"connecting", "open"} \/ at'[a] = losing.client
    BY <1>1, <1>3
  <2>3. \A b \in streaming : \/ phase'[at'[b]] = "open"
                             \/ losing = [client |-> at'[b], phase |-> "ending"]
    BY <1>1, <1>6 DEF NobodyStranded
  <2> QED BY <1>2, <2>1, <2>2, <2>3 DEF NobodyStranded
<1>11. LosingClosed'
  BY <1>1, ClientNumbers DEF LosingClosed, TypeOK
<1>12. SuspectEvicted'
  BY <1>1 DEF SuspectEvicted, TypeOK
<1> QED BY <1>1, <1>2, <1>3, <1>4, <1>7, <1>8, <1>9, <1>10, <1>11, <1>12

LEMMA MakeRequestKeeps ==
    ASSUME IInv, NEW r \in Request, NEW ad \in Address, MakeRequest(r, ad)
    PROVE  IInv' /\ \A a \in Attempt : at'[a] # at[a] => at'[a] \notin suspect
<1> DEFINE a == <<r, 1>>
<1> USE DEF IInv, MakeRequest, serverVars
<1>1. at[a] = 0 /\ at[<<r, 2>>] = 0
  BY DEF SecondAttempt
<1>2. a \notin pending /\ <<r, 2>> \notin pending
  BY <1>1 DEF Placed
<1>3. /\ cache' \in [Address -> Client \union {0}] /\ phase' \in [Client -> Phases]
      /\ at' \in [Attempt -> Client \union {0}]
      /\ pending' = pending \union {a}
      /\ queued' \subseteq Attempt /\ sent' \subseteq Attempt
      /\ at'[a] # 0
      /\ \A b \in Attempt : b # a => at'[b] = at[b]
      /\ \A d \in Client : phase[d] # "unused" => phase'[d] = phase[d]
      /\ Placed' /\ Carried' /\ CacheAlive' /\ NobodyStranded' /\ LosingClosed'
      /\ SuspectEvicted'
      /\ at'[a] \notin suspect
  BY <1>1, ForwardKeeps, 1 \in {1, 2}
<1>4. outcome' = [outcome EXCEPT ![r] = "waiting"] /\ calls' = calls
  OBVIOUS
<1>5. TypeOK'
  <2>1. pending' \subseteq Attempt
    <3>1. a \in Attempt
      BY AttemptPairs
    <3> QED BY <1>3, <3>1 DEF TypeOK
  <2>2. pinned' \subseteq Request
    BY DEF TypeOK
  <2> QED BY <1>3, <1>4, <2>1, <2>2 DEF TypeOK
<1>6. CallsMatch'
  BY <1>4 DEF CallsMatch, TypeOK
<1>7. WaitingIsPending'
  <2> SUFFICES ASSUME NEW q \in Request
               PROVE  /\ outcome'[q] = "waiting" <=> \E j \in {1, 2} : <<q, j>> \in pending'
                      /\ ~({<<q, 1>>, <<q, 2>>} \subseteq pending')
    BY DEF WaitingIsPending
  <2>1. CASE q = r
    BY <1>2, <1>3, <1>4, <2>1 DEF TypeOK
  <2>2. CASE q # r
    BY <1>3, <1>4, <2>2 DEF WaitingIsPending, TypeOK
  <2> QED BY <2>1, <2>2
<1>8. SecondAttempt'
  <2> SUFFICES ASSUME NEW q \in Request
               PROVE  /\ outcome'[q] = "idle" => at'[<<q, 1>>] = 0
                      /\ at'[<<q, 2>>] # 0 => /\ at'[<<q, 1>>] # 0
                                              /\ phase'[at'[<<q, 1>>]] = "failed"
                                              /\ <<q, 1>> \notin pending'
    BY DEF SecondAttempt
  <2>1. at'[<<q, 2>>] = at[<<q, 2>>]
    <3>1. <<q, 2>> \in Attempt /\ <<q, 2>> # a
      BY AttemptPairs
    <3> QED BY <1>3, <3>1
  <2>2. CASE q = r
    BY <1>1, <1>4, <2>1, <2>2 DEF TypeOK
  <2>3. CASE q # r
    <3>1. at'[<<q, 1>>] = at[<<q, 1>>] /\ <<q, 1>> # a
      BY <1>3, <2>3, AttemptPairs
    <3>2. at[<<q, 1>>] \in Client \union {0}
      BY AttemptPairs DEF TypeOK
    <3> QED BY <1>3, <1>4, <2>1, <2>3, <3>1, <3>2 DEF SecondAttempt, TypeOK
  <2> QED BY <2>2, <2>3
<1>9. \A b \in Attempt : at'[b] # at[b] => at'[b] \notin suspect
  BY <1>3
<1> QED BY <1>3, <1>5, <1>6, <1>7, <1>8, <1>9

(* A request is dispatched again when its first client failed unopened.    *)
LEMMA RedispatchKeeps ==
    ASSUME IInv, NEW a \in Attempt, NEW ad \in Address, Redispatch(a, ad)
    PROVE  IInv' /\ \A b \in Attempt : at'[b] # at[b] => at'[b] \notin suspect
<1> USE DEF IInv, serverVars, callVars
<1> PICK r \in Request, j \in {1, 2} : a = <<r, j>>
  BY DEF Attempt
<1>1. /\ a = <<r, 1>> /\ a[1] = r
      /\ a \in pending
      /\ at[a] = losing.client
      /\ phase[at[a]] = "failed"
      /\ Forward(<<r, 2>>, ad, pending \ {<<r, 1>>})
      /\ UNCHANGED <<calls, outcome, pinned, executed, replied, streaming, suspect, losing>>
  BY DEF Redispatch, Draining, Retries, On, Settled
<1> DEFINE b == <<r, 2>>
<1>2. b \in Attempt /\ a \in Attempt /\ b # a
  BY <1>1, AttemptPairs
<1>3. at[b] = 0
  BY <1>1 DEF SecondAttempt
<1>4. at[a] \in Client
  BY <1>1, <1>2 DEF Placed, TypeOK
<1>5. /\ cache' \in [Address -> Client \union {0}] /\ phase' \in [Client -> Phases]
      /\ at' \in [Attempt -> Client \union {0}]
      /\ pending' = (pending \ {<<r, 1>>}) \union {b}
      /\ queued' \subseteq Attempt /\ sent' \subseteq Attempt
      /\ at'[b] # 0
      /\ \A c \in Attempt : c # b => at'[c] = at[c]
      /\ \A d \in Client : phase[d] # "unused" => phase'[d] = phase[d]
      /\ Placed' /\ Carried' /\ CacheAlive' /\ NobodyStranded' /\ LosingClosed'
      /\ SuspectEvicted'
      /\ at'[b] \notin suspect
  <2>1. (pending \ {<<r, 1>>}) \in SUBSET pending /\ 2 \in {1, 2}
    OBVIOUS
  <2> QED BY <1>1, <1>3, <2>1, ForwardKeeps
<1>6. TypeOK'
  <2>1. pending' \subseteq Attempt
    BY <1>2, <1>5 DEF TypeOK
  <2> QED BY <1>1, <1>5, <2>1 DEF TypeOK
<1>7. CallsMatch'
  BY <1>1 DEF CallsMatch
<1>8. WaitingIsPending'
  <2>1. outcome[r] = "waiting" /\ b \notin pending
    BY <1>1 DEF WaitingIsPending
  <2> SUFFICES ASSUME NEW q \in Request
               PROVE  /\ outcome'[q] = "waiting" <=> \E i \in {1, 2} : <<q, i>> \in pending'
                      /\ ~({<<q, 1>>, <<q, 2>>} \subseteq pending')
    BY DEF WaitingIsPending
  <2>2. CASE q = r
    BY <1>1, <1>2, <1>5, <2>1, <2>2
  <2>3. CASE q # r
    BY <1>1, <1>5, <2>3 DEF WaitingIsPending
  <2> QED BY <2>2, <2>3
<1>9. SecondAttempt'
  <2> SUFFICES ASSUME NEW q \in Request
               PROVE  /\ outcome'[q] = "idle" => at'[<<q, 1>>] = 0
                      /\ at'[<<q, 2>>] # 0 => /\ at'[<<q, 1>>] # 0
                                              /\ phase'[at'[<<q, 1>>]] = "failed"
                                              /\ <<q, 1>> \notin pending'
    BY DEF SecondAttempt
  <2>1. at'[<<q, 1>>] = at[<<q, 1>>] /\ <<q, 1>> # b /\ at[<<q, 1>>] \in Client \union {0}
    BY <1>5, AttemptPairs DEF TypeOK
  <2>2. CASE q = r
    <3>1. outcome'[q] # "idle"
      BY <1>1, <2>2 DEF WaitingIsPending
    <3>2. at'[a] # 0 /\ phase'[at'[a]] = "failed"
      BY <1>1, <1>4, <1>5, <2>1, <2>2, ClientNumbers
    <3>3. a \notin pending'
      BY <1>1, <1>2, <1>5
    <3> QED BY <1>1, <2>2, <3>1, <3>2, <3>3
  <2>3. CASE q # r
    <3>1. at'[<<q, 2>>] = at[<<q, 2>>]
      BY <1>5, <2>3, AttemptPairs
    <3>2. <<q, 1>> \in pending' => <<q, 1>> \in pending
      BY <1>5, <2>1
    <3> QED BY <1>1, <1>5, <2>1, <3>1, <3>2 DEF SecondAttempt
  <2> QED BY <2>2, <2>3
<1>10. \A c \in Attempt : at'[c] # at[c] => at'[c] \notin suspect
  BY <1>5
<1> QED BY <1>5, <1>6, <1>7, <1>8, <1>9, <1>10

-------------------------------------------------------------------------------
(***************************************************************************)
(* Every step keeps the invariant, and hands no attempt to a suspect       *)
(* client.                                                                 *)
(***************************************************************************)
LEMMA InvNext ==
    ASSUME IInv, [Next]_vars
    PROVE  IInv' /\ \A a \in Attempt : at'[a] # at[a] => at'[a] \notin suspect
<1> DEFINE Fresh == \A a \in Attempt : at'[a] # at[a] => at'[a] \notin suspect
<1>1. ASSUME NEW r \in Request, RefuseRequest(r) PROVE IInv' /\ Fresh
  BY <1>1, RefuseRequestKeeps DEF RefuseRequest, wireVars
<1>2. ASSUME NEW r \in Request, NEW ad \in Address, MakeRequest(r, ad) PROVE IInv' /\ Fresh
  BY <1>2, MakeRequestKeeps
<1>3. ASSUME NEW c \in Client, Connect(c) PROVE IInv' /\ Fresh
  BY <1>3, ConnectKeeps DEF Connect
<1>4. ASSUME NEW c \in Client, Lose(c) PROVE IInv' /\ Fresh
  BY <1>4, LoseKeeps DEF Lose
<1>5. ASSUME NEW a \in Attempt, Execute(a) PROVE IInv' /\ Fresh
  BY <1>5, ExecuteKeeps DEF Execute, wireVars
<1>6. ASSUME NEW a \in Attempt, OnReply(a) PROVE IInv' /\ Fresh
  BY <1>6, OnReplyKeeps DEF OnReply
<1>7. ASSUME NEW a \in Attempt, OnReplyEnd(a) PROVE IInv' /\ Fresh
  BY <1>7, OnReplyEndKeeps DEF OnReplyEnd, wireVars
<1>8. ASSUME NEW a \in Attempt, Timeout(a) PROVE IInv' /\ Fresh
  BY <1>8, TimeoutKeeps DEF Timeout
<1>9. ASSUME NEW a \in Attempt, LoseReply(a) PROVE IInv' /\ Fresh
  BY <1>9, LoseReplyKeeps DEF LoseReply, wireVars
<1>10. ASSUME NEW a \in Attempt, FailPending(a) PROVE IInv' /\ Fresh
  BY <1>10, FailPendingKeeps DEF FailPending
<1>11. ASSUME NEW a \in Attempt, NEW ad \in Address, Redispatch(a, ad) PROVE IInv' /\ Fresh
  BY <1>11, RedispatchKeeps
<1>12. CASE EmitLost
  BY <1>12, EmitLostKeeps DEF EmitLost, wireVars
<1>13. CASE LossHandled
  BY <1>13, LossHandledKeeps DEF LossHandled, wireVars
<1>14. CASE UNCHANGED vars
  <2> USE <1>14 DEF vars, callVars, clientVars, wireVars, serverVars, IInv
  <2>1. TypeOK' /\ CallsMatch' /\ WaitingIsPending' /\ SecondAttempt'
    BY DEF TypeOK, CallsMatch, WaitingIsPending, SecondAttempt
  <2>2. Placed' /\ Carried' /\ CacheAlive' /\ NobodyStranded' /\ LosingClosed' /\ SuspectEvicted'
    BY DEF Placed, Carried, CacheAlive, NobodyStranded, LosingClosed, SuspectEvicted
  <2> QED BY <2>1, <2>2
<1> QED
  BY <1>1, <1>2, <1>3, <1>4, <1>5, <1>6, <1>7, <1>8, <1>9, <1>10, <1>11, <1>12, <1>13, <1>14
  DEF Next, HandleLoss

(* The strengthened invariant holds throughout.                            *)
THEOREM Invariance == Spec => []IInv
<1>1. IInv /\ [Next]_vars => IInv'
  BY InvNext
<1> QED BY InvInit, <1>1, PTL DEF Spec

(***************************************************************************)
(* The variables keep their types (client.js, requester.js and             *)
(* connectionMgr.js never mix clients, attempts and requests up).          *)
(***************************************************************************)
THEOREM TypeCorrect == Spec => []TypeOK
<1>1. IInv => TypeOK
  BY DEF IInv
<1> QED BY <1>1, Invariance, PTL

(***************************************************************************)
(* However many requests there are, no callback runs twice: a reply, the   *)
(* timeout and the loss of the connection all go through _call, which      *)
(* answers a pending attempt only once, and the retry replaces the         *)
(* attempt it answers (client.js:115-122, requester.js:49-60).             *)
(***************************************************************************)
THEOREM CallbackOnce == Spec => []AnsweredOnce
<1>1. IInv => AnsweredOnce
  BY DEF IInv, CallsMatch, AnsweredOnce
<1> QED BY <1>1, Invariance, PTL

(***************************************************************************)
(* A request whose caller waits is in one pending table, so one timer runs *)
(* for it; an answered one is in none (client.js:62-131).                  *)
(***************************************************************************)
THEOREM OneTimer == Spec => []WaitingIsPending
<1>1. IInv => WaitingIsPending
  BY DEF IInv
<1> QED BY <1>1, Invariance, PTL

(* At most one attempt of a request has reached its service.               *)
LEMMA RunsAtMostOnce == ASSUME IInv, NEW r \in Request PROVE ~(<<r, 1>> \in executed /\ <<r, 2>> \in executed)
<1> SUFFICES ASSUME <<r, 1>> \in executed, <<r, 2>> \in executed PROVE FALSE
  OBVIOUS
<1>1. <<r, 1>> \in sent /\ <<r, 2>> \in sent
  BY DEF IInv, Carried
<1>2. phase[at[<<r, 1>>]] = "failed"
  BY <1>1 DEF IInv, Placed, SecondAttempt
<1>3. phase[at[<<r, 1>>]] \in {"open", "lost"}
  BY <1>1 DEF IInv, Carried
<1> QED BY <1>2, <1>3

(***************************************************************************)
(* No service acts on both attempts of a request: the second is made only  *)
(* when the first client failed before it opened, and what such a client   *)
(* had queued is never sent (requester.js:50-57, client.js:72-74).         *)
(***************************************************************************)
THEOREM AtMostOneRun == Spec => []RunsOnce
<1>1. IInv => RunsOnce
  BY RunsAtMostOnce DEF RunsOnce
<1> QED BY <1>1, Invariance, PTL

(***************************************************************************)
(* The cache holds no closed client but one whose loss is being told       *)
(* (connection.js:88-95, connectionMgr.js:42-47).                          *)
(***************************************************************************)
THEOREM CacheAlwaysAlive == Spec => []CacheAlive
<1>1. IInv => CacheAlive
  BY DEF IInv
<1> QED BY <1>1, Invariance, PTL

(***************************************************************************)
(* Nobody waits for a reply, or for the rest of one, on a connection that  *)
(* is gone, unless the loop that tells them is running (connection.js:     *)
(* 88-95, client.js:62-75).                                                *)
(***************************************************************************)
THEOREM NoneStranded == Spec => []NobodyStranded
<1>1. IInv => NobodyStranded
  BY DEF IInv
<1> QED BY <1>1, Invariance, PTL

(***************************************************************************)
(* No attempt is ever handed to a client on which a request timed out: the *)
(* timeout takes it out of the cache and nothing puts it back              *)
(* (client.js:127-131, connectionMgr.js:42-47).                            *)
(***************************************************************************)
THEOREM SuspectNeverUsed == Spec => SuspectUnused
<1>1. IInv /\ [Next]_vars => [\A a \in Attempt : at'[a] # at[a] => at'[a] \notin suspect]_vars
  BY InvNext
<1> QED BY <1>1, Invariance, PTL DEF Spec, SuspectUnused

-------------------------------------------------------------------------------
(***************************************************************************)
(* The refinement of RemoteCall.  One lemma per kind of step: what the     *)
(* caller and the service see of it.                                       *)
(***************************************************************************)
(* A step of neither.                                                      *)
LEMMA Unseen ==
    ASSUME UNCHANGED <<outcome, executed>> PROVE UNCHANGED Call!vars
<1>1. [r \in Request |-> Runs(r)]' = [r \in Request |-> Runs(r)]
  BY DEF Runs
<1> QED BY <1>1 DEF Call!vars

LEMMA CallInit == Init => Call!Init
BY DEF Init, Call!Init, Runs

LEMMA MakeRequestStep ==
    ASSUME NEW r \in Request, RefuseRequest(r) \/ \E ad \in Address : MakeRequest(r, ad)
    PROVE  Call!Next
<1>1. /\ outcome[r] = "idle" /\ executed' = executed
      /\ \E o \in {"waiting", "error"} : outcome' = [outcome EXCEPT ![r] = o]
  BY DEF RefuseRequest, MakeRequest, Answer, serverVars
<1>2. [q \in Request |-> Runs(q)]' = [q \in Request |-> Runs(q)]
  BY <1>1 DEF Runs
<1>3. Call!Call(r)
  BY <1>1, <1>2 DEF Call!Call
<1> QED BY <1>3 DEF Call!Next

LEMMA ExecuteStep == ASSUME IInv, IInv', NEW a \in Attempt, Execute(a) PROVE Call!Next
<1>1. PICK r \in Request, k \in {1, 2} : a = <<r, k>>
  BY DEF Attempt
<1>2. /\ <<r, k>> \in sent /\ <<r, k>> \notin executed /\ executed' = executed \union {<<r, k>>}
      /\ outcome' = outcome
  BY <1>1 DEF Execute, callVars
<1>3. outcome[r] # "idle"
  <2>1. at[<<r, k>>] # 0
    BY <1>2 DEF IInv, Placed
  <2>2. at[<<r, 1>>] # 0
    <3>1. CASE k = 1
      BY <2>1, <3>1
    <3>2. CASE k = 2
      BY <2>1, <3>2 DEF IInv, SecondAttempt
    <3> QED BY <3>1, <3>2
  <2> QED BY <2>2 DEF IInv, SecondAttempt
<1>4. ~(<<r, 1>> \in executed' /\ <<r, 2>> \in executed')
  <2>1. {<<r, 1>>, <<r, 2>>} \subseteq executed' => <<r, 1>> \in sent' /\ <<r, 2>> \in sent'
    BY DEF IInv, Carried
  <2>2. <<r, 2>> \in sent' => at'[<<r, 2>>] # 0
    BY DEF IInv, Placed
  <2>3. at'[<<r, 2>>] # 0 => phase'[at'[<<r, 1>>]] = "failed"
    BY DEF IInv, SecondAttempt
  <2>4. <<r, 1>> \in sent' => phase'[at'[<<r, 1>>]] \in {"open", "lost"}
    BY DEF IInv, Carried
  <2> QED BY <2>1, <2>2, <2>3, <2>4
<1>5. Runs(r) = 0 /\ Runs(r)' = 1
  BY <1>2, <1>4 DEF Runs
<1>6. \A q \in Request : q # r => Runs(q)' = Runs(q)
  <2> SUFFICES ASSUME NEW q \in Request, q # r PROVE Runs(q)' = Runs(q)
    OBVIOUS
  <2>1. \A j \in {1, 2} : <<q, j>> \in executed' <=> <<q, j>> \in executed
    BY <1>2
  <2> QED BY <2>1 DEF Runs
<1>7. [q \in Request |-> Runs(q)]' = [[q \in Request |-> Runs(q)] EXCEPT ![r] = 1]
  BY <1>5, <1>6
<1>8. Call!Run(r)
  BY <1>2, <1>3, <1>5, <1>7 DEF Call!Run
<1> QED BY <1>8 DEF Call!Next

(* A pending attempt is answered: with a reply only after its action ran.  *)
LEMMA AnswerStep ==
    ASSUME IInv, NEW a \in pending, NEW o \in {"reply", "error"}, Answer(a[1], o),
           executed' = executed, o = "reply" => a \in executed
    PROVE  Call!Next
<1>1. PICK r \in Request, k \in {1, 2} : a = <<r, k>>
  BY DEF IInv, TypeOK, Attempt
<1>2. outcome[r] = "waiting" /\ outcome' = [outcome EXCEPT ![r] = o]
  BY <1>1 DEF IInv, WaitingIsPending, Answer
<1>3. [q \in Request |-> Runs(q)]' = [q \in Request |-> Runs(q)]
  BY DEF Runs
<1>4. CASE o = "error"
  <2>1. Call!Fail(r)
    BY <1>2, <1>3, <1>4 DEF Call!Fail
  <2> QED BY <2>1 DEF Call!Next
<1>5. CASE o = "reply"
  <2>1. <<r, k>> \in executed
    BY <1>1, <1>5
  <2>2. Runs(r) = 1
    BY <2>1, RunsAtMostOnce DEF Runs
  <2>3. Call!Reply(r)
    BY <1>2, <1>3, <1>5, <2>2 DEF Call!Reply
  <2> QED BY <2>3 DEF Call!Next
<1> QED BY <1>4, <1>5

LEMMA CallStep == IInv /\ IInv' /\ [Next]_vars => [Call!Next]_Call!vars
<1> SUFFICES ASSUME IInv, IInv', [Next]_vars PROVE [Call!Next]_Call!vars
  OBVIOUS
<1>1. ASSUME NEW a \in Attempt, OnReply(a) PROVE [Call!Next]_Call!vars
  <2>1. CASE a \in pending
    <3>1. Answer(a[1], "reply") /\ executed' = executed /\ a \in executed
      BY <1>1, <2>1 DEF OnReply
    <3> QED BY <2>1, <3>1, AnswerStep
  <2>2. CASE a \notin pending
    BY <1>1, <2>2, Unseen DEF OnReply
  <2> QED BY <2>1, <2>2
<1>2. ASSUME NEW a \in Attempt, Timeout(a) \/ FailPending(a) PROVE Call!Next
  <2>1. a \in pending /\ Answer(a[1], "error") /\ executed' = executed
    BY <1>2 DEF Timeout, FailPending, Draining, On, serverVars
  <2> QED BY <2>1, AnswerStep
<1>3. ASSUME NEW c \in Client, Connect(c) \/ Lose(c) PROVE UNCHANGED Call!vars
  BY <1>3, Unseen DEF Connect, Lose, callVars, serverVars
<1>4. ASSUME NEW a \in Attempt, OnReplyEnd(a) \/ LoseReply(a) \/ \E ad \in Address : Redispatch(a, ad)
      PROVE  UNCHANGED Call!vars
  BY <1>4, Unseen DEF OnReplyEnd, LoseReply, Redispatch, callVars, serverVars
<1>5. ASSUME EmitLost \/ LossHandled PROVE UNCHANGED Call!vars
  BY <1>5, Unseen DEF EmitLost, LossHandled, callVars, serverVars
<1>6. ASSUME UNCHANGED vars PROVE UNCHANGED Call!vars
  BY <1>6, Unseen DEF vars, callVars, serverVars
<1> QED BY <1>1, <1>2, <1>3, <1>4, <1>5, <1>6, MakeRequestStep, ExecuteStep DEF Next, HandleLoss

(***************************************************************************)
(* Timeouts, lost connections, late replies and retries come down to one   *)
(* remote call: its callback runs once, its action at most once, and a     *)
(* reply means that it ran (client.js:62-131, requester.js:39-60).         *)
(***************************************************************************)
THEOREM CallImplemented == Spec => ImplementsCall
<1>1. IInv /\ IInv' /\ [Next]_vars => [Call!Next]_Call!vars
  BY CallStep
<1> QED BY Invariance, CallInit, <1>1, PTL DEF Spec, ImplementsCall, Call!Spec

-------------------------------------------------------------------------------
(***************************************************************************)
(* That there are as many clients as can be needed.                        *)
(***************************************************************************)

(* A client was made for an attempt, and the attempt was handed to it.     *)
Spent == \A c \in Client : phase[c] # "unused" => \E a \in Attempt : at[a] = c

(* Whenever a request is made, or is to be made again, there is a client   *)
(* that getClient can make.                                                *)
ClientLeft ==
    /\ \A r \in Request : outcome[r] = "idle" => \E c \in Client : Unused(c)
    /\ \A a \in Attempt : Draining(a) /\ Retries(a) => \E c \in Client : Unused(c)

LEMMA SpentForward ==
    ASSUME IInv, Spent, NEW a \in Attempt, at[a] = 0, NEW ad \in Address, NEW rest,
           Forward(a, ad, rest)
    PROVE  Spent'
<1>1. PICK c \in Client : GetClient(ad, c) /\ at' = [at EXCEPT ![a] = c]
  BY DEF Forward, ClientRequest
<1>2. at'[a] = c /\ \A b \in Attempt : b # a => at'[b] = at[b]
  BY <1>1 DEF IInv, TypeOK
<1>3. ASSUME NEW d \in Client, d # c, phase'[d] # "unused" PROVE phase[d] # "unused"
  BY <1>1, <1>3 DEF GetClient, clientVars, IInv, TypeOK
<1>4. ASSUME NEW d \in Client, phase'[d] # "unused" PROVE \E b \in Attempt : at'[b] = d
  <2>1. CASE d = c
    BY <1>2, <2>1
  <2>2. CASE d # c
    <3>1. PICK b \in Attempt : at[b] = d
      BY <1>3, <1>4, <2>2 DEF Spent
    <3>2. d # 0
      BY ClientNumbers
    <3> QED BY <1>2, <3>1, <3>2
  <2> QED BY <2>1, <2>2
<1> QED BY <1>4 DEF Spent

LEMMA SpentNext == IInv /\ Spent /\ [Next]_vars => Spent'
<1> SUFFICES ASSUME IInv, Spent, [Next]_vars PROVE Spent'
  OBVIOUS
<1>1. ASSUME NEW r \in Request, NEW ad \in Address, MakeRequest(r, ad) PROVE Spent'
  <2>1. at[<<r, 1>>] = 0 /\ Forward(<<r, 1>>, ad, pending) /\ <<r, 1>> \in Attempt
    BY <1>1, AttemptPairs DEF MakeRequest, IInv, SecondAttempt
  <2> QED BY <2>1, SpentForward
<1>2. ASSUME NEW a \in Attempt, NEW ad \in Address, Redispatch(a, ad) PROVE Spent'
  <2>1. PICK r \in Request : a = <<r, 1>> /\ a[1] = r /\ a \in pending
    BY <1>2 DEF Attempt, Redispatch, Draining, Retries, On
  <2>2. at[<<r, 2>>] = 0 /\ <<r, 2>> \in Attempt
    BY <2>1, AttemptPairs DEF IInv, SecondAttempt
  <2>3. Forward(<<r, 2>>, ad, Settled(a))
    BY <1>2, <2>1 DEF Redispatch
  <2> QED BY <2>2, <2>3, SpentForward
<1>3. ASSUME NEW c \in Client, Connect(c) \/ Lose(c) PROVE Spent'
  <2>1. at' = at /\ \A d \in Client : phase'[d] # "unused" => phase[d] # "unused"
    BY <1>3 DEF Connect, Lose, IInv, TypeOK
  <2> QED BY <2>1 DEF Spent
<1>4. CASE \/ \E r \in Request : RefuseRequest(r)
           \/ \E a \in Attempt : \/ Execute(a) \/ OnReply(a) \/ OnReplyEnd(a) \/ Timeout(a)
                                 \/ LoseReply(a) \/ FailPending(a)
           \/ EmitLost \/ LossHandled \/ UNCHANGED vars
  <2>1. UNCHANGED <<at, phase>>
    BY <1>4 DEF RefuseRequest, Execute, OnReply, OnReplyEnd, Timeout, LoseReply, FailPending,
                EmitLost, LossHandled, clientVars, wireVars, vars
  <2> QED BY <2>1 DEF Spent
<1> QED BY <1>1, <1>2, <1>3, <1>4 DEF Next, HandleLoss

(* A set of numbers that is not empty has a least one.                     *)
LEMMA Least == ASSUME NEW U, U \subseteq Nat, U # {} PROVE \E x \in U : \A y \in U : ~(y < x)
<1> DEFINE R == OpToRel(<, Nat)
<1>1. R = {p \in Nat \X Nat : p[1] < p[2]}
  BY DEF OpToRel
<1>2. IsWellFoundedOn(R, Nat)
  BY NatLessThanWellFounded
<1> HIDE DEF R
<1>3. PICK x \in U : \A y \in U : ~(<<y, x>> \in R)
  BY <1>2, WFMin
<1>4. ASSUME NEW y \in U, y < x PROVE FALSE
  <2>1. <<y, x>> \in R
    BY <1>1, <1>4
  <2> QED BY <1>3, <2>1
<1> QED BY <1>4

(* While an attempt has not been made, not all clients are in use: there   *)
(* are as many as there are attempts.                                      *)
LEMMA SomeUnused ==
    ASSUME IInv, Spent, NEW a \in Attempt, at[a] = 0 PROVE \E c \in Client : Unused(c)
<1> DEFINE U == {c \in Client : phase[c] = "unused"}
           Made == {b \in Attempt : at[b] # 0}
<1>1. Cardinality(Request) \in Nat
  BY RequestAssumption, FS_CardinalityType
<1>2. IsFiniteSet(Client) /\ Cardinality(Client) = 2 * Cardinality(Request)
  <2>1. 2 * Cardinality(Request) \in Nat
    BY <1>1
  <2> QED BY <2>1, FS_Interval DEF Client
<1>3. IsFiniteSet(Attempt) /\ Cardinality(Attempt) = Cardinality(Request) * 2
  <2>1. IsFiniteSet({1, 2}) /\ Cardinality({1, 2}) = 2
    <3>1. IsFiniteSet({1}) /\ Cardinality({1}) = 1
      BY FS_Singleton
    <3>2. {1, 2} = {1} \union {2} /\ 2 \notin {1}
      OBVIOUS
    <3>3. IsFiniteSet({1} \union {2}) /\ Cardinality({1} \union {2}) = Cardinality({1}) + 1
      BY <3>1, <3>2, FS_AddElement
    <3> QED BY <3>1, <3>2, <3>3
  <2> QED BY <2>1, RequestAssumption, FS_Product DEF Attempt
<1>4. IsFiniteSet(Made) /\ Cardinality(Made) \in Nat /\ Cardinality(Made) < Cardinality(Attempt)
  <2>1. Made \in SUBSET Attempt /\ Made # Attempt
    OBVIOUS
  <2> HIDE DEF Made
  <2>2. IsFiniteSet(Made) /\ Cardinality(Made) <= Cardinality(Attempt)
        /\ (Cardinality(Made) = Cardinality(Attempt) => Made = Attempt)
    BY <1>3, <2>1, FS_Subset
  <2> QED BY <1>1, <1>3, <2>1, <2>2, FS_CardinalityType
<1>5. U # {}
  <2> SUFFICES ASSUME U = {} PROVE FALSE
    OBVIOUS
  <2> DEFINE f == [b \in Made |-> at[b]]
  <2>1. f \in [Made -> Client]
    BY DEF IInv, TypeOK
  <2>2. \A c \in Client : \E b \in Made : f[b] = c
    <3> SUFFICES ASSUME NEW c \in Client PROVE \E b \in Made : f[b] = c
      OBVIOUS
    <3>1. PICK b \in Attempt : at[b] = c
      BY DEF Spent
    <3>2. c # 0
      BY ClientNumbers
    <3> QED BY <3>1, <3>2
  <2> HIDE DEF f, Made
  <2>3. f \in Surjection(Made, Client)
    BY <2>1, <2>2 DEF Surjection
  <2>4. Cardinality(Client) <= Cardinality(Made)
    BY <1>4, <2>3, FS_Surjection
  <2> QED BY <1>1, <1>2, <1>3, <1>4, <2>4
<1>6. U \subseteq Nat
  BY ClientNumbers
<1>7. PICK c \in U : \A d \in U : ~(d < c)
  <2> HIDE DEF U
  <2> QED BY <1>5, <1>6, Least
<1> QED BY <1>7 DEF Unused

(***************************************************************************)
(* Client bounds nothing that the code does not: however the requests, the *)
(* losses and the retries interleave, a request never finds that there is  *)
(* no client for it (connectionMgr.js:22-41, requester.js:50-57).          *)
(***************************************************************************)
THEOREM ClientAlwaysLeft == Spec => []ClientLeft
<1>1. Init => Spent
  BY DEF Init, Spent
<1>2. IInv /\ Spent => ClientLeft
  <2> SUFFICES ASSUME IInv, Spent PROVE ClientLeft
    OBVIOUS
  <2>1. ASSUME NEW r \in Request, outcome[r] = "idle" PROVE \E c \in Client : Unused(c)
    <3>1. at[<<r, 1>>] = 0 /\ <<r, 1>> \in Attempt
      BY <2>1, AttemptPairs DEF IInv, SecondAttempt
    <3> QED BY <3>1, SomeUnused
  <2>2. ASSUME NEW a \in Attempt, Draining(a), Retries(a) PROVE \E c \in Client : Unused(c)
    <3>1. PICK r \in Request : a = <<r, 1>> /\ a \in pending
      BY <2>2 DEF Attempt, Draining, Retries, On
    <3>2. at[<<r, 2>>] = 0 /\ <<r, 2>> \in Attempt
      BY <3>1, AttemptPairs DEF IInv, SecondAttempt
    <3> QED BY <3>2, SomeUnused
  <2> QED BY <2>1, <2>2 DEF ClientLeft
<1> QED BY <1>1, <1>2, SpentNext, Invariance, PTL DEF Spec
=============================================================================
