--------------------------- MODULE ServiceHostProofs ---------------------------
(***************************************************************************)
(* Proofs about ServiceHost, for any number of connections and requests.   *)
(*                                                                         *)
(* Both counts are the number of requests that are not answered, less the  *)
(* number of those answered twice, because each operation counts exactly   *)
(* the requests it starts and the replies it is given; the loss of a       *)
(* connection answers several, all of them its own (Owned).  A timer is    *)
(* only set, and a stop only goes on, where a count shows that no more are *)
(* left than were answered twice.  While a stop waits somebody is left,    *)
(* and the end of a message or the reply of a handler is to come.          *)
(***************************************************************************)
EXTENDS ServiceHost, FiniteSetTheorems, TLAPS

(* A connection's messages are its own; a set timer belongs to a           *)
(* connection with nothing incoming; a request counted as early has come.  *)
Owned == \A c \in Conn : \A r \in incoming[c] : ConnOf[r] = c

EarlyArrived == \A r \in early : phase[r] # "new"

IInv == TypeOK /\ CountsAgree /\ RequestsKeepOpen /\ StopWaits /\ Owned /\ EarlyArrived

-------------------------------------------------------------------------------
(* Counting.                                                               *)
LEMMA Finite ==
    ASSUME NEW S \in SUBSET Request
    PROVE  /\ IsFiniteSet(S) /\ Cardinality(S) \in Nat
           /\ \A c : /\ On(c, S) \in SUBSET S
                   /\ IsFiniteSet(On(c, S)) /\ Cardinality(On(c, S)) \in Nat
<1>1. IsFiniteSet(S)
  BY FiniteAssumption, FS_Subset
<1>2. ASSUME NEW c PROVE On(c, S) \in SUBSET S /\ IsFiniteSet(On(c, S))
  <2>1. On(c, S) \in SUBSET S
    BY DEF On
  <2> QED BY <1>1, <2>1, FS_Subset
<1> QED BY <1>1, <1>2, FS_CardinalityType

LEMMA RunningFinite ==
    /\ IsFiniteSet(Running) /\ Cardinality(Running) \in Nat
    /\ \A c : /\ On(c, Running) \in SUBSET Running
            /\ IsFiniteSet(On(c, Running)) /\ Cardinality(On(c, Running)) \in Nat
<1>1. Running \in SUBSET Request
  BY DEF Running
<1> QED BY <1>1, Finite

LEMMA CountLess ==
    ASSUME NEW S, IsFiniteSet(S), NEW R \in SUBSET S
    PROVE  /\ Cardinality(R) \in Nat
           /\ Cardinality(S \ R) = Cardinality(S) - Cardinality(R)
<1>1. S \intersect R = R
  OBVIOUS
<1>2. IsFiniteSet(R)
  BY FS_Subset
<1> QED BY <1>1, <1>2, FS_CardinalityType, FS_Difference

(* A smaller set of requests has no more members, on any connection.       *)
LEMMA Fewer ==
    ASSUME NEW S \in SUBSET Request, NEW R \in SUBSET S
    PROVE  /\ Cardinality(R) <= Cardinality(S)
           /\ \A c : Cardinality(On(c, R)) <= Cardinality(On(c, S))
<1>1. IsFiniteSet(S) /\ \A c : IsFiniteSet(On(c, S))
  BY Finite
<1>2. \A c : On(c, R) \in SUBSET On(c, S)
  BY DEF On
<1> QED BY <1>1, <1>2, FS_Subset

(* In the initial states nothing runs.                                     *)
LEMMA InvInit == Init => IInv
<1> SUFFICES ASSUME Init PROVE IInv
  OBVIOUS
<1>1. TypeOK
  <2>1. /\ outgoing \in [Conn -> Nat] /\ count \in [Conn -> Int]
        /\ active \in Int /\ incoming \in [Conn -> SUBSET Request]
    BY DEF Init
  <2>2. /\ phase \in [Request -> {"new", "running", "replied"}]
        /\ kind \in [Request -> HandlerKind]
        /\ closed \in [Conn -> BOOLEAN] /\ timer \in [Conn -> BOOLEAN]
    BY DEF Init, HandlerKind
  <2> QED BY <2>1, <2>2 DEF Init, TypeOK
<1>2. Running = {}
  BY DEF Init, Running
<1>3. again = {} /\ \A c \in Conn : On(c, Running) = {} /\ On(c, again) = {}
  BY <1>2 DEF Init, On
<1>4. CountsAgree
  BY <1>2, <1>3, FS_EmptySet DEF Init, CountsAgree
<1>5. RequestsKeepOpen
  BY <1>3, FS_EmptySet DEF Init, RequestsKeepOpen
<1>6. StopWaits /\ Owned /\ EarlyArrived
  BY DEF Init, StopWaits, Owned, EarlyArrived
<1> QED BY <1>1, <1>4, <1>5, <1>6 DEF IInv

-------------------------------------------------------------------------------
(***************************************************************************)
(* Replies are counted off: a stop goes on exactly when the count shows    *)
(* that no more are left than were answered twice.                         *)
(***************************************************************************)
LEMMA CountOffKeeps ==
    ASSUME IInv, NEW n \in Nat, CountOff(n), UNCHANGED early,
           again' \in SUBSET Request, again \subseteq again',
           Running' \subseteq Running,
           active' = Cardinality(Running') - Cardinality(again')
    PROVE  /\ active' \in Int /\ onNone' \in BOOLEAN
           /\ stopping' \in {"no", "delay", "waiting", "draining", "stopped"}
           /\ StopWaits'
<1>1. /\ active \in Int /\ onNone \in BOOLEAN /\ StopWaits
      /\ stopping \in {"no", "delay", "waiting", "draining", "stopped"}
  BY DEF IInv, TypeOK
<1>2. active' = active - n
  BY DEF CountOff, Counted
<1>3. Running \in SUBSET Request
  BY DEF Running
<1>4. /\ Cardinality(again) \in Nat /\ Cardinality(again') \in Nat
      /\ Cardinality(again) <= Cardinality(again')
  <2>1. again \in SUBSET Request
    BY DEF IInv, TypeOK
  <2> QED BY <2>1, Finite, Fewer
<1>5. /\ Cardinality(Running') \in Nat
      /\ Cardinality(early \intersect Running) \in Nat
      /\ Cardinality(early \intersect Running') \in Nat
      /\ Cardinality(early \intersect Running') <= Cardinality(Running')
      /\ Cardinality(early \intersect Running') <= Cardinality(early \intersect Running)
  <2>1. /\ Running' \in SUBSET Request
        /\ early \intersect Running \in SUBSET Request
        /\ early \intersect Running' \in SUBSET (early \intersect Running)
        /\ early \intersect Running' \in SUBSET Running'
        /\ early \intersect Running' \in SUBSET Request
    BY <1>3
  <2> QED BY <2>1, Finite, Fewer
<1>6. CASE active > 0 /\ active' <= 0 /\ onNone
  <2>1. onNone' = FALSE /\ stopping' = "draining"
    BY <1>6 DEF CountOff
  <2>2. active' \in Int
    BY <1>4, <1>5
  <2>3. Cardinality(early' \intersect Running') <= Cardinality(again')
    BY <1>4, <1>5, <1>6
  <2> QED BY <2>1, <2>2, <2>3 DEF StopWaits
<1>7. CASE ~(active > 0 /\ active' <= 0 /\ onNone)
  <2>1. UNCHANGED <<onNone, stopping>>
    BY <1>7 DEF CountOff
  <2>2. stopping = "waiting" => active' > 0
    BY <1>1, <1>2, <1>7 DEF StopWaits
  <2>3. stopping \in {"draining", "stopped"} =>
           Cardinality(early \intersect Running') <= Cardinality(again')
    BY <1>1, <1>4, <1>5 DEF StopWaits
  <2> QED BY <1>1, <1>2, <2>1, <2>2, <2>3 DEF StopWaits
<1> QED BY <1>6, <1>7

(* A set of running requests of one connection is answered: the counts     *)
(* stay right.                                                             *)
LEMMA AnswerKeeps ==
    ASSUME IInv, NEW c \in Conn, NEW R \in SUBSET On(c, Running), Replied(R),
           count' = [count EXCEPT ![c] = @ - Cardinality(R)],
           UNCHANGED <<again, early>>
    PROVE  /\ phase' \in [Request -> {"new", "running", "replied"}]
           /\ active' \in Int /\ count' \in [Conn -> Int]
           /\ onNone' \in BOOLEAN
           /\ stopping' \in {"no", "delay", "waiting", "draining", "stopped"}
           /\ Cardinality(R) \in Nat
           /\ Running' = Running \ R
           /\ CountsAgree' /\ StopWaits' /\ EarlyArrived'
<1> DEFINE Rest == Running \ R
<1>1. /\ phase \in [Request -> {"new", "running", "replied"}]
      /\ count \in [Conn -> Int] /\ active \in Int
      /\ again \in SUBSET Request /\ early \subseteq Request
  BY DEF IInv, TypeOK
<1>2. phase' = [r \in Request |-> IF r \in R THEN "replied" ELSE phase[r]]
  BY DEF Replied
<1>3. R \in SUBSET Running /\ R \subseteq Request
  BY DEF On, Running
<1>4. /\ phase' \in [Request -> {"new", "running", "replied"}]
      /\ Running' = Rest
  BY <1>1, <1>2 DEF Running
<1>5. /\ Cardinality(R) \in Nat
      /\ Cardinality(Rest) = Cardinality(Running) - Cardinality(R)
  BY <1>3, RunningFinite, CountLess
<1>6. /\ Cardinality(again) \in Nat /\ \A d : Cardinality(On(d, again)) \in Nat
      /\ Cardinality(Running) \in Nat
      /\ \A d : Cardinality(On(d, Running)) \in Nat
  BY <1>1, Finite, RunningFinite
<1>7. active' = Cardinality(Rest) - Cardinality(again)
  BY <1>5, <1>6 DEF Replied, CountOff, Counted, IInv, CountsAgree
<1>8. ASSUME NEW d \in Conn
      PROVE  count'[d] = Cardinality(On(d, Rest)) - Cardinality(On(d, again))
  <2>1. count[d] = Cardinality(On(d, Running)) - Cardinality(On(d, again))
    BY DEF IInv, CountsAgree
  <2>2. CASE d = c
    <3>1. On(d, Rest) = On(c, Running) \ R
      BY <2>2 DEF On
    <3>2. Cardinality(On(c, Running) \ R) = Cardinality(On(c, Running)) - Cardinality(R)
      BY RunningFinite, CountLess
    <3>3. count'[d] = count[c] - Cardinality(R)
      BY <1>1, <2>2
    <3>4. Cardinality(On(d, Rest)) = Cardinality(On(d, Running)) - Cardinality(R)
      BY <2>2, <3>1, <3>2
    <3>5. count'[d] = count[d] - Cardinality(R)
      BY <2>2, <3>3
    <3> HIDE DEF Rest
    <3> QED BY <1>5, <1>6, <2>1, <3>4, <3>5
  <2>3. CASE d # c
    <3>1. On(d, Rest) = On(d, Running)
      BY <2>3 DEF On
    <3>2. count'[d] = count[d]
      BY <1>1, <2>3
    <3> QED BY <2>1, <3>1, <3>2
  <2> QED BY <2>2, <2>3
<1>9. count' \in [Conn -> Int]
  BY <1>1, <1>5
<1>10. CountsAgree'
  BY <1>4, <1>7, <1>8 DEF CountsAgree
<1>11. /\ active' \in Int /\ onNone' \in BOOLEAN
       /\ stopping' \in {"no", "delay", "waiting", "draining", "stopped"}
       /\ StopWaits'
  <2>1. CountOff(Cardinality(R))
    BY DEF Replied
  <2>2. /\ again' \in SUBSET Request /\ again \subseteq again'
        /\ Running' \subseteq Running
        /\ active' = Cardinality(Running') - Cardinality(again')
    BY <1>1, <1>4, <1>7
  <2> QED BY <1>5, <2>1, <2>2, CountOffKeeps
<1>12. EarlyArrived'
  BY <1>1, <1>2 DEF IInv, EarlyArrived
<1> QED BY <1>4, <1>5, <1>9, <1>10, <1>11, <1>12

-------------------------------------------------------------------------------
(* A request that arrives is counted twice, or not at all.                 *)
LEMMA ArriveKeeps ==
    ASSUME IInv, NEW r \in Request, NEW k \in Kind, Arrive(r, k)
    PROVE  IInv'
<1> DEFINE c == ConnOf[r]
<1>1. c \in Conn /\ k \in HandlerKind
  BY ConnOfAssumption, KindAssumption
<1>2. /\ ~closed[c] /\ phase[r] = "new"
      /\ incoming' = [incoming EXCEPT ![c] = @ \union {r}]
      /\ timer' = [timer EXCEPT ![c] = FALSE]
      /\ kind' = [kind EXCEPT ![r] = k]
      /\ UNCHANGED <<closed, outgoing, again, onNone, stopping, early>>
  BY DEF Arrive, stopVars
<1>3. TypeOK /\ CountsAgree /\ StopWaits /\ Owned /\ EarlyArrived /\ RequestsKeepOpen
  BY DEF IInv
<1>4. \/ /\ phase' = [phase EXCEPT ![r] = "replied"]
         /\ UNCHANGED <<count, active>> /\ Running' = Running
      \/ /\ phase' = [phase EXCEPT ![r] = "running"]
         /\ count' = [count EXCEPT ![c] = @ + 1]
         /\ active' = active + 1 /\ Running' = Running \union {r}
  BY <1>2, <1>3 DEF Arrive, Running, TypeOK
<1>5. r \notin Running /\ r \notin early
  BY <1>2, <1>3 DEF Running, EarlyArrived
<1> HIDE DEF c
<1>6. TypeOK'
  BY <1>1, <1>2, <1>3, <1>4 DEF TypeOK
<1>7. Owned'
  BY <1>1, <1>2, <1>3 DEF Owned, TypeOK, c
<1>8. EarlyArrived'
  BY <1>2, <1>3, <1>4, <1>5 DEF EarlyArrived, TypeOK
<1>9. CountsAgree'
  <2>1. CASE UNCHANGED <<count, active>> /\ Running' = Running
    BY <1>2, <1>3, <2>1 DEF CountsAgree
  <2>2. CASE /\ count' = [count EXCEPT ![c] = @ + 1]
             /\ active' = active + 1 /\ Running' = Running \union {r}
    <3>0. /\ Cardinality(Running) \in Nat /\ Cardinality(again) \in Nat
          /\ \A d : Cardinality(On(d, Running)) \in Nat /\ Cardinality(On(d, again)) \in Nat
      BY <1>3, Finite, RunningFinite DEF TypeOK
    <3>1. Cardinality(Running') = Cardinality(Running) + 1
      BY <1>5, <2>2, RunningFinite, FS_AddElement
    <3>2. active' = Cardinality(Running') - Cardinality(again')
      BY <1>2, <1>3, <2>2, <3>0, <3>1 DEF CountsAgree
    <3>3. ASSUME NEW d \in Conn
          PROVE  count'[d] = Cardinality(On(d, Running')) - Cardinality(On(d, again'))
      <4>1. count[d] = Cardinality(On(d, Running)) - Cardinality(On(d, again))
        BY <1>3 DEF CountsAgree
      <4>2. CASE d = c
        <5>1. On(d, Running') = On(d, Running) \union {r} /\ r \notin On(d, Running)
          BY <1>5, <2>2, <4>2 DEF On, c
        <5>2. count'[d] = count[d] + 1
          BY <1>1, <1>3, <2>2, <4>2 DEF TypeOK
        <5>3. Cardinality(On(d, Running) \union {r}) = Cardinality(On(d, Running)) + 1
          BY <5>1, RunningFinite, FS_AddElement
        <5> QED BY <1>2, <3>0, <4>1, <5>1, <5>2, <5>3
      <4>3. CASE d # c
        <5>1. On(d, Running') = On(d, Running)
          BY <2>2, <4>3 DEF On, c
        <5>2. count'[d] = count[d]
          BY <1>3, <2>2, <4>3 DEF TypeOK
        <5> QED BY <1>2, <4>1, <5>1, <5>2
      <4> QED BY <4>2, <4>3
    <3> QED BY <3>2, <3>3 DEF CountsAgree
  <2> QED BY <1>4, <2>1, <2>2
<1>10. RequestsKeepOpen'
  <2> SUFFICES ASSUME NEW d \in Conn, timer'[d], ~closed'[d]
               PROVE  /\ incoming'[d] = {}
                      /\ Cardinality(On(d, Running')) <= Cardinality(On(d, again'))
    BY DEF RequestsKeepOpen
  <2>1. d # c
    BY <1>1, <1>2, <1>3 DEF TypeOK
  <2>2. timer[d] /\ ~closed[d] /\ incoming'[d] = incoming[d]
    BY <1>2, <1>3, <2>1 DEF TypeOK
  <2>3. On(d, Running') = On(d, Running)
    BY <1>4, <2>1 DEF On, c
  <2> QED BY <1>2, <1>3, <2>2, <2>3 DEF RequestsKeepOpen
<1>11. StopWaits'
  <2>1. active \in Int
    BY <1>3 DEF TypeOK
  <2>2. early' \intersect Running' = early \intersect Running
    BY <1>2, <1>4, <1>5
  <2>3. active > 0 => active' > 0
    BY <1>4, <2>1
  <2> QED BY <1>2, <1>3, <2>2, <2>3 DEF StopWaits
<1> QED BY <1>6, <1>7, <1>8, <1>9, <1>10, <1>11 DEF IInv

-------------------------------------------------------------------------------
(***************************************************************************)
(* After an answer on connection c whose timer was seen to, or that is     *)
(* lost, no timer is set where a request is pending.                       *)
(***************************************************************************)
LEMMA TimerKeeps ==
    ASSUME IInv, NEW c \in Conn, CountsAgree', Running' \subseteq Running,
           again' \in SUBSET Request, again \subseteq again',
           \A d \in Conn : d # c =>
              /\ timer'[d] = timer[d] /\ closed'[d] = closed[d]
              /\ incoming'[d] = incoming[d],
           timer'[c] => count'[c] = 0 /\ incoming'[c] = {}
    PROVE  RequestsKeepOpen'
<1> SUFFICES ASSUME NEW d \in Conn, timer'[d], ~closed'[d]
             PROVE  /\ incoming'[d] = {}
                    /\ Cardinality(On(d, Running')) <= Cardinality(On(d, again'))
  BY DEF RequestsKeepOpen
<1>1. /\ Running \in SUBSET Request /\ Running' \in SUBSET Running
      /\ Running' \in SUBSET Request
      /\ again \in SUBSET Request /\ again \in SUBSET again'
  BY DEF Running, IInv, TypeOK
<1>2. /\ Cardinality(On(d, Running)) \in Nat /\ Cardinality(On(d, Running')) \in Nat
      /\ Cardinality(On(d, again)) \in Nat /\ Cardinality(On(d, again')) \in Nat
  BY <1>1, Finite
<1>3. CASE d = c
  <2>1. count'[d] = 0 /\ incoming'[d] = {}
    BY <1>3
  <2>2. count'[d] = Cardinality(On(d, Running')) - Cardinality(On(d, again'))
    BY DEF CountsAgree
  <2> QED BY <1>2, <2>1, <2>2
<1>4. CASE d # c
  <2>1. incoming'[d] = {} /\ Cardinality(On(d, Running)) <= Cardinality(On(d, again))
    BY <1>4 DEF IInv, RequestsKeepOpen
  <2>2. /\ Cardinality(On(d, Running')) <= Cardinality(On(d, Running))
        /\ Cardinality(On(d, again)) <= Cardinality(On(d, again'))
    BY <1>1, Fewer
  <2> QED BY <1>2, <2>1, <2>2
<1> QED BY <1>3, <1>4

(* A request ends, and its handler may reply.                              *)
LEMMA ReceiveEndKeeps == ASSUME IInv, NEW r \in Request, ReceiveEnd(r) PROVE IInv'
<1> DEFINE c == ConnOf[r]
           R == AnsweredAtEnd({r})
<1>1. c \in Conn
  BY ConnOfAssumption
<1>2. /\ ~closed[c] /\ r \in incoming[c]
      /\ incoming' = [incoming EXCEPT ![c] = @ \ {r}]
      /\ count' = [count EXCEPT ![c] = @ - Cardinality(R)]
      /\ timer' = [timer EXCEPT ![c] = Idle(count'[c], incoming'[c], outgoing'[c])]
      /\ Replied(R)
      /\ UNCHANGED <<closed, kind, again, early>>
  BY DEF ReceiveEnd
<1>3. PICK bodies \in {0, Cardinality(R)} :
         outgoing' = [outgoing EXCEPT ![c] = @ + bodies]
  BY DEF ReceiveEnd
<1>4. R \in SUBSET On(c, Running)
  BY DEF AnsweredAtEnd, On, Running
<1>5. TypeOK /\ Owned
  BY DEF IInv
<1> HIDE DEF c, R
<1>6. /\ phase' \in [Request -> {"new", "running", "replied"}]
      /\ active' \in Int /\ count' \in [Conn -> Int]
      /\ onNone' \in BOOLEAN
      /\ stopping' \in {"no", "delay", "waiting", "draining", "stopped"}
      /\ Cardinality(R) \in Nat
      /\ Running' = Running \ R
      /\ CountsAgree' /\ StopWaits' /\ EarlyArrived'
  BY <1>1, <1>2, <1>4, AnswerKeeps
<1>7. Idle(count'[c], incoming'[c], outgoing'[c]) \in BOOLEAN
  BY DEF Idle
<1>8. /\ incoming' \in [Conn -> SUBSET Request] /\ outgoing' \in [Conn -> Nat]
      /\ timer' \in [Conn -> BOOLEAN]
  BY <1>1, <1>2, <1>3, <1>5, <1>6, <1>7 DEF TypeOK
<1>9. TypeOK'
  BY <1>2, <1>5, <1>6, <1>8 DEF TypeOK
<1>10. Owned'
  BY <1>1, <1>2, <1>5 DEF Owned, TypeOK
<1>11. timer'[c] => count'[c] = 0 /\ incoming'[c] = {}
  BY <1>1, <1>2, <1>5 DEF TypeOK, Idle
<1>12. \A d \in Conn : d # c =>
          timer'[d] = timer[d] /\ closed'[d] = closed[d] /\ incoming'[d] = incoming[d]
  BY <1>2, <1>5 DEF TypeOK
<1>13. again' \in SUBSET Request /\ again \subseteq again'
  BY <1>2, <1>5 DEF TypeOK
<1>14. RequestsKeepOpen'
  BY <1>1, <1>6, <1>11, <1>12, <1>13, TimerKeeps
<1> QED BY <1>6, <1>9, <1>10, <1>14 DEF IInv

(* What a connection does with a reply leaves its types and its timer      *)
(* right.                                                                  *)
LEMMA GiveReplyKeeps ==
    ASSUME IInv, NEW c \in Conn, GiveReply(c)
    PROVE  /\ outgoing' \in [Conn -> Nat] /\ timer' \in [Conn -> BOOLEAN]
           /\ count' \in [Conn -> Int]
           /\ closed' \in [Conn -> BOOLEAN] /\ incoming' \in [Conn -> SUBSET Request]
           /\ Owned'
           /\ timer'[c] => count'[c] = 0 /\ incoming'[c] = {}
           /\ \A d \in Conn : d # c =>
                 /\ timer'[d] = timer[d] /\ closed'[d] = closed[d]
                 /\ incoming'[d] = incoming[d]
<1>1. /\ count' = [count EXCEPT ![c] = @ - 1]
      /\ timer' = [timer EXCEPT ![c] = Idle(count'[c], incoming[c], outgoing[c])]
      /\ UNCHANGED <<closed, incoming>>
  BY DEF GiveReply
<1>2. PICK bodies \in {0, 1} : outgoing' = [outgoing EXCEPT ![c] = @ + bodies]
  BY DEF GiveReply
<1>3. TypeOK /\ Owned
  BY DEF IInv
<1>4. Idle(count'[c], incoming[c], outgoing[c]) \in BOOLEAN
  BY DEF Idle
<1>5. /\ outgoing' \in [Conn -> Nat] /\ timer' \in [Conn -> BOOLEAN]
      /\ count' \in [Conn -> Int]
  BY <1>1, <1>2, <1>3, <1>4 DEF TypeOK
<1>6. timer'[c] => count'[c] = 0 /\ incoming'[c] = {}
  BY <1>1, <1>3 DEF TypeOK, Idle
<1> QED BY <1>1, <1>3, <1>5, <1>6 DEF TypeOK, Owned

(* A handler replies later.                                                *)
LEMMA ReplyLaterKeeps == ASSUME IInv, NEW r \in Request, ReplyLater(r) PROVE IInv'
<1> DEFINE c == ConnOf[r]
<1>1. c \in Conn
  BY ConnOfAssumption
<1>2. /\ phase[r] = "running" /\ GiveReply(c) /\ Replied({r})
      /\ UNCHANGED <<kind, again, early>>
  BY DEF ReplyLater
<1>3. {r} \in SUBSET On(c, Running) /\ Cardinality({r}) = 1
  BY <1>2, FS_Singleton DEF On, Running
<1>4. TypeOK
  BY DEF IInv
<1> HIDE DEF c
<1>5. count' = [count EXCEPT ![c] = @ - Cardinality({r})]
  BY <1>2, <1>3 DEF GiveReply
<1>6. /\ phase' \in [Request -> {"new", "running", "replied"}]
      /\ active' \in Int /\ onNone' \in BOOLEAN
      /\ stopping' \in {"no", "delay", "waiting", "draining", "stopped"}
      /\ Running' = Running \ {r}
      /\ CountsAgree' /\ StopWaits' /\ EarlyArrived'
  BY <1>1, <1>2, <1>3, <1>5, AnswerKeeps
<1>7. TypeOK' /\ Owned'
  BY <1>1, <1>2, <1>4, <1>6, GiveReplyKeeps DEF TypeOK
<1>8. again' \in SUBSET Request /\ again \subseteq again' /\ Running' \subseteq Running
  BY <1>2, <1>4, <1>6 DEF TypeOK
<1>9. RequestsKeepOpen'
  BY <1>1, <1>2, <1>6, <1>8, GiveReplyKeeps, TimerKeeps
<1> QED BY <1>6, <1>7, <1>9 DEF IInv

(* A handler replies a second time: both counts go down by one, and one    *)
(* more request has been answered twice.                                   *)
LEMMA ReplyAgainKeeps == ASSUME IInv, NEW r \in Request, ReplyAgain(r) PROVE IInv'
<1> DEFINE c == ConnOf[r]
<1>1. c \in Conn
  BY ConnOfAssumption
<1>2. /\ r \notin again /\ again' = again \union {r}
      /\ GiveReply(c) /\ CountOff(1)
      /\ UNCHANGED <<phase, kind, early>>
  BY DEF ReplyAgain
<1>3. TypeOK /\ CountsAgree
  BY DEF IInv
<1> HIDE DEF c
<1>4. /\ again \in SUBSET Request /\ again' \in SUBSET Request /\ again \subseteq again'
      /\ Running' = Running
  BY <1>2, <1>3 DEF TypeOK, Running
<1>5. /\ IsFiniteSet(again) /\ Cardinality(again) \in Nat
      /\ Cardinality(Running) \in Nat
      /\ \A d : /\ IsFiniteSet(On(d, again)) /\ Cardinality(On(d, again)) \in Nat
              /\ Cardinality(On(d, Running)) \in Nat
  BY <1>4, Finite, RunningFinite
<1>6. active' = Cardinality(Running') - Cardinality(again')
  <2>1. Cardinality(again') = Cardinality(again) + 1
    BY <1>2, <1>5, FS_AddElement
  <2>2. active' = active - 1
    BY <1>2 DEF CountOff, Counted
  <2> QED BY <1>3, <1>4, <1>5, <2>1, <2>2 DEF CountsAgree
<1>7. ASSUME NEW d \in Conn
      PROVE  count'[d] = Cardinality(On(d, Running')) - Cardinality(On(d, again'))
  <2>1. count[d] = Cardinality(On(d, Running)) - Cardinality(On(d, again))
    BY <1>3 DEF CountsAgree
  <2>2. count' = [count EXCEPT ![c] = @ - 1]
    BY <1>2 DEF GiveReply
  <2>3. CASE d = c
    <3>1. On(d, again') = On(d, again) \union {r} /\ r \notin On(d, again)
      BY <1>2, <2>3 DEF On, c
    <3>2. Cardinality(On(d, again) \union {r}) = Cardinality(On(d, again)) + 1
      BY <1>5, <3>1, FS_AddElement
    <3>3. count'[d] = count[d] - 1
      BY <1>1, <1>3, <2>2, <2>3 DEF TypeOK
    <3> QED BY <1>4, <1>5, <2>1, <3>1, <3>2, <3>3
  <2>4. CASE d # c
    <3>1. On(d, again') = On(d, again)
      BY <1>2, <2>4 DEF On, c
    <3>2. count'[d] = count[d]
      BY <1>3, <2>2, <2>4 DEF TypeOK
    <3> QED BY <1>4, <2>1, <3>1, <3>2
  <2> QED BY <2>3, <2>4
<1>8. CountsAgree'
  BY <1>6, <1>7 DEF CountsAgree
<1>9. /\ active' \in Int /\ onNone' \in BOOLEAN
      /\ stopping' \in {"no", "delay", "waiting", "draining", "stopped"}
      /\ StopWaits'
  BY <1>2, <1>4, <1>6, CountOffKeeps
<1>10. TypeOK' /\ Owned'
  BY <1>1, <1>2, <1>3, <1>4, <1>9, GiveReplyKeeps DEF TypeOK
<1>11. RequestsKeepOpen'
  BY <1>1, <1>2, <1>4, <1>8, GiveReplyKeeps, TimerKeeps
<1>12. EarlyArrived'
  BY <1>2 DEF IInv, EarlyArrived
<1> QED BY <1>8, <1>9, <1>10, <1>11, <1>12 DEF IInv

(* A connection is lost, and its requests are answered to nobody.          *)
LEMMA LoseKeeps == ASSUME IInv, NEW c \in Conn, Lose(c) PROVE IInv'
<1> DEFINE R == Ended(c)
<1>1. /\ closed' = [closed EXCEPT ![c] = TRUE]
      /\ incoming' = [incoming EXCEPT ![c] = {}]
      /\ outgoing' = [outgoing EXCEPT ![c] = 0]
      /\ count' = [count EXCEPT ![c] = @ - Cardinality(R)]
      /\ timer' = [timer EXCEPT ![c] = FALSE]
      /\ Replied(R)
      /\ UNCHANGED <<kind, again, early>>
  BY DEF Lose
<1>2. TypeOK /\ Owned
  BY DEF IInv
<1>3. R \in SUBSET On(c, Running)
  BY <1>2 DEF Ended, AnsweredAtEnd, On, Running, Owned, TypeOK
<1> HIDE DEF R
<1>4. /\ phase' \in [Request -> {"new", "running", "replied"}]
      /\ active' \in Int /\ count' \in [Conn -> Int]
      /\ onNone' \in BOOLEAN
      /\ stopping' \in {"no", "delay", "waiting", "draining", "stopped"}
      /\ Running' = Running \ R
      /\ CountsAgree' /\ StopWaits' /\ EarlyArrived'
  BY <1>1, <1>3, AnswerKeeps
<1>5. TypeOK'
  BY <1>1, <1>2, <1>4 DEF TypeOK
<1>6. Owned'
  BY <1>1, <1>2 DEF Owned, TypeOK
<1>7. timer'[c] => count'[c] = 0 /\ incoming'[c] = {}
  BY <1>1, <1>2 DEF TypeOK
<1>8. \A d \in Conn : d # c =>
         timer'[d] = timer[d] /\ closed'[d] = closed[d] /\ incoming'[d] = incoming[d]
  BY <1>1, <1>2 DEF TypeOK
<1>9. again' \in SUBSET Request /\ again \subseteq again' /\ Running' \subseteq Running
  BY <1>1, <1>2, <1>4 DEF TypeOK
<1>10. RequestsKeepOpen'
  BY <1>4, <1>7, <1>8, <1>9, TimerKeeps
<1> QED BY <1>4, <1>5, <1>6, <1>10 DEF IInv

-------------------------------------------------------------------------------
(* The end of a reply, and the steps of a stop, leave the counts alone.    *)
LEMMA QuietKeeps ==
    ASSUME IInv, TypeOK', StopWaits', EarlyArrived',
           UNCHANGED <<closed, incoming, count, timer, phase, again, active>>
    PROVE  IInv'
<1>1. Running' = Running
  BY DEF Running
<1>2. CountsAgree' /\ RequestsKeepOpen' /\ Owned'
  BY <1>1 DEF IInv, CountsAgree, RequestsKeepOpen, Owned
<1> QED BY <1>2 DEF IInv

LEMMA ReplyEndKeeps == ASSUME IInv, NEW c \in Conn, ReplyEnd(c) PROVE IInv'
<1>1. /\ UNCHANGED <<closed, incoming, count, timer, phase, again, active>>
      /\ UNCHANGED <<kind, onNone, stopping, early>>
      /\ outgoing[c] > 0 /\ outgoing' = [outgoing EXCEPT ![c] = @ - 1]
  BY DEF ReplyEnd, serviceVars, stopVars
<1>2. TypeOK'
  BY <1>1 DEF IInv, TypeOK
<1>3. StopWaits' /\ EarlyArrived'
  BY <1>1 DEF IInv, StopWaits, EarlyArrived, Running
<1> QED BY <1>1, <1>2, <1>3, QuietKeeps

LEMMA StopKeeps == ASSUME IInv, StopService \/ DelayOver \/ Drained PROVE IInv'
<1>1. UNCHANGED <<closed, incoming, outgoing, count, timer, phase, kind, again, active>>
  BY DEF StopService, DelayOver, Drained, connVars, serviceVars
<1>2. TypeOK'
  <2>1. early' \subseteq Request /\ onNone' \in BOOLEAN
    <3>1. MustWait \in BOOLEAN
      BY DEF MustWait
    <3>2. early \subseteq Request /\ onNone \in BOOLEAN
      BY DEF IInv, TypeOK
    <3> QED BY <3>1, <3>2 DEF StopService, DelayOver, Drained
  <2>2. stopping' \in {"no", "delay", "waiting", "draining", "stopped"}
    BY DEF StopService, DelayOver, Drained
  <2> QED BY <1>1, <2>1, <2>2 DEF IInv, TypeOK
<1>3. EarlyArrived'
  BY <1>1 DEF StopService, DelayOver, Drained, IInv, EarlyArrived
<1>4. StopWaits'
  <2>1. Running' = Running
    BY <1>1 DEF Running
  <2>2. CASE StopService \/ Drained
    BY <1>1, <2>1, <2>2 DEF StopService, Drained, IInv, StopWaits
  <2>3. CASE DelayOver
    <3>1. /\ active \in Int /\ active = Cardinality(Running) - Cardinality(again)
          /\ Cardinality(Running) \in Nat /\ Cardinality(again) \in Nat
      BY RunningFinite, Finite DEF IInv, TypeOK, CountsAgree
    <3>2. Cardinality(early' \intersect Running) <= Cardinality(Running)
          /\ Cardinality(early' \intersect Running) \in Nat
      <4>1. /\ Running \in SUBSET Request
            /\ early' \intersect Running \in SUBSET Running
            /\ early' \intersect Running \in SUBSET Request
        BY DEF Running
      <4> QED BY <4>1, Finite, Fewer
    <3>3. CASE active > 0
      <4>1. onNone' = TRUE /\ stopping' = "waiting"
        BY <2>3, <3>3 DEF DelayOver, MustWait
      <4> QED BY <1>1, <3>3, <4>1 DEF StopWaits
    <3>4. CASE ~(active > 0)
      <4>1. MustWait = FALSE
        BY <3>4 DEF MustWait
      <4>2. onNone' = FALSE /\ stopping' = "draining"
        BY <2>3, <4>1 DEF DelayOver
      <4>3. Cardinality(early' \intersect Running') <= Cardinality(again')
        BY <1>1, <2>1, <3>1, <3>2, <3>4
      <4> QED BY <4>2, <4>3 DEF StopWaits
    <3> QED BY <3>3, <3>4
  <2> QED BY <2>2, <2>3
<1>5. UNCHANGED <<closed, incoming, count, timer, phase, again, active>>
  BY <1>1
<1> QED BY <1>2, <1>3, <1>4, <1>5, QuietKeeps

(* Every step preserves the invariant.                                     *)
LEMMA InvNext == IInv /\ [Next]_vars => IInv'
<1> SUFFICES ASSUME IInv, [Next]_vars PROVE IInv'
  OBVIOUS
<1>1. ASSUME NEW r \in Request, NEW k \in Kind, Arrive(r, k) PROVE IInv'
  BY <1>1, ArriveKeeps
<1>2. ASSUME NEW r \in Request, ReceiveEnd(r) PROVE IInv'
  BY <1>2, ReceiveEndKeeps
<1>3. ASSUME NEW r \in Request, ReplyLater(r) PROVE IInv'
  BY <1>3, ReplyLaterKeeps
<1>4. ASSUME NEW c \in Conn, ReplyEnd(c) PROVE IInv'
  BY <1>4, ReplyEndKeeps
<1>5. ASSUME NEW c \in Conn, Lose(c) PROVE IInv'
  BY <1>5, LoseKeeps
<1>6. CASE StopService \/ DelayOver \/ Drained
  BY <1>6, StopKeeps
<1>7. CASE UNCHANGED vars
  <2>1. UNCHANGED <<closed, incoming, outgoing, count, timer, phase, kind, again, active,
                    onNone, stopping, early>>
    BY <1>7 DEF vars, connVars, serviceVars, stopVars
  <2>2. TypeOK' /\ EarlyArrived'
    BY <2>1 DEF IInv, TypeOK, EarlyArrived
  <2>3. StopWaits'
    BY <2>1 DEF IInv, StopWaits, Running
  <2> QED BY <2>1, <2>2, <2>3, QuietKeeps
<1>8. ASSUME NEW r \in Request, ReplyAgain(r) PROVE IInv'
  BY <1>8, ReplyAgainKeeps
<1> QED BY <1>1, <1>2, <1>3, <1>4, <1>5, <1>6, <1>7, <1>8 DEF Next, OfRequest, IdleLimit

-------------------------------------------------------------------------------
(* The strengthened invariant holds in every state the service reaches.    *)
THEOREM Invariance == Spec => []IInv
BY InvInit, InvNext, PTL DEF Spec

(* Type correctness.                                                       *)
THEOREM TypeCorrect == Spec => []TypeOK
<1>1. IInv => TypeOK
  BY DEF IInv
<1> QED BY <1>1, Invariance, PTL

(* Both counts are the number of the requests that are not answered, less  *)
(* the number of those answered twice.                                     *)
THEOREM CountsRight == Spec => []CountsAgree
<1>1. IInv => CountsAgree
  BY DEF IInv
<1> QED BY <1>1, Invariance, PTL

(* No connection is dropped for inactivity with more requests pending than *)
(* were answered twice on it.                                              *)
THEOREM NotDroppedWithRequests == Spec => []RequestsKeepOpen
<1>1. IInv => RequestsKeepOpen
  BY DEF IInv
<1> QED BY <1>1, Invariance, PTL

(* A stop waits for every request accepted before the delay was over, but  *)
(* for one for each that was answered twice.                               *)
THEOREM StopWaitsForEarly == Spec => []StopWaits
<1>1. IInv => StopWaits
  BY DEF IInv
<1> QED BY <1>1, Invariance, PTL

-------------------------------------------------------------------------------
(***************************************************************************)
(* That a stop goes on.  A request that is not answered may hold the stop  *)
(* (Holds), the end of its message being to come on a connection that is   *)
(* open, or its handler never replying; any other is answered by a handler *)
(* that replies after the end.                                             *)
(***************************************************************************)
EndComing(r) == ~closed[ConnOf[r]] /\ r \in incoming[ConnOf[r]]

ReplyComing(r) == kind[r] \in {"later", "twice"} /\ r \notin incoming[ConnOf[r]]

StopGoesOn ==
    /\ stopping = "waiting" => onNone /\ Running # {}
    /\ \A r \in Running :
          \/ Holds(r) /\ (EndComing(r) \/ kind[r] = "mute")
          \/ ReplyComing(r)

(* What a closed connection received has ended; a handler that replies at  *)
(* the end of its request has not seen it yet.                             *)
ClosedEmpty == \A c \in Conn : closed[c] => incoming[c] = {}

Handled ==
    \A r \in Running : /\ kind[r] # "unknown"
                       /\ kind[r] = "whole" => EndComing(r)

AwaitInv == ClosedEmpty /\ Handled

LEMMA AwaitNext == IInv /\ AwaitInv /\ [Next]_vars => AwaitInv'
<1> SUFFICES ASSUME IInv, AwaitInv, [Next]_vars PROVE AwaitInv'
  OBVIOUS
<1>0. TypeOK /\ Owned /\ ConnOf \in [Request -> Conn]
  BY ConnOfAssumption DEF IInv
<1>1. ASSUME NEW r \in Request, NEW k \in Kind, Arrive(r, k) PROVE AwaitInv'
  <2> DEFINE c == ConnOf[r]
  <2>1. /\ ~closed[c] /\ phase[r] = "new" /\ closed' = closed
        /\ incoming' = [incoming EXCEPT ![c] = @ \union {r}]
        /\ kind' = [kind EXCEPT ![r] = k]
        /\ phase' = [phase EXCEPT ![r] = IF k = "unknown" THEN "replied" ELSE "running"]
    BY <1>1 DEF Arrive
  <2>2. ClosedEmpty'
    BY <1>0, <2>1 DEF AwaitInv, ClosedEmpty, TypeOK
  <2>3. ASSUME NEW q \in Running' PROVE kind'[q] # "unknown" /\ (kind'[q] = "whole" => EndComing(q)')
    <3>1. CASE q = r
      BY <1>0, <2>1, <3>1 DEF Running, TypeOK, EndComing
    <3>2. CASE q # r
      BY <1>0, <2>1, <3>2 DEF AwaitInv, Handled, Running, TypeOK, EndComing
    <3> QED BY <3>1, <3>2
  <2> QED BY <2>2, <2>3 DEF AwaitInv, Handled
<1>2. ASSUME NEW r \in Request, ReceiveEnd(r) PROVE AwaitInv'
  <2> DEFINE c == ConnOf[r]
             R == AnsweredAtEnd({r})
  <2>1. /\ ~closed[c] /\ closed' = closed /\ kind' = kind
        /\ incoming' = [incoming EXCEPT ![c] = @ \ {r}]
        /\ phase' = [q \in Request |-> IF q \in R THEN "replied" ELSE phase[q]]
    BY <1>2 DEF ReceiveEnd, Replied
  <2>2. ClosedEmpty'
    BY <1>0, <2>1 DEF AwaitInv, ClosedEmpty, TypeOK
  <2>3. ASSUME NEW q \in Running' PROVE kind'[q] # "unknown" /\ (kind'[q] = "whole" => EndComing(q)')
    <3>1. q \in Running /\ q \notin R
      BY <2>1 DEF Running
    <3>2. CASE q = r
      BY <2>1, <3>1, <3>2 DEF AwaitInv, Handled, AnsweredAtEnd, Running
    <3>3. CASE q # r
      BY <1>0, <2>1, <3>1, <3>3 DEF AwaitInv, Handled, Running, TypeOK, EndComing
    <3> QED BY <3>2, <3>3
  <2> QED BY <2>2, <2>3 DEF AwaitInv, Handled
<1>3. ASSUME NEW r \in Request, ReplyLater(r) PROVE AwaitInv'
  <2>1. /\ UNCHANGED <<closed, incoming, kind>>
        /\ phase' = [q \in Request |-> IF q \in {r} THEN "replied" ELSE phase[q]]
    BY <1>3 DEF ReplyLater, GiveReply, Replied
  <2>2. \A q \in Running' : q \in Running
    BY <2>1 DEF Running
  <2> QED BY <2>1, <2>2 DEF AwaitInv, ClosedEmpty, Handled, EndComing
<1>4. ASSUME NEW c \in Conn, Lose(c) PROVE AwaitInv'
  <2>1. /\ closed' = [closed EXCEPT ![c] = TRUE] /\ kind' = kind
        /\ incoming' = [incoming EXCEPT ![c] = {}]
        /\ phase' = [q \in Request |-> IF q \in Ended(c) THEN "replied" ELSE phase[q]]
    BY <1>4 DEF Lose, Replied
  <2>2. ClosedEmpty'
    BY <1>0, <2>1 DEF AwaitInv, ClosedEmpty, TypeOK
  <2>3. ASSUME NEW q \in Running' PROVE kind'[q] # "unknown" /\ (kind'[q] = "whole" => EndComing(q)')
    <3>1. q \in Running /\ q \notin Ended(c)
      BY <2>1 DEF Running
    <3>2. CASE ConnOf[q] = c
      BY <2>1, <3>1, <3>2 DEF AwaitInv, Handled, Ended, AnsweredAtEnd, Running, EndComing
    <3>3. CASE ConnOf[q] # c
      BY <1>0, <2>1, <3>1, <3>3 DEF AwaitInv, Handled, Running, TypeOK, EndComing
    <3> QED BY <3>2, <3>3
  <2> QED BY <2>2, <2>3 DEF AwaitInv, Handled
<1>5. CASE \/ \E c \in Conn : ReplyEnd(c)
           \/ \E r \in Request : ReplyAgain(r)
           \/ StopService \/ DelayOver \/ Drained \/ UNCHANGED vars
  <2>1. UNCHANGED <<closed, incoming, kind, phase>>
    BY <1>5 DEF ReplyEnd, ReplyAgain, GiveReply, StopService, DelayOver, Drained,
                connVars, serviceVars, vars
  <2> QED BY <2>1 DEF AwaitInv, ClosedEmpty, Handled, EndComing, Running
<1> QED BY <1>1, <1>2, <1>3, <1>4, <1>5 DEF Next, OfRequest, IdleLimit

(***************************************************************************)
(* What StopEnds needs besides fairness: while a stop waits, some request  *)
(* is not answered, and each of those either may hold the stop (the end of *)
(* its message is to come on an open connection, or it is with the handler *)
(* that never replies) or has a handler that replies later (service.js:    *)
(* 78-91, 164-168, server.js:26-33).                                       *)
(***************************************************************************)
THEOREM StopAlwaysGoesOn == Spec => []StopGoesOn
<1>1. Init => AwaitInv
  BY DEF Init, AwaitInv, ClosedEmpty, Handled, Running
<1>2. IInv /\ AwaitInv => StopGoesOn
  <2> SUFFICES ASSUME IInv, AwaitInv PROVE StopGoesOn
    OBVIOUS
  <2>1. stopping = "waiting" => onNone /\ Running # {}
    <3>1. Cardinality(again) \in Nat
      BY Finite DEF IInv, TypeOK
    <3> QED BY <3>1, FS_EmptySet DEF IInv, StopWaits, CountsAgree
  <2>2. ASSUME NEW r \in Running
        PROVE  \/ Holds(r) /\ (EndComing(r) \/ kind[r] = "mute")
               \/ ReplyComing(r)
    <3>1. /\ kind[r] \in {"whole", "later", "mute", "twice"}
          /\ ConnOf[r] \in Conn /\ phase[r] = "running"
      BY ConnOfAssumption DEF IInv, TypeOK, AwaitInv, Handled, HandlerKind, Running
    <3>2. r \in incoming[ConnOf[r]] => EndComing(r)
      BY <3>1 DEF AwaitInv, ClosedEmpty, EndComing
    <3> QED BY <3>1, <3>2 DEF AwaitInv, Handled, ReplyComing, EndComing, Holds
  <2> QED BY <2>1, <2>2 DEF StopGoesOn
<1> QED BY <1>1, <1>2, AwaitNext, Invariance, PTL DEF Spec
=============================================================================
