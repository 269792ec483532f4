------------------------------ MODULE PubSubProofs ------------------------------
(***************************************************************************)
(* Proofs about PubSub, for any subscriptions, filters, items, delays and  *)
(* lengths of events: type correctness; that a subscriber's copy misses    *)
(* nothing but what was overtaken (Mirror); and that a subscription is not *)
(* ready before it has been filled, or its filling overtaken (ReadyShown). *)
(*                                                                         *)
(* Both rest on what a connection goes through (Linked): nothing is on its *)
(* way to a client before the server has handled its subscribe message,    *)
(* and from then on the answer comes first (Ordered).                      *)
(*                                                                         *)
(* Of the delays themselves: that they double from loss to loss.  And that *)
(* a subscription never stops half way (AllAwaited): what it waits for is  *)
(* under way, until it shows what the server has.                          *)
(***************************************************************************)
EXTENDS PubSub, SequenceTheorems, FiniteSetTheorems, FunctionTheorems, TLAPS

Contents == Value \union {Null}

MessageSet == [type : {"snapshot", "update", "done"}, recs : Content]

(* The parts of TypeOK.                                                    *)
ServerOK == subdata \in [Item -> Contents] /\ registered \in [Sub -> SUBSET (1 .. MaxLoss + 1)]

LinkOK ==
    /\ link \in [Sub -> {"none", "connecting", "open", "dead"}]
    /\ conn \in [Sub -> 1 .. MaxLoss + 1]
    /\ asked \in [Sub -> BOOLEAN]

QueueOK == queue \in [Sub -> Seq(MessageSet)]

ClientOK ==
    /\ sdata \in [Sub -> [Item -> Contents]]
    /\ ready \in [Sub -> BOOLEAN] /\ waiting \in [Sub -> BOOLEAN] /\ closed \in [Sub -> BOOLEAN]

StaleOK == stale \in [Sub -> SUBSET Item]

DelayOK == delay \in [Sub -> MinDelay .. MaxDelay] /\ fails \in [Sub -> Nat]

CountsOK == puts \in 0 .. MaxPut /\ losses \in [Sub -> 0 .. MaxLoss]

Typed == ServerOK /\ LinkOK /\ QueueOK /\ ClientOK /\ StaleOK /\ DelayOK /\ CountsOK

LEMMA TypeParts == Typed => TypeOK
BY DEF Typed, TypeOK, ServerOK, LinkOK, QueueOK, ClientOK, StaleOK, DelayOK, CountsOK, Contents, MessageSet

(* What a connection of s goes through.                                    *)
Linked(s) ==
    /\ link[s] \in {"none", "connecting"} => queue[s] = <<>> /\ ~ready[s] /\ sdata[s] = Nothing
    /\ link[s] = "connecting" => asked[s]
    /\ waiting[s] => link[s] = "none"
    /\ asked[s] => /\ link[s] # "none" /\ queue[s] = <<>> /\ ~ready[s] /\ sdata[s] = Nothing
                   /\ conn[s] \notin registered[s]
    /\ registered[s] \subseteq 1 .. conn[s]
    /\ conn[s] <= losses[s] + (IF link[s] \in {"connecting", "open"} THEN 1 ELSE 0)
    /\ s \in Refused => registered[s] = {}
    /\ s \notin Refused /\ link[s] \in {"open", "dead"} /\ ~asked[s] => conn[s] \in registered[s]

(* The answer to a subscription comes before all else, snapshot first, and *)
(* a subscription that is ready has only a long snapshot of it to come.    *)
Ordered(s) ==
    /\ \A k \in DOMAIN queue[s] :
          /\ queue[s][k].type = "snapshot" => k = 1
          /\ queue[s][k].type = "done" =>
                /\ k = 1 \/ (k = 2 /\ queue[s][1].type = "snapshot")
                /\ queue[s][k].recs = Empty
    /\ ready[s] => \A k \in DOMAIN queue[s] :
                      \/ queue[s][k].type = "update"
                      \/ queue[s][k].type = "snapshot" /\ queue[s][k].recs \in Long

Mirrored(s) ==
    link[s] = "open" /\ conn[s] \in registered[s] =>
       \A i \in Item \ stale[s] : WillHave(s, i, Offered(s, i))

Good(s) == Linked(s) /\ Ordered(s) /\ Mirrored(s)

IInv == Typed /\ \A s \in Sub : Good(s)

-------------------------------------------------------------------------------
(* Messages are messages.                                                  *)
LEMMA NothingType == Nothing \in [Item -> Contents]
BY DEF Nothing, Contents

LEMMA FunctionIsContent ==
    ASSUME NEW S \in SUBSET Item, NEW f \in [S -> Contents] PROVE f \in Content
BY DEF Content, Contents

LEMMA UpdateType ==
    ASSUME NEW i \in Item, NEW v \in Contents
    PROVE  /\ Update(i, v) \in MessageSet
           /\ Update(i, v).type = "update"
           /\ DOMAIN Update(i, v).recs = {i} /\ Update(i, v).recs[i] = v
<1>1. [j \in {i} |-> v] \in Content
  <2>1. [j \in {i} |-> v] \in [{i} -> Contents] /\ {i} \in SUBSET Item
    OBVIOUS
  <2> QED BY <2>1, FunctionIsContent
<1> QED BY <1>1 DEF Update, Message, MessageSet

LEMMA SnapshotType ==
    ASSUME Typed, NEW s \in Sub
    PROVE  /\ Snapshot(s) \in MessageSet
           /\ Snapshot(s).type = "snapshot"
           /\ DOMAIN Snapshot(s).recs = {j \in Item : Wants(s, j) /\ subdata[j] # Null}
           /\ \A i \in DOMAIN Snapshot(s).recs : Snapshot(s).recs[i] = subdata[i]
<1> DEFINE S == {j \in Item : Wants(s, j) /\ subdata[j] # Null}
           f == [i \in S |-> subdata[i]]
<1>1. f \in [S -> Contents] /\ S \in SUBSET Item
  BY DEF Typed, ServerOK
<1>2. f \in Content
  BY <1>1, FunctionIsContent
<1>3. Snapshot(s) = [type |-> "snapshot", recs |-> f]
  BY DEF Snapshot, Message
<1>4. DOMAIN f = S /\ \A i \in S : f[i] = subdata[i]
  OBVIOUS
<1> HIDE DEF f
<1> QED BY <1>2, <1>3, <1>4 DEF MessageSet

LEMMA DoneType ==
    Done \in MessageSet /\ Done.type = "done" /\ Done.recs = Empty /\ DOMAIN Done.recs = {}
<1>1. [i \in {} |-> Null] \in [{} -> Contents] /\ {} \in SUBSET Item
  OBVIOUS
<1>2. [i \in {} |-> Null] \in Content
  BY <1>1, FunctionIsContent
<1> QED BY <1>2 DEF Done, Empty, Message, MessageSet

(* Sequences of messages: appending, cutting and taking out.               *)
LEMMA AppendIs ==
    ASSUME NEW S, NEW q \in Seq(S), NEW m \in S
    PROVE  /\ Append(q, m) \in Seq(S)
           /\ DOMAIN Append(q, m) = 1 .. Len(q) + 1
           /\ \A k \in DOMAIN q : Append(q, m)[k] = q[k]
           /\ Append(q, m)[Len(q) + 1] = m
           /\ DOMAIN q = 1 .. Len(q) /\ Len(q) \in Nat
OBVIOUS

LEMMA PrefixIs ==
    ASSUME NEW S, NEW q \in Seq(S), NEW n \in 0 .. Len(q)
    PROVE  /\ SubSeq(q, 1, n) \in Seq(S)
           /\ DOMAIN SubSeq(q, 1, n) = 1 .. n
           /\ \A k \in 1 .. n : k \in DOMAIN q /\ SubSeq(q, 1, n)[k] = q[k]
<1>1. Len(q) \in Nat /\ DOMAIN q = 1 .. Len(q) /\ \A i \in 1 .. n : q[i] \in S
  BY LenProperties, ElementOfSeq
<1>2. /\ SubSeq(q, 1, n) \in Seq(S)
      /\ Len(SubSeq(q, 1, n)) = IF 1 <= n THEN n - 1 + 1 ELSE 0
      /\ \A i \in 1 .. n - 1 + 1 : SubSeq(q, 1, n)[i] = q[1 + i - 1]
  BY <1>1, SubSeqProperties
<1>3. DOMAIN SubSeq(q, 1, n) = 1 .. Len(SubSeq(q, 1, n))
  BY <1>2, LenProperties
<1> QED BY <1>1, <1>2, <1>3

LEMMA RemoveType ==
    ASSUME NEW S, NEW q \in Seq(S), NEW k \in DOMAIN q PROVE RemoveAt(q, k) \in Seq(S)
<1>1. Len(q) \in Nat /\ k \in 1 .. Len(q) /\ \A i \in 1 .. Len(q) : q[i] \in S
  BY LenProperties, ElementOfSeq
<1>2. SubSeq(q, 1, k - 1) \in Seq(S)
  BY <1>1, SubSeqProperties
<1>3. SubSeq(q, k + 1, Len(q)) \in Seq(S)
  BY <1>1, SubSeqProperties
<1> QED BY <1>2, <1>3, ConcatProperties DEF RemoveAt

LEMMA RemoveIs ==
    ASSUME NEW S, NEW q \in Seq(S), NEW k \in DOMAIN q
    PROVE  /\ DOMAIN q = 1 .. Len(q) /\ Len(q) \in Nat /\ k \in 1 .. Len(q)
           /\ DOMAIN RemoveAt(q, k) = 1 .. Len(q) - 1
           /\ \A l \in 1 .. Len(q) - 1 :
                 RemoveAt(q, k)[l] = IF l < k THEN q[l] ELSE q[l + 1]
<1> DEFINE front == SubSeq(q, 1, k - 1)
           back == SubSeq(q, k + 1, Len(q))
<1>1. /\ Len(q) \in Nat /\ DOMAIN q = 1 .. Len(q) /\ k \in 1 .. Len(q)
      /\ \A l \in 1 .. Len(q) : q[l] \in S
  BY LenProperties, ElementOfSeq
<1>2. /\ front \in Seq(S) /\ Len(front) = k - 1
      /\ \A l \in 1 .. k - 1 : front[l] = q[l]
  <2>1. /\ front \in Seq(S) /\ Len(front) = IF 1 <= k - 1 THEN k - 1 - 1 + 1 ELSE 0
        /\ \A l \in 1 .. k - 1 - 1 + 1 : front[l] = q[1 + l - 1]
    BY <1>1, SubSeqProperties
  <2> QED BY <1>1, <2>1
<1>3. /\ back \in Seq(S) /\ Len(back) = Len(q) - k
      /\ \A l \in 1 .. Len(q) - k : back[l] = q[k + l]
  <2>1. /\ back \in Seq(S)
        /\ Len(back) = IF k + 1 <= Len(q) THEN Len(q) - (k + 1) + 1 ELSE 0
        /\ \A l \in 1 .. Len(q) - (k + 1) + 1 : back[l] = q[k + 1 + l - 1]
    BY <1>1, SubSeqProperties
  <2> QED BY <1>1, <2>1
<1> HIDE DEF front, back
<1>4. /\ front \o back \in Seq(S)
      /\ Len(front \o back) = Len(front) + Len(back)
      /\ \A l \in 1 .. Len(front) + Len(back) :
            (front \o back)[l] = IF l <= Len(front) THEN front[l] ELSE back[l - Len(front)]
  BY <1>2, <1>3, ConcatProperties
<1>5. DOMAIN (front \o back) = 1 .. Len(q) - 1
  <2>1. DOMAIN (front \o back) = 1 .. Len(front \o back)
    BY <1>4, LenProperties
  <2> QED BY <1>1, <1>2, <1>3, <1>4, <2>1
<1>6. ASSUME NEW l \in 1 .. Len(q) - 1
      PROVE  (front \o back)[l] = IF l < k THEN q[l] ELSE q[l + 1]
  <2>1. (front \o back)[l] = IF l <= k - 1 THEN front[l] ELSE back[l - (k - 1)]
    BY <1>1, <1>2, <1>3, <1>4
  <2>2. CASE l < k
    BY <1>1, <1>2, <2>1, <2>2
  <2>3. CASE ~(l < k)
    <3>1. ~(l <= k - 1) /\ l - (k - 1) \in 1 .. Len(q) - k
      BY <1>1, <2>3
    <3>2. k + (l - (k - 1)) = l + 1
      BY <1>1
    <3>3. back[l - (k - 1)] = q[k + (l - (k - 1))]
      BY <1>3, <3>1
    <3> QED BY <2>1, <2>3, <3>1, <3>2, <3>3
  <2> QED BY <2>2, <2>3
<1>7. RemoveAt(q, k) = front \o back
  BY DEF RemoveAt, front, back
<1> QED BY <1>1, <1>5, <1>6, <1>7

-------------------------------------------------------------------------------
(* What a connection has not been touched by stays as it is.               *)
Own(s) == <<link[s], conn[s], asked[s], queue[s], sdata[s], ready[s], waiting[s],
            registered[s], stale[s], losses[s]>>

LEMMA GoodSame ==
    ASSUME NEW s \in Sub, Good(s), UNCHANGED <<Own(s), subdata>> PROVE Good(s)'
BY DEF Own, Good, Linked, Ordered, Mirrored, WillHave, Mentions, LastMention, Offered, Wants

LEMMA InvInit == Init => IInv
<1> SUFFICES ASSUME Init PROVE IInv
  OBVIOUS
<1>1. <<>> \in Seq(MessageSet) /\ MinDelay \in MinDelay .. MaxDelay /\ 1 \in 1 .. MaxLoss + 1
  BY EmptySeq, DelayAssumption, BoundAssumption
<1>2. Typed
  BY <1>1, NothingType, BoundAssumption
     DEF Init, Typed, ServerOK, LinkOK, QueueOK, ClientOK, StaleOK, DelayOK, CountsOK
<1>3. ASSUME NEW s \in Sub PROVE Good(s)
  <2>1. /\ link[s] = "connecting" /\ asked[s] /\ queue[s] = <<>> /\ ~ready[s] /\ ~waiting[s]
        /\ sdata[s] = Nothing /\ conn[s] = 1 /\ registered[s] = {} /\ losses[s] = 0
    BY DEF Init
  <2>2. DOMAIN queue[s] = {}
    BY <2>1
  <2> QED BY <2>1, <2>2 DEF Good, Linked, Ordered, Mirrored
<1> QED BY <1>2, <1>3 DEF IInv

-------------------------------------------------------------------------------
(* The server.                                                             *)

(* A message about i, at the end of the queue, is the last about i.        *)
LEMMA AppendHave ==
    ASSUME Typed, NEW s \in Sub, NEW i \in Item, NEW m \in MessageSet, NEW w,
           queue'[s] = Append(queue[s], m), sdata'[s] = sdata[s],
           IF i \in DOMAIN m.recs THEN m.recs[i] = w ELSE WillHave(s, i, w)
    PROVE  WillHave(s, i, w)'
<1> DEFINE q == queue[s]
           n == Len(queue[s])
<1>1. q \in Seq(MessageSet)
  BY DEF Typed, QueueOK
<1>2. /\ DOMAIN queue'[s] = 1 .. n + 1 /\ n \in Nat /\ DOMAIN q = 1 .. n
      /\ \A k \in 1 .. n : queue'[s][k] = q[k]
      /\ queue'[s][n + 1] = m
  BY <1>1, AppendIs
<1>3. CASE i \in DOMAIN m.recs
  <2>1. n + 1 \in Mentions(s, i)'
    BY <1>2, <1>3 DEF Mentions
  <2>2. ASSUME NEW k \in DOMAIN queue'[s], LastMention(s, i, k)' PROVE k = n + 1
    BY <1>2, <2>1, <2>2 DEF LastMention
  <2> QED BY <1>2, <1>3, <2>1, <2>2 DEF WillHave
<1>4. CASE i \notin DOMAIN m.recs
  <2>1. Mentions(s, i)' = Mentions(s, i)
    <3>1. \A k \in DOMAIN queue'[s] : i \in DOMAIN queue'[s][k].recs => k \in 1 .. n
      BY <1>2, <1>4
    <3> QED BY <1>2, <3>1 DEF Mentions
  <2>2. ASSUME NEW k \in DOMAIN queue'[s], LastMention(s, i, k)'
        PROVE  k \in DOMAIN q /\ LastMention(s, i, k) /\ queue'[s][k] = q[k]
    BY <1>2, <2>1, <2>2 DEF LastMention, Mentions
  <2> QED BY <1>4, <2>1, <2>2 DEF WillHave
<1> QED BY <1>3, <1>4

LEMMA PutInv ==
    ASSUME IInv, NEW i \in Item, NEW v \in Contents, Put(i, v) PROVE IInv'
<1> DEFINE told(s) == link[s] = "open" /\ Notified(s, i)
<1>0. /\ UNCHANGED <<registered, link, conn, asked, sdata, subVars, fails, losses>>
      /\ \A s \in Sub : stale'[s] = IF told(s) THEN stale[s] \ {i} ELSE stale[s]
      /\ stale' \in [Sub -> SUBSET Item]
      /\ subdata' = [subdata EXCEPT ![i] = v]
      /\ puts < MaxPut /\ puts' = puts + 1
  BY DEF Put, IInv, Typed, StaleOK
<1>1. \A s \in Sub : queue'[s] = IF told(s) THEN Append(queue[s], Update(i, v)) ELSE queue[s]
  BY DEF Put
<1>2. queue' \in [Sub -> Seq(MessageSet)]
  <2>1. \A s \in Sub : Append(queue[s], Update(i, v)) \in Seq(MessageSet)
    BY AppendIs, UpdateType DEF IInv, Typed, QueueOK
  <2>2. \A s \in Sub : queue[s] \in Seq(MessageSet)
    BY DEF IInv, Typed, QueueOK
  <2> QED BY <2>1, <2>2 DEF Put
<1>3. subdata' \in [Item -> Contents] /\ puts' \in 0 .. MaxPut
  BY <1>0, BoundAssumption DEF IInv, Typed, ServerOK, CountsOK
<1>4. Typed'
  BY <1>0, <1>2, <1>3
     DEF subVars, IInv, Typed, ServerOK, LinkOK, QueueOK, ClientOK, StaleOK, DelayOK, CountsOK
<1>5. ASSUME NEW s \in Sub PROVE Good(s)'
  <2>1. CASE told(s)
    <3>1. /\ link[s] = "open" /\ conn[s] \in registered[s] /\ Wants(s, i)
          /\ queue'[s] = Append(queue[s], Update(i, v))
      BY <1>1, <2>1 DEF Notified
    <3>2. queue[s] \in Seq(MessageSet) /\ Update(i, v) \in MessageSet
      BY UpdateType DEF IInv, Typed, QueueOK
    <3>3. Linked(s)'
      BY <1>0, <3>1 DEF subVars, IInv, Good, Linked
    <3>4. Ordered(s)'
      <4>1. Ordered(s)
        BY DEF IInv, Good
      <4>2. /\ DOMAIN queue'[s] = 1 .. Len(queue[s]) + 1
            /\ \A k \in DOMAIN queue[s] : queue'[s][k] = queue[s][k]
            /\ queue'[s][Len(queue[s]) + 1].type = "update"
            /\ DOMAIN queue[s] = 1 .. Len(queue[s]) /\ Len(queue[s]) \in Nat
        BY <3>1, <3>2, AppendIs, UpdateType
      <4>3. ready'[s] = ready[s]
        BY <1>0 DEF subVars
      <4>4. ASSUME NEW k \in DOMAIN queue'[s]
            PROVE  \/ k \in DOMAIN queue[s] /\ queue'[s][k] = queue[s][k]
                   \/ queue'[s][k].type = "update"
        BY <4>2
      <4>5. 1 \in DOMAIN queue[s] => queue'[s][1] = queue[s][1]
        BY <4>2
      <4>6. \A k \in DOMAIN queue[s] : 1 \in DOMAIN queue[s]
        BY <4>2
      <4> QED BY <4>1, <4>3, <4>4, <4>5, <4>6 DEF Ordered
    <3>5. Mirrored(s)'
      <4>1. \A j \in Item \ stale[s] : WillHave(s, j, Offered(s, j))
        BY <3>1 DEF IInv, Good, Mirrored
      <4>2. ASSUME NEW j \in Item \ stale'[s] PROVE WillHave(s, j, Offered(s, j))'
        <5>1. Offered(s, j)' = IF j = i THEN v ELSE Offered(s, j)
          BY <1>0, <3>1 DEF Offered, Wants, IInv, Typed, ServerOK
        <5>2. IF j \in DOMAIN Update(i, v).recs THEN Update(i, v).recs[j] = Offered(s, j)'
              ELSE j # i /\ Offered(s, j) = Offered(s, j)'
          BY <5>1, UpdateType
        <5>3. sdata'[s] = sdata[s]
          BY <1>0
        <5>4. j # i => WillHave(s, j, Offered(s, j))
          BY <1>0, <2>1, <4>1
        <5> HIDE DEF told
        <5> DEFINE w == Offered(s, j)'
        <5>5. \A x : x = w => WillHave(s, j, x)'
          <6> SUFFICES ASSUME NEW x, x = w PROVE WillHave(s, j, x)'
            OBVIOUS
          <6>1. IF j \in DOMAIN Update(i, v).recs THEN Update(i, v).recs[j] = x
                ELSE WillHave(s, j, x)
            BY <5>2, <5>4
          <6> QED BY <3>1, <3>2, <5>3, <6>1, AppendHave DEF IInv
        <5> QED BY <5>5 DEF WillHave
      <4> QED BY <4>2 DEF Mirrored
    <3> QED BY <3>3, <3>4, <3>5 DEF Good
  <2>2. CASE ~told(s)
    <3>1. UNCHANGED Own(s)
      BY <1>0, <1>1, <2>2 DEF Own, subVars
    <3>2. ASSUME link[s] = "open", conn[s] \in registered[s], NEW j \in Item
          PROVE  Offered(s, j)' = Offered(s, j)
      BY <1>0, <2>2, <3>2 DEF Notified, Offered, Wants, IInv, Typed, ServerOK
    <3> QED BY <3>1, <3>2
            DEF Own, IInv, Good, Linked, Ordered, Mirrored, WillHave, Mentions, LastMention
  <2> QED BY <2>1, <2>2
<1> QED BY <1>4, <1>5 DEF IInv

(* The answer to a subscribe message meets an empty queue and an empty     *)
(* copy.                                                                   *)
LEMMA GreetingHave ==
    ASSUME Typed, NEW s \in Sub, NEW i \in Item,
           queue'[s] = Greeting(s), sdata'[s] = Nothing, subdata' = subdata
    PROVE  WillHave(s, i, Offered(s, i))'
<1>1. /\ DOMAIN queue'[s] = 1 .. 2
      /\ queue'[s][1] = Snapshot(s) /\ queue'[s][2] = Done
  BY DEF Greeting
<1>2. /\ DOMAIN Done.recs = {}
      /\ DOMAIN Snapshot(s).recs = {j \in Item : Wants(s, j) /\ subdata[j] # Null}
      /\ \A j \in DOMAIN Snapshot(s).recs : Snapshot(s).recs[j] = subdata[j]
  BY DoneType, SnapshotType
<1>3. Offered(s, i)' = Offered(s, i)
  BY DEF Offered, Wants
<1>4. CASE Wants(s, i) /\ subdata[i] # Null
  <2>1. 1 \in Mentions(s, i)' /\ \A k \in DOMAIN queue'[s] : k \in Mentions(s, i)' => k = 1
    BY <1>1, <1>2, <1>4 DEF Mentions
  <2>2. queue'[s][1].recs[i] = Offered(s, i)
    BY <1>1, <1>2, <1>4 DEF Offered
  <2> QED BY <1>3, <2>1, <2>2 DEF WillHave, LastMention
<1>5. CASE ~(Wants(s, i) /\ subdata[i] # Null)
  <2>1. \A k \in DOMAIN queue'[s] : i \notin DOMAIN queue'[s][k].recs
    BY <1>1, <1>2, <1>5
  <2>2. Mentions(s, i)' = {}
    BY <2>1 DEF Mentions
  <2>3. sdata'[s][i] = Offered(s, i)
    BY <1>5 DEF Nothing, Offered
  <2>4. \A k \in DOMAIN queue'[s] : ~LastMention(s, i, k)'
    BY <2>2 DEF LastMention
  <2> QED BY <1>3, <2>2, <2>3, <2>4 DEF WillHave
<1> QED BY <1>4, <1>5

LEMMA OnSubscribeInv ==
    ASSUME IInv, NEW s \in Sub, OnSubscribe(s) PROVE IInv'
<1>0. /\ link[s] = "open" /\ asked[s]
      /\ asked' = [asked EXCEPT ![s] = FALSE]
      /\ UNCHANGED <<subdata, link, conn, sdata, subVars, stale, fails, boundVars>>
  BY DEF OnSubscribe
<1>1. /\ queue[s] = <<>> /\ ~ready[s] /\ sdata[s] = Nothing /\ ~waiting[s]
      /\ conn[s] \notin registered[s] /\ registered[s] \subseteq 1 .. conn[s]
      /\ conn[s] <= losses[s] + 1
      /\ s \in Refused => registered[s] = {}
  BY <1>0 DEF IInv, Good, Linked
<1>2. conn[s] \in 1 .. MaxLoss + 1 /\ queue[s] \in Seq(MessageSet)
  BY DEF IInv, Typed, LinkOK, QueueOK
<1>3. /\ queue' \in [Sub -> Seq(MessageSet)]
      /\ \A t \in Sub : t # s => queue'[t] = queue[t]
      /\ queue'[s] = IF s \in Refused THEN <<Done>> ELSE Greeting(s)
  <2>1. CASE s \in Refused
    <3>1. queue' = [queue EXCEPT ![s] = Append(@, Done)]
      BY <2>1 DEF OnSubscribe
    <3>2. Append(queue[s], Done) = <<Done>> /\ <<Done>> \in Seq(MessageSet)
      BY <1>1, DoneType
    <3> QED BY <2>1, <3>1, <3>2 DEF IInv, Typed, QueueOK
  <2>2. CASE s \notin Refused
    <3>1. queue' = [queue EXCEPT ![s] = @ \o Greeting(s)]
      BY <2>2 DEF OnSubscribe
    <3>2. Greeting(s) \in Seq(MessageSet)
      BY DoneType, SnapshotType DEF Greeting, IInv
    <3>3. queue[s] \o Greeting(s) = Greeting(s)
      BY <1>1, <3>2, ConcatEmptySeq
    <3> QED BY <2>2, <3>1, <3>2, <3>3 DEF IInv, Typed, QueueOK
  <2> QED BY <2>1, <2>2
<1>4. /\ registered' \in [Sub -> SUBSET (1 .. MaxLoss + 1)]
      /\ \A t \in Sub : t # s => registered'[t] = registered[t]
      /\ registered'[s] = IF s \in Refused THEN {} ELSE registered[s] \union {conn[s]}
  <2>1. registered[s] \union {conn[s]} \in SUBSET (1 .. MaxLoss + 1)
    BY <1>2 DEF IInv, Typed, ServerOK
  <2>2. CASE s \in Refused
    BY <1>1, <2>2 DEF OnSubscribe, IInv, Typed, ServerOK
  <2>3. CASE s \notin Refused
    <3>1. registered' = [registered EXCEPT ![s] = @ \union {conn[s]}]
      BY <2>3 DEF OnSubscribe
    <3> QED BY <2>1, <2>3, <3>1 DEF IInv, Typed, ServerOK
  <2> QED BY <2>2, <2>3
<1>5. Typed'
  BY <1>0, <1>3, <1>4
     DEF subVars, boundVars, IInv, Typed, ServerOK, LinkOK, QueueOK, ClientOK, StaleOK, DelayOK, CountsOK
<1>6. Good(s)'
  <2>1. asked'[s] = FALSE
    BY <1>0 DEF IInv, Typed, LinkOK
  <2>2. Linked(s)'
    BY <1>0, <1>1, <1>2, <1>4, <2>1 DEF subVars, boundVars, Linked
  <2>3. Ordered(s)'
    <3>1. ~ready'[s]
      BY <1>0, <1>1 DEF subVars
    <3>2. \/ /\ DOMAIN queue'[s] = 1 .. 1
             /\ queue'[s][1].type = "done" /\ queue'[s][1].recs = Empty
          \/ /\ DOMAIN queue'[s] = 1 .. 2 /\ queue'[s][1].type = "snapshot"
             /\ queue'[s][2].type = "done" /\ queue'[s][2].recs = Empty
      BY <1>3, DoneType, SnapshotType DEF Greeting, IInv
    <3> QED BY <3>1, <3>2 DEF Ordered
  <2>4. Mirrored(s)'
    <3>1. CASE s \in Refused
      BY <1>4, <3>1 DEF Mirrored
    <3>2. CASE s \notin Refused
      <4>1. queue'[s] = Greeting(s) /\ sdata'[s] = Nothing /\ subdata' = subdata
        BY <1>0, <1>1, <1>3, <3>2
      <4> QED BY <4>1, GreetingHave DEF Mirrored, IInv
    <3> QED BY <3>1, <3>2
  <2> QED BY <2>2, <2>3, <2>4 DEF Good
<1>7. ASSUME NEW t \in Sub, t # s PROVE Good(t)'
  <2>1. UNCHANGED <<Own(t), subdata>>
    BY <1>0, <1>3, <1>4, <1>7 DEF Own, subVars, boundVars, IInv, Typed, LinkOK
  <2> QED BY <2>1, GoodSame DEF IInv
<1> QED BY <1>5, <1>6, <1>7 DEF IInv

-------------------------------------------------------------------------------
(* The client and the subscription.                                        *)

LEMMA ConnectedInv == ASSUME IInv, NEW s \in Sub, Connected(s) PROVE IInv'
<1>0. /\ link[s] = "connecting" /\ link' = [link EXCEPT ![s] = "open"]
      /\ UNCHANGED <<serverVars, conn, asked, queue, sdata, subVars, stale, fails, boundVars>>
  BY DEF Connected
<1>1. Typed'
  BY <1>0 DEF serverVars, subVars, boundVars,
              IInv, Typed, ServerOK, LinkOK, QueueOK, ClientOK, StaleOK, DelayOK, CountsOK
<1>2. link'[s] = "open" /\ \A t \in Sub : t # s => link'[t] = link[t]
  BY <1>0 DEF IInv, Typed, LinkOK
<1>3. Good(s)'
  <2>1. Good(s) /\ asked[s] /\ queue[s] = <<>> /\ conn[s] \notin registered[s] /\ ~ready[s]
    BY <1>0 DEF IInv, Good, Linked
  <2>2. Linked(s)'
    BY <1>0, <1>2, <2>1 DEF serverVars, subVars, boundVars, Good, Linked
  <2>3. DOMAIN queue'[s] = {}
    BY <1>0, <2>1
  <2>4. Ordered(s)' /\ Mirrored(s)'
    BY <1>0, <2>1, <2>3 DEF serverVars, subVars, Ordered, Mirrored
  <2> QED BY <2>2, <2>4 DEF Good
<1>4. ASSUME NEW t \in Sub, t # s PROVE Good(t)'
  <2>1. UNCHANGED <<Own(t), subdata>>
    BY <1>0, <1>2, <1>4 DEF Own, serverVars, subVars, boundVars
  <2> QED BY <2>1, GoodSame DEF IInv
<1> QED BY <1>1, <1>3, <1>4 DEF IInv

LEMMA BreakInv == ASSUME IInv, NEW s \in Sub, Break(s) PROVE IInv'
<1>0. /\ link[s] = "open" /\ losses[s] < MaxLoss
      /\ losses' = [losses EXCEPT ![s] = @ + 1]
      /\ link' = [link EXCEPT ![s] = "dead"]
      /\ UNCHANGED <<serverVars, conn, asked, sdata, subVars, stale, fails, puts>>
  BY DEF Break
<1>1. PICK n \in 0 .. Len(queue[s]) : queue' = [queue EXCEPT ![s] = SubSeq(@, 1, n)]
  BY DEF Break
<1>2. queue[s] \in Seq(MessageSet) /\ losses[s] \in 0 .. MaxLoss
  BY DEF IInv, Typed, QueueOK, CountsOK
<1>3. /\ SubSeq(queue[s], 1, n) \in Seq(MessageSet)
      /\ DOMAIN SubSeq(queue[s], 1, n) = 1 .. n
      /\ \A k \in 1 .. n : k \in DOMAIN queue[s] /\ SubSeq(queue[s], 1, n)[k] = queue[s][k]
  BY <1>2, PrefixIs
<1>4. /\ queue' \in [Sub -> Seq(MessageSet)]
      /\ queue'[s] = SubSeq(queue[s], 1, n) /\ \A t \in Sub : t # s => queue'[t] = queue[t]
      /\ link' \in [Sub -> {"none", "connecting", "open", "dead"}]
      /\ link'[s] = "dead" /\ \A t \in Sub : t # s => link'[t] = link[t]
      /\ losses' \in [Sub -> 0 .. MaxLoss]
      /\ losses'[s] = losses[s] + 1 /\ \A t \in Sub : t # s => losses'[t] = losses[t]
  BY <1>0, <1>1, <1>2, <1>3, BoundAssumption DEF IInv, Typed, QueueOK, LinkOK, CountsOK
<1>5. Typed'
  BY <1>0, <1>4 DEF serverVars, subVars,
                    IInv, Typed, ServerOK, LinkOK, QueueOK, ClientOK, StaleOK, DelayOK, CountsOK
<1>6. Good(s)'
  <2>1. queue[s] = <<>> => queue'[s] = <<>>
    BY <1>2, <1>3, <1>4, EmptySeq
  <2>2. Linked(s)'
    BY <1>0, <1>4, <2>1 DEF serverVars, subVars, IInv, Good, Linked
  <2>3. Ordered(s)'
    <3>1. Ordered(s) /\ n \in Nat
      BY <1>1 DEF IInv, Good
    <3>2. /\ DOMAIN queue'[s] = 1 .. n
          /\ \A k \in 1 .. n : k \in DOMAIN queue[s] /\ queue'[s][k] = queue[s][k]
          /\ ready'[s] = ready[s]
      BY <1>0, <1>3, <1>4 DEF subVars
    <3> QED BY <3>1, <3>2 DEF Ordered
  <2>4. Mirrored(s)'
    BY <1>4 DEF Mirrored
  <2> QED BY <2>2, <2>3, <2>4 DEF Good
<1>7. ASSUME NEW t \in Sub, t # s PROVE Good(t)'
  <2>1. UNCHANGED <<Own(t), subdata>>
    BY <1>0, <1>4, <1>7 DEF Own, serverVars, subVars
  <2> QED BY <2>1, GoodSame DEF IInv
<1> QED BY <1>5, <1>6, <1>7 DEF IInv

(* The next delay keeps to the limits.                                     *)
LEMMA NextDelayType ==
    ASSUME NEW d \in MinDelay .. MaxDelay PROVE NextDelay(d) \in MinDelay .. MaxDelay
BY DelayAssumption DEF NextDelay

LEMMA HandleLostInv ==
    ASSUME IInv, NEW s \in Sub, HandleLost(s), waiting[s] = FALSE,
           \/ link[s] = "dead" /\ UNCHANGED losses
           \/ losses[s] < MaxLoss /\ losses' = [losses EXCEPT ![s] = @ + 1]
    PROVE  IInv'
<1>0. /\ ready' = [ready EXCEPT ![s] = FALSE]
      /\ waiting' = [waiting EXCEPT ![s] = TRUE]
      /\ link' = [link EXCEPT ![s] = "none"]
      /\ asked' = [asked EXCEPT ![s] = FALSE]
      /\ queue' = [queue EXCEPT ![s] = <<>>]
      /\ sdata' = [sdata EXCEPT ![s] = Nothing]
      /\ stale' = [stale EXCEPT ![s] = {}]
      /\ UNCHANGED <<serverVars, conn, closed, puts>>
  BY DEF HandleLost
<1>1. delay' \in [Sub -> MinDelay .. MaxDelay] /\ fails' \in [Sub -> Nat]
  <2>1. PICK greeted \in BOOLEAN :
           /\ delay' = [delay EXCEPT ![s] = NextDelay(IF greeted THEN DelayReset(s) ELSE @)]
           /\ fails' = [fails EXCEPT ![s] = IF greeted THEN 1 ELSE @ + 1]
    BY DEF HandleLost
  <2>2. (IF greeted THEN DelayReset(s) ELSE delay[s]) \in MinDelay .. MaxDelay
    BY DelayAssumption DEF DelayReset, IInv, Typed, DelayOK
  <2>3. NextDelay(IF greeted THEN DelayReset(s) ELSE delay[s]) \in MinDelay .. MaxDelay
    BY <2>2, NextDelayType
  <2> QED BY <2>1, <2>3 DEF IInv, Typed, DelayOK
<1>2. /\ losses' \in [Sub -> 0 .. MaxLoss] /\ \A t \in Sub : t # s => losses'[t] = losses[t]
      /\ losses'[s] = losses[s] + (IF link[s] = "dead" /\ losses' = losses THEN 0 ELSE 1)
  BY BoundAssumption DEF IInv, Typed, CountsOK
<1>3. Typed'
  <2>1. ServerOK' /\ LinkOK' /\ CountsOK'
    BY <1>0, <1>2 DEF serverVars, IInv, Typed, ServerOK, LinkOK, CountsOK
  <2>2. QueueOK' /\ ClientOK' /\ StaleOK'
    BY <1>0, EmptySeq, NothingType DEF IInv, Typed, QueueOK, ClientOK, StaleOK
  <2> QED BY <1>1, <2>1, <2>2 DEF Typed, DelayOK
<1>4. /\ link'[s] = "none" /\ ~ready'[s] /\ ~asked'[s] /\ queue'[s] = <<>> /\ sdata'[s] = Nothing
      /\ \A t \in Sub : t # s => /\ link'[t] = link[t] /\ ready'[t] = ready[t]
                                 /\ asked'[t] = asked[t] /\ queue'[t] = queue[t]
                                 /\ sdata'[t] = sdata[t] /\ waiting'[t] = waiting[t]
  BY <1>0 DEF IInv, Typed, LinkOK, QueueOK, ClientOK
<1>5. Good(s)'
  <2>1. conn[s] <= losses'[s]
    <3>1. /\ conn[s] <= losses[s] + (IF link[s] \in {"connecting", "open"} THEN 1 ELSE 0)
          /\ conn[s] \in Nat /\ losses[s] \in Nat
      BY BoundAssumption DEF IInv, Good, Linked, Typed, LinkOK, CountsOK
    <3> QED BY <1>2, <3>1
  <2>2. conn'[s] = conn[s] /\ registered' = registered
    BY <1>0 DEF serverVars
  <2>3. Linked(s)'
    <3>1. /\ registered[s] \subseteq 1 .. conn[s]
          /\ s \in Refused => registered[s] = {}
          /\ conn[s] \in Nat /\ losses'[s] \in Nat
      BY <1>2, BoundAssumption DEF IInv, Good, Linked, Typed, LinkOK
    <3>2. Nothing' = Nothing
      BY DEF Nothing
    <3>3. link'[s] \notin {"connecting", "open", "dead"}
      BY <1>4
    <3> QED BY <1>4, <2>1, <2>2, <3>1, <3>2, <3>3 DEF Linked
  <2>4. DOMAIN queue'[s] = {}
    BY <1>4
  <2> QED BY <1>4, <2>3, <2>4 DEF Good, Ordered, Mirrored
<1>6. ASSUME NEW t \in Sub, t # s PROVE Good(t)'
  <2>1. UNCHANGED <<Own(t), subdata>>
    BY <1>0, <1>2, <1>4, <1>6 DEF Own, serverVars
  <2> QED BY <2>1, GoodSame DEF IInv
<1> QED BY <1>3, <1>5, <1>6 DEF IInv

LEMMA LoseInv == ASSUME IInv, NEW s \in Sub, Lose(s) PROVE IInv'
<1>1. waiting[s] = FALSE
  BY DEF Lose, IInv, Good, Linked, Typed, ClientOK
<1> QED BY <1>1, HandleLostInv DEF Lose

LEMMA HeartbeatExpiresInv == ASSUME IInv, NEW s \in Sub, HeartbeatExpires(s) PROVE IInv'
<1>1. waiting[s] = FALSE
  BY DEF HeartbeatExpires, IInv, Good, Linked, Typed, ClientOK
<1> QED BY <1>1, HandleLostInv DEF HeartbeatExpires

(* Where the l-th of the messages that are left was before.                *)
Before(k, l) == IF l < k THEN l ELSE l + 1

(* What a message says is in the copy once it has been handled, but for    *)
(* what has overtaken something older.                                     *)
LEMMA ReceiveHave ==
    ASSUME Typed, NEW s \in Sub, NEW i \in Item, NEW v, NEW k \in DOMAIN queue[s],
           queue'[s] = RemoveAt(queue[s], k), i \notin Overtaken(s, k),
           sdata'[s][i] = IF i \in DOMAIN queue[s][k].recs THEN queue[s][k].recs[i] ELSE sdata[s][i],
           WillHave(s, i, v)
    PROVE  WillHave(s, i, v)'
<1> DEFINE n == Len(queue[s])
<1>1. queue[s] \in Seq(MessageSet)
  BY DEF Typed, QueueOK
<1>2. /\ DOMAIN queue'[s] = 1 .. n - 1
      /\ \A l \in 1 .. n - 1 : queue'[s][l] = queue[s][Before(k, l)]
      /\ DOMAIN queue[s] = 1 .. n /\ n \in Nat /\ k \in 1 .. n
  <2>1. \A l \in 1 .. n - 1 : RemoveAt(queue[s], k)[l] = IF l < k THEN queue[s][l] ELSE queue[s][l + 1]
    BY <1>1, RemoveIs
  <2> QED BY <1>1, <2>1, RemoveIs DEF Before
<1> HIDE DEF n
<1>3. ASSUME NEW j \in Mentions(s, i), j # k
      PROVE  (IF j < k THEN j ELSE j - 1) \in Mentions(s, i)'
  <2> DEFINE l == IF j < k THEN j ELSE j - 1
  <2>1. j \in 1 .. n /\ i \in DOMAIN queue[s][j].recs
    BY <1>2 DEF Mentions
  <2>2. l \in 1 .. n - 1 /\ Before(k, l) = j
    BY <1>2, <1>3, <2>1 DEF Before
  <2> HIDE DEF l
  <2>3. l \in Mentions(s, i)'
    BY <1>2, <2>1, <2>2 DEF Mentions
  <2> QED BY <2>3 DEF l
<1>4. ASSUME NEW l \in Mentions(s, i)'
      PROVE  /\ l \in 1 .. n - 1 /\ Before(k, l) \in 1 .. n /\ Before(k, l) # k
             /\ Before(k, l) \in Mentions(s, i)
  <2>1. l \in 1 .. n - 1 /\ i \in DOMAIN queue'[s][l].recs
    BY <1>2 DEF Mentions
  <2>2. Before(k, l) \in 1 .. n /\ Before(k, l) # k
    BY <1>2, <2>1 DEF Before
  <2> QED BY <1>2, <2>1, <2>2 DEF Mentions
<1>5. ASSUME Mentions(s, i)' = {} PROVE sdata'[s][i] = v
  <2>1. \A j \in Mentions(s, i) : j = k
    BY <1>3, <1>5
  <2>2. CASE i \in DOMAIN queue[s][k].recs
    <3>1. LastMention(s, i, k)
      BY <1>2, <2>1, <2>2 DEF LastMention, Mentions
    <3> QED BY <2>2, <3>1 DEF WillHave
  <2>3. CASE i \notin DOMAIN queue[s][k].recs
    <3>1. Mentions(s, i) = {}
      BY <2>1, <2>3 DEF Mentions
    <3> QED BY <2>3, <3>1 DEF WillHave
  <2> QED BY <2>2, <2>3
<1>6. ASSUME NEW l \in DOMAIN queue'[s], LastMention(s, i, l)' PROVE queue'[s][l].recs[i] = v
  <2> DEFINE b == Before(k, l)
  <2>1. /\ l \in 1 .. n - 1 /\ b \in 1 .. n /\ b # k /\ b \in Mentions(s, i)
        /\ queue'[s][l] = queue[s][b]
    BY <1>2, <1>4, <1>6 DEF LastMention
  <2>2. ASSUME NEW j \in Mentions(s, i), j # k PROVE j <= b
    <3>1. (IF j < k THEN j ELSE j - 1) <= l
      BY <1>3, <1>6, <2>2 DEF LastMention
    <3>2. j \in 1 .. n
      BY <1>2 DEF Mentions
    <3> QED BY <1>2, <2>1, <2>2, <3>1, <3>2 DEF Before
  <2>3. k \in Mentions(s, i) => k <= b
    <3> SUFFICES ASSUME k \in Mentions(s, i), ~(k <= b) PROVE FALSE
      OBVIOUS
    <3>1. b < k
      BY <1>2, <2>1
    <3>2. i \in DOMAIN queue[s][k].recs
      BY DEF Mentions
    <3>3. PICK j \in Mentions(s, i) : ~(j <= k)
      BY <2>1, <3>1, <3>2 DEF Overtaken
    <3>4. j \in 1 .. n /\ j <= b
      BY <1>2, <2>2, <3>3 DEF Mentions
    <3> HIDE DEF b
    <3> QED BY <1>2, <2>1, <3>1, <3>3, <3>4
  <2>4. LastMention(s, i, b)
    BY <2>1, <2>2, <2>3 DEF LastMention
  <2>5. b \in DOMAIN queue[s]
    BY <1>2, <2>1
  <2> HIDE DEF b
  <2> QED BY <2>1, <2>4, <2>5 DEF WillHave
<1> QED BY <1>5, <1>6 DEF WillHave

LEMMA AppliedType ==
    ASSUME NEW view \in [Item -> Contents], NEW recs \in Content
    PROVE  Applied(view, recs) \in [Item -> Contents]
BY DEF Applied, Content, Contents

LEMMA ReceiveInv ==
    ASSUME IInv, NEW s \in Sub, NEW k \in DOMAIN queue[s], Receive(s, k) PROVE IInv'
<1> DEFINE m == queue[s][k]
<1>0. /\ link[s] \in {"open", "dead"}
      /\ \A j \in 1 .. k - 1 : queue[s][j].recs \in Long
      /\ queue' = [queue EXCEPT ![s] = RemoveAt(@, k)]
      /\ UNCHANGED <<serverVars, link, conn, asked, waiting, closed, boundVars>>
  BY DEF Receive
<1>1. \/ /\ m.type = "done"
         /\ ready' = [ready EXCEPT ![s] = TRUE]
         /\ delay' = [delay EXCEPT ![s] = DelayReset(s)]
         /\ fails' = [fails EXCEPT ![s] = 0]
         /\ UNCHANGED <<sdata, stale>>
      \/ /\ m.type # "done"
         /\ sdata' = [sdata EXCEPT ![s] = Applied(@, m.recs)]
         /\ stale' = [stale EXCEPT ![s] = @ \union Overtaken(s, k)]
         /\ UNCHANGED <<ready, delay, fails>>
  BY DEF Receive
<1>2. queue[s] \in Seq(MessageSet) /\ m \in MessageSet
  <2>1. queue[s] \in Seq(MessageSet)
    BY DEF IInv, Typed, QueueOK
  <2>2. k \in 1 .. Len(queue[s])
    BY <2>1, LenProperties
  <2> QED BY <2>1, <2>2, ElementOfSeq
<1>3. /\ queue' \in [Sub -> Seq(MessageSet)]
      /\ queue'[s] = RemoveAt(queue[s], k) /\ \A t \in Sub : t # s => queue'[t] = queue[t]
  <2>1. RemoveAt(queue[s], k) \in Seq(MessageSet)
    BY <1>2, RemoveType
  <2> QED BY <1>0, <2>1 DEF IInv, Typed, QueueOK
<1>4. /\ sdata' \in [Sub -> [Item -> Contents]] /\ ready' \in [Sub -> BOOLEAN]
      /\ delay' \in [Sub -> MinDelay .. MaxDelay] /\ fails' \in [Sub -> Nat]
      /\ stale' \in [Sub -> SUBSET Item]
      /\ \A t \in Sub : t # s => /\ sdata'[t] = sdata[t] /\ ready'[t] = ready[t]
                                 /\ stale'[t] = stale[t]
      /\ stale'[s] = IF m.type = "done" THEN stale[s] ELSE stale[s] \union Overtaken(s, k)
  <2>1. Applied(sdata[s], m.recs) \in [Item -> Contents]
    <3>1. sdata[s] \in [Item -> Contents] /\ m.recs \in Content
      BY <1>2 DEF IInv, Typed, ClientOK, MessageSet
    <3> QED BY <3>1, AppliedType
  <2>2. DelayReset(s) \in MinDelay .. MaxDelay
    BY DelayAssumption DEF DelayReset
  <2>0. stale[s] \union Overtaken(s, k) \in SUBSET Item
    <3>1. DOMAIN m.recs \subseteq Item
      BY <1>2 DEF MessageSet, Content
    <3> QED BY <3>1 DEF Overtaken, IInv, Typed, StaleOK
  <2> HIDE DEF m
  <2>3. ClientOK /\ DelayOK /\ StaleOK
    BY DEF IInv, Typed
  <2>4. sdata' \in [Sub -> [Item -> Contents]] /\ \A t \in Sub : t # s => sdata'[t] = sdata[t]
    BY <1>1, <2>1, <2>3 DEF ClientOK
  <2>5. ready' \in [Sub -> BOOLEAN] /\ \A t \in Sub : t # s => ready'[t] = ready[t]
    BY <1>1, <2>3 DEF ClientOK
  <2>6. delay' \in [Sub -> MinDelay .. MaxDelay] /\ fails' \in [Sub -> Nat]
    BY <1>1, <2>2, <2>3 DEF DelayOK
  <2>7. /\ stale' \in [Sub -> SUBSET Item] /\ \A t \in Sub : t # s => stale'[t] = stale[t]
        /\ stale'[s] = IF m.type = "done" THEN stale[s] ELSE stale[s] \union Overtaken(s, k)
    BY <1>1, <2>0, <2>3 DEF StaleOK
  <2> QED BY <2>4, <2>5, <2>6, <2>7
<1>5. Typed'
  BY <1>0, <1>3, <1>4 DEF serverVars, boundVars,
        IInv, Typed, ServerOK, LinkOK, QueueOK, ClientOK, StaleOK, DelayOK, CountsOK
<1>6. ~asked[s]
  <2>1. queue[s] # <<>>
    BY <1>2
  <2> QED BY <2>1 DEF IInv, Good, Linked
<1>7. Linked(s)'
  <2>1. Linked(s)
    BY DEF IInv, Good
  <2>2. UNCHANGED <<link[s], conn[s], asked[s], waiting[s], registered[s], losses[s]>>
    BY <1>0 DEF serverVars, boundVars
  <2>3. link[s] \notin {"none", "connecting"} /\ ~waiting[s]
    BY <1>0, <2>1 DEF Linked
  <2> QED BY <1>6, <2>1, <2>2, <2>3 DEF Linked
<1> DEFINE n == Len(queue[s])
<1>8. /\ DOMAIN queue'[s] = 1 .. n - 1 /\ DOMAIN queue[s] = 1 .. n /\ n \in Nat /\ k \in 1 .. n
      /\ \A l \in 1 .. n - 1 : queue'[s][l] = queue[s][Before(k, l)]
      /\ \A l \in 1 .. n - 1 : Before(k, l) \in 1 .. n
  <2>1. \A l \in 1 .. n - 1 : RemoveAt(queue[s], k)[l] = IF l < k THEN queue[s][l] ELSE queue[s][l + 1]
    BY <1>2, RemoveIs
  <2>2. DOMAIN queue'[s] = 1 .. n - 1 /\ DOMAIN queue[s] = 1 .. n /\ n \in Nat /\ k \in 1 .. n
    BY <1>2, <1>3, RemoveIs
  <2>3. \A l \in 1 .. n - 1 : Before(k, l) \in 1 .. n
    BY <2>2 DEF Before
  <2> QED BY <1>3, <2>1, <2>2, <2>3 DEF Before
<1>9. Ordered(s)'
  <2> HIDE DEF m, n
  <2>1. Ordered(s)
    BY DEF IInv, Good
  <2>2. ASSUME NEW j \in 1 .. n, queue[s][j].type = "done" PROVE ~(j < k)
    <3>1. queue[s][j].recs \notin Long
      BY <1>8, <2>1, <2>2, LongAssumption DEF Ordered, Empty
    <3> QED BY <1>0, <1>8, <3>1
  <2>3. ASSUME NEW l \in 1 .. n - 1, queue'[s][l].type = "snapshot" PROVE l = 1
    <3>1. Before(k, l) = 1
      BY <1>8, <2>1, <2>3 DEF Ordered
    <3> QED BY <1>8, <3>1 DEF Before
  <2>4. ASSUME NEW l \in 1 .. n - 1, queue'[s][l].type = "done"
        PROVE  /\ l = 1 /\ queue'[s][l].recs = Empty
               /\ k = 1 /\ m.type = "snapshot"
    <3> DEFINE b == Before(k, l)
    <3>1. /\ b \in 1 .. n /\ queue'[s][l] = queue[s][b] /\ queue[s][b].type = "done"
          /\ b = 1 \/ (b = 2 /\ queue[s][1].type = "snapshot")
          /\ queue[s][b].recs = Empty
      BY <1>8, <2>1, <2>4 DEF Ordered
    <3>2. b # k /\ ~(b < k)
      BY <1>8, <2>2, <3>1 DEF Before
    <3>3. l = 1 /\ k = 1 /\ b = 2
      BY <1>8, <3>1, <3>2 DEF Before
    <3> QED BY <3>1, <3>3 DEF m
  <2>5. ASSUME ready'[s], NEW l \in 1 .. n - 1
        PROVE  \/ queue'[s][l].type = "update"
               \/ queue'[s][l].type = "snapshot" /\ queue'[s][l].recs \in Long
    <3>1. queue'[s][l] \in MessageSet
      <4>1. queue[s][Before(k, l)] \in MessageSet
        BY <1>2, <1>8, ElementOfSeq DEF n
      <4> QED BY <1>8, <4>1
    <3>2. CASE m.type = "done"
      <4>1. queue'[s][l].type # "done"
        BY <2>4, <3>2
      <4>2. ASSUME queue'[s][l].type = "snapshot" PROVE queue'[s][l].recs \in Long
        <5>1. l = 1 /\ Before(k, l) = 1 /\ queue[s][1].type = "snapshot"
          <6>1. Before(k, l) = 1
            BY <1>8, <2>1, <4>2 DEF Ordered
          <6> QED BY <1>8, <2>3, <4>2, <6>1
        <5>2. 1 < k
          BY <1>8, <5>1 DEF Before
        <5>3. queue[s][1].recs \in Long
          BY <1>0, <1>8, <5>2
        <5> QED BY <1>8, <5>1, <5>3
      <4> QED BY <3>1, <4>1, <4>2 DEF MessageSet
    <3>3. CASE m.type # "done"
      <4>1. ready[s]
        BY <1>1, <2>5, <3>3
      <4> QED BY <1>8, <2>1, <4>1 DEF Ordered
    <3> QED BY <3>2, <3>3
  <2> QED BY <1>8, <2>3, <2>4, <2>5 DEF Ordered
<1>10. Mirrored(s)'
  <2>1. ASSUME NEW i \in Item
        PROVE  sdata'[s][i] = IF i \in DOMAIN m.recs THEN m.recs[i] ELSE sdata[s][i]
    <3>1. CASE m.type = "done"
      <4>1. DOMAIN m.recs = {}
        BY <3>1 DEF IInv, Good, Ordered, Empty
      <4> QED BY <1>1, <3>1, <4>1
    <3>2. CASE m.type # "done"
      <4>1. sdata'[s] = Applied(sdata[s], m.recs)
        BY <1>1, <3>2 DEF IInv, Typed, ClientOK
      <4> QED BY <4>1 DEF Applied
    <3> QED BY <3>1, <3>2
  <2>2. ASSUME NEW i \in Item \ stale'[s] PROVE i \notin stale[s] /\ i \notin Overtaken(s, k)
    <3>1. CASE m.type = "done"
      <4>1. Overtaken(s, k) = {}
        BY <3>1 DEF IInv, Good, Ordered, Empty, Overtaken
      <4> QED BY <1>4, <3>1, <4>1
    <3>2. CASE m.type # "done"
      BY <1>4, <3>2
    <3> QED BY <3>1, <3>2
  <2>3. ASSUME link'[s] = "open", conn'[s] \in registered'[s], NEW i \in Item \ stale'[s]
        PROVE  WillHave(s, i, Offered(s, i))'
    <3>1. WillHave(s, i, Offered(s, i))
      BY <1>0, <2>2, <2>3 DEF Mirrored, serverVars, IInv, Good
    <3>2. \A v : WillHave(s, i, v) => WillHave(s, i, v)'
      BY <1>3, <2>1, <2>2, ReceiveHave DEF IInv
    <3>3. Offered(s, i)' = Offered(s, i)
      BY <1>0 DEF Offered, Wants, serverVars
    <3> QED BY <3>1, <3>2, <3>3 DEF WillHave
  <2> QED BY <2>3 DEF Mirrored
<1>11. ASSUME NEW t \in Sub, t # s PROVE Good(t)'
  <2>1. UNCHANGED <<Own(t), subdata>>
    BY <1>0, <1>3, <1>4, <1>11 DEF Own, serverVars, boundVars
  <2> QED BY <2>1, GoodSame DEF IInv
<1> QED BY <1>5, <1>7, <1>9, <1>10, <1>11 DEF IInv, Good

LEMMA ReconnectInv == ASSUME IInv, NEW s \in Sub, Reconnect(s) PROVE IInv'
<1>0. /\ waiting[s]
      /\ waiting' = [waiting EXCEPT ![s] = FALSE]
      /\ UNCHANGED <<serverVars, queue, sdata, ready, delay, closed, stale, fails, boundVars>>
  BY DEF Reconnect
<1>1. /\ link[s] = "none" /\ queue[s] = <<>> /\ ~ready[s] /\ sdata[s] = Nothing /\ ~asked[s]
      /\ registered[s] \subseteq 1 .. conn[s]
      /\ s \in Refused => registered[s] = {}
  BY <1>0 DEF IInv, Good, Linked
<1>2. /\ conn[s] \in 1 .. MaxLoss + 1 /\ losses[s] \in 0 .. MaxLoss /\ MaxLoss \in Nat
      /\ conn[s] <= losses[s]
  <2>1. conn[s] \in 1 .. MaxLoss + 1 /\ losses[s] \in 0 .. MaxLoss /\ MaxLoss \in Nat
    BY BoundAssumption DEF IInv, Typed, LinkOK, CountsOK
  <2>2. conn[s] <= losses[s] + (IF link[s] \in {"connecting", "open"} THEN 1 ELSE 0)
    BY DEF IInv, Good, Linked
  <2> QED BY <1>1, <2>1, <2>2
<1>3. \/ link' = link /\ conn' = conn /\ asked' = asked
      \/ /\ link' = [link EXCEPT ![s] = "connecting"]
         /\ conn' = [conn EXCEPT ![s] = @ + 1]
         /\ asked' = [asked EXCEPT ![s] = TRUE]
  BY DEF Reconnect
<1>4. LinkOK'
  <2>1. conn[s] + 1 \in 1 .. MaxLoss + 1
    BY <1>1, <1>2
  <2> QED BY <1>3, <2>1 DEF IInv, Typed, LinkOK
<1>5. Typed'
  BY <1>0, <1>4 DEF serverVars, boundVars,
        IInv, Typed, ServerOK, QueueOK, ClientOK, StaleOK, DelayOK, CountsOK
<1>6. Good(s)'
  <2>1. /\ ~waiting'[s]
        /\ UNCHANGED <<queue[s], ready[s], sdata[s], registered[s], losses[s]>>
    BY <1>0 DEF serverVars, boundVars, IInv, Typed, ClientOK
  <2>2. \/ link'[s] = "none" /\ conn'[s] = conn[s] /\ ~asked'[s]
        \/ link'[s] = "connecting" /\ conn'[s] = conn[s] + 1 /\ asked'[s]
    BY <1>1, <1>3 DEF IInv, Typed, LinkOK
  <2>3. conn[s] + 1 \notin registered[s] /\ registered[s] \subseteq 1 .. conn[s] + 1
    BY <1>1, <1>2
  <2>4. Nothing' = Nothing
    BY DEF Nothing
  <2>5. Linked(s)'
    BY <1>1, <1>2, <2>1, <2>2, <2>3, <2>4 DEF Linked
  <2>6. DOMAIN queue'[s] = {}
    BY <1>1, <2>1
  <2> QED BY <2>2, <2>5, <2>6 DEF Good, Ordered, Mirrored
<1>7. ASSUME NEW t \in Sub, t # s PROVE Good(t)'
  <2>1. UNCHANGED <<Own(t), subdata>>
    BY <1>0, <1>3, <1>7 DEF Own, serverVars, boundVars, IInv, Typed, LinkOK, ClientOK
  <2> QED BY <2>1, GoodSame DEF IInv
<1> QED BY <1>5, <1>6, <1>7 DEF IInv

LEMMA CloseInv == ASSUME IInv, NEW s \in Sub, Close(s) PROVE IInv'
<1>1. /\ closed' = [closed EXCEPT ![s] = TRUE]
      /\ UNCHANGED <<serverVars, linkVars, sdata, ready, waiting, delay, stale, fails, boundVars>>
  BY DEF Close
<1>2. Typed'
  BY <1>1 DEF serverVars, linkVars, boundVars,
        IInv, Typed, ServerOK, LinkOK, QueueOK, ClientOK, StaleOK, DelayOK, CountsOK
<1>3. ASSUME NEW t \in Sub PROVE Good(t)'
  <2>1. UNCHANGED <<Own(t), subdata>>
    BY <1>1 DEF Own, serverVars, linkVars, boundVars
  <2> QED BY <2>1, GoodSame DEF IInv
<1> QED BY <1>2, <1>3 DEF IInv

-------------------------------------------------------------------------------
(* The induction step, one case for each disjunct of Next.                 *)
LEMMA Step == IInv /\ [Next]_vars => IInv'
<1> SUFFICES ASSUME IInv, [Next]_vars PROVE IInv'
  OBVIOUS
<1>1. ASSUME NEW i \in Item, NEW v \in Value \union {Null}, Put(i, v) PROVE IInv'
  BY <1>1, PutInv DEF Contents
<1>2. ASSUME NEW s \in Sub, Connected(s) PROVE IInv'
  BY <1>2, ConnectedInv
<1>3. ASSUME NEW s \in Sub, OnSubscribe(s) PROVE IInv'
  BY <1>3, OnSubscribeInv
<1>4. ASSUME NEW s \in Sub, NEW k \in DOMAIN queue[s], Receive(s, k) PROVE IInv'
  BY <1>4, ReceiveInv
<1>5. ASSUME NEW s \in Sub, Break(s) PROVE IInv'
  BY <1>5, BreakInv
<1>6. ASSUME NEW s \in Sub, Lose(s) \/ HeartbeatExpires(s) PROVE IInv'
  BY <1>6, LoseInv, HeartbeatExpiresInv
<1>7. ASSUME NEW s \in Sub, Reconnect(s) \/ Close(s) PROVE IInv'
  BY <1>7, ReconnectInv, CloseInv
<1>8. CASE UNCHANGED vars
  <2>1. Typed'
    BY <1>8 DEF vars, serverVars, linkVars, subVars, boundVars,
          IInv, Typed, ServerOK, LinkOK, QueueOK, ClientOK, StaleOK, DelayOK, CountsOK
  <2>2. ASSUME NEW s \in Sub PROVE Good(s)'
    <3>1. UNCHANGED <<Own(s), subdata>>
      BY <1>8 DEF Own, vars, serverVars, linkVars, subVars, boundVars
    <3> QED BY <3>1, GoodSame DEF IInv
  <2> QED BY <2>1, <2>2 DEF IInv
<1> QED BY <1>1, <1>2, <1>3, <1>4, <1>5, <1>6, <1>7, <1>8 DEF Next

THEOREM Invariance == Spec => []IInv
BY InvInit, Step, PTL DEF Spec

(* Every variable keeps its type, and the delay its limits (TruncBackoff,  *)
(* subscription.js:6-32).                                                  *)
THEOREM TypeCorrect == Spec => []TypeOK
<1>1. IInv => TypeOK
  BY TypeParts DEF IInv
<1> QED BY Invariance, <1>1, PTL

(***************************************************************************)
(* A subscriber misses nothing and is told nothing else, but for the items *)
(* of which a newer message overtook an older, longer one (server.js:86-   *)
(* 131, client.js:96-113).                                                 *)
(***************************************************************************)
THEOREM AlwaysMirror == Spec => []Mirror
<1>1. IInv => Mirror
  BY DEF IInv, Good, Mirrored, Mirror
<1> QED BY Invariance, <1>1, PTL

(***************************************************************************)
(* A subscription that is ready has been filled, or 'subscribe_done' has   *)
(* overtaken values that are longer than the window and are still coming   *)
(* (subscription.js:57-61, server.js:86-97).                               *)
(***************************************************************************)
THEOREM AlwaysReadyShown == Spec => []ReadyShown
<1>1. ASSUME IInv, NEW s \in Sub \ Refused, ready[s]
      PROVE  /\ conn[s] \in registered[s]
             /\ \A k \in DOMAIN queue[s] :
                   \/ queue[s][k].type = "update"
                   \/ queue[s][k].type = "snapshot" /\ queue[s][k].recs \in Long
  <2>1. Linked(s) /\ Ordered(s)
    BY <1>1 DEF IInv, Good
  <2>2. ~asked[s] /\ link[s] \notin {"none", "connecting"}
    BY <1>1, <2>1 DEF Linked
  <2>3. link[s] \in {"open", "dead"}
    BY <1>1, <2>2 DEF IInv, Typed, LinkOK
  <2> QED BY <1>1, <2>1, <2>2, <2>3 DEF Linked, Ordered
<1>2. IInv => ReadyShown
  BY <1>1 DEF ReadyShown
<1> QED BY Invariance, <1>2, PTL

-------------------------------------------------------------------------------
(***************************************************************************)
(* The delay.  The provers know nothing of exponentiation; that 2^n        *)
(* doubles when n grows by one is counted out: 2^n is the number of        *)
(* subsets of 1 .. n, and n + 1 is or is not in a subset of 1 .. n + 1.    *)
(***************************************************************************)
LEMMA SubsetsCounted ==
    ASSUME NEW n \in Nat
    PROVE  IsFiniteSet(SUBSET (1 .. n)) /\ Cardinality(SUBSET (1 .. n)) = 2 ^ n
<1>1. IsFiniteSet(1 .. n) /\ Cardinality(1 .. n) = n
  BY FS_Interval
<1> QED BY <1>1, FS_SUBSET

LEMMA PowerDoubles ==
    ASSUME NEW n \in Nat
    PROVE  2 ^ n \in Nat /\ 2 ^ (n + 1) = 2 ^ n + 2 ^ n
<1> DEFINE A == SUBSET (1 .. n)
           with(T) == T \union {n + 1}
           B == {with(T) : T \in A}
           f == [T \in A |-> with(T)]
<1>1. IsFiniteSet(A) /\ Cardinality(A) = 2 ^ n /\ 2 ^ n \in Nat
  BY SubsetsCounted, FS_CardinalityType
<1>2. Cardinality(SUBSET (1 .. n + 1)) = 2 ^ (n + 1)
  BY SubsetsCounted, n + 1 \in Nat
<1>3. \A T \in A : n + 1 \notin T
  OBVIOUS
<1>4. IsFiniteSet(B) /\ Cardinality(B) = 2 ^ n
  <2>1. f \in [A -> B] /\ \A U \in B : \E T \in A : f[T] = U
    OBVIOUS
  <2>2. \A T, U \in A : f[T] = f[U] => T = U
    <3>1. \A T \in A : T = f[T] \ {n + 1}
      BY <1>3
    <3> QED BY <3>1
  <2>3. f \in Bijection(A, B)
    <3> HIDE DEF A, B, f
    <3> QED BY <2>1, <2>2, Fun_IsBij
  <2>4. ExistsBijection(A, B)
    BY <2>3, Fun_ExistsBij
  <2> HIDE DEF A, B
  <2> QED BY <1>1, <2>4, FS_Bijection
<1>5. SUBSET (1 .. n + 1) = A \union B
  <2>1. 1 .. n + 1 = (1 .. n) \union {n + 1}
    OBVIOUS
  <2>2. ASSUME NEW T \in SUBSET (1 .. n + 1) PROVE T \in A \union B
    <3>1. CASE n + 1 \in T
      <4>1. T \ {n + 1} \in A /\ T = with(T \ {n + 1})
        BY <2>1, <3>1
      <4> QED BY <4>1
    <3>2. CASE n + 1 \notin T
      BY <2>1, <3>2
    <3> QED BY <3>1, <3>2
  <2>3. A \union B \subseteq SUBSET (1 .. n + 1)
    BY <2>1
  <2> QED BY <2>2, <2>3
<1>6. A \intersect B = {}
  BY <1>3
<1>7. Cardinality(A \union B) = 2 ^ n + 2 ^ n
  <2> HIDE DEF A, B
  <2>1. Cardinality(A \union B) = Cardinality(A) + Cardinality(B) - Cardinality(A \intersect B)
    BY <1>1, <1>4, FS_Union
  <2> QED BY <1>1, <1>4, <1>6, <2>1, FS_EmptySet
<1> HIDE DEF A, B
<1> QED BY <1>1, <1>2, <1>5, <1>7

LEMMA PowerZero == 2 ^ 0 = 1
<1>1. SUBSET (1 .. 0) = {{}}
  OBVIOUS
<1> QED BY <1>1, SubsetsCounted, FS_Singleton, 0 \in Nat

(* The delay after n losses in a row.                                      *)
DelayAfter(n) == IF MinDelay * 2 ^ n < MaxDelay THEN MinDelay * 2 ^ n ELSE MaxDelay

LEMMA FirstDelay == DelayAfter(0) = MinDelay
BY PowerZero, DelayAssumption DEF DelayAfter

LEMMA DelayStep == ASSUME NEW n \in Nat PROVE NextDelay(DelayAfter(n)) = DelayAfter(n + 1)
<1> DEFINE p == 2 ^ n
           d == MinDelay * p
<1>1. p \in Nat /\ 2 ^ (n + 1) = p + p
  BY PowerDoubles
<1>2. /\ d \in Nat /\ MinDelay * 2 ^ (n + 1) = d + d
      /\ DelayAfter(n) = IF d < MaxDelay THEN d ELSE MaxDelay
      /\ DelayAfter(n + 1) = IF d + d < MaxDelay THEN d + d ELSE MaxDelay
  <2> HIDE DEF p
  <2>1. d \in Nat /\ MinDelay * (p + p) = d + d
    BY <1>1, DelayAssumption
  <2> QED BY <1>1, <2>1 DEF DelayAfter, p
<1> HIDE DEF d
<1> QED BY <1>2, DelayAssumption DEF NextDelay

(* A lost connection: the next delay, after one more loss.                 *)
LEMMA LossDoubles ==
    ASSUME IInv, BackoffDoubles, NEW s \in Sub, HandleLost(s)
    PROVE  BackoffDoubles'
<1>1. PICK greeted \in BOOLEAN :
         /\ delay' = [delay EXCEPT ![s] = NextDelay(IF greeted THEN DelayReset(s) ELSE @)]
         /\ fails' = [fails EXCEPT ![s] = IF greeted THEN 1 ELSE @ + 1]
  BY DEF HandleLost
<1>2. delay \in [Sub -> MinDelay .. MaxDelay] /\ fails \in [Sub -> Nat]
  BY DEF IInv, Typed, DelayOK
<1>3. \A t \in Sub : delay[t] = DelayAfter(fails[t])
  BY DEF BackoffDoubles, DelayAfter
<1>4. delay'[s] = DelayAfter(fails'[s])
  <2>1. CASE greeted
    <3>1. delay'[s] = NextDelay(DelayAfter(0)) /\ fails'[s] = 0 + 1
      BY <1>1, <1>2, <2>1, FirstDelay DEF DelayReset
    <3> QED BY <3>1, DelayStep, 0 \in Nat
  <2>2. CASE ~greeted
    <3>1. delay'[s] = NextDelay(DelayAfter(fails[s])) /\ fails'[s] = fails[s] + 1 /\ fails[s] \in Nat
      BY <1>1, <1>2, <1>3, <2>2
    <3> QED BY <3>1, DelayStep
  <2> QED BY <2>1, <2>2
<1>5. \A t \in Sub : t # s => delay'[t] = delay[t] /\ fails'[t] = fails[t]
  BY <1>1, <1>2
<1>6. \A t \in Sub : delay'[t] = DelayAfter(fails'[t])
  BY <1>3, <1>4, <1>5
<1> QED BY <1>6 DEF BackoffDoubles, DelayAfter

(* A 'subscribe_done' resets both.                                         *)
LEMMA ReceiveDoubles ==
    ASSUME IInv, BackoffDoubles, NEW s \in Sub, NEW k \in DOMAIN queue[s], Receive(s, k)
    PROVE  BackoffDoubles'
<1>1. \/ delay' = [delay EXCEPT ![s] = MinDelay] /\ fails' = [fails EXCEPT ![s] = 0]
      \/ UNCHANGED <<delay, fails>>
  BY DEF Receive, DelayReset
<1>2. delay \in [Sub -> MinDelay .. MaxDelay] /\ fails \in [Sub -> Nat]
  BY DEF IInv, Typed, DelayOK
<1>3. \A t \in Sub : delay[t] = DelayAfter(fails[t])
  BY DEF BackoffDoubles, DelayAfter
<1>4. \A t \in Sub : delay'[t] = DelayAfter(fails'[t])
  BY <1>1, <1>2, <1>3, FirstDelay
<1> QED BY <1>4 DEF BackoffDoubles, DelayAfter

LEMMA StepDoubles == IInv /\ BackoffDoubles /\ [Next]_vars => BackoffDoubles'
<1> SUFFICES ASSUME IInv, BackoffDoubles, [Next]_vars PROVE BackoffDoubles'
  OBVIOUS
<1>1. ASSUME NEW s \in Sub, NEW k \in DOMAIN queue[s], Receive(s, k) PROVE BackoffDoubles'
  BY <1>1, ReceiveDoubles
<1>2. ASSUME NEW s \in Sub, Lose(s) \/ HeartbeatExpires(s) PROVE BackoffDoubles'
  BY <1>2, LossDoubles DEF Lose, HeartbeatExpires
<1>3. CASE \/ \E i \in Item, v \in Value \union {Null} : Put(i, v)
           \/ \E s \in Sub : \/ Connected(s) \/ OnSubscribe(s)
                             \/ Break(s) \/ Reconnect(s) \/ Close(s)
           \/ UNCHANGED vars
  <2>1. UNCHANGED <<delay, fails>>
    BY <1>3 DEF Put, Connected, OnSubscribe, Break, Reconnect, Close, vars, subVars
  <2> QED BY <2>1 DEF BackoffDoubles
<1> QED BY <1>1, <1>2, <1>3 DEF Next

(* The delay before a new connection doubles with every loss that no       *)
(* 'subscribe_done' came between, up to its limit (subscription.js:6-32,   *)
(* 57-68).                                                                 *)
THEOREM AlwaysBackoffDoubles == Spec => []BackoffDoubles
<1>1. Init => BackoffDoubles
  <2>1. Init => \A s \in Sub : delay[s] = MinDelay /\ fails[s] = 0
    BY DEF Init
  <2> QED BY <2>1, FirstDelay DEF BackoffDoubles, DelayAfter
<1> QED BY <1>1, StepDoubles, Invariance, PTL DEF Spec

-------------------------------------------------------------------------------
(***************************************************************************)
(* What a subscription waits for is on its way: without a connection the   *)
(* wait for the next one is under way, and with one that has been          *)
(* subscribed, a subscription that is not ready has its 'subscribe_done'   *)
(* coming, in whatever order messages complete.                            *)
(***************************************************************************)
DoneComing(s) == \E k \in DOMAIN queue[s] : queue[s][k].type = "done"

Awaited(s) ==
    /\ link[s] = "none" => waiting[s] \/ closed[s]
    /\ link[s] = "open" /\ ~asked[s] /\ ~ready[s] => DoneComing(s)

AllAwaited == \A s \in Sub : Awaited(s)

(* What is not taken out of a queue is still in it.                        *)
LEMMA RemoveKeeps ==
    ASSUME NEW S, NEW q \in Seq(S), NEW k \in DOMAIN q, NEW j \in DOMAIN q, j # k
    PROVE  \E i \in DOMAIN RemoveAt(q, k) : RemoveAt(q, k)[i] = q[j]
<1> DEFINE i == IF j < k THEN j ELSE j - 1
<1>1. /\ k \in 1 .. Len(q) /\ j \in 1 .. Len(q) /\ Len(q) \in Nat
      /\ DOMAIN RemoveAt(q, k) = 1 .. Len(q) - 1
      /\ \A l \in 1 .. Len(q) - 1 : RemoveAt(q, k)[l] = IF l < k THEN q[l] ELSE q[l + 1]
  BY RemoveIs
<1>2. i \in 1 .. Len(q) - 1 /\ (IF i < k THEN i ELSE i + 1) = j
  BY <1>1
<1> HIDE DEF i
<1>3. RemoveAt(q, k)[i] = q[j]
  BY <1>1, <1>2
<1> QED BY <1>1, <1>2, <1>3

LEMMA PutAwaited ==
    ASSUME IInv, AllAwaited, NEW i \in Item, NEW v \in Contents, Put(i, v) PROVE AllAwaited'
<1>1. /\ UNCHANGED <<link, asked, subVars>>
      /\ \A s \in Sub : \/ queue'[s] = queue[s]
                        \/ queue'[s] = Append(queue[s], Update(i, v))
  BY DEF Put
<1>2. ASSUME NEW s \in Sub, DoneComing(s) PROVE DoneComing(s)'
  <2>1. queue[s] \in Seq(MessageSet) /\ Update(i, v) \in MessageSet
    BY UpdateType DEF IInv, Typed, QueueOK
  <2>2. \A k \in DOMAIN queue[s] : k \in DOMAIN queue'[s] /\ queue'[s][k] = queue[s][k]
    BY <1>1, <2>1, AppendIs
  <2> QED BY <1>2, <2>2 DEF DoneComing
<1> QED BY <1>1, <1>2 DEF AllAwaited, Awaited, subVars

(* A subscribe message is answered, whatever its filter.                   *)
LEMMA OnSubscribeAwaited ==
    ASSUME IInv, AllAwaited, NEW s \in Sub, OnSubscribe(s) PROVE AllAwaited'
<1>1. /\ link[s] = "open" /\ asked[s]
      /\ asked' = [asked EXCEPT ![s] = FALSE] /\ UNCHANGED <<link, subVars>>
      /\ queue' = [queue EXCEPT ![s] = IF s \in Refused THEN Append(@, Done) ELSE @ \o Greeting(s)]
  BY DEF OnSubscribe
<1>2. queue \in [Sub -> Seq(MessageSet)] /\ asked \in [Sub -> BOOLEAN]
  BY DEF IInv, Typed, QueueOK, LinkOK
<1>3. queue[s] = <<>>
  BY <1>1 DEF IInv, Good, Linked
<1>4. DoneComing(s)'
  <2>1. CASE s \in Refused
    <3>1. queue'[s] = Append(queue[s], Done)
      BY <1>1, <1>2, <2>1
    <3>2. /\ Len(queue[s]) + 1 \in DOMAIN queue'[s]
          /\ queue'[s][Len(queue[s]) + 1] = Done
      BY <1>2, <3>1, DoneType, AppendIs
    <3> QED BY <3>2, DoneType DEF DoneComing
  <2>2. CASE s \notin Refused
    <3>1. Greeting(s) \in Seq(MessageSet)
      BY DoneType, SnapshotType DEF Greeting, IInv
    <3>2. queue'[s] = Greeting(s)
      BY <1>1, <1>2, <1>3, <2>2, <3>1, ConcatEmptySeq
    <3>3. 2 \in DOMAIN queue'[s] /\ queue'[s][2] = Done
      BY <3>2 DEF Greeting
    <3> QED BY <3>3, DoneType DEF DoneComing
  <2> QED BY <2>1, <2>2
<1>5. Awaited(s)'
  BY <1>1, <1>4 DEF Awaited
<1>6. ASSUME NEW t \in Sub, t # s PROVE Awaited(t)'
  BY <1>1, <1>2, <1>6 DEF AllAwaited, Awaited, DoneComing, subVars
<1> QED BY <1>5, <1>6 DEF AllAwaited

(* Only a 'subscribe_done' takes the one that was coming away, and it      *)
(* makes the subscription ready.                                           *)
LEMMA ReceiveAwaited ==
    ASSUME IInv, AllAwaited, NEW s \in Sub, NEW k \in DOMAIN queue[s], Receive(s, k)
    PROVE  AllAwaited'
<1>1. /\ queue' = [queue EXCEPT ![s] = RemoveAt(@, k)]
      /\ UNCHANGED <<link, asked, waiting, closed>>
      /\ ready' = IF queue[s][k].type = "done" THEN [ready EXCEPT ![s] = TRUE] ELSE ready
  BY DEF Receive
<1>2. queue \in [Sub -> Seq(MessageSet)] /\ ready \in [Sub -> BOOLEAN]
  BY DEF IInv, Typed, QueueOK, ClientOK
<1>3. ASSUME DoneComing(s), queue[s][k].type # "done" PROVE DoneComing(s)'
  <2>1. PICK j \in DOMAIN queue[s] : queue[s][j].type = "done" /\ j # k
    BY <1>3 DEF DoneComing
  <2>2. PICK l \in DOMAIN RemoveAt(queue[s], k) : RemoveAt(queue[s], k)[l] = queue[s][j]
    BY <1>2, <2>1, RemoveKeeps
  <2> QED BY <1>1, <1>2, <2>1, <2>2 DEF DoneComing
<1>4. Awaited(s)'
  BY <1>1, <1>2, <1>3 DEF AllAwaited, Awaited
<1>5. ASSUME NEW t \in Sub, t # s PROVE Awaited(t)'
  BY <1>1, <1>2, <1>5 DEF AllAwaited, Awaited, DoneComing
<1> QED BY <1>4, <1>5 DEF AllAwaited

LEMMA LostAwaited ==
    ASSUME IInv, AllAwaited, NEW s \in Sub, HandleLost(s) PROVE AllAwaited'
<1>1. /\ waiting' = [waiting EXCEPT ![s] = TRUE] /\ link' = [link EXCEPT ![s] = "none"]
      /\ \A t \in Sub : t # s => UNCHANGED <<asked[t], queue[t], ready[t]>>
      /\ UNCHANGED closed
  BY DEF HandleLost, IInv, Typed, LinkOK, QueueOK, ClientOK
<1> QED BY <1>1 DEF AllAwaited, Awaited, DoneComing, IInv, Typed, LinkOK, ClientOK

LEMMA LinkAwaited ==
    ASSUME IInv, AllAwaited, NEW s \in Sub, Connected(s) \/ Break(s) \/ Reconnect(s) \/ Close(s)
    PROVE  AllAwaited'
<1>1. link[s] = "connecting" => asked[s]
  BY DEF IInv, Good, Linked
<1>2. /\ link \in [Sub -> {"none", "connecting", "open", "dead"}] /\ asked \in [Sub -> BOOLEAN]
      /\ waiting \in [Sub -> BOOLEAN] /\ closed \in [Sub -> BOOLEAN]
      /\ queue \in [Sub -> Seq(MessageSet)]
  BY DEF IInv, Typed, LinkOK, ClientOK, QueueOK
<1>3. CASE Connected(s)
  BY <1>1, <1>2, <1>3 DEF Connected, subVars, AllAwaited, Awaited, DoneComing
<1>4. CASE Break(s)
  BY <1>2, <1>4 DEF Break, subVars, AllAwaited, Awaited, DoneComing
<1>5. CASE Reconnect(s)
  BY <1>2, <1>5 DEF Reconnect, AllAwaited, Awaited, DoneComing
<1>6. CASE Close(s)
  BY <1>2, <1>6 DEF Close, linkVars, AllAwaited, Awaited, DoneComing
<1> QED BY <1>3, <1>4, <1>5, <1>6

LEMMA StepAwaited == IInv /\ AllAwaited /\ [Next]_vars => AllAwaited'
<1> SUFFICES ASSUME IInv, AllAwaited, [Next]_vars PROVE AllAwaited'
  OBVIOUS
<1>1. ASSUME NEW i \in Item, NEW v \in Value \union {Null}, Put(i, v) PROVE AllAwaited'
  BY <1>1, PutAwaited DEF Contents
<1>2. ASSUME NEW s \in Sub, OnSubscribe(s) PROVE AllAwaited'
  BY <1>2, OnSubscribeAwaited
<1>3. ASSUME NEW s \in Sub, NEW k \in DOMAIN queue[s], Receive(s, k) PROVE AllAwaited'
  BY <1>3, ReceiveAwaited
<1>4. ASSUME NEW s \in Sub, Lose(s) \/ HeartbeatExpires(s) PROVE AllAwaited'
  BY <1>4, LostAwaited DEF Lose, HeartbeatExpires
<1>5. ASSUME NEW s \in Sub, Connected(s) \/ Break(s) \/ Reconnect(s) \/ Close(s) PROVE AllAwaited'
  BY <1>5, LinkAwaited
<1>6. CASE UNCHANGED vars
  BY <1>6 DEF vars, linkVars, subVars, AllAwaited, Awaited, DoneComing
<1> QED BY <1>1, <1>2, <1>3, <1>4, <1>5, <1>6 DEF Next

LEMMA AwaitedInvariance == Spec => []AllAwaited
<1>1. Init => AllAwaited
  BY DEF Init, AllAwaited, Awaited
<1> QED BY <1>1, StepAwaited, Invariance, PTL DEF Spec

(***************************************************************************)
(* A subscription that is not closed never stops half way, in whatever     *)
(* order messages complete: it waits to connect again, its connection is   *)
(* being made or is broken (which the heartbeat finds out), its subscribe  *)
(* message or the answer to it is on its way, or it is ready               *)
(* (subscription.js:34-81, client.js:57-61).                               *)
(***************************************************************************)
NeverStuck ==
    \A s \in Sub :
       \/ closed[s] \/ waiting[s] \/ link[s] \in {"connecting", "dead"} \/ asked[s]
       \/ DoneComing(s) \/ ready[s]

THEOREM AlwaysGoesOn == Spec => []NeverStuck
<1>1. ASSUME IInv, AllAwaited, NEW s \in Sub
      PROVE  \/ closed[s] \/ waiting[s] \/ link[s] \in {"connecting", "dead"} \/ asked[s]
             \/ DoneComing(s) \/ ready[s]
  <2>1. link[s] \in {"none", "connecting", "open", "dead"}
    BY <1>1 DEF IInv, Typed, LinkOK
  <2> QED BY <1>1, <2>1 DEF AllAwaited, Awaited
<1>2. IInv /\ AllAwaited => NeverStuck
  BY <1>1 DEF NeverStuck
<1> QED BY <1>2, Invariance, AwaitedInvariance, PTL

(***************************************************************************)
(* A subscription that has nothing left to wait for and was not refused    *)
(* shows what the server has, but for the items of which a newer message   *)
(* overtook an older one: the part of SubscribersFollow that needs no      *)
(* fairness (server.js:86-131, client.js:96-113, subscription.js:34-81).   *)
(***************************************************************************)
Settled ==
    \A s \in Sub \ Refused :
       \/ closed[s] \/ waiting[s] \/ link[s] \in {"connecting", "dead"} \/ asked[s]
       \/ queue[s] # <<>> \/ Shows(s)

THEOREM AlwaysSettled == Spec => []Settled
<1>1. ASSUME IInv, AllAwaited, NEW s \in Sub \ Refused,
             ~closed[s], ~waiting[s], link[s] \notin {"connecting", "dead"}, ~asked[s],
             queue[s] = <<>>
      PROVE  Shows(s)
  <2>1. link[s] = "open"
    BY <1>1 DEF IInv, Typed, LinkOK, AllAwaited, Awaited
  <2>2. ready[s]
    BY <1>1, <2>1 DEF AllAwaited, Awaited, DoneComing
  <2>3. conn[s] \in registered[s]
    BY <1>1, <2>1 DEF IInv, Good, Linked
  <2>4. ASSUME NEW i \in Item \ stale[s] PROVE sdata[s][i] = Offered(s, i)
    <3>1. WillHave(s, i, Offered(s, i))
      BY <1>1, <2>1, <2>3 DEF IInv, Good, Mirrored
    <3>2. Mentions(s, i) = {}
      BY <1>1 DEF Mentions
    <3> QED BY <3>1, <3>2 DEF WillHave
  <2> QED BY <2>2, <2>4 DEF Shows
<1>2. IInv /\ AllAwaited => Settled
  BY <1>1 DEF Settled
<1> QED BY <1>2, Invariance, AwaitedInvariance, PTL
=============================================================================
