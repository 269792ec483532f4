---------------------------- MODULE AnnouncerProofs ----------------------------
(***************************************************************************)
(* Proofs about Announcer, for any addresses and bounds.                   *)
(*                                                                         *)
(* A packet may enter the cache when the address still waits for one       *)
(* (Pending).  Unless the address is racing, everything of it that is in   *)
(* compression is then current, since the first went in when nothing else  *)
(* was there, and the later ones after no change (Waiting).  What is sent  *)
(* is then current, too, and something current always is on its way to be  *)
(* sent (Underway).                                                        *)
(***************************************************************************)
EXTENDS Announcer, SequenceTheorems, TLAPS

(* An address that waits has a packet in compression, and only current     *)
(* ones unless it is racing.                                               *)
AllCurrent(a) == \A i \in DOMAIN builds[a] : builds[a][i] = Current

Waiting ==
    \A a \in Address : packet[a] = Pending =>
       builds[a] # <<>> /\ (a \notin racing => AllCurrent(a))

IInv == TypeOK /\ CacheCurrent /\ Waiting

(* No packet is one of the two marks.                                      *)
LEMMA Marks == Absent \notin Packet /\ Pending \notin Packet /\ Absent # Pending
<1>1. Packet \subseteq [conf : Nat, negative : BOOLEAN]
  BY AnnouncerAssumption DEF Packet
<1> QED BY <1>1, PacketAssumption

(* Taking an element off a sequence, and adding one.                       *)
LEMMA RemoveType ==
    ASSUME NEW S, NEW s \in Seq(S), NEW i \in DOMAIN s
    PROVE  RemoveAt(s, i) \in Seq(S) /\ s[i] \in S
<1>1. Len(s) \in Nat /\ i \in 1 .. Len(s) /\ \A k \in 1 .. Len(s) : s[k] \in S
  BY LenProperties, ElementOfSeq
<1>2. SubSeq(s, 1, i - 1) \in Seq(S) /\ SubSeq(s, i + 1, Len(s)) \in Seq(S)
  BY <1>1, SubSeqProperties
<1> QED BY <1>1, <1>2, ConcatProperties DEF RemoveAt

LEMMA AppendKeeps ==
    ASSUME NEW S, NEW s \in Seq(S), NEW x \in S
    PROVE  /\ Append(s, x) \in Seq(S) /\ Append(s, x) # <<>>
           /\ (\A i \in DOMAIN s : s[i] = x) =>
                 \A i \in DOMAIN Append(s, x) : Append(s, x)[i] = x
OBVIOUS

LEMMA CurrentPacket == TypeOK => Current \in Packet
BY DEF TypeOK, Current, Packet

(* The initial states satisfy the invariant.                               *)
LEMMA InvInit == Init => IInv
<1> SUFFICES ASSUME Init PROVE IInv
  OBVIOUS
<1>1. <<>> \in Seq(Packet) /\ Len(<<>>) = 0
  BY EmptySeq
<1>2. TypeOK
  <2>1. conf \in 0 .. MaxChange /\ switches \in 0 .. MaxSwitch /\ burst \in 0 .. BurstLength
    BY AnnouncerAssumption DEF Init, BurstLength
  <2>2. /\ suspended \in BOOLEAN /\ interval \in BOOLEAN /\ leaked \in BOOLEAN
        /\ up \subseteq Address /\ racing \subseteq Address
    BY DEF Init
  <2>3. builds \in [Address -> Seq(Packet)]
    BY <1>1 DEF Init
  <2>4. /\ packet \in [Address -> Packet \union {Absent, Pending}]
        /\ sent \in [Address -> Packet \union {Absent}]
    BY DEF Init
  <2> QED BY <2>1, <2>2, <2>3, <2>4 DEF TypeOK
<1>3. CacheCurrent /\ Waiting
  BY Marks DEF Init, CacheCurrent, Waiting
<1> QED BY <1>2, <1>3 DEF IInv

-------------------------------------------------------------------------------
(***************************************************************************)
(* A send, with a cache and builds that are right for what is then current.*)
(***************************************************************************)
LEMMA SendKeeps ==
    ASSUME TypeOK, NEW cache \in [Address -> Packet \union {Absent, Pending}],
           Current' \in Packet, Send(cache, Current'),
           \A a \in Address \ racing : cache[a] \in Packet => cache[a] = Current',
           \A a \in Address : cache[a] = Pending =>
              /\ builds[a] # <<>>
              /\ a \notin racing => \A i \in DOMAIN builds[a] : builds[a][i] = Current'
    PROVE  /\ packet' \in [Address -> Packet \union {Absent, Pending}]
           /\ builds' \in [Address -> Seq(Packet)]
           /\ sent' \in [Address -> Packet \union {Absent}]
           /\ racing' \subseteq Address
           /\ CacheCurrent' /\ Waiting'
<1>1. /\ packet' = [a \in Address |-> IF a \in up /\ cache[a] = Absent THEN Pending ELSE cache[a]]
      /\ builds' = [a \in Address |-> IF a \in up /\ cache[a] \in {Absent, Pending}
                                      THEN Append(builds[a], Current') ELSE builds[a]]
      /\ racing' = {a \in Address : IF a \in up /\ cache[a] = Absent
                                     THEN builds[a] # <<>> ELSE a \in racing}
      /\ sent'   = [a \in Address |-> IF a \in up /\ cache[a] \in Packet
                                      THEN cache[a] ELSE sent[a]]
  BY DEF Send
<1>2. ASSUME NEW a \in Address
      PROVE  /\ builds[a] \in Seq(Packet) /\ Append(builds[a], Current') \in Seq(Packet)
             /\ Append(builds[a], Current') # <<>>
             /\ (\A i \in DOMAIN builds[a] : builds[a][i] = Current') =>
                   \A i \in DOMAIN Append(builds[a], Current') :
                      Append(builds[a], Current')[i] = Current'
  <2>1. builds[a] \in Seq(Packet)
    BY DEF TypeOK
  <2> QED BY <2>1, AppendKeeps
<1>3. /\ packet' \in [Address -> Packet \union {Absent, Pending}]
      /\ racing' \subseteq Address
  BY <1>1
<1>4. builds' \in [Address -> Seq(Packet)]
  BY <1>1, <1>2
<1>5. sent' \in [Address -> Packet \union {Absent}]
  BY <1>1 DEF TypeOK
<1>6. CacheCurrent'
  <2> SUFFICES ASSUME NEW a \in Address, a \notin racing', packet'[a] \in Packet
               PROVE  packet'[a] = Current'
    BY DEF CacheCurrent
  <2>1. packet'[a] = cache[a] /\ ~(a \in up /\ cache[a] = Absent)
    BY <1>1, Marks
  <2>2. a \notin racing
    BY <1>1, <2>1
  <2> QED BY <2>1, <2>2
<1>7. Waiting'
  <2> SUFFICES ASSUME NEW a \in Address, packet'[a] = Pending
               PROVE  builds'[a] # <<>> /\ (a \notin racing' => AllCurrent(a)')
    BY DEF Waiting
  <2>1. CASE a \in up /\ cache[a] = Absent
    <3>1. /\ builds'[a] = Append(builds[a], Current')
          /\ a \notin racing' => builds[a] = <<>>
      BY <1>1, <2>1
    <3>2. builds[a] = <<>> => \A i \in DOMAIN builds[a] : builds[a][i] = Current'
      BY EmptySeq
    <3> QED BY <1>2, <3>1, <3>2 DEF AllCurrent
  <2>2. CASE ~(a \in up /\ cache[a] = Absent)
    <3>1. /\ cache[a] = Pending /\ (a \notin racing' => a \notin racing)
          /\ builds'[a] \in {builds[a], Append(builds[a], Current')}
      BY <1>1, <2>2
    <3> QED BY <1>2, <3>1 DEF AllCurrent
  <2> QED BY <2>1, <2>2
<1> QED BY <1>3, <1>4, <1>5, <1>6, <1>7

(* What suspending and starting do besides sending.                        *)
LEMMA Switch ==
    ASSUME TypeOK, Suspend \/ Start
    PROVE  /\ UNCHANGED <<conf, up>> /\ interval' = ~suspended'
           /\ suspended' \in BOOLEAN /\ interval' \in BOOLEAN /\ leaked' \in BOOLEAN
           /\ burst' \in 0 .. BurstLength /\ switches' \in 0 .. MaxSwitch
           /\ Send(Emptied, Current') /\ Current' \in Packet
           /\ Emptied \in [Address -> Packet \union {Absent, Pending}]
           /\ \A a \in Address : Emptied[a] = Absent
<1>1. /\ UNCHANGED <<conf, up>> /\ suspended' \in BOOLEAN /\ interval' = ~suspended'
      /\ switches' = switches + 1 /\ switches < MaxSwitch
  BY DEF Suspend, Start
<1>2. leaked' \in BOOLEAN
  BY DEF Suspend, Start, TypeOK
<1>3. burst' \in 0 .. BurstLength
  <2>1. burst' \in {0, 4}
    BY DEF Suspend, Start, BurstLength
  <2> QED BY <2>1 DEF BurstLength
<1>4. switches' \in 0 .. MaxSwitch
  BY <1>1, AnnouncerAssumption DEF TypeOK
<1>5. Send(Emptied, Current')
  BY <1>1 DEF Suspend, Start, Current, Invalidated
<1>6. Current' \in Packet
  BY <1>1 DEF TypeOK, Current, Packet
<1>7. /\ Emptied \in [Address -> Packet \union {Absent, Pending}]
      /\ \A a \in Address : Emptied[a] = Absent
  BY DEF Emptied
<1> QED BY <1>1, <1>2, <1>3, <1>4, <1>5, <1>6, <1>7

(* Suspending and starting announce the new state from an empty cache.     *)
LEMMA SwitchKeeps ==
    ASSUME IInv, Suspend \/ Start
    PROVE  IInv'
<1>1. TypeOK
  BY DEF IInv
<1>2. \A a \in Address : Emptied[a] \notin Packet /\ Emptied[a] # Pending
  BY <1>1, Switch, Marks
<1>3. /\ packet' \in [Address -> Packet \union {Absent, Pending}]
      /\ builds' \in [Address -> Seq(Packet)]
      /\ sent' \in [Address -> Packet \union {Absent}]
      /\ racing' \subseteq Address
      /\ CacheCurrent' /\ Waiting'
  BY <1>1, <1>2, Switch, SendKeeps
<1>4. TypeOK'
  BY <1>1, <1>3, Switch DEF TypeOK
<1> QED BY <1>3, <1>4 DEF IInv

(* A timer sends what is cached, or has a packet made.                     *)
LEMMA TickKeeps == ASSUME IInv, Tick PROVE IInv'
<1>1. TypeOK /\ CacheCurrent /\ Waiting
  BY DEF IInv
<1>2. /\ UNCHANGED <<conf, suspended, up, interval, leaked, switches>>
      /\ Send(packet, Current) /\ burst' \in 0 .. BurstLength
  BY <1>1 DEF Tick, Fires, TypeOK, BurstLength
<1>3. Current' = Current /\ Current \in Packet
  BY <1>1, <1>2, CurrentPacket DEF Current
<1>4. packet \in [Address -> Packet \union {Absent, Pending}]
  BY <1>1 DEF TypeOK
<1>5. /\ \A a \in Address \ racing : packet[a] \in Packet => packet[a] = Current'
      /\ \A a \in Address : packet[a] = Pending =>
            /\ builds[a] # <<>>
            /\ a \notin racing => \A i \in DOMAIN builds[a] : builds[a][i] = Current'
  BY <1>1, <1>3 DEF CacheCurrent, Waiting, AllCurrent
<1>6. Send(packet, Current') /\ Current' \in Packet
  BY <1>2, <1>3
<1>7. /\ packet' \in [Address -> Packet \union {Absent, Pending}]
      /\ builds' \in [Address -> Seq(Packet)]
      /\ sent' \in [Address -> Packet \union {Absent}]
      /\ racing' \subseteq Address
      /\ CacheCurrent' /\ Waiting'
  BY <1>1, <1>4, <1>5, <1>6, SendKeeps
<1>8. TypeOK'
  BY <1>1, <1>2, <1>7 DEF TypeOK
<1> QED BY <1>7, <1>8 DEF IInv

-------------------------------------------------------------------------------
(* A change empties the cache; what is in compression is then of no use.   *)
LEMMA ChangeKeeps == ASSUME IInv, Change PROVE IInv'
<1>1. /\ packet' = Emptied /\ conf < MaxChange /\ conf' = conf + 1
      /\ UNCHANGED <<suspended, up, builds, interval, leaked, burst, sent, racing, switches>>
  BY DEF Change, Invalidated
<1>2. Emptied \in [Address -> Packet \union {Absent, Pending}]
  BY DEF Emptied
<1>3. conf' \in 0 .. MaxChange
  BY <1>1, AnnouncerAssumption DEF IInv, TypeOK
<1>4. TypeOK'
  BY <1>1, <1>2, <1>3 DEF IInv, TypeOK
<1>5. CacheCurrent' /\ Waiting'
  BY <1>1, Marks DEF CacheCurrent, Waiting, Emptied
<1> QED BY <1>4, <1>5 DEF IInv

(* What becomes of a packet that is ready.                                 *)
LEMMA CompressedCases ==
    ASSUME IInv, NEW a \in Address, NEW i \in DOMAIN builds[a], Compressed(a, i)
    PROVE  /\ UNCHANGED <<conf, suspended, up, interval, leaked, burst, switches>>
           /\ Current' = Current /\ Current \in Packet
           /\ \E rest \in Seq(Packet), pkt \in Packet :
                \/ /\ packet[a] = Absent /\ packet' = [packet EXCEPT ![a] = Pending]
                   /\ builds' = [builds EXCEPT ![a] = Append(rest, Current)]
                   /\ racing' = IF rest = <<>> THEN racing \ {a} ELSE racing \union {a}
                   /\ sent' = sent
                \/ /\ packet[a] # Absent /\ packet' = [packet EXCEPT ![a] = pkt]
                   /\ builds' = [builds EXCEPT ![a] = rest]
                   /\ racing' = racing /\ sent' = [sent EXCEPT ![a] = pkt]
                   /\ a \notin racing => pkt = Current
<1> DEFINE rest == RemoveAt(builds[a], i)
           pkt  == IF packet[a] = Pending THEN builds[a][i] ELSE packet[a]
<1>1. TypeOK /\ CacheCurrent /\ Waiting
  BY DEF IInv
<1>2. UNCHANGED <<conf, suspended, up, interval, leaked, burst, switches>>
  BY DEF Compressed
<1>3. Current' = Current /\ Current \in Packet
  BY <1>1, <1>2, CurrentPacket DEF Current
<1>4. builds[a] \in Seq(Packet)
  BY <1>1 DEF TypeOK
<1>5. rest \in Seq(Packet) /\ builds[a][i] \in Packet
  BY <1>4, RemoveType
<1>6. \/ /\ pkt = Absent /\ packet' = [packet EXCEPT ![a] = Pending]
         /\ builds' = [builds EXCEPT ![a] = Append(rest, Current)]
         /\ racing' = IF rest = <<>> THEN racing \ {a} ELSE racing \union {a}
         /\ sent' = sent
      \/ /\ pkt # Absent /\ packet' = [packet EXCEPT ![a] = pkt]
         /\ builds' = [builds EXCEPT ![a] = rest]
         /\ racing' = racing /\ sent' = [sent EXCEPT ![a] = pkt]
  BY DEF Compressed, StillWanted
<1>7. pkt = Absent <=> packet[a] = Absent
  BY <1>5, Marks
<1>8. pkt # Absent => pkt \in Packet
  BY <1>1, <1>5 DEF TypeOK
<1>9. pkt # Absent /\ a \notin racing => pkt = Current
  BY <1>1, <1>8 DEF Waiting, AllCurrent, CacheCurrent
<1> HIDE DEF rest, pkt
<1> QED BY <1>2, <1>3, <1>5, <1>6, <1>7, <1>8, <1>9

(* A packet that is ready is sent if it was waited for; else the cached    *)
(* one is, or a current one goes into compression.                         *)
LEMMA CompressedKeeps ==
    ASSUME IInv, NEW a \in Address, NEW i \in DOMAIN builds[a], Compressed(a, i)
    PROVE  IInv'
<1>1. TypeOK /\ CacheCurrent /\ Waiting
  BY DEF IInv
<1>2. /\ UNCHANGED <<conf, suspended, up, interval, leaked, burst, switches>>
      /\ Current' = Current /\ Current \in Packet
  BY CompressedCases
<1>3. PICK rest \in Seq(Packet), pkt \in Packet :
        \/ /\ packet[a] = Absent /\ packet' = [packet EXCEPT ![a] = Pending]
           /\ builds' = [builds EXCEPT ![a] = Append(rest, Current)]
           /\ racing' = IF rest = <<>> THEN racing \ {a} ELSE racing \union {a}
           /\ sent' = sent
        \/ /\ packet[a] # Absent /\ packet' = [packet EXCEPT ![a] = pkt]
           /\ builds' = [builds EXCEPT ![a] = rest]
           /\ racing' = racing /\ sent' = [sent EXCEPT ![a] = pkt]
           /\ a \notin racing => pkt = Current
  BY CompressedCases
<1>4. CASE /\ packet[a] = Absent /\ packet' = [packet EXCEPT ![a] = Pending]
           /\ builds' = [builds EXCEPT ![a] = Append(rest, Current)]
           /\ racing' = IF rest = <<>> THEN racing \ {a} ELSE racing \union {a}
           /\ sent' = sent
  <2>1. /\ Append(rest, Current) \in Seq(Packet) /\ Append(rest, Current) # <<>>
        /\ (\A k \in DOMAIN rest : rest[k] = Current) =>
              \A k \in DOMAIN Append(rest, Current) : Append(rest, Current)[k] = Current
    BY <1>2, AppendKeeps
  <2>2. TypeOK'
    BY <1>1, <1>2, <1>4, <2>1 DEF TypeOK
  <2>3. \A b \in Address : b # a => (b \in racing' <=> b \in racing)
    BY <1>4
  <2>4. CacheCurrent'
    <3> SUFFICES ASSUME NEW b \in Address, b \notin racing', packet'[b] \in Packet
                 PROVE  packet'[b] = Current'
      BY DEF CacheCurrent
    <3>1. b # a
      BY <1>1, <1>4, Marks DEF TypeOK
    <3>2. packet'[b] = packet[b] /\ b \notin racing
      BY <1>1, <1>4, <2>3, <3>1 DEF TypeOK
    <3> QED BY <1>1, <1>2, <3>2 DEF CacheCurrent
  <2>5. Waiting'
    <3> SUFFICES ASSUME NEW b \in Address, packet'[b] = Pending
                 PROVE  builds'[b] # <<>> /\ (b \notin racing' => AllCurrent(b)')
      BY DEF Waiting
    <3>1. CASE b = a
      <4>1. builds'[b] = Append(rest, Current)
        BY <1>1, <1>4, <3>1 DEF TypeOK
      <4>2. b \notin racing' => rest = <<>>
        BY <1>4, <3>1
      <4>3. rest = <<>> => \A k \in DOMAIN rest : rest[k] = Current
        BY EmptySeq
      <4> QED BY <1>2, <2>1, <4>1, <4>2, <4>3 DEF AllCurrent
    <3>2. CASE b # a
      <4>1. packet[b] = Pending /\ builds'[b] = builds[b]
        BY <1>1, <1>4, <3>2 DEF TypeOK
      <4> QED BY <1>1, <1>2, <2>3, <3>2, <4>1 DEF Waiting, AllCurrent
    <3> QED BY <3>1, <3>2
  <2> QED BY <2>2, <2>4, <2>5 DEF IInv
<1>5. CASE /\ packet[a] # Absent /\ packet' = [packet EXCEPT ![a] = pkt]
           /\ builds' = [builds EXCEPT ![a] = rest]
           /\ racing' = racing /\ sent' = [sent EXCEPT ![a] = pkt]
           /\ a \notin racing => pkt = Current
  <2>1. TypeOK'
    BY <1>1, <1>2, <1>5 DEF TypeOK
  <2>2. CacheCurrent'
    BY <1>1, <1>2, <1>5 DEF CacheCurrent, TypeOK
  <2>3. Waiting'
    <3> SUFFICES ASSUME NEW b \in Address, packet'[b] = Pending
                 PROVE  builds'[b] # <<>> /\ (b \notin racing' => AllCurrent(b)')
      BY DEF Waiting
    <3>1. b # a
      BY <1>1, <1>5, Marks DEF TypeOK
    <3>2. packet[b] = Pending /\ builds'[b] = builds[b]
      BY <1>1, <1>5, <3>1 DEF TypeOK
    <3> QED BY <1>1, <1>2, <1>5, <3>2 DEF Waiting, AllCurrent
  <2> QED BY <2>1, <2>2, <2>3 DEF IInv
<1> QED BY <1>3, <1>4, <1>5

(* Every step preserves the invariant.                                     *)
LEMMA InvNext == IInv /\ [Next]_vars => IInv'
<1> SUFFICES ASSUME IInv, [Next]_vars PROVE IInv'
  OBVIOUS
<1>1. CASE Change
  BY <1>1, ChangeKeeps
<1>2. CASE Suspend \/ Start
  BY <1>2, SwitchKeeps
<1>3. CASE Tick
  BY <1>3, TickKeeps
<1>4. ASSUME NEW a \in Address, Listening(a) PROVE IInv'
  BY <1>4 DEF Listening, IInv, TypeOK, CacheCurrent, Waiting, AllCurrent, Current
<1>5. ASSUME NEW a \in Address, Build(a) PROVE IInv'
  BY <1>5, CompressedKeeps DEF Build
<1>6. CASE UNCHANGED vars
  BY <1>6 DEF vars, IInv, TypeOK, CacheCurrent, Waiting, AllCurrent, Current
<1> QED BY <1>1, <1>2, <1>3, <1>4, <1>5, <1>6 DEF Next

-------------------------------------------------------------------------------
(* The strengthened invariant holds in every state the announcer reaches.  *)
THEOREM Invariance == Spec => []IInv
BY InvInit, InvNext, PTL DEF Spec

(* Type correctness.                                                       *)
THEOREM TypeCorrect == Spec => []TypeOK
<1>1. IInv => TypeOK
  BY DEF IInv
<1> QED BY <1>1, Invariance, PTL

(***************************************************************************)
(* The cache is current, whenever suspend() and start() are called and     *)
(* whatever is in compression then, unless a packet raced with an outdated *)
(* one; of a suspended announcer that is what announce.js:54 says of it.   *)
(***************************************************************************)
THEOREM CacheAlwaysCurrent == Spec => []CacheCurrent
<1>1. IInv => CacheCurrent
  BY DEF IInv
<1> QED BY <1>1, Invariance, PTL

-------------------------------------------------------------------------------
(***************************************************************************)
(* What is sent, and that something is always on its way to be sent.       *)
(***************************************************************************)

(* The regular timer runs unless suspended; an address without a socket    *)
(* has sent nothing and has nothing to send.  Of an address that is not    *)
(* racing, what is cached has been sent, and a suspension has been sent or *)
(* is in compression, even before the burst.                               *)
Underway ==
    /\ interval = ~suspended
    /\ \A a \in Address :
          /\ a \notin up => builds[a] = <<>> /\ packet[a] = Absent /\ sent[a] = Absent
          /\ packet[a] \in Packet => sent[a] = packet[a]
          /\ suspended /\ a \notin racing =>
                builds[a] # <<>> \/ sent[a] = Absent \/ sent[a].negative

(* An address has told what is true, or a packet of its is in compression, *)
(* or the regular timer runs and will find no packet and have one made.    *)
ChangeGoesOn ==
    \A a \in Address \ racing :
       Told(a) \/ builds[a] # <<>> \/ (interval /\ packet[a] = Absent)

SendsCurrent ==
    \A a \in Address \ racing : sent'[a] # sent[a] => sent'[a] = Current'

LEMMA UnderwayInit == Init => Underway
BY Marks DEF Init, Underway

(* A send.                                                                 *)
LEMMA SendGoesOn ==
    ASSUME TypeOK, Underway, UNCHANGED up, interval' = ~suspended', Current' \in Packet,
           NEW cache \in [Address -> Packet \union {Absent, Pending}], Send(cache, Current'),
           \A a \in Address : a \notin up => cache[a] = Absent,
           \A a \in Address \ racing : cache[a] \in Packet => cache[a] = Current'
    PROVE  Underway' /\ SendsCurrent
<1>1. /\ packet' = [a \in Address |-> IF a \in up /\ cache[a] = Absent THEN Pending ELSE cache[a]]
      /\ builds' = [a \in Address |-> IF a \in up /\ cache[a] \in {Absent, Pending}
                                      THEN Append(builds[a], Current') ELSE builds[a]]
      /\ racing' = {a \in Address : IF a \in up /\ cache[a] = Absent
                                     THEN builds[a] # <<>> ELSE a \in racing}
      /\ sent'   = [a \in Address |-> IF a \in up /\ cache[a] \in Packet
                                      THEN cache[a] ELSE sent[a]]
  BY DEF Send
<1>2. SendsCurrent
  BY <1>1 DEF SendsCurrent
<1>3. ASSUME NEW a \in Address
      PROVE  /\ a \notin up' => builds'[a] = <<>> /\ packet'[a] = Absent /\ sent'[a] = Absent
             /\ packet'[a] \in Packet => sent'[a] = packet'[a]
             /\ suspended' /\ a \notin racing' =>
                   builds'[a] # <<>> \/ sent'[a] = Absent \/ sent'[a].negative
  <2>1. a \notin up' => builds'[a] = <<>> /\ packet'[a] = Absent /\ sent'[a] = Absent
    BY <1>1, Marks DEF Underway
  <2>2. packet'[a] \in Packet => sent'[a] = packet'[a]
    BY <1>1, <2>1, Marks
  <2>3. ASSUME suspended', a \notin racing'
        PROVE  builds'[a] # <<>> \/ sent'[a] = Absent \/ sent'[a].negative
    <3>1. CASE a \notin up
      BY <2>1, <3>1
    <3>2. CASE a \in up /\ cache[a] \in {Absent, Pending}
      <4>1. builds'[a] = Append(builds[a], Current')
        BY <1>1, <3>2
      <4>2. builds[a] \in Seq(Packet)
        BY DEF TypeOK
      <4> QED BY <4>1, <4>2, AppendKeeps
    <3>3. CASE a \in up /\ cache[a] \notin {Absent, Pending}
      <4>1. cache[a] \in Packet /\ sent'[a] = cache[a] /\ a \notin racing
        BY <1>1, <2>3, <3>3
      <4>2. sent'[a] = Current'
        BY <4>1
      <4> QED BY <2>3, <4>2 DEF Current
    <3> QED BY <3>1, <3>2, <3>3
  <2> QED BY <2>1, <2>2, <2>3
<1> QED BY <1>2, <1>3 DEF Underway

LEMMA CompressedGoesOn ==
    ASSUME IInv, Underway, NEW a \in Address, NEW i \in DOMAIN builds[a], Compressed(a, i)
    PROVE  Underway' /\ SendsCurrent
<1>1. TypeOK
  BY DEF IInv
<1>2. /\ UNCHANGED <<conf, suspended, up, interval, leaked, burst, switches>>
      /\ Current' = Current /\ Current \in Packet
  BY CompressedCases
<1>3. a \in up
  <2>1. builds[a] # <<>>
    BY EmptySeq
  <2> QED BY <2>1 DEF Underway
<1>4. PICK rest \in Seq(Packet), pkt \in Packet :
        \/ /\ packet[a] = Absent /\ packet' = [packet EXCEPT ![a] = Pending]
           /\ builds' = [builds EXCEPT ![a] = Append(rest, Current)]
           /\ racing' = IF rest = <<>> THEN racing \ {a} ELSE racing \union {a}
           /\ sent' = sent
        \/ /\ packet[a] # Absent /\ packet' = [packet EXCEPT ![a] = pkt]
           /\ builds' = [builds EXCEPT ![a] = rest]
           /\ racing' = racing /\ sent' = [sent EXCEPT ![a] = pkt]
           /\ a \notin racing => pkt = Current
  BY CompressedCases
<1>5. CASE /\ packet[a] = Absent /\ packet' = [packet EXCEPT ![a] = Pending]
           /\ builds' = [builds EXCEPT ![a] = Append(rest, Current)]
           /\ racing' = IF rest = <<>> THEN racing \ {a} ELSE racing \union {a}
           /\ sent' = sent
  <2>1. Append(rest, Current) # <<>>
    BY <1>2, AppendKeeps
  <2>2. SendsCurrent
    BY <1>5 DEF SendsCurrent
  <2>3. \A b \in Address : b # a => (b \in racing' <=> b \in racing)
    BY <1>5
  <2> QED BY <1>1, <1>2, <1>3, <1>5, <2>1, <2>2, <2>3, Marks DEF Underway, TypeOK
<1>6. CASE /\ packet[a] # Absent /\ packet' = [packet EXCEPT ![a] = pkt]
           /\ builds' = [builds EXCEPT ![a] = rest]
           /\ racing' = racing /\ sent' = [sent EXCEPT ![a] = pkt]
           /\ a \notin racing => pkt = Current
  <2>1. SendsCurrent
    BY <1>1, <1>2, <1>6 DEF SendsCurrent, TypeOK
  <2>2. Current.negative = suspended
    BY DEF Current
  <2> QED BY <1>1, <1>2, <1>3, <1>6, <2>1, <2>2 DEF Underway, TypeOK
<1> QED BY <1>4, <1>5, <1>6

LEMMA UnderwayNext == IInv /\ Underway /\ [Next]_vars => Underway' /\ SendsCurrent
<1> SUFFICES ASSUME IInv, Underway, [Next]_vars PROVE Underway' /\ SendsCurrent
  OBVIOUS
<1>0. TypeOK /\ CacheCurrent
  BY DEF IInv
<1>1. CASE Change
  BY <1>1, Marks DEF Change, Invalidated, Emptied, Underway, SendsCurrent
<1>2. CASE Suspend \/ Start
  <2>1. \A a \in Address : Emptied[a] \notin Packet
    BY <1>0, <1>2, Switch, Marks
  <2> QED BY <1>0, <1>2, <2>1, Switch, SendGoesOn
<1>3. CASE Tick
  <2>1. UNCHANGED <<conf, suspended, up, interval>> /\ Send(packet, Current)
    BY <1>3 DEF Tick
  <2>2. Current' = Current /\ Current \in Packet
    BY <1>0, <2>1, CurrentPacket DEF Current
  <2>3. packet \in [Address -> Packet \union {Absent, Pending}]
    BY <1>0 DEF TypeOK
  <2>4. \A a \in Address \ racing : packet[a] \in Packet => packet[a] = Current'
    BY <1>0, <2>2 DEF CacheCurrent
  <2>5. Send(packet, Current') /\ Current' \in Packet /\ interval' = ~suspended'
    BY <2>1, <2>2 DEF Underway
  <2>6. \A a \in Address : a \notin up => packet[a] = Absent
    BY DEF Underway
  <2> QED BY <1>0, <2>1, <2>3, <2>4, <2>5, <2>6, SendGoesOn
<1>4. ASSUME NEW a \in Address, Listening(a) PROVE Underway' /\ SendsCurrent
  BY <1>4 DEF Listening, Underway, SendsCurrent
<1>5. ASSUME NEW a \in Address, Build(a) PROVE Underway' /\ SendsCurrent
  BY <1>5, CompressedGoesOn DEF Build
<1>6. CASE UNCHANGED vars
  BY <1>6 DEF vars, Underway, SendsCurrent
<1> QED BY <1>1, <1>2, <1>3, <1>4, <1>5, <1>6 DEF Next

(***************************************************************************)
(* What an address sends is what is true when it is sent, unless its last  *)
(* packet raced with an outdated one: a packet from before a change or a   *)
(* suspension leaves the announcer after it in no other way (announce.js:  *)
(* 159-188, 212-216).                                                      *)
(***************************************************************************)
THEOREM AlwaysSendsCurrent == Spec => [][SendsCurrent]_vars
<1>1. IInv /\ Underway /\ [Next]_vars => Underway' /\ SendsCurrent
  BY UnderwayNext
<1> QED BY <1>1, Invariance, UnderwayInit, PTL DEF Spec

(***************************************************************************)
(* What ChangeIsSent needs besides fairness: an address that is not racing *)
(* has told the truth, or a packet of its is in compression, or the regular*)
(* timer runs and will have one made.  A suspension is told without the    *)
(* burst's help: while it is not, a packet is in compression (announce.js: *)
(* 167-180, 212-216).                                                      *)
(***************************************************************************)
THEOREM ChangeAlwaysGoesOn == Spec => []ChangeGoesOn
<1>1. IInv /\ Underway /\ [Next]_vars => Underway' /\ SendsCurrent
  BY UnderwayNext
<1>2. IInv /\ Underway => ChangeGoesOn
  <2> SUFFICES ASSUME IInv, Underway, NEW a \in Address, a \notin racing
               PROVE  Told(a) \/ builds[a] # <<>> \/ (interval /\ packet[a] = Absent)
    BY DEF ChangeGoesOn
  <2>1. packet[a] \in Packet \/ packet[a] = Pending \/ packet[a] = Absent
    BY DEF IInv, TypeOK
  <2>2. CASE suspended
    BY <2>2 DEF Underway, Told
  <2>3. CASE ~suspended /\ packet[a] \in Packet
    BY <2>3 DEF IInv, CacheCurrent, Underway, Told
  <2>4. CASE packet[a] = Pending
    BY <2>4 DEF IInv, Waiting
  <2>5. CASE ~suspended /\ packet[a] = Absent
    BY <2>5 DEF Underway, IInv, TypeOK
  <2> QED BY <2>1, <2>2, <2>3, <2>4, <2>5
<1> QED BY <1>1, <1>2, Invariance, UnderwayInit, PTL DEF Spec
=============================================================================
