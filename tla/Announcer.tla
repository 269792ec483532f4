------------------------------- MODULE Announcer -------------------------------
(***************************************************************************)
(* The announcer of a service: lib/discovery/announce.js.                  *)
(*                                                                         *)
(* It multicasts, from each address it has a socket on, a signed and       *)
(* compressed announcement at regular intervals, and once it is suspended  *)
(* a short burst of negative ones (weight 0, no actions).  Compression is  *)
(* asynchronous, so the packet of an address is cached; the cache is       *)
(* emptied whenever what the packet says has changed, and a packet that    *)
(* was being compressed at that moment must not enter it.  The code sees   *)
(* to that unless another packet of the address goes into compression      *)
(* while the outdated one is still there (racing).                         *)
(***************************************************************************)
EXTENDS Integers, Sequences, SequencesExt

CONSTANTS Address,    \* the addresses a socket is bound to
          MaxChange,  \* bound: changes of the configuration
          MaxSwitch,  \* bound: calls of suspend() and start()
          MaxBuild,   \* bound: packets of one address in compression, at a tick
          Absent,     \* no packet (undefined)
          Pending     \* a packet is on its way (false)

ASSUME AnnouncerAssumption ==
    MaxChange \in Nat /\ MaxSwitch \in Nat /\ MaxBuild \in Nat \ {0}

ASSUME PacketAssumption ==
    Absent # Pending /\ {Absent, Pending} \intersect [conf : Nat, negative : BOOLEAN] = {}

(* setInterval in suspend() sends four times after the first.              *)
BurstLength == 4

VARIABLES
    conf,       \* weightValue, _extend, _classes and serviceAddress: their version
    suspended,  \* _suspended
    up,         \* pubSocks
    packet,     \* _packet[addy]: a packet, Pending or Absent
    builds,     \* packets of an address that zlib is compressing
    interval,   \* _interval is set
    leaked,     \* an earlier interval that nobody can clear is set
    burst,      \* sends that _suspendInterval has yet to do
    sent,       \* the last packet sent from an address, or Absent
    racing,     \* HISTORY: addresses whose packet, last asked for, went into
                \*   compression while older ones were still there
    switches    \* HISTORY: calls of suspend() and start()

vars == <<conf, suspended, up, packet, builds, interval, leaked, burst, sent, racing, switches>>

Packet  == [conf : 0 .. MaxChange, negative : BOOLEAN]

Current == [conf |-> conf, negative |-> suspended]

Init ==
    /\ conf = 0
    /\ suspended = FALSE
    /\ up = {}
    /\ packet = [a \in Address |-> Absent]
    /\ builds = [a \in Address |-> <<>>]
    /\ interval = TRUE
    /\ leaked = FALSE
    /\ burst = 0
    /\ racing = {}
    /\ sent = [a \in Address |-> Absent]
    /\ switches = 0

-------------------------------------------------------------------------------
(***************************************************************************)
(* send: each address sends its cached packet; where there is none, also   *)
(* where one is on its way, a packet with the current contents goes into   *)
(* compression.  cache is _packet as send finds it, now what is current.   *)
(***************************************************************************)
Send(cache, now) ==
    /\ packet' = [a \in Address |-> IF a \in up /\ cache[a] = Absent THEN Pending ELSE cache[a]]
    /\ builds' = [a \in Address |-> IF a \in up /\ cache[a] \in {Absent, Pending}
                                    THEN Append(builds[a], now) ELSE builds[a]]
    /\ racing' = {a \in Address : IF a \in up /\ cache[a] = Absent
                                   THEN builds[a] # <<>> ELSE a \in racing}
    /\ sent'   = [a \in Address |-> IF a \in up /\ cache[a] \in Packet
                                    THEN cache[a] ELSE sent[a]]

Emptied == [a \in Address |-> Absent]

(* Bug: a change leaves the cached packets alone.                          *)
MutantInvalidated == packet
Invalidated == Emptied

(* A socket is bound.                                                      *)
Listening(a) ==
    /\ up' = up \union {a}
    /\ a \notin up
    /\ UNCHANGED <<conf, suspended, packet, builds, interval, leaked, burst, sent, racing, switches>>

(* setWeight, setExtend, setClasses, addAddress.                           *)
Change ==
    /\ conf < MaxChange
    /\ conf' = conf + 1
    /\ packet' = Invalidated
    /\ UNCHANGED <<suspended, up, builds, interval, leaked, burst, sent, racing, switches>>

(* suspend, which does nothing the second time.                            *)
Suspend ==
    /\ ~suspended /\ switches < MaxSwitch
    /\ suspended' = TRUE
    /\ interval' = FALSE
    /\ burst' = BurstLength
    /\ Send(Invalidated, [conf |-> conf, negative |-> TRUE])
    /\ switches' = switches + 1
    /\ UNCHANGED <<conf, up, leaked>>

(* start, at any time: it sets the interval without a look at the one that *)
(* is set already, which then goes on for ever.                            *)
Start ==
    /\ switches < MaxSwitch
    /\ suspended' = FALSE
    /\ interval' = TRUE
    /\ leaked' = (leaked \/ interval)
    /\ burst' = 0
    /\ Send(Invalidated, [conf |-> conf, negative |-> FALSE])
    /\ switches' = switches + 1
    /\ UNCHANGED <<conf, up>>

(* The timers call send, every five seconds or, in a burst, every 200 ms.  *)
Fires(left) ==
    \/ (interval \/ leaked) /\ left = burst
    \/ burst > 0 /\ left = burst - 1

Tick ==
    /\ \E left \in burst - 1 .. burst : Fires(left) /\ burst' = left
    /\ \A a \in up : Len(builds[a]) < MaxBuild
    /\ Send(packet, Current)
    /\ UNCHANGED <<conf, suspended, up, interval, leaked, switches>>

(***************************************************************************)
(* zlib has compressed the i-th of an address's packets; they finish in    *)
(* any order.  If _packet[addy] is no longer false, _makePacket starts     *)
(* over: the packet that is cached goes out, or another one is made.       *)
(***************************************************************************)
(* Bug: the check for an invalidation is missing.                          *)
MutantStillWanted(a) == TRUE
StillWanted(a) == packet[a] = Pending

Compressed(a, i) ==
    LET rest == RemoveAt(builds[a], i)
        pkt  == IF StillWanted(a) THEN builds[a][i] ELSE packet[a]
    IN  IF pkt = Absent
        THEN /\ packet' = [packet EXCEPT ![a] = Pending]
             /\ builds' = [builds EXCEPT ![a] = Append(rest, Current)]
             /\ racing' = IF rest = <<>> THEN racing \ {a} ELSE racing \union {a}
             /\ UNCHANGED <<conf, suspended, up, interval, leaked, burst, sent, switches>>
        ELSE /\ packet' = [packet EXCEPT ![a] = pkt]
             /\ builds' = [builds EXCEPT ![a] = rest]
             /\ sent'   = [sent EXCEPT ![a] = pkt]
             /\ UNCHANGED <<conf, suspended, up, interval, leaked, burst, racing, switches>>

-------------------------------------------------------------------------------
Build(a) == \E i \in DOMAIN builds[a] : Compressed(a, i)

Next ==
    \/ Change \/ Suspend \/ Start \/ Tick
    \/ \E a \in Address : Listening(a) \/ Build(a)

(* The timers fire, zlib comes to an end.                                  *)
Fairness == WF_vars(Tick) /\ \A a \in Address : WF_vars(Build(a))

Spec == Init /\ [][Next]_vars

FairSpec == Spec /\ Fairness

-------------------------------------------------------------------------------
(* Properties                                                              *)

(* Every variable keeps its type.                                          *)
TypeOK ==
    /\ conf \in 0 .. MaxChange /\ suspended \in BOOLEAN
    /\ up \subseteq Address
    /\ packet \in [Address -> Packet \union {Absent, Pending}]
    /\ builds \in [Address -> Seq(Packet)]
    /\ interval \in BOOLEAN /\ leaked \in BOOLEAN /\ burst \in 0 .. BurstLength
    /\ sent \in [Address -> Packet \union {Absent}]
    /\ racing \subseteq Address
    /\ switches \in 0 .. MaxSwitch

(***************************************************************************)
(* suspend() "begins sending special negative announcements to explicitly  *)
(* tell clients that this node is ... unavailable" (announce.js:54-56): a  *)
(* suspended announcer never has a positive packet to send.                *)
(***************************************************************************)
SuspendIsAnnounced == \A a \in Address : suspended /\ packet[a] \in Packet => packet[a].negative

(***************************************************************************)
(* A cached packet says what is true now, however changes, suspensions and *)
(* compressions interleave, unless it went into compression while outdated *)
(* ones of the address were still there: the check of announce.js:214      *)
(* takes one of those for it.  (For that case see SuspendIsAnnounced.)     *)
(***************************************************************************)
CacheCurrent ==
    \A a \in Address \ racing : packet[a] \in Packet => packet[a] = Current

(***************************************************************************)
(* Once nothing changes any more, the last packet an address has sent says *)
(* what is true; of a suspended service only that it is, for which the     *)
(* burst is long enough (announce.js:159-189, 212-216).  Excepted, as in   *)
(* CacheCurrent, is an address whose last packet raced with an outdated    *)
(* one, as happens when suspend() or start() meets one in compression.     *)
(***************************************************************************)
Told(a) ==
    IF suspended THEN sent[a] = Absent \/ sent[a].negative
    ELSE a \in up => sent[a] = Current

ChangeIsSent == \A a \in Address : <>[](Told(a) \/ a \in racing)
=============================================================================
