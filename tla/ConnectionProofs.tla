---------------------------- MODULE ConnectionProofs ----------------------------
(***************************************************************************)
(* Proofs about Connection, for any window, packet size, messages and      *)
(* consumers.                                                              *)
(*                                                                         *)
(* First from what each end knows of itself (IInv): type correctness, that *)
(* a sender is paused exactly while its window is full, and that an ended  *)
(* message stays ended.                                                    *)
(*                                                                         *)
(* Then from what the two ends and the packets between them have to do     *)
(* with each other (PipeInv): that neither end refuses what the other      *)
(* sends, that their counts of a message's bytes agree, that a paused      *)
(* sender has a wakeup coming, that messages end for their receivers as    *)
(* they did for their senders (AllEndsKept), and that the connection       *)
(* implements the streams of MessageStream.                                *)
(*                                                                         *)
(* Then that MessageBody, where a buffer is dripped into a message, is     *)
(* such a connection too, because its source obeys the pauses (SourceInv); *)
(* and that Framing finds the packets in the bytes (FramingInv), whose     *)
(* names do not meet those of Connection.                                  *)
(*                                                                         *)
(* Number and Flag stand for Nat and BOOLEAN where a lemma is cited with   *)
(* terms that the prover has to find by their type.                        *)
(***************************************************************************)
EXTENDS MessageBody, Framing, SequenceTheorems, FiniteSetTheorems,
        WellFoundedInduction, TLAPS

OutRecord == [state : States, sent : Nat, acked : Nat, paused : BOOLEAN]
InRecord  == [state : States, received : Nat, acked : Nat, paused : BOOLEAN]

(* A packet whose payload, if it has one, does not end before it starts.   *)
GoodPacket == {p \in PacketSet : p.lo <= p.hi}

(* The parts of TypeOK that the handlers treat alike.                      *)
FlagsOK ==
    /\ started \in [Endpoint -> BOOLEAN] /\ closed \in [Endpoint -> BOOLEAN] /\ up \in BOOLEAN
    /\ nextOut \in [Endpoint -> Nat] /\ nextIn \in [Endpoint -> Nat]
    /\ bounced \subseteq Endpoint \X Id

WiresOK == outBuf \in [Endpoint -> Seq(GoodPacket)] /\ net \in [Endpoint -> Seq(GoodPacket)]

OutOK == out \in [Endpoint -> [Id -> OutRecord]]
InOK  == in \in [Endpoint -> [Id -> InRecord]]

LEMMA TypeParts == FlagsOK /\ WiresOK /\ OutOK /\ InOK => TypeOK
<1>1. Seq(GoodPacket) \subseteq Seq(PacketSet)
  BY SeqMonotonic DEF GoodPacket
<1> QED BY <1>1 DEF TypeOK, FlagsOK, WiresOK, OutOK, InOK, OutRecord, InRecord

(* An end has counted the header of every message it knows, and has sent   *)
(* that of every message it counts as sent.                                *)
KnownCounted ==
    \A e \in Endpoint, i \in Id :
       /\ in[e][i].state # "idle" => i < nextIn[e]
       /\ out[e][i].state # "idle" => i < nextOut[e]

IInv == FlagsOK /\ WiresOK /\ OutOK /\ InOK /\ PausedIffFull /\ KnownCounted

(***************************************************************************)
(* A message that has ended, for its sender or for its receiver, stays     *)
(* ended as it was.                                                        *)
(***************************************************************************)
Ended(m) == m.state \in {"ok", "err"}

StaysEnded ==
    \A e \in Endpoint, i \in Id :
       /\ Ended(in[e][i]) => in'[e][i].state = in[e][i].state
       /\ Ended(out[e][i]) => out'[e][i].state = out[e][i].state

-------------------------------------------------------------------------------
(* Packets are packets, and pieces of a buffer are.                        *)
LEMMA IdIsNat == Id \subseteq Nat
BY QuotaAssumption DEF Id, Endpoint

LEMMA PeerType == \A e \in Endpoint : Peer[e] \in Endpoint
BY DEF Peer, Endpoint

LEMMA PacketType ==
    ASSUME NEW i \in Id, NEW n \in Nat, NEW m \in Nat, n <= m
    PROVE  /\ Header(i) \in GoodPacket /\ Data(i, n, m) \in GoodPacket
           /\ Eof(i) \in GoodPacket /\ TxErr(i) \in GoodPacket /\ Ack(i, n) \in GoodPacket
BY DEF Header, Data, Eof, TxErr, Ack, Packet, GoodPacket, PacketSet

LEMMA SlicesType ==
    ASSUME NEW i \in Id, NEW lo \in Nat, NEW n \in Nat
    PROVE  Slices(i, lo, n) \in Seq(GoodPacket)
<1> DEFINE count == (n + MaxPacket - 1) \div MaxPacket
<1>1. count \in Nat
  BY MaxPacketAssumption
<1>2. ASSUME NEW k \in 1 .. count
      PROVE  Data(i, lo + (k - 1) * MaxPacket,
                     lo + (IF k * MaxPacket < n THEN k * MaxPacket ELSE n)) \in GoodPacket
  <2>1. (k - 1) * MaxPacket \in Nat /\ k * MaxPacket \in Nat
    BY MaxPacketAssumption, <1>1
  <2>2. /\ lo + (k - 1) * MaxPacket \in Nat
        /\ lo + (IF k * MaxPacket < n THEN k * MaxPacket ELSE n) \in Nat
    BY <2>1
  <2>3. (k - 1) * MaxPacket <= k * MaxPacket /\ (k - 1) * MaxPacket <= n
    <3>1. count * MaxPacket <= n + MaxPacket - 1
      BY MaxPacketAssumption
    <3>2. k * MaxPacket <= count * MaxPacket
      BY MaxPacketAssumption, <1>1
    <3>3. (k - 1) * MaxPacket = k * MaxPacket - MaxPacket
      BY MaxPacketAssumption, <1>1
    <3> HIDE DEF count
    <3> QED BY <3>1, <3>2, <3>3, <2>1, <1>1, MaxPacketAssumption
  <2> QED BY <2>1, <2>2, <2>3, PacketType
<1>3. Slices(i, lo, n) \in [1 .. count -> GoodPacket]
  BY <1>2 DEF Slices
<1> QED BY <1>1, <1>3, IsASeq

(* The packets that may leave an end, and the wires after they did.        *)
LEMMA TransmitType ==
    ASSUME WiresOK, NEW e \in Endpoint, NEW packets \in Seq(GoodPacket),
           NEW w \in [Endpoint -> Seq(GoodPacket)], Transmit(e, packets, w)
    PROVE  WiresOK'
<1>1. Peer[e] \in Endpoint
  BY PeerType
<1>2. w[Peer[e]] \o packets \in Seq(GoodPacket) /\ outBuf[e] \o packets \in Seq(GoodPacket)
  BY <1>1, ConcatProperties DEF WiresOK
<1>3. outBuf' \in [Endpoint -> Seq(GoodPacket)]
  BY <1>2 DEF Transmit, WiresOK
<1>4. net' \in [Endpoint -> Seq(GoodPacket)]
  BY <1>1, <1>2 DEF Transmit
<1> QED BY <1>3, <1>4 DEF WiresOK

LEMMA OnePacket == \A p \in GoodPacket : <<p>> \in Seq(GoodPacket)
OBVIOUS

LEMMA HeadPacket ==
    ASSUME WiresOK, NEW e \in Endpoint, net[e] # <<>>
    PROVE  /\ Head(net[e]) \in GoodPacket
           /\ Consumed(e) \in [Endpoint -> Seq(GoodPacket)]
<1>1. net[e] \in Seq(GoodPacket)
  BY DEF WiresOK
<1>2. Head(net[e]) \in GoodPacket /\ Tail(net[e]) \in Seq(GoodPacket)
  BY <1>1, HeadTailProperties
<1> QED BY <1>2 DEF Consumed, WiresOK

LEMMA PacketFields ==
    \A p \in GoodPacket : p.id \in Id /\ p.lo \in Nat /\ p.hi \in Nat /\ p.hi - p.lo \in Nat
BY DEF GoodPacket, PacketSet

(* What is buffered behind a packet is a sequence of packets.              *)
LEMMA BufferedType ==
    ASSUME WiresOK, NEW e \in Endpoint, NEW rest \in Buffered(e)
    PROVE  rest \in Seq(GoodPacket)
<1>1. net[e] \in Seq(GoodPacket)
  BY DEF WiresOK
<1>2. PICK k \in 1 .. Len(net[e]) : rest = SubSeq(net[e], 2, k)
  BY DEF Buffered
<1>3. Len(net[e]) \in Nat
  BY <1>1, LenProperties
<1>4. \A j \in 2 .. k : j \in 1 .. Len(net[e])
  BY <1>2, <1>3
<1> QED BY <1>1, <1>2, <1>3, <1>4, SubSeqProperties

-------------------------------------------------------------------------------
LEMMA InvInit == Init => IInv
<1> SUFFICES ASSUME Init PROVE IInv
  OBVIOUS
<1> USE DEF Init
<1>1. FlagsOK
  BY DEF FlagsOK
<1>2. WiresOK
  BY EmptySeq DEF WiresOK
<1>3. OutOK /\ InOK
  BY DEF OutOK, InOK, OutRecord, InRecord, IdleOut, IdleIn, NewOut, NewIn, States
<1>4. PausedIffFull /\ KnownCounted
  BY DEF PausedIffFull, KnownCounted, IdleOut, IdleIn, NewOut, NewIn
<1> QED BY <1>1, <1>2, <1>3, <1>4 DEF IInv

(* What a step leaves alone stays right.                                   *)
LEMMA OutSame == ASSUME IInv, UNCHANGED <<out, nextOut>>
                 PROVE  /\ OutOK' /\ PausedIffFull'
                        /\ \A e \in Endpoint, i \in Id :
                              /\ (out[e][i].state # "idle" => i < nextOut[e])'
                              /\ Ended(out[e][i]) => out'[e][i].state = out[e][i].state
BY DEF IInv, OutOK, PausedIffFull, KnownCounted, WindowFull

LEMMA InSame == ASSUME IInv, UNCHANGED <<in, nextIn>>
                PROVE  /\ InOK'
                       /\ \A e \in Endpoint, i \in Id :
                             /\ (in[e][i].state # "idle" => i < nextIn[e])'
                             /\ Ended(in[e][i]) => in'[e][i].state = in[e][i].state
BY DEF IInv, InOK, KnownCounted

LEMMA StartInv == ASSUME IInv, NEW e \in Endpoint, Start(e) PROVE IInv' /\ StaysEnded
<1>1. FlagsOK'
  BY DEF IInv, FlagsOK, Start
<1>2. WiresOK'
  <2>1. Peer[e] \in Endpoint
    BY PeerType
  <2>2. net[Peer[e]] \o outBuf[e] \in Seq(GoodPacket)
    BY <2>1, ConcatProperties DEF IInv, WiresOK
  <2>3. <<>> \in Seq(GoodPacket)
    BY EmptySeq
  <2> QED BY <2>1, <2>2, <2>3 DEF IInv, WiresOK, Start
<1>3. UNCHANGED <<out, nextOut, in, nextIn>>
  BY DEF Start
<1> QED BY <1>1, <1>2, <1>3, OutSame, InSame DEF IInv, KnownCounted, StaysEnded

LEMMA SendMessageInv == ASSUME IInv, NEW e \in Endpoint, SendMessage(e) PROVE IInv' /\ StaysEnded
<1>1. FlagsOK'
  BY DEF IInv, FlagsOK, SendMessage
<1>2. nextOut[e] \in Id /\ nextOut[e] \in Nat
  <2>1. nextOut[e] \in Nat /\ Quota[e] \in Nat /\ nextOut[e] < Quota[e]
    BY QuotaAssumption DEF IInv, FlagsOK, SendMessage
  <2>2. nextOut[e] \in 0 .. Quota[e] - 1
    BY <2>1
  <2> QED BY <2>1, <2>2 DEF Id
<1>3. WiresOK'
  <2>1. <<Header(nextOut[e])>> \in Seq(GoodPacket)
    BY <1>2, PacketType, OnePacket
  <2> QED BY <2>1, TransmitType DEF IInv, WiresOK, SendMessage
<1>4. out[e][nextOut[e]].state = "idle"
  BY <1>2 DEF IInv, KnownCounted
<1>5. out' = [out EXCEPT ![e][nextOut[e]] = NewOut] /\ nextOut' = [nextOut EXCEPT ![e] = @ + 1]
  BY DEF SendMessage
<1>6. OutOK'
  BY <1>2, <1>5 DEF IInv, OutOK, OutRecord, NewOut, States
<1>7. PausedIffFull'
  BY <1>2, <1>5, MaxFlowAssumption DEF IInv, OutOK, PausedIffFull, WindowFull, NewOut
<1>8. \A f \in Endpoint, i \in Id :
         /\ (out[f][i].state # "idle" => i < nextOut[f])'
         /\ Ended(out[f][i]) => out'[f][i].state = out[f][i].state
  BY <1>2, <1>4, <1>5, IdIsNat DEF IInv, OutOK, FlagsOK, KnownCounted, NewOut, Ended
<1>9. UNCHANGED <<in, nextIn>>
  BY DEF SendMessage
<1> QED BY <1>1, <1>3, <1>6, <1>7, <1>8, <1>9, InSame DEF IInv, KnownCounted, StaysEnded

(* The sender's record after a write, and after an acknowledgement.        *)
LEMMA AfterWriteRight ==
    ASSUME NEW o \in OutRecord, NEW n \in Nat, o.state = "open", ~o.paused
    PROVE  /\ AfterWrite(o, n) \in OutRecord
           /\ AfterWrite(o, n).state = "open"
           /\ AfterWrite(o, n).paused <=> WindowFull(AfterWrite(o, n))
<1> DEFINE w == [o EXCEPT !.sent = @ + n]
           full == WindowFull(w)
<1>1. w \in OutRecord /\ w.state = "open" /\ ~w.paused
  BY DEF OutRecord
<1>2. full \in BOOLEAN
  BY DEF WindowFull
<1>3. AfterWrite(o, n) = [w EXCEPT !.paused = full]
  BY <1>2 DEF AfterWrite, OutRecord
<1>4. /\ [w EXCEPT !.paused = full] \in OutRecord
      /\ [w EXCEPT !.paused = full].state = "open"
      /\ [w EXCEPT !.paused = full].paused = full
      /\ WindowFull([w EXCEPT !.paused = full]) <=> full
  <2> HIDE DEF full
  <2>1. full <=> WindowFull(w)
    BY DEF full
  <2> HIDE DEF w
  <2> QED BY <1>1, <1>2, <2>1 DEF OutRecord, WindowFull
<1> QED BY <1>3, <1>4

LEMMA AfterAckRight ==
    ASSUME NEW o \in OutRecord, NEW n \in Nat, o.state = "open", n > o.acked,
           o.paused <=> WindowFull(o)
    PROVE  /\ AfterAck(o, n) \in OutRecord
           /\ AfterAck(o, n).state = "open"
           /\ AfterAck(o, n).paused <=> WindowFull(AfterAck(o, n))
<1> DEFINE w == [o EXCEPT !.acked = n]
           still == o.paused /\ WindowFull(w)
<1>1. w \in OutRecord /\ w.state = "open" /\ (WindowFull(w) => WindowFull(o))
  BY MaxFlowAssumption DEF OutRecord, WindowFull
<1>2. still \in BOOLEAN /\ (still <=> WindowFull(w))
  BY <1>1 DEF WindowFull, OutRecord
<1>3. AfterAck(o, n) = [w EXCEPT !.paused = still]
  BY <1>2 DEF AfterAck, OutRecord
<1>4. /\ [w EXCEPT !.paused = still] \in OutRecord
      /\ [w EXCEPT !.paused = still].state = "open"
      /\ [w EXCEPT !.paused = still].paused = still
      /\ WindowFull([w EXCEPT !.paused = still]) <=> still
  <2> HIDE DEF still, w
  <2> QED BY <1>1, <1>2 DEF OutRecord, WindowFull
<1> QED BY <1>3, <1>4

LEMMA WriteInv ==
    ASSUME IInv, NEW e \in Endpoint, NEW i \in Id, NEW n \in Writes, Write(e, i, n)
    PROVE  IInv' /\ StaysEnded
<1>1. FlagsOK'
  BY DEF IInv, FlagsOK, Write
<1>2. n \in Nat /\ out[e][i] \in OutRecord
  BY WritesAssumption DEF IInv, OutOK
<1>3. WiresOK'
  <2>1. Slices(i, out[e][i].sent, n) \in Seq(GoodPacket)
    BY <1>2, SlicesType DEF OutRecord
  <2> QED BY <2>1, TransmitType DEF IInv, WiresOK, Write
<1>4. /\ out' = [out EXCEPT ![e][i] = AfterWrite(out[e][i], n)]
      /\ out[e][i].state = "open" /\ ~out[e][i].paused
  BY DEF Write
<1>5. /\ AfterWrite(out[e][i], n) \in OutRecord
      /\ AfterWrite(out[e][i], n).state = "open"
      /\ AfterWrite(out[e][i], n).paused <=> WindowFull(AfterWrite(out[e][i], n))
  BY <1>2, <1>4, AfterWriteRight
<1>6. OutOK'
  BY <1>4, <1>5 DEF IInv, OutOK
<1>7. PausedIffFull'
  BY <1>4, <1>5 DEF IInv, OutOK, PausedIffFull
<1>8. \A f \in Endpoint, j \in Id :
         /\ (out[f][j].state # "idle" => j < nextOut[f])'
         /\ Ended(out[f][j]) => out'[f][j].state = out[f][j].state
  BY <1>4, <1>5 DEF IInv, OutOK, KnownCounted, Ended, Write
<1>9. UNCHANGED <<in, nextIn>>
  BY DEF Write
<1> QED BY <1>1, <1>3, <1>6, <1>7, <1>8, <1>9, InSame DEF IInv, KnownCounted, StaysEnded

LEMMA EndInv ==
    ASSUME IInv, NEW e \in Endpoint, NEW i \in Id, NEW how \in {"ok", "err"}, End(e, i, how)
    PROVE  IInv' /\ StaysEnded
<1>1. FlagsOK'
  BY DEF IInv, FlagsOK, End
<1>3. WiresOK'
  <2>1. <<IF how = "ok" THEN Eof(i) ELSE TxErr(i)>> \in Seq(GoodPacket)
    BY PacketType, OnePacket
  <2> QED BY <2>1, TransmitType DEF IInv, WiresOK, End
<1>4. out' = [out EXCEPT ![e][i].state = how] /\ out[e][i].state = "open"
  BY DEF End
<1>6. OutOK'
  BY <1>4 DEF IInv, OutOK, OutRecord, States
<1>7. PausedIffFull'
  BY <1>4 DEF IInv, OutOK, OutRecord, PausedIffFull, WindowFull
<1>8. \A f \in Endpoint, j \in Id :
         /\ (out[f][j].state # "idle" => j < nextOut[f])'
         /\ Ended(out[f][j]) => out'[f][j].state = out[f][j].state
  BY <1>4 DEF IInv, OutOK, OutRecord, KnownCounted, Ended, End
<1>9. UNCHANGED <<in, nextIn>>
  BY DEF End
<1> QED BY <1>1, <1>3, <1>6, <1>7, <1>8, <1>9, InSame DEF IInv, KnownCounted, StaysEnded

LEMMA ResumeInv ==
    ASSUME IInv, NEW e \in Endpoint, NEW i \in Id, Resume(e, i) PROVE IInv' /\ StaysEnded
<1>1. FlagsOK'
  BY DEF IInv, FlagsOK, Resume
<1>2. in[e][i] \in InRecord
  BY DEF IInv, InOK
<1>3. WiresOK'
  <2>1. DrainAcks(i, in[e][i]) \in Seq(GoodPacket)
    BY <1>2, PacketType, OnePacket, EmptySeq DEF DrainAcks, InRecord
  <2> QED BY <2>1, TransmitType DEF IInv, WiresOK, Resume
<1>4. in' = [in EXCEPT ![e][i].paused = FALSE, ![e][i].acked = in[e][i].received]
  BY DEF Resume
<1>5. InOK'
  BY <1>2, <1>4 DEF IInv, InOK, InRecord
<1>6. \A f \in Endpoint, j \in Id : in'[f][j].state = in[f][j].state
  BY <1>4 DEF IInv, InOK, InRecord
<1>7. UNCHANGED <<out, nextOut, nextIn>>
  BY DEF Resume
<1> QED BY <1>1, <1>3, <1>5, <1>6, <1>7, OutSame DEF IInv, KnownCounted, StaysEnded

-------------------------------------------------------------------------------
(* The packet handlers.                                                    *)
LEMMA OnHeaderInv == ASSUME IInv, NEW e \in Endpoint, OnHeader(e) PROVE IInv' /\ StaysEnded
<1> DEFINE p == Head(net[e])
<1>1. FlagsOK'
  BY DEF IInv, FlagsOK, OnHeader
<1>2. p \in GoodPacket /\ Consumed(e) \in [Endpoint -> Seq(GoodPacket)]
  BY HeadPacket DEF IInv, OnHeader, Reads
<1>3. WiresOK'
  BY <1>2 DEF IInv, WiresOK, OnHeader
<1>4. p.id \in Id /\ p.id = nextIn[e] /\ p.id \in Nat
  BY <1>2, PacketFields, IdIsNat DEF OnHeader, Reads, Malformed, OutOfSequence
<1>5. in[e][p.id].state = "idle"
  BY <1>4 DEF IInv, KnownCounted, FlagsOK
<1>6. in' = [in EXCEPT ![e][p.id] = NewIn] /\ nextIn' = [nextIn EXCEPT ![e] = @ + 1]
  BY DEF OnHeader
<1> HIDE DEF p
<1>7. InOK'
  BY <1>4, <1>6 DEF IInv, InOK, InRecord, NewIn, States
<1>8. \A f \in Endpoint, i \in Id :
         /\ (in[f][i].state # "idle" => i < nextIn[f])'
         /\ Ended(in[f][i]) => in'[f][i].state = in[f][i].state
  BY <1>4, <1>5, <1>6, IdIsNat DEF IInv, InOK, FlagsOK, KnownCounted, NewIn, Ended
<1>9. UNCHANGED <<out, nextOut>>
  BY DEF OnHeader
<1> QED BY <1>1, <1>3, <1>7, <1>8, <1>9, OutSame DEF IInv, KnownCounted, StaysEnded

(* An incoming record after a buffer was given to its consumer.            *)
LEMMA WrittenType ==
    ASSUME NEW m \in InRecord, NEW n \in Nat, NEW how \in {"flow", "pause", "bounce"}
    PROVE  Written(m, n, how) \in InRecord /\ Written(m, n, how).state = m.state
<1> DEFINE r == [m EXCEPT !.received = @ + n]
<1>1. r \in InRecord /\ r.state = m.state
  BY DEF InRecord
<1>2. CASE how = "flow"
  <2>1. Written(m, n, how) = IF m.paused THEN r ELSE [r EXCEPT !.acked = @ + n]
    BY <1>2 DEF Written
  <2> HIDE DEF r
  <2>2. [r EXCEPT !.acked = @ + n] \in InRecord /\ [r EXCEPT !.acked = @ + n].state = m.state
    BY <1>1 DEF InRecord
  <2> QED BY <1>1, <2>1, <2>2
<1>3. CASE how = "pause"
  <2>1. Written(m, n, how) = [r EXCEPT !.paused = TRUE]
    BY <1>3 DEF Written
  <2> HIDE DEF r
  <2>2. [r EXCEPT !.paused = TRUE] \in InRecord /\ [r EXCEPT !.paused = TRUE].state = m.state
    BY <1>1 DEF InRecord
  <2> QED BY <2>1, <2>2
<1>4. CASE how = "bounce"
  <2>1. Written(m, n, how) = [r EXCEPT !.paused = FALSE, !.acked = r.received + n]
    BY <1>4 DEF Written
  <2> HIDE DEF r
  <2> DEFINE k == r.received + n
  <2>2. k \in Nat
    BY <1>1 DEF InRecord
  <2> HIDE DEF k
  <2>3. /\ [r EXCEPT !.paused = FALSE, !.acked = k] \in InRecord
        /\ [r EXCEPT !.paused = FALSE, !.acked = k].state = m.state
    BY <1>1, <2>2 DEF InRecord
  <2> QED BY <2>1, <2>3 DEF k
<1> QED BY <1>2, <1>3, <1>4

LEMMA AcksWrittenType ==
    ASSUME NEW i \in Id, NEW m \in InRecord, NEW n \in Nat, NEW how \in {"flow", "pause", "bounce"}
    PROVE  AcksWritten(i, m, n, how) \in Seq(GoodPacket)
<1>1. m.acked + n \in Nat /\ m.received + n \in Nat /\ m.received + n + n \in Nat
  BY DEF InRecord
<1>2. /\ Ack(i, m.acked + n) \in GoodPacket
      /\ Ack(i, m.received + n) \in GoodPacket /\ Ack(i, m.received + n + n) \in GoodPacket
  BY <1>1, PacketType
<1>3. /\ <<Ack(i, m.acked + n)>> \in Seq(GoodPacket)
      /\ <<Ack(i, m.received + n), Ack(i, m.received + n + n)>> \in Seq(GoodPacket)
  BY <1>2
<1> QED BY <1>3, EmptySeq DEF AcksWritten

LEMMA OnDataInv ==
    ASSUME IInv, NEW e \in Endpoint, NEW how \in Consumers, OnData(e, how)
    PROVE  IInv' /\ StaysEnded
<1> DEFINE p == Head(net[e])
           m == in[e][p.id]
           n == p.hi - p.lo
<1>1. p \in GoodPacket /\ Consumed(e) \in [Endpoint -> Seq(GoodPacket)]
  BY HeadPacket DEF IInv, OnData, Reads
<1>2. p.id \in Id /\ n \in Nat /\ m \in InRecord
  BY <1>1, PacketFields DEF IInv, InOK
<1>3. how \in {"flow", "pause", "bounce"}
  BY ConsumersAssumption
<1>4. /\ in' = [in EXCEPT ![e][p.id] = Written(m, n, how)]
      /\ Transmit(e, AcksWritten(p.id, m, n, how), Consumed(e))
      /\ bounced' = IF how = "bounce" THEN bounced \union {<<e, p.id>>} ELSE bounced
      /\ UNCHANGED <<started, closed, up, nextOut, nextIn, out>>
  BY DEF OnData
<1> HIDE DEF p, m, n
<1>5. FlagsOK'
  BY <1>2, <1>4 DEF IInv, FlagsOK
<1>6. WiresOK'
  BY <1>1, <1>2, <1>3, <1>4, AcksWrittenType, TransmitType DEF IInv
<1>7. Written(m, n, how) \in InRecord /\ Written(m, n, how).state = m.state
  BY <1>2, <1>3, WrittenType
<1>8. InOK'
  BY <1>2, <1>4, <1>7 DEF IInv, InOK
<1>9. \A f \in Endpoint, j \in Id : in'[f][j].state = in[f][j].state
  BY <1>2, <1>4, <1>7 DEF IInv, InOK, m
<1> QED BY <1>4, <1>5, <1>6, <1>8, <1>9, OutSame DEF IInv, KnownCounted, StaysEnded

(* The end of a message: EOF or TXERR.                                     *)
Ending(e, how) ==
    /\ net[e] # <<>>
    /\ in[e][Head(net[e]).id].state = "open"
    /\ in' = [in EXCEPT ![e][Head(net[e]).id].state = how]
    /\ net' = Consumed(e)
    /\ UNCHANGED <<started, closed, up, outBuf, nextOut, nextIn, out, bounced>>

LEMMA MessageEnds ==
    ASSUME IInv, NEW e \in Endpoint, NEW how \in {"ok", "err"}, Ending(e, how)
    PROVE  IInv' /\ StaysEnded
<1> DEFINE p == Head(net[e])
<1>1. p \in GoodPacket /\ Consumed(e) \in [Endpoint -> Seq(GoodPacket)]
  BY HeadPacket DEF IInv, Ending
<1>2. p.id \in Id
  BY <1>1, PacketFields
<1>3. in' = [in EXCEPT ![e][p.id].state = how] /\ in[e][p.id].state = "open"
  BY DEF Ending
<1>4. FlagsOK' /\ WiresOK'
  BY <1>1 DEF IInv, FlagsOK, WiresOK, Ending
<1> HIDE DEF p
<1> DEFINE r == [in[e][p.id] EXCEPT !.state = how]
<1>5. in' = [in EXCEPT ![e][p.id] = r]
  BY <1>3
<1>6. in[e][p.id] \in InRecord
  BY <1>2 DEF IInv, InOK
<1>7. r \in InRecord /\ r.state # "idle"
  BY <1>6 DEF InRecord, States
<1> HIDE DEF r
<1>8. InOK'
  <2>1. [in[e] EXCEPT ![p.id] = r] \in [Id -> InRecord]
    BY <1>2, <1>7 DEF IInv, InOK
  <2>2. in' = [in EXCEPT ![e] = [in[e] EXCEPT ![p.id] = r]]
    BY <1>5 DEF IInv, InOK
  <2> QED BY <2>1, <2>2 DEF IInv, InOK
<1>9. UNCHANGED <<out, nextOut, nextIn>>
  BY DEF Ending
<1>10. \A f \in Endpoint, i \in Id :
         /\ (in[f][i].state # "idle" => i < nextIn[f])'
         /\ Ended(in[f][i]) => in'[f][i].state = in[f][i].state
  BY <1>2, <1>3, <1>5, <1>7, <1>9 DEF IInv, InOK, KnownCounted, Ended
<1> QED BY <1>4, <1>8, <1>9, <1>10, OutSame DEF IInv, KnownCounted, StaysEnded

LEMMA OnEofInv == ASSUME IInv, NEW e \in Endpoint, OnEof(e) PROVE IInv' /\ StaysEnded
<1>1. in[e][Head(net[e]).id].state = "open"
  BY DEF OnEof, Malformed, NoActiveMessage, Reads
<1> QED BY <1>1, MessageEnds DEF OnEof, Reads, Ending

LEMMA OnTxErrInv == ASSUME IInv, NEW e \in Endpoint, OnTxErr(e) PROVE IInv' /\ StaysEnded
<1>1. in[e][Head(net[e]).id].state = "open"
  BY DEF OnTxErr, Malformed, NoActiveMessage, Reads
<1> QED BY <1>1, MessageEnds DEF OnTxErr, Reads, Ending

LEMMA OnAckInv == ASSUME IInv, NEW e \in Endpoint, OnAck(e) PROVE IInv' /\ StaysEnded
<1> DEFINE p == Head(net[e])
<1>1. p \in GoodPacket /\ Consumed(e) \in [Endpoint -> Seq(GoodPacket)]
  BY HeadPacket DEF IInv, OnAck, Reads
<1>2. p.id \in Id /\ p.hi \in Nat
  BY <1>1, PacketFields
<1>3. /\ out' = IF Outgoing(e, p.id) THEN [out EXCEPT ![e][p.id] = AfterAck(out[e][p.id], p.hi)] ELSE out
      /\ net' = Consumed(e)
      /\ UNCHANGED <<started, closed, up, outBuf, nextOut, nextIn, in, bounced>>
  BY DEF OnAck
<1>4. Outgoing(e, p.id) => out[e][p.id].state = "open" /\ p.hi > out[e][p.id].acked
  BY <1>2 DEF OnAck, Malformed, BadAck, Reads, Outgoing, IInv, OutOK, OutRecord
<1>5. FlagsOK' /\ WiresOK'
  BY <1>1, <1>3 DEF IInv, FlagsOK, WiresOK
<1> HIDE DEF p
<1>6. CASE Outgoing(e, p.id)
  <2> DEFINE o == out[e][p.id]
  <2>1. o \in OutRecord /\ (o.paused <=> WindowFull(o)) /\ o.state = "open" /\ p.hi > o.acked
    BY <1>2, <1>4, <1>6 DEF IInv, OutOK, PausedIffFull
  <2>2. /\ AfterAck(o, p.hi) \in OutRecord /\ AfterAck(o, p.hi).state = "open"
        /\ AfterAck(o, p.hi).paused <=> WindowFull(AfterAck(o, p.hi))
    BY <1>2, <2>1, AfterAckRight
  <2>3. out' = [out EXCEPT ![e][p.id] = AfterAck(o, p.hi)]
    BY <1>3, <1>6
  <2>4. OutOK'
    BY <1>2, <2>2, <2>3 DEF IInv, OutOK
  <2>5. PausedIffFull'
    BY <1>2, <2>2, <2>3 DEF IInv, OutOK, PausedIffFull
  <2>6. \A f \in Endpoint, j \in Id : out'[f][j].state = out[f][j].state
    BY <1>2, <2>1, <2>2, <2>3 DEF IInv, OutOK
  <2> QED BY <1>3, <1>5, <2>4, <2>5, <2>6, InSame DEF IInv, KnownCounted, StaysEnded
<1>7. CASE ~Outgoing(e, p.id)
  BY <1>3, <1>5, <1>7, OutSame, InSame DEF IInv, KnownCounted, StaysEnded
<1> QED BY <1>6, <1>7

(* What becomes of an incoming record at a loss.                           *)
LEMMA AbortedRight ==
    ASSUME NEW m \in InRecord
    PROVE  /\ Aborted(m) \in InRecord
           /\ Aborted(m).state # "idle" => m.state # "idle"
           /\ Ended(m) => Aborted(m).state = m.state
BY DEF Aborted, InRecord, States, Ended

(* An end that shuts down ends what was arriving, and keeps of its input   *)
(* what was buffered.                                                      *)
LEMMA ShutInv ==
    ASSUME IInv, NEW e \in Endpoint, NEW rest \in Seq(GoodPacket), Shut(e, rest)
    PROVE  /\ closed' \in [Endpoint -> BOOLEAN] /\ up' \in BOOLEAN
           /\ net' \in [Endpoint -> Seq(GoodPacket)]
           /\ InOK'
           /\ \A f \in Endpoint, i \in Id :
                 /\ in'[f][i].state # "idle" => in[f][i].state # "idle"
                 /\ Ended(in[f][i]) => in'[f][i].state = in[f][i].state
<1>1. /\ closed' \in [Endpoint -> BOOLEAN] /\ up' \in BOOLEAN
      /\ net' \in [Endpoint -> Seq(GoodPacket)]
  BY DEF Shut, IInv, FlagsOK, WiresOK
<1>2. \A i \in Id : in[e][i] \in InRecord
  BY DEF IInv, InOK
<1>3. in' = [in EXCEPT ![e] = [i \in Id |-> Aborted(in[e][i])]]
  BY DEF Shut
<1> DEFINE row == [i \in Id |-> Aborted(in[e][i])]
<1>4. row \in [Id -> InRecord]
  <2>1. \A i \in Id : Aborted(in[e][i]) \in InRecord
    BY <1>2, AbortedRight
  <2> QED BY <2>1
<1>5. \A i \in Id : row[i] = Aborted(in[e][i])
  OBVIOUS
<1> HIDE DEF row
<1>6. InOK'
  BY <1>3, <1>4 DEF IInv, InOK, row
<1>7. in'[e] = row /\ \A f \in Endpoint \ {e} : in'[f] = in[f]
  BY <1>3 DEF IInv, InOK, row
<1>8. \A f \in Endpoint, i \in Id :
         /\ in'[f][i].state # "idle" => in[f][i].state # "idle"
         /\ Ended(in[f][i]) => in'[f][i].state = in[f][i].state
  <2> SUFFICES ASSUME NEW f \in Endpoint, NEW i \in Id
               PROVE  /\ in'[f][i].state # "idle" => in[f][i].state # "idle"
                      /\ Ended(in[f][i]) => in'[f][i].state = in[f][i].state
    OBVIOUS
  <2>1. CASE f = e
    <3>1. in'[f][i] = Aborted(in[e][i])
      BY <1>5, <1>7, <2>1
    <3> QED BY <1>2, <2>1, <3>1, AbortedRight
  <2>2. CASE f # e
    BY <1>7, <2>2
  <2> QED BY <2>1, <2>2
<1> QED BY <1>1, <1>6, <1>8

LEMMA ProtocolErrorInv == ASSUME IInv, NEW e \in Endpoint, ProtocolError(e) PROVE IInv' /\ StaysEnded
<1>1. /\ nextIn' \in [Endpoint -> Nat]
      /\ \A f \in Endpoint : nextIn'[f] >= nextIn[f]
  BY DEF ProtocolError, IInv, FlagsOK
<1>2. UNCHANGED <<started, outBuf, nextOut, out, bounced>>
  BY DEF ProtocolError
<1>3. /\ closed' \in [Endpoint -> BOOLEAN] /\ up' \in BOOLEAN
      /\ net' \in [Endpoint -> Seq(GoodPacket)]
      /\ InOK'
      /\ \A f \in Endpoint, i \in Id :
            /\ in'[f][i].state # "idle" => in[f][i].state # "idle"
            /\ Ended(in[f][i]) => in'[f][i].state = in[f][i].state
  <2>1. CASE \E rest \in Buffered(e) : Shut(e, rest)
    <3>1. PICK rest \in Buffered(e) : Shut(e, rest)
      BY <2>1
    <3>2. rest \in Seq(GoodPacket)
      BY <3>1, BufferedType DEF IInv
    <3> QED BY <3>1, <3>2, ShutInv
  <2>2. CASE closed[e] /\ net' = Consumed(e) /\ UNCHANGED <<closed, up, in>>
    <3>1. Consumed(e) \in [Endpoint -> Seq(GoodPacket)]
      BY HeadPacket DEF IInv, ProtocolError
    <3> QED BY <2>2, <3>1 DEF IInv, FlagsOK, InOK
  <2> QED BY <2>1, <2>2 DEF ProtocolError
<1>4. FlagsOK' /\ WiresOK'
  BY <1>1, <1>2, <1>3 DEF IInv, FlagsOK, WiresOK
<1>5. \A f \in Endpoint, i \in Id : in'[f][i].state # "idle" => i < nextIn'[f]
  <2> SUFFICES ASSUME NEW f \in Endpoint, NEW i \in Id, in'[f][i].state # "idle"
               PROVE  i < nextIn'[f]
    OBVIOUS
  <2>1. in[f][i].state # "idle"
    BY <1>3
  <2>2. i < nextIn[f]
    BY <2>1 DEF IInv, KnownCounted
  <2>3. i \in Nat /\ nextIn[f] \in Nat /\ nextIn'[f] \in Nat /\ nextIn'[f] >= nextIn[f]
    BY <1>1, IdIsNat DEF IInv, FlagsOK
  <2> QED BY <2>2, <2>3
<1> QED BY <1>2, <1>3, <1>4, <1>5, OutSame DEF IInv, KnownCounted, StaysEnded

LEMMA CloseInv == ASSUME IInv, NEW e \in Endpoint, Close(e) PROVE IInv' /\ StaysEnded
<1>1. <<>> \in Seq(GoodPacket)
  BY EmptySeq
<1>2. /\ closed' \in [Endpoint -> BOOLEAN] /\ up' \in BOOLEAN
      /\ net' \in [Endpoint -> Seq(GoodPacket)]
      /\ InOK'
      /\ \A f \in Endpoint, i \in Id :
            /\ in'[f][i].state # "idle" => in[f][i].state # "idle"
            /\ Ended(in[f][i]) => in'[f][i].state = in[f][i].state
  BY <1>1, ShutInv DEF Close
<1>3. UNCHANGED <<started, outBuf, nextOut, nextIn, out, bounced>>
  BY DEF Close
<1>4. FlagsOK' /\ WiresOK'
  BY <1>2, <1>3 DEF IInv, FlagsOK, WiresOK
<1> QED BY <1>2, <1>3, <1>4, OutSame DEF IInv, KnownCounted, StaysEnded

LEMMA DisconnectInv == ASSUME IInv, Disconnect PROVE IInv' /\ StaysEnded
<1>1. FlagsOK' /\ WiresOK'
  BY DEF Disconnect, IInv, FlagsOK, WiresOK
<1>2. UNCHANGED <<out, nextOut, in, nextIn>>
  BY DEF Disconnect
<1> QED BY <1>1, <1>2, OutSame, InSame DEF IInv, KnownCounted, StaysEnded

-------------------------------------------------------------------------------
(* The induction step, one case for each disjunct of Next.                 *)
LEMMA Step == IInv /\ [Next]_vars => IInv' /\ StaysEnded
<1> SUFFICES ASSUME IInv, [Next]_vars PROVE IInv' /\ StaysEnded
  OBVIOUS
<1>1. ASSUME NEW e \in Endpoint, Start(e) PROVE IInv' /\ StaysEnded
  BY <1>1, StartInv
<1>2. ASSUME NEW e \in Endpoint, SendMessage(e) PROVE IInv' /\ StaysEnded
  BY <1>2, SendMessageInv
<1>3. ASSUME NEW e \in Endpoint, NEW i \in Id, NEW n \in Writes, Write(e, i, n) PROVE IInv' /\ StaysEnded
  BY <1>3, WriteInv
<1>4. ASSUME NEW e \in Endpoint, NEW i \in Id, NEW how \in {"ok", "err"}, End(e, i, how)
      PROVE  IInv' /\ StaysEnded
  BY <1>4, EndInv
<1>5. ASSUME NEW e \in Endpoint, NEW i \in Id, Resume(e, i) PROVE IInv' /\ StaysEnded
  BY <1>5, ResumeInv
<1>6. ASSUME NEW e \in Endpoint, Handle(e) PROVE IInv' /\ StaysEnded
  BY <1>6, OnHeaderInv, OnDataInv, OnEofInv, OnTxErrInv, OnAckInv, ProtocolErrorInv DEF Handle
<1>7. ASSUME NEW e \in Endpoint, Close(e) \/ TransportLost(e) PROVE IInv' /\ StaysEnded
  BY <1>7, CloseInv DEF TransportLost
<1>8. CASE Disconnect
  BY <1>8, DisconnectInv
<1>9. CASE UNCHANGED vars
  <2>1. FlagsOK' /\ WiresOK'
    BY <1>9 DEF vars, IInv, FlagsOK, WiresOK
  <2>2. UNCHANGED <<out, nextOut, in, nextIn>>
    BY <1>9 DEF vars
  <2> QED BY <2>1, <2>2, OutSame, InSame DEF IInv, KnownCounted, StaysEnded
<1> QED BY <1>1, <1>2, <1>3, <1>4, <1>5, <1>6, <1>7, <1>8, <1>9 DEF Next

THEOREM Invariance == Spec => []IInv
<1>1. IInv /\ [Next]_vars => IInv'
  BY Step
<1> QED BY InvInit, <1>1, PTL DEF Spec

(* Every variable keeps its type (all of connection.js).                   *)
THEOREM TypeCorrect == Spec => []TypeOK
<1>1. IInv => TypeOK
  BY TypeParts DEF IInv
<1> QED BY Invariance, <1>1, PTL

(***************************************************************************)
(* A message that is being sent is paused exactly while its window is      *)
(* full, whatever the sizes of windows, packets and writes, and whatever   *)
(* the two ends do (connection.js:297-299, 247-249).                       *)
(***************************************************************************)
THEOREM AlwaysPausedIffFull == Spec => []PausedIffFull
<1>1. IInv => PausedIffFull
  BY DEF IInv
<1> QED BY Invariance, <1>1, PTL

(***************************************************************************)
(* No message ends twice, or opens again after it has ended, for its       *)
(* sender or for its receiver, over protocol errors and losses             *)
(* (connection.js:88-94, 170-235).                                         *)
(***************************************************************************)
THEOREM EndsOnce == Spec => [][StaysEnded]_vars
<1>1. IInv /\ [Next]_vars => [StaysEnded]_vars
  BY Step
<1> QED BY Invariance, <1>1, PTL DEF Spec

-------------------------------------------------------------------------------
(***************************************************************************)
(* What e has sent and the other end has not handled: it waits in e's      *)
(* output buffer until e starts, and is on the wire afterwards.  What e    *)
(* sends is added to it while Sends(e) holds, and lost otherwise.          *)
(***************************************************************************)
Wire(e)  == IF started[e] THEN net[Peer[e]] ELSE outBuf[e]
Sends(e) == ~closed[e] /\ (up \/ ~started[e])

(* Where in w there is one of cmds for message i.                          *)
Places(w, cmds, i) == {k \in 1 .. Len(w) : w[k].cmd \in cmds /\ w[k].id = i}

Headers(w, i) == Places(w, {"HEADER"}, i)
Datas(w, i)   == Places(w, {"DATA"}, i)
Ends(w, i)    == Places(w, {"EOF", "TXERR"}, i)
Acks(w, i)    == Places(w, {"ACK"}, i)

(***************************************************************************)
(* What the packets w on their way from a sender to a receiver have to do  *)
(* with the two records o and m of a message.  The headers of messages     *)
(* from .. to - 1 come in order, each of them once; if the wire is whole,  *)
(* that is if nothing the sender said was lost, none is missing.           *)
(***************************************************************************)
HeaderChain(w, from, to, whole) ==
    /\ from <= to
    /\ \A i \in Id : \A k \in Headers(w, i) :
          /\ from <= i /\ i < to
          /\ i = from \/ \E j \in Headers(w, i - 1) : j < k
          /\ \A j \in Headers(w, i) : j = k
    /\ whole => \A i \in Id : from <= i /\ i < to => Headers(w, i) # {}

(* The bytes of message i in w are consecutive ones, starting at from.     *)
DataChain(w, i, from, to) ==
    \A k \in Datas(w, i) :
       /\ from <= w[k].lo /\ w[k].lo < w[k].hi /\ w[k].hi <= to
       /\ w[k].lo = from \/ \E j \in Datas(w, i) : j < k /\ w[j].hi = w[k].lo
       /\ \A j \in Datas(w, i) : j < k => w[j].hi <= w[k].lo

(* They are the bytes up to `to'.                                          *)
Reaches(w, i, from, to) == from = to \/ \E j \in Datas(w, i) : w[j].hi = to

(* The header of message i goes before the rest of it.                     *)
Introduced(w, i, known) ==
    \A k \in Datas(w, i) \union Ends(w, i) :
       /\ known \/ \E j \in Headers(w, i) : j < k
       /\ \A j \in Headers(w, i) : j < k

(* The end of message i is the last packet of it, and says how it ended.   *)
EndLast(w, i, how) ==
    \A k \in Ends(w, i) :
       /\ how = IF w[k].cmd = "EOF" THEN "ok" ELSE "err"
       /\ \A j \in Datas(w, i) \union Ends(w, i) : j <= k

Arriving(m) == m.state \in {"idle", "open"}

(* What m has not received of the message is in w, and its end after it.   *)
BodyChain(w, i, o, m, whole) ==
    /\ Introduced(w, i, m.state # "idle")
    /\ EndLast(w, i, o.state)
    /\ Datas(w, i) # {} => o.state # "idle"
    /\ m.received <= o.sent
    /\ Arriving(m) => /\ DataChain(w, i, m.received, o.sent)
                      /\ whole \/ Ends(w, i) # {} => Reaches(w, i, m.received, o.sent)

(* A message that has ended for the receiver has nothing more in w, unless *)
(* the receiver has shut down; and it ended well only if it did at its     *)
(* source.                                                                 *)
EndChain(w, i, o, m, shut) ==
    /\ m.state = "ok" => o.state = "ok"
    /\ Ended(m) /\ ~shut => Ended(o) /\ Datas(w, i) = {} /\ Ends(w, i) = {}

(* All of it, for the messages that e sends.                               *)
Direction(w, from, to, whole, o, m, shut) ==
    /\ HeaderChain(w, from, to, whole)
    /\ \A i \in Id : BodyChain(w, i, o[i], m[i], whole) /\ EndChain(w, i, o[i], m[i], shut)

DirectionOf(e) ==
    Direction(Wire(e), nextIn[Peer[e]], nextOut[e], Sends(e), out[e], in[Peer[e]], closed[Peer[e]])

Packets == Seq(GoodPacket)

(* Tail, SubSeq from the first element, and \o, element by element.        *)
IsTail(v, w) ==
    /\ Len(w) > 0 /\ Len(v) = Len(w) - 1
    /\ \A k \in 1 .. Len(v) : v[k] = w[k + 1]
IsFront(v, w) == Len(v) <= Len(w) /\ \A k \in 1 .. Len(v) : v[k] = w[k]
IsConcat(v, w, s) ==
    /\ Len(v) = Len(w) + Len(s)
    /\ \A k \in 1 .. Len(w) : v[k] = w[k]
    /\ \A k \in 1 .. Len(s) : v[Len(w) + k] = s[k]

LEMMA PacketAt ==
    ASSUME NEW w \in Packets
    PROVE  /\ Len(w) \in Nat
           /\ \A k \in 1 .. Len(w) : w[k] \in GoodPacket /\ w[k].id \in Id /\ w[k].lo \in Nat /\ w[k].hi \in Nat
<1>1. Len(w) \in Nat /\ \A k \in 1 .. Len(w) : w[k] \in GoodPacket
  BY DEF Packets
<1> QED BY <1>1 DEF GoodPacket, PacketSet

LEMMA TailIs == ASSUME NEW w \in Packets, w # <<>> PROVE IsTail(Tail(w), w) /\ Tail(w) \in Packets
BY HeadTailProperties DEF IsTail, Packets

LEMMA ConcatIs == ASSUME NEW w \in Packets, NEW s \in Packets
                  PROVE IsConcat(w \o s, w, s) /\ w \o s \in Packets
BY ConcatProperties DEF IsConcat, Packets

-------------------------------------------------------------------------------
(* The heads of the wire.                                                  *)
LEMMA HeaderAtHead ==
    ASSUME NEW w \in Packets, w # <<>>, NEW from \in Nat, NEW to \in Nat, NEW whole \in BOOLEAN,
           HeaderChain(w, from, to, whole), Head(w).cmd = "HEADER"
    PROVE  Head(w).id = from /\ from < to
<1> DEFINE i == Head(w).id
<1>1. Head(w) = w[1] /\ 1 \in 1 .. Len(w)
  BY DEF Packets
<1>2. i \in Id /\ 1 \in Headers(w, i)
  BY <1>1, PacketAt DEF Headers, Places
<1>3. from <= i /\ i < to /\ (i = from \/ \E j \in Headers(w, i - 1) : j < 1)
  BY <1>2 DEF HeaderChain
<1>4. \A j \in Headers(w, i - 1) : ~ (j < 1)
  BY PacketAt DEF Headers, Places
<1> QED BY <1>3, <1>4

(* Losing the head of the wire.                                            *)
LEMMA HeaderTail ==
    ASSUME NEW w \in Packets, NEW v \in Packets, IsTail(v, w),
           NEW from \in Nat, NEW to \in Nat, NEW whole \in BOOLEAN,
           HeaderChain(w, from, to, whole)
    PROVE  HeaderChain(v, IF w[1].cmd = "HEADER" THEN from + 1 ELSE from, to, whole)
<1> DEFINE next == IF w[1].cmd = "HEADER" THEN from + 1 ELSE from
<1>0. Len(w) \in Nat /\ Len(v) \in Nat /\ Len(v) = Len(w) - 1 /\ Len(w) > 0
  BY PacketAt DEF IsTail
<1>1. \A i : Headers(v, i) = {k \in 1 .. Len(v) : k + 1 \in Headers(w, i)}
  BY <1>0 DEF Headers, Places, IsTail
<1>2. \A i : 1 \in Headers(w, i) => w[1].cmd = "HEADER" /\ i = from /\ from < to
  <2>1. w # <<>> /\ Head(w) = w[1]
    BY <1>0 DEF Packets
  <2> QED BY <2>1, HeaderAtHead DEF Headers, Places
<1>3. w[1].cmd = "HEADER" => 1 \in Headers(w, from)
  <2>1. w # <<>> /\ Head(w) = w[1]
    BY <1>0 DEF Packets
  <2> QED BY <1>0, <2>1, HeaderAtHead DEF Headers, Places
<1>4. next \in Nat /\ next <= to
  BY <1>2, <1>3 DEF HeaderChain
<1>5. ASSUME NEW i \in Id, NEW k \in Headers(v, i)
      PROVE  /\ next <= i /\ i < to
             /\ i = next \/ \E j \in Headers(v, i - 1) : j < k
             /\ \A j \in Headers(v, i) : j = k
  <2>1. k \in 1 .. Len(v) /\ k + 1 \in Headers(w, i) /\ i \in Nat
    BY <1>1, <1>5, IdIsNat
  <2>2. from <= i /\ i < to /\ (i = from \/ \E j \in Headers(w, i - 1) : j < k + 1)
        /\ \A j \in Headers(w, i) : j = k + 1
    BY <2>1 DEF HeaderChain
  <2>3. next <= i
    BY <1>3, <2>1, <2>2, <1>0
  <2>4. \A j \in Headers(v, i) : j = k
    BY <1>0, <1>1, <2>1, <2>2
  <2>5. i = next \/ \E j \in Headers(v, i - 1) : j < k
    <3>1. CASE i = from
      BY <2>3, <3>1
    <3>2. CASE i # from /\ i # next
      <4>1. PICK j \in Headers(w, i - 1) : j < k + 1
        BY <2>2, <3>2
      <4>2. j \in 1 .. Len(w) /\ j # 1
        BY <1>2, <3>2, <2>2, <2>3, <4>1, <2>1 DEF Headers, Places
      <4>3. j - 1 \in 1 .. Len(v) /\ (j - 1) + 1 = j
        BY <1>0, <4>2
      <4>4. j - 1 \in Headers(v, i - 1) /\ j - 1 < k
        BY <1>1, <4>1, <4>3, <2>1
      <4> QED BY <4>4
    <3> QED BY <3>1, <3>2
  <2> QED BY <2>2, <2>3, <2>4, <2>5
<1>6. ASSUME whole, NEW i \in Id, next <= i, i < to PROVE Headers(v, i) # {}
  <2>1. i \in Nat /\ from <= i
    BY <1>6, IdIsNat
  <2>2. PICK k \in Headers(w, i) : TRUE
    BY <1>6, <2>1 DEF HeaderChain
  <2>3. k \in 1 .. Len(w) /\ k # 1
    BY <1>2, <1>6, <2>1, <2>2 DEF Headers, Places
  <2>4. k - 1 \in 1 .. Len(v) /\ (k - 1) + 1 = k
    BY <1>0, <2>3
  <2> QED BY <1>1, <2>2, <2>4
<1> HIDE DEF next
<1> QED BY <1>4, <1>5, <1>6 DEF HeaderChain, next


(* Losing the end of the wire, and what was to come.                       *)
LEMMA HeaderPrefix ==
    ASSUME NEW w \in Packets, NEW v \in Packets, IsFront(v, w),
           NEW from \in Nat, NEW to \in Nat, NEW whole, HeaderChain(w, from, to, whole)
    PROVE  HeaderChain(v, from, to, FALSE)
<1>0. Len(w) \in Nat /\ Len(v) \in Nat
  BY PacketAt
<1>1. \A i : Headers(v, i) = Headers(w, i) \cap (1 .. Len(v))
  BY <1>0 DEF Headers, Places, IsFront
<1>2. ASSUME NEW i \in Id, NEW k \in Headers(v, i)
      PROVE  /\ from <= i /\ i < to
             /\ i = from \/ \E j \in Headers(v, i - 1) : j < k
             /\ \A j \in Headers(v, i) : j = k
  <2>1. k \in Headers(w, i) /\ k \in 1 .. Len(v)
    BY <1>1, <1>2
  <2>2. /\ from <= i /\ i < to
        /\ i = from \/ \E j \in Headers(w, i - 1) : j < k
        /\ \A j \in Headers(w, i) : j = k
    BY <2>1 DEF HeaderChain
  <2>3. \A j \in Headers(w, i - 1) : j < k => j \in Headers(v, i - 1)
    <3>1. \A j \in Headers(w, i - 1) : j \in 1 .. Len(w)
      BY DEF Headers, Places
    <3> QED BY <1>0, <1>1, <2>1, <3>1
  <2> QED BY <1>1, <2>2, <2>3
<1> QED BY <1>2 DEF HeaderChain

LEMMA HeaderLost ==
    ASSUME NEW w, NEW from \in Nat, NEW to \in Nat, NEW whole, HeaderChain(w, from, to, whole)
    PROVE  HeaderChain(w, from, to, FALSE) /\ HeaderChain(w, from, to + 1, FALSE)
<1>1. \A i \in Id : i < to => i < to + 1
  BY IdIsNat
<1> QED BY <1>1 DEF HeaderChain

(* Packets join the wire.                                                  *)
LEMMA HeaderJoins ==
    ASSUME NEW w \in Packets, NEW v \in Packets, NEW s \in Packets, IsConcat(v, w, s),
           NEW from \in Nat, NEW to \in Nat, NEW next \in Nat, HeaderChain(w, from, to, TRUE),
           \/ next = to /\ \A k \in 1 .. Len(s) : s[k].cmd # "HEADER"
           \/ next = to + 1 /\ s = <<Header(to)>> /\ to \in Id
    PROVE  HeaderChain(v, from, next, TRUE)
<1>0. Len(w) \in Nat /\ Len(v) \in Nat /\ Len(s) \in Nat
  BY PacketAt
<1>1. \A i : \A k \in Headers(w, i) : k \in Headers(v, i) /\ k \in 1 .. Len(w)
  BY <1>0 DEF Headers, Places, IsConcat
<1>2. \A i : \A k \in Headers(v, i) :
         k \in Headers(w, i) \/ (i = to /\ k = Len(w) + 1 /\ next = to + 1)
  <2> SUFFICES ASSUME NEW i, NEW k \in Headers(v, i), k \notin Headers(w, i)
               PROVE  i = to /\ k = Len(w) + 1 /\ next = to + 1
    OBVIOUS
  <2>1. k \in 1 .. Len(v) /\ v[k].cmd = "HEADER" /\ v[k].id = i
    BY DEF Headers, Places
  <2>2. k \notin 1 .. Len(w)
    BY <2>1 DEF Headers, Places, IsConcat
  <2>3. k - Len(w) \in 1 .. Len(s) /\ v[k] = s[k - Len(w)]
    <3>1. k - Len(w) \in 1 .. Len(s) /\ k = Len(w) + (k - Len(w))
      BY <2>1, <2>2, <1>0 DEF IsConcat
    <3> QED BY <3>1 DEF IsConcat
  <2>4. next = to + 1 /\ s = <<Header(to)>>
    BY <2>1, <2>3
  <2>5. Len(s) = 1 /\ s[1] = Header(to) /\ Header(to).id = to
    BY <2>4 DEF Header, Packet
  <2>6. k - Len(w) = 1
    BY <2>3, <2>5
  <2> QED BY <2>1, <2>3, <2>4, <2>5, <2>6, <1>0
<1>3. next = to + 1 => to \in Id /\ Len(w) + 1 \in Headers(v, to)
  <2> SUFFICES ASSUME next = to + 1 PROVE to \in Id /\ Len(w) + 1 \in Headers(v, to)
    OBVIOUS
  <2>1. to \in Id /\ s = <<Header(to)>>
    BY <1>0
  <2>2. Len(s) = 1 /\ s[1] = Header(to) /\ Header(to).id = to /\ Header(to).cmd = "HEADER"
    BY <2>1 DEF Header, Packet
  <2>3. v[Len(w) + 1] = s[1] /\ Len(w) + 1 \in 1 .. Len(v)
    BY <1>0, <2>2 DEF IsConcat
  <2> QED BY <2>1, <2>2, <2>3 DEF Headers, Places
<1>4. to <= next /\ (next = to \/ next = to + 1)
  OBVIOUS
<1>5. ASSUME NEW i \in Id, NEW k \in Headers(v, i)
      PROVE  /\ from <= i /\ i < next
             /\ i = from \/ \E j \in Headers(v, i - 1) : j < k
             /\ \A j \in Headers(v, i) : j = k
  <2>0. i \in Nat
    BY IdIsNat
  <2>1. CASE k \in Headers(w, i)
    <3>1. /\ from <= i /\ i < to
          /\ i = from \/ \E j \in Headers(w, i - 1) : j < k
          /\ \A j \in Headers(w, i) : j = k
      BY <2>1 DEF HeaderChain
    <3>2. \A j \in Headers(v, i) : j \in Headers(w, i)
      BY <1>2, <3>1, <2>0
    <3> QED BY <3>1, <3>2, <1>1, <1>4, <2>0
  <2>2. CASE k \notin Headers(w, i)
    <3>1. i = to /\ k = Len(w) + 1 /\ next = to + 1
      BY <1>2, <2>2
    <3>2. from <= i
      BY <3>1 DEF HeaderChain
    <3>3. \A j \in Headers(v, i) : j = k
      <4>1. \A j \in Headers(w, i) : i < to
        BY DEF HeaderChain
      <4> QED BY <4>1, <1>2, <3>1, <2>0
    <3>4. i # from => \E j \in Headers(v, i - 1) : j < k
      <4> SUFFICES ASSUME i # from PROVE \E j \in Headers(v, i - 1) : j < k
        OBVIOUS
      <4>1. i - 1 \in Id /\ from <= i - 1 /\ i - 1 < to
        <5>1. PICK e \in Endpoint : i \in 0 .. Quota[e] - 1
          BY DEF Id
        <5>2. i - 1 \in 0 .. Quota[e] - 1
          BY <5>1, <3>2, <2>0, QuotaAssumption
        <5> QED BY <5>2, <3>1, <3>2, <2>0 DEF Id
      <4>2. PICK j \in Headers(w, i - 1) : TRUE
        BY <4>1 DEF HeaderChain
      <4> QED BY <4>2, <1>1, <3>1, <1>0
    <3> QED BY <3>1, <3>2, <3>3, <3>4, <2>0
  <2> QED BY <2>1, <2>2
<1>6. ASSUME NEW i \in Id, from <= i, i < next PROVE Headers(v, i) # {}
  <2>1. CASE i < to
    BY <2>1, <1>1, <1>6 DEF HeaderChain
  <2>2. CASE ~(i < to)
    <3>1. i = to /\ next = to + 1
      BY <2>2, <1>4, <1>6, IdIsNat
    <3> QED BY <3>1, <1>3
  <2> QED BY <2>1, <2>2
<1>7. from <= next
  BY <1>4 DEF HeaderChain
<1> QED BY <1>5, <1>6, <1>7 DEF HeaderChain

-------------------------------------------------------------------------------
(* The body of one message.  First the head of the wire.                   *)
LEMMA BodyAtHead ==
    ASSUME NEW w \in Packets, w # <<>>, NEW i \in Id, NEW o \in OutRecord, NEW m \in InRecord,
           NEW whole, BodyChain(w, i, o, m, whole), Head(w).id = i
    PROVE  /\ Head(w).cmd \in {"DATA", "EOF", "TXERR"} => m.state # "idle" /\ o.state # "idle"
           /\ Head(w).cmd = "DATA" /\ Arriving(m) =>
                 /\ Head(w).lo = m.received /\ m.received < Head(w).hi /\ Head(w).hi <= o.sent
           /\ Head(w).cmd \in {"EOF", "TXERR"} =>
                 /\ o.state = IF Head(w).cmd = "EOF" THEN "ok" ELSE "err"
                 /\ Arriving(m) => m.received = o.sent
                 /\ \A k \in Datas(w, i) \union Ends(w, i) : k = 1
<1>0. Head(w) = w[1] /\ 1 \in 1 .. Len(w)
  BY DEF Packets
<1>1. \A k \in 1 .. Len(w) : k >= 1 /\ ~(k < 1)
  BY PacketAt
<1>2. \A k \in Headers(w, i) \union Datas(w, i) \union Ends(w, i) : k >= 1 /\ ~(k < 1)
  BY <1>1 DEF Headers, Datas, Ends, Places
<1>3. ASSUME Head(w).cmd \in {"DATA", "EOF", "TXERR"}
      PROVE  m.state # "idle" /\ o.state # "idle"
  <2>1. 1 \in Datas(w, i) \union Ends(w, i)
    BY <1>0, <1>3 DEF Datas, Ends, Places
  <2>2. m.state # "idle"
    BY <1>2, <2>1 DEF BodyChain, Introduced
  <2>3. o.state # "idle"
    BY <2>1 DEF BodyChain, EndLast
  <2> QED BY <2>2, <2>3
<1>4. ASSUME Head(w).cmd = "DATA", Arriving(m)
      PROVE  Head(w).lo = m.received /\ m.received < Head(w).hi /\ Head(w).hi <= o.sent
  <2>1. 1 \in Datas(w, i)
    BY <1>0, <1>4 DEF Datas, Places
  <2> QED BY <1>0, <1>2, <1>4, <2>1 DEF BodyChain, DataChain
<1>5. ASSUME Head(w).cmd \in {"EOF", "TXERR"}
      PROVE  /\ o.state = IF Head(w).cmd = "EOF" THEN "ok" ELSE "err"
             /\ Arriving(m) => m.received = o.sent
             /\ \A k \in Datas(w, i) \union Ends(w, i) : k = 1
  <2>1. 1 \in Ends(w, i)
    BY <1>0, <1>5 DEF Ends, Places
  <2>2. o.state = IF Head(w).cmd = "EOF" THEN "ok" ELSE "err"
    BY <1>0, <2>1 DEF BodyChain, EndLast
  <2>3. \A k \in Datas(w, i) \union Ends(w, i) : k = 1
    <3>1. \A k \in Datas(w, i) \union Ends(w, i) : k <= 1 /\ k \in 1 .. Len(w)
      BY <2>1 DEF BodyChain, EndLast, Datas, Ends, Places
    <3> QED BY <3>1, PacketAt
  <2>4. 1 \notin Datas(w, i)
    BY <1>0, <1>5 DEF Datas, Places
  <2>5. Arriving(m) => Reaches(w, i, m.received, o.sent)
    BY <2>1 DEF BodyChain
  <2> QED BY <2>2, <2>3, <2>4, <2>5 DEF Reaches
<1> QED BY <1>3, <1>4, <1>5

(* The head of the wire is handled: m becomes n.                           *)
LEMMA BodyTail ==
    ASSUME NEW w \in Packets, NEW v \in Packets, IsTail(v, w), NEW i \in Id,
           NEW o \in OutRecord, NEW m \in InRecord, NEW n \in InRecord, NEW whole,
           BodyChain(w, i, o, m, whole),
           m.state # "idle" \/ 1 \in Headers(w, i) => n.state # "idle",
           n.received = m.received \/ (1 \in Datas(w, i) /\ m.received < w[1].hi /\ n.received = w[1].hi),
           n.received <= o.sent,
           Arriving(n) => /\ Arriving(m)
                          /\ n.received = IF 1 \in Datas(w, i) THEN w[1].hi ELSE m.received
    PROVE  BodyChain(v, i, o, n, whole)
<1>0. Len(w) \in Nat /\ Len(v) \in Nat /\ Len(v) = Len(w) - 1 /\ Len(w) > 0
  BY PacketAt DEF IsTail
<1>1. /\ Headers(v, i) = {k \in 1 .. Len(v) : k + 1 \in Headers(w, i)}
      /\ Datas(v, i) = {k \in 1 .. Len(v) : k + 1 \in Datas(w, i)}
      /\ Ends(v, i) = {k \in 1 .. Len(v) : k + 1 \in Ends(w, i)}
  <2>1. \A k \in 1 .. Len(v) : v[k] = w[k + 1] /\ k + 1 \in 1 .. Len(w)
    BY <1>0 DEF IsTail
  <2>2. Headers(v, i) = {k \in 1 .. Len(v) : k + 1 \in Headers(w, i)}
    BY <2>1 DEF Headers, Places
  <2>3. Datas(v, i) = {k \in 1 .. Len(v) : k + 1 \in Datas(w, i)}
    BY <2>1 DEF Datas, Places
  <2>4. Ends(v, i) = {k \in 1 .. Len(v) : k + 1 \in Ends(w, i)}
    BY <2>1 DEF Ends, Places
  <2> QED BY <2>2, <2>3, <2>4
<1>2. /\ \A k \in Headers(w, i) \union Datas(w, i) \union Ends(w, i) : k \in 1 .. Len(w)
      /\ \A k \in 1 .. Len(w) : k # 1 => k - 1 \in 1 .. Len(v) /\ (k - 1) + 1 = k
      /\ \A k \in 1 .. Len(v) : k \in Nat
  BY <1>0 DEF Headers, Datas, Ends, Places
<1>3. Introduced(v, i, n.state # "idle")
  <2> SUFFICES ASSUME NEW k \in Datas(v, i) \union Ends(v, i)
               PROVE  /\ n.state # "idle" \/ \E j \in Headers(v, i) : j < k
                      /\ \A j \in Headers(v, i) : j < k
    BY DEF Introduced
  <2>1. k \in Nat /\ k + 1 \in Datas(w, i) \union Ends(w, i)
    BY <1>1, <1>2
  <2>2. /\ m.state # "idle" \/ \E j \in Headers(w, i) : j < k + 1
        /\ \A j \in Headers(w, i) : j < k + 1
    BY <2>1 DEF BodyChain, Introduced
  <2>3. \A j \in Headers(v, i) : j < k
    BY <1>1, <1>2, <2>1, <2>2
  <2>4. n.state # "idle" \/ \E j \in Headers(v, i) : j < k
    <3> SUFFICES ASSUME n.state = "idle" PROVE \E j \in Headers(v, i) : j < k
      OBVIOUS
    <3>1. PICK j \in Headers(w, i) : j < k + 1
      BY <2>2
    <3>2. j # 1
      BY <3>1
    <3>3. j - 1 \in 1 .. Len(v) /\ (j - 1) + 1 = j
      BY <1>2, <3>1, <3>2
    <3>4. j - 1 \in Headers(v, i) /\ j - 1 < k
      BY <1>1, <2>1, <3>1, <3>3
    <3> QED BY <3>4
  <2> QED BY <2>3, <2>4
<1>4. EndLast(v, i, o.state)
  <2> SUFFICES ASSUME NEW k \in Ends(v, i)
               PROVE  /\ o.state = IF v[k].cmd = "EOF" THEN "ok" ELSE "err"
                      /\ \A j \in Datas(v, i) \union Ends(v, i) : j <= k
    BY DEF EndLast
  <2>1. k \in Nat /\ k + 1 \in Ends(w, i) /\ v[k] = w[k + 1]
    BY <1>1, <1>2 DEF IsTail
  <2>2. \A j \in Datas(v, i) \union Ends(v, i) : j + 1 \in Datas(w, i) \union Ends(w, i) /\ j \in Nat
    BY <1>1, <1>2
  <2> QED BY <2>1, <2>2 DEF BodyChain, EndLast
<1>5. Datas(v, i) # {} => o.state # "idle"
  BY <1>1 DEF BodyChain
<1>6. ASSUME Arriving(n)
      PROVE  /\ DataChain(v, i, n.received, o.sent)
             /\ whole \/ Ends(v, i) # {} => Reaches(v, i, n.received, o.sent)
  <2>1. /\ DataChain(w, i, m.received, o.sent)
        /\ whole \/ Ends(w, i) # {} => Reaches(w, i, m.received, o.sent)
    BY <1>6 DEF BodyChain
  <2>2. n.received = IF 1 \in Datas(w, i) THEN w[1].hi ELSE m.received
    BY <1>6
  <2>3. DataChain(v, i, n.received, o.sent)
    <3> SUFFICES ASSUME NEW k \in Datas(v, i)
                 PROVE  /\ n.received <= v[k].lo /\ v[k].lo < v[k].hi /\ v[k].hi <= o.sent
                        /\ v[k].lo = n.received \/ \E j \in Datas(v, i) : j < k /\ v[j].hi = v[k].lo
                        /\ \A j \in Datas(v, i) : j < k => v[j].hi <= v[k].lo
      BY DEF DataChain
    <3>1. k \in 1 .. Len(v) /\ k \in Nat /\ k + 1 \in Datas(w, i) /\ v[k] = w[k + 1]
      BY <1>1, <1>2 DEF IsTail
    <3>2. /\ m.received <= v[k].lo /\ v[k].lo < v[k].hi /\ v[k].hi <= o.sent
          /\ v[k].lo = m.received \/ \E j \in Datas(w, i) : j < k + 1 /\ w[j].hi = v[k].lo
          /\ \A j \in Datas(w, i) : j < k + 1 => w[j].hi <= v[k].lo
      BY <2>1, <3>1 DEF DataChain
    <3>3. n.received <= v[k].lo
      BY <2>2, <3>1, <3>2
    <3>4. \A j \in Datas(v, i) : j < k => v[j].hi <= v[k].lo
      <4> TAKE j \in Datas(v, i)
      <4>1. j \in 1 .. Len(v) /\ j \in Nat /\ j + 1 \in Datas(w, i) /\ v[j] = w[j + 1]
        BY <1>1, <1>2 DEF IsTail
      <4> QED BY <3>1, <3>2, <4>1
    <3>5. v[k].lo = n.received \/ \E j \in Datas(v, i) : j < k /\ v[j].hi = v[k].lo
      <4>1. CASE v[k].lo = m.received
        <5>1. 1 \in Datas(w, i) => w[1].hi <= v[k].lo /\ m.received < w[1].hi
          <6>1. 1 \in Datas(w, i) => m.received <= w[1].lo /\ w[1].lo < w[1].hi
            BY <2>1 DEF DataChain
          <6>2. w[1].lo \in Nat /\ w[1].hi \in Nat /\ m.received \in Nat
            BY <1>0, PacketAt DEF InRecord
          <6> QED BY <3>1, <3>2, <6>1, <6>2
        <5>2. v[k].lo \in Nat /\ w[1].hi \in Nat
          BY <1>0, <3>1, PacketAt
        <5> QED BY <2>2, <4>1, <5>1, <5>2
      <4>2. CASE \E j \in Datas(w, i) : j < k + 1 /\ w[j].hi = v[k].lo
        <5>1. PICK j \in Datas(w, i) : j < k + 1 /\ w[j].hi = v[k].lo
          BY <4>2
        <5>2. CASE j = 1
          BY <2>2, <5>1, <5>2
        <5>3. CASE j # 1
          <6>1. j - 1 \in 1 .. Len(v) /\ (j - 1) + 1 = j
            BY <1>2, <5>1, <5>3
          <6>2. j - 1 \in Datas(v, i) /\ v[j - 1] = w[j]
            BY <1>1, <5>1, <6>1 DEF IsTail
          <6>3. j - 1 < k
            BY <5>1, <6>1, <3>1
          <6> QED BY <5>1, <6>2, <6>3
        <5> QED BY <5>2, <5>3
      <4> QED BY <3>2, <4>1, <4>2
    <3> QED BY <3>2, <3>3, <3>4, <3>5
  <2>4. ASSUME whole \/ Ends(v, i) # {} PROVE Reaches(v, i, n.received, o.sent)
    <3>1. Reaches(w, i, m.received, o.sent)
      BY <1>1, <2>1, <2>4
    <3>2. CASE 1 \notin Datas(w, i)
      <4>1. \A j \in Datas(w, i) : j - 1 \in Datas(v, i) /\ v[j - 1] = w[j]
        <5> TAKE j \in Datas(w, i)
        <5>1. j \in 1 .. Len(w) /\ j # 1
          BY <1>2, <3>2
        <5>2. j - 1 \in 1 .. Len(v) /\ (j - 1) + 1 = j
          BY <1>2, <5>1
        <5> QED BY <1>1, <5>2 DEF IsTail
      <4> QED BY <2>2, <3>1, <3>2, <4>1 DEF Reaches
    <3>3. CASE 1 \in Datas(w, i)
      <4>1. m.received < w[1].hi /\ w[1].hi <= o.sent
        <5>1. m.received <= w[1].lo /\ w[1].lo < w[1].hi /\ w[1].hi <= o.sent
          BY <2>1, <3>3 DEF DataChain
        <5>2. w[1].lo \in Nat /\ w[1].hi \in Nat /\ m.received \in Nat
          BY <1>0, PacketAt DEF InRecord
        <5> QED BY <5>1, <5>2
      <4>2. m.received # o.sent
        <5>1. w[1].hi \in Nat /\ m.received \in Nat /\ o.sent \in Nat
          BY <1>0, PacketAt DEF InRecord, OutRecord
        <5> QED BY <4>1, <5>1
      <4>3. PICK j \in Datas(w, i) : w[j].hi = o.sent
        BY <3>1, <4>2 DEF Reaches
      <4>4. CASE j = 1
        BY <2>2, <3>3, <4>3, <4>4 DEF Reaches
      <4>5. CASE j # 1
        <5>1. j - 1 \in 1 .. Len(v) /\ (j - 1) + 1 = j
          BY <1>2, <4>3, <4>5
        <5>2. j - 1 \in Datas(v, i) /\ v[j - 1] = w[j]
          BY <1>1, <4>3, <5>1 DEF IsTail
        <5> QED BY <4>3, <5>2 DEF Reaches
      <4> QED BY <4>4, <4>5
    <3> QED BY <3>2, <3>3
  <2> QED BY <2>3, <2>4
<1> QED BY <1>3, <1>4, <1>5, <1>6 DEF BodyChain

LEMMA EndTail ==
    ASSUME NEW w \in Packets, NEW v \in Packets, IsTail(v, w), NEW i \in Id,
           NEW o, NEW m, NEW shut, EndChain(w, i, o, m, shut)
    PROVE  EndChain(v, i, o, m, shut)
<1>0. Len(w) \in Nat /\ Len(v) \in Nat /\ Len(v) = Len(w) - 1 /\ Len(w) > 0
  BY PacketAt DEF IsTail
<1>1. \A k \in Datas(v, i) : k + 1 \in Datas(w, i)
  BY <1>0 DEF Datas, Places, IsTail
<1>2. \A k \in Ends(v, i) : k + 1 \in Ends(w, i)
  BY <1>0 DEF Ends, Places, IsTail
<1> QED BY <1>1, <1>2 DEF EndChain

(* Losing the end of the wire, and what was to come.                       *)
LEMMA BodyPrefix ==
    ASSUME NEW w \in Packets, NEW v \in Packets, IsFront(v, w), NEW i \in Id,
           NEW o \in OutRecord, NEW m \in InRecord, NEW whole, NEW shut,
           BodyChain(w, i, o, m, whole), EndChain(w, i, o, m, shut)
    PROVE  BodyChain(v, i, o, m, FALSE) /\ EndChain(v, i, o, m, shut)
<1>0. Len(w) \in Nat /\ Len(v) \in Nat /\ Len(v) <= Len(w)
  BY PacketAt DEF IsFront
<1>1. \A k \in 1 .. Len(v) : v[k] = w[k] /\ k \in 1 .. Len(w) /\ k \in Nat
  BY <1>0 DEF IsFront
<1>2. /\ Headers(v, i) = Headers(w, i) \cap (1 .. Len(v))
      /\ Datas(v, i) = Datas(w, i) \cap (1 .. Len(v))
      /\ Ends(v, i) = Ends(w, i) \cap (1 .. Len(v))
  <2>1. Headers(v, i) = Headers(w, i) \cap (1 .. Len(v))
    BY <1>1 DEF Headers, Places
  <2>2. Datas(v, i) = Datas(w, i) \cap (1 .. Len(v))
    BY <1>1 DEF Datas, Places
  <2>3. Ends(v, i) = Ends(w, i) \cap (1 .. Len(v))
    BY <1>1 DEF Ends, Places
  <2> QED BY <2>1, <2>2, <2>3
<1>3. \A k \in 1 .. Len(v) : \A j \in Headers(w, i) \union Datas(w, i) \union Ends(w, i) :
         j <= k => j \in 1 .. Len(v)
  <2>1. \A j \in Headers(w, i) \union Datas(w, i) \union Ends(w, i) : j \in 1 .. Len(w)
    BY DEF Headers, Datas, Ends, Places
  <2> QED BY <2>1, <1>0
<1>4. Introduced(v, i, m.state # "idle")
  <2> SUFFICES ASSUME NEW k \in Datas(v, i) \union Ends(v, i)
               PROVE  /\ m.state # "idle" \/ \E j \in Headers(v, i) : j < k
                      /\ \A j \in Headers(v, i) : j < k
    BY DEF Introduced
  <2>1. k \in 1 .. Len(v) /\ k \in Datas(w, i) \union Ends(w, i)
    BY <1>2
  <2>2. /\ m.state # "idle" \/ \E j \in Headers(w, i) : j < k
        /\ \A j \in Headers(w, i) : j < k
    BY <2>1 DEF BodyChain, Introduced
  <2>3. k \in Nat /\ \A j \in Headers(w, i) : j \in Nat
    BY <1>0, <2>1 DEF Headers, Places
  <2>4. \A j \in Headers(w, i) : j < k => j \in Headers(v, i)
    BY <1>2, <1>3, <2>1, <2>3
  <2> QED BY <2>2, <2>4, <1>2
<1>5. EndLast(v, i, o.state)
  BY <1>1, <1>2 DEF BodyChain, EndLast
<1>6. ASSUME Arriving(m)
      PROVE  /\ DataChain(v, i, m.received, o.sent)
             /\ Ends(v, i) # {} => Reaches(v, i, m.received, o.sent)
  <2>1. /\ DataChain(w, i, m.received, o.sent)
        /\ Ends(w, i) # {} => Reaches(w, i, m.received, o.sent)
    BY <1>6 DEF BodyChain
  <2>2. DataChain(v, i, m.received, o.sent)
    <3> SUFFICES ASSUME NEW k \in Datas(v, i)
                 PROVE  /\ m.received <= v[k].lo /\ v[k].lo < v[k].hi /\ v[k].hi <= o.sent
                        /\ v[k].lo = m.received \/ \E j \in Datas(v, i) : j < k /\ v[j].hi = v[k].lo
                        /\ \A j \in Datas(v, i) : j < k => v[j].hi <= v[k].lo
      BY DEF DataChain
    <3>1. k \in 1 .. Len(v) /\ k \in Datas(w, i) /\ v[k] = w[k]
      BY <1>1, <1>2
    <3>2. /\ m.received <= v[k].lo /\ v[k].lo < v[k].hi /\ v[k].hi <= o.sent
          /\ v[k].lo = m.received \/ \E j \in Datas(w, i) : j < k /\ w[j].hi = v[k].lo
          /\ \A j \in Datas(w, i) : j < k => w[j].hi <= v[k].lo
      BY <2>1, <3>1 DEF DataChain
    <3>3. \A j \in Datas(w, i) : j < k => j \in Datas(v, i) /\ v[j] = w[j]
      <4>1. \A j \in Datas(w, i) : j \in 1 .. Len(w)
        BY DEF Datas, Places
      <4> QED BY <1>0, <1>1, <1>2, <3>1, <4>1
    <3>4. \A j \in Datas(v, i) : v[j] = w[j] /\ j \in Datas(w, i)
      BY <1>1, <1>2
    <3> QED BY <3>2, <3>3, <3>4
  <2>3. ASSUME NEW k \in Ends(v, i) PROVE Reaches(v, i, m.received, o.sent)
    <3>1. k \in Ends(w, i) /\ k \in 1 .. Len(v)
      BY <1>2, <2>3
    <3>2. \A j \in Datas(w, i) : j \in Datas(v, i) /\ v[j] = w[j]
      <4>1. \A j \in Datas(w, i) : j <= k
        BY <3>1 DEF BodyChain, EndLast
      <4> QED BY <4>1, <3>1, <1>1, <1>2, <1>3
    <3> QED BY <2>1, <3>1, <3>2 DEF Reaches
  <2> QED BY <2>2, <2>3
<1>7. Datas(v, i) # {} => o.state # "idle"
  BY <1>2 DEF BodyChain
<1>8. BodyChain(v, i, o, m, FALSE)
  BY <1>4, <1>5, <1>6, <1>7 DEF BodyChain
<1> QED BY <1>2, <1>8 DEF EndChain

(* The wire stays; the records change in what does not matter to it.       *)
LEMMA BodyKept ==
    ASSUME NEW w, NEW i \in Id, NEW o \in OutRecord, NEW m \in InRecord,
           NEW p \in OutRecord, NEW n \in InRecord, NEW whole \in BOOLEAN, NEW more \in BOOLEAN,
           NEW shut \in BOOLEAN, NEW gone \in BOOLEAN,
           more => whole, shut => gone,
           BodyChain(w, i, o, m, whole), EndChain(w, i, o, m, shut),
           p.state = o.state, p.sent = o.sent, n.received = m.received,
           n.state = m.state \/ (n.state = "err" /\ m.state = "open" /\ gone)
    PROVE  BodyChain(w, i, p, n, more) /\ EndChain(w, i, p, n, gone)
<1>1. Introduced(w, i, n.state # "idle")
  <2>1. (n.state # "idle") <=> (m.state # "idle")
    OBVIOUS
  <2> QED BY <2>1 DEF BodyChain, Introduced
<1>2. Arriving(n) => Arriving(m)
  BY DEF Arriving
<1>3. BodyChain(w, i, p, n, more)
  BY <1>1, <1>2 DEF BodyChain
<1> QED BY <1>3 DEF EndChain, Ended

(* What its sender still writes, or its end, is lost.                      *)
LEMMA BodyLost ==
    ASSUME NEW w \in Packets, NEW i \in Id, NEW o \in OutRecord, NEW m \in InRecord,
           NEW p \in OutRecord, NEW whole, NEW shut,
           BodyChain(w, i, o, m, whole), EndChain(w, i, o, m, shut),
           o.state \in {"idle", "open"}, p.state # "idle", p.sent >= o.sent
    PROVE  BodyChain(w, i, p, m, FALSE) /\ EndChain(w, i, p, m, shut)
<1>1. Ends(w, i) = {}
  BY DEF BodyChain, EndLast
<1>2. m.received \in Nat /\ o.sent \in Nat /\ p.sent \in Nat
  BY DEF InRecord, OutRecord
<1>3. Arriving(m) => DataChain(w, i, m.received, p.sent)
  <2> SUFFICES ASSUME Arriving(m), NEW k \in Datas(w, i)
               PROVE  /\ m.received <= w[k].lo /\ w[k].lo < w[k].hi /\ w[k].hi <= p.sent
                      /\ w[k].lo = m.received \/ \E j \in Datas(w, i) : j < k /\ w[j].hi = w[k].lo
                      /\ \A j \in Datas(w, i) : j < k => w[j].hi <= w[k].lo
    BY DEF DataChain
  <2>1. /\ m.received <= w[k].lo /\ w[k].lo < w[k].hi /\ w[k].hi <= o.sent
        /\ w[k].lo = m.received \/ \E j \in Datas(w, i) : j < k /\ w[j].hi = w[k].lo
        /\ \A j \in Datas(w, i) : j < k => w[j].hi <= w[k].lo
    BY DEF BodyChain, DataChain
  <2>2. w[k].hi \in Nat
    BY PacketAt DEF Datas, Places
  <2> QED BY <1>2, <2>1, <2>2
<1>4. EndLast(w, i, p.state)
  BY <1>1 DEF EndLast
<1>5. BodyChain(w, i, p, m, FALSE)
  BY <1>1, <1>2, <1>3, <1>4 DEF BodyChain
<1> QED BY <1>5 DEF EndChain, Ended

(* Packets join the wire.                                                  *)
LEMMA PlacesJoin ==
    ASSUME NEW w \in Packets, NEW v \in Packets, NEW s \in Packets, IsConcat(v, w, s),
           NEW cmds, NEW i
    PROVE  /\ \A k \in Places(w, cmds, i) : k \in Places(v, cmds, i) /\ v[k] = w[k]
           /\ \A k \in Places(s, cmds, i) :
                 Len(w) + k \in Places(v, cmds, i) /\ v[Len(w) + k] = s[k]
           /\ \A k \in Places(v, cmds, i) :
                 \/ k \in Places(w, cmds, i)
                 \/ k > Len(w) /\ k - Len(w) \in Places(s, cmds, i) /\ v[k] = s[k - Len(w)]
<1>0. Len(w) \in Nat /\ Len(v) \in Nat /\ Len(s) \in Nat /\ Len(v) = Len(w) + Len(s)
  BY PacketAt DEF IsConcat
<1>1. \A k \in 1 .. Len(w) : k \in 1 .. Len(v) /\ v[k] = w[k]
  BY <1>0 DEF IsConcat
<1>2. \A k \in 1 .. Len(s) : Len(w) + k \in 1 .. Len(v) /\ v[Len(w) + k] = s[k]
  BY <1>0 DEF IsConcat
<1>3. \A k \in 1 .. Len(v) :
         k \in 1 .. Len(w) \/ (k > Len(w) /\ k - Len(w) \in 1 .. Len(s) /\ v[k] = s[k - Len(w)])
  <2> TAKE k \in 1 .. Len(v)
  <2>1. CASE k \in 1 .. Len(w)
    BY <2>1
  <2>2. CASE k \notin 1 .. Len(w)
    <3>1. k > Len(w) /\ k - Len(w) \in 1 .. Len(s) /\ Len(w) + (k - Len(w)) = k
      BY <1>0, <2>2
    <3> QED BY <1>2, <3>1
  <2> QED BY <2>1, <2>2
<1> QED BY <1>1, <1>2, <1>3 DEF Places

LEMMA ChainJoins ==
    ASSUME NEW w \in Packets, NEW v \in Packets, NEW s \in Packets, IsConcat(v, w, s),
           NEW i \in Id, NEW a \in Nat, NEW b \in Nat, NEW c \in Nat, b <= c,
           DataChain(w, i, a, b), Reaches(w, i, a, b), DataChain(s, i, b, c), Reaches(s, i, b, c)
    PROVE  DataChain(v, i, a, c) /\ Reaches(v, i, a, c)
<1>0. Len(w) \in Nat /\ Len(s) \in Nat /\ Len(v) \in Nat
  BY PacketAt
<1>1. /\ \A k \in Datas(w, i) : k \in Datas(v, i) /\ v[k] = w[k] /\ k \in 1 .. Len(w)
      /\ \A k \in Datas(s, i) : Len(w) + k \in Datas(v, i) /\ v[Len(w) + k] = s[k] /\ k \in Nat /\ k >= 1
  <2>1. /\ \A k \in Datas(w, i) : k \in 1 .. Len(w)
        /\ \A k \in Datas(s, i) : k \in Nat /\ k >= 1
    BY PacketAt DEF Datas, Places
  <2> QED BY <2>1, PlacesJoin DEF Datas
<1>2. \A k \in Datas(v, i) :
         \/ k \in Datas(w, i)
         \/ k > Len(w) /\ k - Len(w) \in Datas(s, i) /\ v[k] = s[k - Len(w)]
  BY PlacesJoin DEF Datas
<1>3. /\ \A k \in Datas(w, i) : w[k].lo \in Nat /\ w[k].hi \in Nat
      /\ \A k \in Datas(s, i) : s[k].lo \in Nat /\ s[k].hi \in Nat
      /\ \A k \in Datas(v, i) : k \in Nat
  BY PacketAt DEF Datas, Places
<1>4. /\ a <= b
      /\ \A k \in Datas(w, i) : a <= w[k].lo /\ w[k].lo < w[k].hi /\ w[k].hi <= b
      /\ \A k \in Datas(s, i) : b <= s[k].lo /\ s[k].lo < s[k].hi /\ s[k].hi <= c
  BY <1>3 DEF DataChain, Reaches
<1>5. ASSUME NEW k \in Datas(v, i)
      PROVE  /\ a <= v[k].lo /\ v[k].lo < v[k].hi /\ v[k].hi <= c
             /\ v[k].lo = a \/ \E j \in Datas(v, i) : j < k /\ v[j].hi = v[k].lo
             /\ \A j \in Datas(v, i) : j < k => v[j].hi <= v[k].lo
  <2>1. CASE k \in Datas(w, i)
    <3>1. /\ v[k] = w[k] /\ a <= w[k].lo /\ w[k].lo < w[k].hi /\ w[k].hi <= b /\ w[k].hi \in Nat
          /\ w[k].lo = a \/ \E j \in Datas(w, i) : j < k /\ w[j].hi = w[k].lo
          /\ \A j \in Datas(w, i) : j < k => w[j].hi <= w[k].lo
      BY <2>1, <1>1, <1>3, <1>4 DEF DataChain
    <3>2. \A j \in Datas(v, i) : j < k => j \in Datas(w, i)
      <4>1. k \in 1 .. Len(w)
        BY <2>1, <1>1
      <4> QED BY <4>1, <1>0, <1>2, <1>3
    <3>3. v[k].lo = a \/ \E j \in Datas(v, i) : j < k /\ v[j].hi = v[k].lo
      BY <3>1, <1>1
    <3>4. \A j \in Datas(v, i) : j < k => v[j].hi <= v[k].lo
      BY <3>1, <3>2, <1>1
    <3>5. a <= v[k].lo /\ v[k].lo < v[k].hi /\ v[k].hi <= c
      BY <3>1
    <3> QED BY <3>3, <3>4, <3>5
  <2>2. CASE k \notin Datas(w, i)
    <3> DEFINE q == k - Len(w)
    <3>1. k > Len(w) /\ q \in Datas(s, i) /\ v[k] = s[q] /\ q \in Nat /\ k = Len(w) + q
      BY <2>2, <1>0, <1>1, <1>2, <1>3
    <3> HIDE DEF q
    <3>2. /\ b <= s[q].lo /\ s[q].lo < s[q].hi /\ s[q].hi <= c /\ s[q].lo \in Nat /\ s[q].hi \in Nat
          /\ s[q].lo = b \/ \E j \in Datas(s, i) : j < q /\ s[j].hi = s[q].lo
          /\ \A j \in Datas(s, i) : j < q => s[j].hi <= s[q].lo
      BY <3>1, <1>3, <1>4 DEF DataChain
    <3>3. a <= v[k].lo /\ v[k].lo < v[k].hi /\ v[k].hi <= c
      BY <3>1, <3>2, <1>4
    <3>4. \A j \in Datas(v, i) : j < k => v[j].hi <= v[k].lo
      <4> SUFFICES ASSUME NEW j \in Datas(v, i), j < k PROVE v[j].hi <= v[k].lo
        OBVIOUS
      <4>1. CASE j \in Datas(w, i)
        <5>1. v[j].hi <= b /\ v[j].hi \in Nat
          BY <4>1, <1>1, <1>3, <1>4
        <5> QED BY <5>1, <3>1, <3>2, <1>4
      <4>2. CASE j \notin Datas(w, i)
        <5>1. j - Len(w) \in Datas(s, i) /\ v[j] = s[j - Len(w)]
          BY <4>2, <1>2
        <5>2. j - Len(w) < q
          <6>1. j \in Nat
            BY <1>3
          <6> QED BY <6>1, <1>0, <3>1
        <5> QED BY <5>1, <5>2, <3>1, <3>2
      <4> QED BY <4>1, <4>2
    <3>5. v[k].lo = a \/ \E j \in Datas(v, i) : j < k /\ v[j].hi = v[k].lo
      <4>1. CASE s[q].lo = b
        <5>1. CASE a = b
          BY <4>1, <5>1, <3>1
        <5>2. CASE a # b
          <6>1. PICK j \in Datas(w, i) : w[j].hi = b
            BY <5>2 DEF Reaches
          <6>2. j \in Datas(v, i) /\ v[j].hi = v[k].lo /\ j < k
            BY <6>1, <4>1, <1>0, <1>1, <3>1
          <6> QED BY <6>2
        <5> QED BY <5>1, <5>2
      <4>2. CASE \E j \in Datas(s, i) : j < q /\ s[j].hi = s[q].lo
        <5>1. PICK j \in Datas(s, i) : j < q /\ s[j].hi = s[q].lo
          BY <4>2
        <5>2. Len(w) + j \in Datas(v, i) /\ v[Len(w) + j] = s[j] /\ Len(w) + j < k
          BY <5>1, <1>0, <1>1, <3>1
        <5> QED BY <5>1, <5>2, <3>1
      <4> QED BY <3>2, <4>1, <4>2
    <3> QED BY <3>3, <3>4, <3>5
  <2> QED BY <2>1, <2>2
<1>6. Reaches(v, i, a, c)
  <2>1. CASE b # c
    <3>1. PICK j \in Datas(s, i) : s[j].hi = c
      BY <2>1 DEF Reaches
    <3> QED BY <3>1, <1>1 DEF Reaches
  <2>2. CASE b = c
    <3>1. a = b \/ \E j \in Datas(w, i) : w[j].hi = b
      BY DEF Reaches
    <3> QED BY <2>2, <3>1, <1>1 DEF Reaches
  <2> QED BY <2>1, <2>2
<1> QED BY <1>5, <1>6 DEF DataChain

(***************************************************************************)
(* Packets s join the wire, and the sender's record o becomes p.           *)
(***************************************************************************)
LEMMA BodyJoins ==
    ASSUME NEW w \in Packets, NEW v \in Packets, NEW s \in Packets, IsConcat(v, w, s),
           NEW i \in Id, NEW o \in OutRecord, NEW p \in OutRecord, NEW m \in InRecord, NEW shut,
           BodyChain(w, i, o, m, TRUE), EndChain(w, i, o, m, shut),
           p.sent >= o.sent, DataChain(s, i, o.sent, p.sent), Reaches(s, i, o.sent, p.sent),
           Headers(s, i) # {} => o.state = "idle" /\ Datas(s, i) = {} /\ Ends(s, i) = {},
           Datas(s, i) \union Ends(s, i) # {} =>
              o.state = "open" /\ (m.state # "idle" \/ Headers(w, i) # {}),
           \/ p.state = o.state /\ Ends(s, i) = {}
           \/ o.state \in {"idle", "open"} /\ p.state # "idle" /\ EndLast(s, i, p.state)
    PROVE  BodyChain(v, i, p, m, TRUE) /\ EndChain(v, i, p, m, shut)
<1>0. Len(w) \in Nat /\ Len(s) \in Nat /\ Len(v) \in Nat
  BY PacketAt
<1>1. /\ \A k \in Headers(w, i) : k \in Headers(v, i)
      /\ \A k \in Headers(v, i) : k \in Headers(w, i) \/ k - Len(w) \in Headers(s, i)
      /\ \A k \in Datas(v, i) :
            k \in Datas(w, i) \/ (k > Len(w) /\ k - Len(w) \in Datas(s, i))
      /\ \A k \in Ends(v, i) :
            k \in Ends(w, i) \/ (k > Len(w) /\ k - Len(w) \in Ends(s, i) /\ v[k] = s[k - Len(w)])
      /\ \A k \in Ends(w, i) : v[k] = w[k]
  BY PlacesJoin DEF Headers, Datas, Ends
<1>2. /\ \A k \in Headers(w, i) \union Datas(w, i) \union Ends(w, i) : k \in 1 .. Len(w)
      /\ \A k \in Headers(v, i) \union Datas(v, i) \union Ends(v, i) : k \in Nat
      /\ \A k \in Headers(s, i) \union Datas(s, i) \union Ends(s, i) : k \in Nat
  BY <1>0 DEF Headers, Datas, Ends, Places
<1>3. o.state \in {"idle", "open"} => Ends(w, i) = {}
  BY DEF BodyChain, EndLast
<1>4. o.state = "idle" => Datas(w, i) = {}
  BY DEF BodyChain
<1>5. Introduced(v, i, m.state # "idle")
  <2> SUFFICES ASSUME NEW k \in Datas(v, i) \union Ends(v, i)
               PROVE  /\ m.state # "idle" \/ \E j \in Headers(v, i) : j < k
                      /\ \A j \in Headers(v, i) : j < k
    BY DEF Introduced
  <2>1. CASE k \in Datas(w, i) \union Ends(w, i)
    <3>1. /\ m.state # "idle" \/ \E j \in Headers(w, i) : j < k
          /\ \A j \in Headers(w, i) : j < k
      BY <2>1 DEF BodyChain, Introduced
    <3>2. Headers(s, i) = {}
      BY <2>1, <1>3, <1>4
    <3> QED BY <3>1, <3>2, <1>1
  <2>2. CASE k \notin Datas(w, i) \union Ends(w, i)
    <3>1. k > Len(w) /\ k - Len(w) \in Datas(s, i) \union Ends(s, i)
      BY <2>2, <1>1
    <3>2. Headers(s, i) = {} /\ (m.state # "idle" \/ Headers(w, i) # {})
      BY <3>1
    <3>3. \A j \in Headers(w, i) : j < k
      BY <1>0, <1>2, <3>1
    <3> QED BY <3>2, <3>3, <1>1
  <2> QED BY <2>1, <2>2
<1>6. EndLast(v, i, p.state)
  <2> SUFFICES ASSUME NEW k \in Ends(v, i)
               PROVE  /\ p.state = IF v[k].cmd = "EOF" THEN "ok" ELSE "err"
                      /\ \A j \in Datas(v, i) \union Ends(v, i) : j <= k
    BY DEF EndLast
  <2>1. CASE k \in Ends(w, i)
    <3>1. /\ o.state = IF w[k].cmd = "EOF" THEN "ok" ELSE "err"
          /\ \A j \in Datas(w, i) \union Ends(w, i) : j <= k
      BY <2>1 DEF BodyChain, EndLast
    <3>2. p.state = o.state /\ Ends(s, i) = {} /\ Datas(s, i) = {}
      BY <3>1
    <3> QED BY <2>1, <3>1, <3>2, <1>1
  <2>2. CASE k \notin Ends(w, i)
    <3>1. k > Len(w) /\ k - Len(w) \in Ends(s, i) /\ v[k] = s[k - Len(w)]
      BY <2>2, <1>1
    <3>2. o.state = "open" /\ EndLast(s, i, p.state)
      BY <3>1
    <3>3. Ends(w, i) = {}
      BY <3>2, <1>3
    <3>4. /\ p.state = IF s[k - Len(w)].cmd = "EOF" THEN "ok" ELSE "err"
          /\ \A j \in Datas(s, i) \union Ends(s, i) : j <= k - Len(w)
      BY <3>1, <3>2 DEF EndLast
    <3>5. \A j \in Datas(v, i) \union Ends(v, i) : j <= k
      <4> TAKE j \in Datas(v, i) \union Ends(v, i)
      <4>1. CASE j \in Datas(w, i)
        BY <4>1, <3>1, <1>0, <1>2
      <4>2. CASE j \notin Datas(w, i)
        <5>1. j - Len(w) \in Datas(s, i) \union Ends(s, i)
          BY <4>2, <3>3, <1>1
        <5> QED BY <5>1, <3>4, <1>0, <1>2
      <4> QED BY <4>1, <4>2
    <3> QED BY <3>1, <3>4, <3>5
  <2> QED BY <2>1, <2>2
<1>7. Datas(v, i) # {} => p.state # "idle"
  <2>1. Datas(v, i) # {} => o.state # "idle"
    BY <1>1, <1>4
  <2> QED BY <2>1
<1>8. m.received \in Nat /\ o.sent \in Nat /\ p.sent \in Nat
  BY DEF InRecord, OutRecord
<1>9. Arriving(m) => DataChain(v, i, m.received, p.sent) /\ Reaches(v, i, m.received, p.sent)
  BY <1>8, ChainJoins DEF BodyChain
<1>10. BodyChain(v, i, p, m, TRUE)
  BY <1>5, <1>6, <1>7, <1>8, <1>9 DEF BodyChain
<1>11. EndChain(v, i, p, m, shut)
  <2>1. m.state = "ok" => p.state = "ok"
    BY DEF EndChain
  <2>2. ASSUME Ended(m), ~shut PROVE Ended(p) /\ Datas(v, i) = {} /\ Ends(v, i) = {}
    <3>1. Ended(o) /\ Datas(w, i) = {} /\ Ends(w, i) = {}
      BY <2>2 DEF EndChain
    <3>2. p.state = o.state /\ Datas(s, i) = {} /\ Ends(s, i) = {}
      BY <3>1 DEF Ended
    <3> QED BY <3>1, <3>2, <1>1 DEF Ended
  <2> QED BY <2>1, <2>2 DEF EndChain
<1> QED BY <1>10, <1>11

-------------------------------------------------------------------------------
(* The pieces of a buffer follow each other, and make up the buffer.       *)
LEMMA SlicesChain ==
    ASSUME NEW i \in Id, NEW lo \in Nat, NEW n \in Nat \ {0}
    PROVE  LET s == Slices(i, lo, n)
           IN  /\ \A k \in 1 .. Len(s) : s[k].cmd = "DATA" /\ s[k].id = i
               /\ DataChain(s, i, lo, lo + n) /\ Reaches(s, i, lo, lo + n)
<1> DEFINE count == (n + MaxPacket - 1) \div MaxPacket
           s == Slices(i, lo, n)
           from(k) == (k - 1) * MaxPacket
           end(k) == IF k * MaxPacket < n THEN k * MaxPacket ELSE n
<1>1. count \in Nat /\ count * MaxPacket <= n + MaxPacket - 1 /\ n <= count * MaxPacket
  <2>1. count \in Nat
    BY MaxPacketAssumption
  <2>2. count * MaxPacket <= n + MaxPacket - 1
    BY MaxPacketAssumption
  <2>3. n + MaxPacket - 1 < count * MaxPacket + MaxPacket
    BY MaxPacketAssumption
  <2>4. count * MaxPacket \in Nat
    BY <2>1, MaxPacketAssumption
  <2> HIDE DEF count
  <2> QED BY <2>1, <2>2, <2>3, <2>4, MaxPacketAssumption
<1>2. count # 0
  <2>1. 0 * MaxPacket = 0
    BY MaxPacketAssumption
  <2> HIDE DEF count
  <2> QED BY <1>1, <2>1
<1>3. /\ Len(s) = count
      /\ \A k \in 1 .. count : s[k] = Data(i, lo + from(k), lo + end(k))
  BY <1>1, SlicesType DEF Slices
<1> HIDE DEF count, s
<1>4. ASSUME NEW k \in 1 .. count
      PROVE  /\ from(k) \in Nat /\ end(k) \in Nat /\ from(k) < end(k) /\ end(k) <= n
             /\ end(k) <= k * MaxPacket /\ k * MaxPacket \in Nat
             /\ k # 1 => k - 1 \in 1 .. count /\ end(k - 1) = from(k)
             /\ k = 1 => from(k) = 0
  <2>1. from(k) = k * MaxPacket - MaxPacket /\ k * MaxPacket \in Nat /\ from(k) \in Nat
    BY MaxPacketAssumption
  <2>2. k * MaxPacket <= count * MaxPacket /\ count * MaxPacket \in Nat
    BY MaxPacketAssumption, <1>1
  <2>3. from(k) < n
    <3> HIDE DEF from
    <3> QED BY <1>1, <2>1, <2>2, MaxPacketAssumption
  <2>4. /\ end(k) \in Nat /\ from(k) < end(k) /\ end(k) <= n /\ end(k) <= k * MaxPacket
    <3> DEFINE a == k * MaxPacket
    <3>1. a \in Nat /\ from(k) = a - MaxPacket /\ end(k) = IF a < n THEN a ELSE n
      BY <2>1
    <3> HIDE DEF a, from, end
    <3>2. end(k) \in Nat /\ from(k) < end(k) /\ end(k) <= n /\ end(k) <= a
      BY <3>1, <2>3, MaxPacketAssumption
    <3> QED BY <3>2 DEF a
  <2>5. k # 1 => k - 1 \in 1 .. count /\ end(k - 1) = from(k)
    BY <1>1, <2>3
  <2>6. k = 1 => from(k) = 0
    BY <2>1, MaxPacketAssumption
  <2> QED BY <2>1, <2>4, <2>5, <2>6
<1>5. /\ Datas(s, i) = 1 .. count
      /\ \A k \in 1 .. count : /\ s[k].cmd = "DATA" /\ s[k].id = i
                               /\ s[k].lo = lo + from(k) /\ s[k].hi = lo + end(k)
  BY <1>3 DEF Data, Packet, Datas, Places
<1>6. ASSUME NEW j \in 1 .. count, NEW k \in 1 .. count, j < k
      PROVE  end(j) <= from(k)
  <2>1. j <= k - 1 /\ k - 1 \in Nat
    BY <1>6, <1>1
  <2>2. j * MaxPacket <= (k - 1) * MaxPacket
    BY <2>1, <1>1, MaxPacketAssumption
  <2>3. end(j) <= j * MaxPacket /\ end(j) \in Nat /\ j * MaxPacket \in Nat /\ from(k) \in Nat
    BY <1>4
  <2> QED BY <2>2, <2>3
<1>7. DataChain(s, i, lo, lo + n)
  <2> SUFFICES ASSUME NEW k \in 1 .. count
               PROVE  /\ lo <= s[k].lo /\ s[k].lo < s[k].hi /\ s[k].hi <= lo + n
                      /\ s[k].lo = lo \/ \E j \in 1 .. count : j < k /\ s[j].hi = s[k].lo
                      /\ \A j \in 1 .. count : j < k => s[j].hi <= s[k].lo
    BY <1>5 DEF DataChain
  <2>1. lo <= s[k].lo /\ s[k].lo < s[k].hi /\ s[k].hi <= lo + n
    <3> HIDE DEF from, end
    <3> QED BY <1>4, <1>5
  <2>2. s[k].lo = lo \/ \E j \in 1 .. count : j < k /\ s[j].hi = s[k].lo
    <3>1. CASE k = 1
      <4> HIDE DEF from, end
      <4>1. from(k) = 0 /\ s[k].lo = lo + from(k)
        BY <1>4, <1>5, <3>1
      <4> QED BY <4>1
    <3>2. CASE k # 1
      <4>1. k - 1 < k
        BY <1>1
      <4>2. k - 1 \in 1 .. count /\ end(k - 1) = from(k)
        <5> HIDE DEF from, end
        <5> QED BY <1>4, <3>2
      <4> HIDE DEF from, end
      <4> QED BY <4>1, <4>2, <1>5
    <3> QED BY <3>1, <3>2
  <2>3. \A j \in 1 .. count : j < k => s[j].hi <= s[k].lo
    <3> SUFFICES ASSUME NEW j \in 1 .. count, j < k PROVE s[j].hi <= s[k].lo
      OBVIOUS
    <3>1. end(j) <= from(k) /\ end(j) \in Nat /\ from(k) \in Nat
      BY <1>4, <1>6
    <3> HIDE DEF from, end
    <3> QED BY <3>1, <1>5
  <2> QED BY <2>1, <2>2, <2>3
<1>8. Reaches(s, i, lo, lo + n)
  <2>1. count \in 1 .. count
    BY <1>1, <1>2
  <2>2. end(count) = n
    <3>1. ~(count * MaxPacket < n)
      BY <1>1, <1>2, MaxPacketAssumption
    <3> QED BY <3>1
  <2> HIDE DEF from, end
  <2> QED BY <2>1, <2>2, <1>5 DEF Reaches
<1> QED BY <1>3, <1>5, <1>7, <1>8 DEF s

-------------------------------------------------------------------------------
(***************************************************************************)
(* Everything below is about one direction of the connection at a time.    *)
(* Number and Flag are explained at the head of the module.                *)
(***************************************************************************)
Number == Nat
Flag   == BOOLEAN
OutRow == [Id -> OutRecord]
InRow  == [Id -> InRecord]

(* The wire stays; the records change in what does not matter to it.       *)
Kept(o, p, m, n, whole, more, shut, gone) ==
    /\ more => whole
    /\ shut => gone
    /\ \A i \in Id :
          /\ p[i].state = o[i].state /\ p[i].sent = o[i].sent
          /\ n[i].received = m[i].received
          /\ n[i].state = m[i].state \/ (n[i].state = "err" /\ m[i].state = "open" /\ gone)

LEMMA DirectionKept ==
    ASSUME NEW w \in Packets, NEW from \in Number, NEW to \in Number,
           NEW whole \in Flag, NEW more \in Flag, NEW shut \in Flag, NEW gone \in Flag,
           NEW o \in OutRow, NEW p \in OutRow, NEW m \in InRow, NEW n \in InRow,
           Direction(w, from, to, whole, o, m, shut), Kept(o, p, m, n, whole, more, shut, gone)
    PROVE  Direction(w, from, to, more, p, n, gone)
<1> USE DEF Number, Flag, Kept
<1>1. HeaderChain(w, from, to, more)
  BY DEF Direction, HeaderChain
<1>2. \A i \in Id : BodyChain(w, i, p[i], n[i], more) /\ EndChain(w, i, p[i], n[i], gone)
  <2> TAKE i \in Id
  <2>1. /\ o[i] \in OutRecord /\ p[i] \in OutRecord /\ m[i] \in InRecord /\ n[i] \in InRecord
        /\ BodyChain(w, i, o[i], m[i], whole) /\ EndChain(w, i, o[i], m[i], shut)
    BY DEF OutRow, InRow, Direction
  <2> QED BY <2>1, BodyKept
<1> QED BY <1>1, <1>2 DEF Direction

(* The end of the wire is lost.                                            *)
LEMMA DirectionCut ==
    ASSUME NEW w \in Packets, NEW v \in Packets, IsFront(v, w), NEW from \in Number, NEW to \in Number,
           NEW whole \in Flag, NEW shut \in Flag, NEW o \in OutRow, NEW m \in InRow,
           Direction(w, from, to, whole, o, m, shut)
    PROVE  Direction(v, from, to, FALSE, o, m, shut)
<1> USE DEF Number, Flag
<1>1. HeaderChain(v, from, to, FALSE)
  BY HeaderPrefix DEF Direction
<1>2. \A i \in Id : BodyChain(v, i, o[i], m[i], FALSE) /\ EndChain(v, i, o[i], m[i], shut)
  <2> TAKE i \in Id
  <2>1. /\ o[i] \in OutRecord /\ m[i] \in InRecord
        /\ BodyChain(w, i, o[i], m[i], whole) /\ EndChain(w, i, o[i], m[i], shut)
    BY DEF OutRow, InRow, Direction
  <2> QED BY <2>1, BodyPrefix
<1> QED BY <1>1, <1>2 DEF Direction

(* The head of the wire is handled: the receiver's records m become n.     *)
Handling(w, o, m, n, shut) ==
    \A i \in Id :
       /\ m[i].state # "idle" \/ 1 \in Headers(w, i) => n[i].state # "idle"
       /\ \/ n[i].received = m[i].received
          \/ 1 \in Datas(w, i) /\ m[i].received < w[1].hi /\ n[i].received = w[1].hi
       /\ n[i].received <= o[i].sent
       /\ Arriving(n[i]) =>
             /\ Arriving(m[i])
             /\ n[i].received = IF 1 \in Datas(w, i) THEN w[1].hi ELSE m[i].received
       /\ EndChain(Tail(w), i, o[i], n[i], shut)

LEMMA DirectionHandled ==
    ASSUME NEW w \in Packets, w # <<>>, NEW from \in Number, NEW to \in Number,
           NEW whole \in Flag, NEW shut \in Flag,
           NEW o \in OutRow, NEW m \in InRow, NEW n \in InRow,
           Direction(w, from, to, whole, o, m, shut), Handling(w, o, m, n, shut)
    PROVE  Direction(Tail(w), IF w[1].cmd = "HEADER" THEN from + 1 ELSE from, to, whole, o, n, shut)
<1> USE DEF Number, Flag, Handling
<1>1. Tail(w) \in Packets /\ IsTail(Tail(w), w)
  BY TailIs
<1>2. HeaderChain(Tail(w), IF w[1].cmd = "HEADER" THEN from + 1 ELSE from, to, whole)
  BY <1>1, HeaderTail DEF Direction
<1>3. \A i \in Id : BodyChain(Tail(w), i, o[i], n[i], whole)
  <2> TAKE i \in Id
  <2>1. o[i] \in OutRecord /\ m[i] \in InRecord /\ n[i] \in InRecord /\ BodyChain(w, i, o[i], m[i], whole)
    BY DEF OutRow, InRow, Direction
  <2> QED BY <1>1, <2>1, BodyTail
<1> QED BY <1>2, <1>3 DEF Direction

(* The head of the wire is passed over: an acknowledgement, or what is for *)
(* a message that has ended.                                               *)
LEMMA DirectionSkips ==
    ASSUME NEW w \in Packets, w # <<>>, NEW from \in Number, NEW to \in Number,
           NEW whole \in Flag, NEW shut \in Flag, NEW o \in OutRow, NEW m \in InRow,
           Direction(w, from, to, whole, o, m, shut),
           Head(w).cmd # "HEADER",
           Head(w).cmd = "DATA" => ~Arriving(m[Head(w).id])
    PROVE  Direction(Tail(w), from, to, whole, o, m, shut)
<1> USE DEF Number, Flag
<1>1. Head(w) = w[1] /\ 1 \in 1 .. Len(w)
  BY DEF Packets
<1>2. Tail(w) \in Packets /\ IsTail(Tail(w), w)
  BY TailIs
<1>3. \A i \in Id : 1 \notin Headers(w, i) /\ (1 \in Datas(w, i) => ~Arriving(m[i]))
  BY <1>1 DEF Headers, Datas, Places
<1>4. \A i \in Id : m[i].received <= o[i].sent /\ EndChain(w, i, o[i], m[i], shut)
  BY DEF Direction, BodyChain
<1>5. \A i \in Id : EndChain(Tail(w), i, o[i], m[i], shut)
  BY <1>2, <1>4, EndTail
<1>6. Direction(Tail(w), IF w[1].cmd = "HEADER" THEN from + 1 ELSE from, to, whole, o, m, shut)
  <2>1. Handling(w, o, m, m, shut)
    BY <1>3, <1>4, <1>5 DEF Handling
  <2> QED BY <2>1, DirectionHandled
<1> QED BY <1>1, <1>6

(***************************************************************************)
(* The sender adds packets s, or what it says is lost: its records o       *)
(* become p.                                                               *)
(***************************************************************************)
Sending(s, to, next, o, p) ==
    /\ \/ next = to /\ \A k \in 1 .. Len(s) : s[k].cmd # "HEADER"
       \/ next = to + 1 /\ s = <<Header(to)>> /\ to \in Id
    /\ \A i \in Id :
          /\ p[i].sent >= o[i].sent
          /\ DataChain(s, i, o[i].sent, p[i].sent) /\ Reaches(s, i, o[i].sent, p[i].sent)
          /\ Headers(s, i) # {} => o[i].state = "idle" /\ Datas(s, i) = {} /\ Ends(s, i) = {}
          /\ Datas(s, i) \union Ends(s, i) # {} => o[i].state = "open"
          /\ \/ p[i].state = o[i].state /\ p[i].sent = o[i].sent /\ Ends(s, i) = {}
             \/ /\ o[i].state \in {"idle", "open"} /\ p[i].state # "idle"
                /\ EndLast(s, i, p[i].state)

(* The records of a sender and a receiver that count messages from and to.  *)
Counted(from, to, o, m) ==
    \A i \in Id : (m[i].state # "idle" <=> i < from) /\ (o[i].state # "idle" => i < to)

LEMMA DirectionJoins ==
    ASSUME NEW w \in Packets, NEW v \in Packets, NEW s \in Packets, NEW from \in Number, NEW to \in Number, NEW next \in Number,
           NEW whole \in Flag, NEW shut \in Flag,
           NEW o \in OutRow, NEW p \in OutRow, NEW m \in InRow,
           Direction(w, from, to, whole, o, m, shut), Counted(from, to, o, m), Sending(s, to, next, o, p),
           v = IF whole THEN w \o s ELSE w
    PROVE  Direction(v, from, next, whole, p, m, shut)
<1> USE DEF Number, Flag, Sending, Counted
<1>1. /\ HeaderChain(w, from, to, whole)
      /\ \A i \in Id : BodyChain(w, i, o[i], m[i], whole) /\ EndChain(w, i, o[i], m[i], shut)
      /\ \A i \in Id : o[i] \in OutRecord /\ p[i] \in OutRecord /\ m[i] \in InRecord
  BY DEF Direction, OutRow, InRow
<1>2. CASE whole
  <2>1. w \o s \in Packets /\ IsConcat(w \o s, w, s)
    BY ConcatIs
  <2>2. HeaderChain(w \o s, from, next, TRUE)
    BY <1>1, <1>2, <2>1, HeaderJoins
  <2>3. ASSUME NEW i \in Id
        PROVE  BodyChain(w \o s, i, p[i], m[i], TRUE) /\ EndChain(w \o s, i, p[i], m[i], shut)
    <3>1. Datas(s, i) \union Ends(s, i) # {} =>
             o[i].state = "open" /\ (m[i].state # "idle" \/ Headers(w, i) # {})
      <4>1. o[i].state = "open" => i < to /\ (i < from \/ from <= i)
        BY IdIsNat
      <4> QED BY <4>1, <1>1, <1>2 DEF HeaderChain
    <3> QED BY <3>1, <1>1, <1>2, <2>1, BodyJoins
  <2> QED BY <1>2, <2>2, <2>3 DEF Direction
<1>3. CASE ~whole
  <2>1. HeaderChain(w, from, next, FALSE)
    BY <1>1, HeaderLost
  <2>2. ASSUME NEW i \in Id
        PROVE  BodyChain(w, i, p[i], m[i], FALSE) /\ EndChain(w, i, p[i], m[i], shut)
    <3>1. CASE p[i].state = o[i].state /\ p[i].sent = o[i].sent
      <4>1. /\ o[i] \in OutRecord /\ p[i] \in OutRecord /\ m[i] \in InRecord
            /\ BodyChain(w, i, o[i], m[i], whole) /\ EndChain(w, i, o[i], m[i], shut)
        BY <1>1
      <4>2. EndChain(w, i, p[i], m[i], shut)
        BY <3>1, <4>1 DEF EndChain, Ended
      <4>3. BodyChain(w, i, p[i], m[i], FALSE)
        BY <3>1, <4>1, <1>3 DEF BodyChain
      <4> QED BY <4>2, <4>3
    <3>2. CASE o[i].state \in {"idle", "open"} /\ p[i].state # "idle"
      BY <3>2, <1>1, BodyLost
    <3> QED BY <3>1, <3>2
  <2>3. whole = FALSE
    BY <1>3
  <2> QED BY <1>3, <2>1, <2>2, <2>3 DEF Direction
<1> QED BY <1>2, <1>3

-------------------------------------------------------------------------------
(***************************************************************************)
(* The acknowledgements of one message on their way back: each counts more *)
(* bytes than the one before it, and the last one all that the receiver    *)
(* has acknowledged.                                                       *)
(***************************************************************************)
AcksRise(w, i, o, m) ==
    /\ o.acked <= m.acked /\ m.acked <= m.received
    /\ \A k \in Acks(w, i) :
          /\ o.acked < w[k].hi /\ w[k].hi <= m.acked
          /\ \A j \in Acks(w, i) : j < k => w[j].hi < w[k].hi

LastAck(w, i, o, m) ==
    \/ Acks(w, i) = {} /\ o.acked = m.acked
    \/ \E k \in Acks(w, i) : w[k].hi = m.acked /\ \A j \in Acks(w, i) : j <= k

LEMMA AckPlaces ==
    ASSUME NEW w \in Packets, NEW i
    PROVE  \A k \in Acks(w, i) : k \in 1 .. Len(w) /\ k \in Nat /\ w[k].hi \in Nat
BY PacketAt DEF Acks, Places

(* The head of the wire is handled: the sender's record o becomes p.       *)
LEMMA AcksTail ==
    ASSUME NEW w \in Packets, w # <<>>, NEW i \in Id,
           NEW o \in OutRecord, NEW p \in OutRecord, NEW m \in InRecord,
           p.acked = o.acked \/ (1 \in Acks(w, i) /\ p.acked = w[1].hi)
    PROVE  /\ AcksRise(w, i, o, m) => AcksRise(Tail(w), i, p, m)
           /\ /\ LastAck(w, i, o, m)
              /\ p.acked = IF 1 \in Acks(w, i) THEN w[1].hi ELSE o.acked
              => LastAck(Tail(w), i, p, m)
<1> DEFINE v == Tail(w)
<1>1. v \in Packets /\ IsTail(v, w)
  BY TailIs
<1>2. Len(w) \in Nat /\ Len(v) \in Nat /\ Len(v) = Len(w) - 1 /\ Len(w) > 0
  BY <1>1, PacketAt DEF IsTail
<1>3. \A k \in Acks(v, i) : k \in Nat /\ k >= 1 /\ k + 1 \in Acks(w, i) /\ v[k] = w[k + 1]
  BY <1>1, <1>2 DEF IsTail, Acks, Places
<1>4. \A k \in Acks(w, i) : k # 1 => k - 1 \in Acks(v, i) /\ v[k - 1] = w[k]
  <2> SUFFICES ASSUME NEW k \in Acks(w, i), k # 1 PROVE k - 1 \in Acks(v, i) /\ v[k - 1] = w[k]
    OBVIOUS
  <2>1. k - 1 \in 1 .. Len(v) /\ (k - 1) + 1 = k
    BY <1>2, AckPlaces
  <2> QED BY <1>1, <2>1 DEF IsTail, Acks, Places
<1> HIDE DEF v
<1>5. ASSUME AcksRise(w, i, o, m) PROVE AcksRise(v, i, p, m)
  <2>1. o.acked <= m.acked /\ m.acked <= m.received
    BY <1>5 DEF AcksRise
  <2>2. p.acked <= m.acked
    BY <1>5, <2>1 DEF AcksRise
  <2>3. ASSUME NEW k \in Acks(v, i)
        PROVE  /\ p.acked < v[k].hi /\ v[k].hi <= m.acked
               /\ \A j \in Acks(v, i) : j < k => v[j].hi < v[k].hi
    <3>1. k \in Nat /\ k >= 1 /\ k + 1 \in Acks(w, i) /\ v[k] = w[k + 1]
      BY <1>3
    <3>2. /\ o.acked < v[k].hi /\ v[k].hi <= m.acked
          /\ \A j \in Acks(w, i) : j < k + 1 => w[j].hi < v[k].hi
      BY <1>5, <3>1 DEF AcksRise
    <3>3. 1 < k + 1
      BY <3>1
    <3>4. p.acked < v[k].hi
      BY <3>2, <3>3
    <3>5. \A j \in Acks(v, i) : j < k => v[j].hi < v[k].hi
      <4> SUFFICES ASSUME NEW j \in Acks(v, i), j < k PROVE v[j].hi < v[k].hi
        OBVIOUS
      <4>1. j \in Nat /\ j + 1 \in Acks(w, i) /\ v[j] = w[j + 1]
        BY <1>3
      <4>2. j + 1 < k + 1
        BY <3>1, <4>1
      <4> QED BY <3>2, <4>1, <4>2
    <3> QED BY <3>2, <3>4, <3>5
  <2> QED BY <2>1, <2>2, <2>3 DEF AcksRise
<1>6. ASSUME LastAck(w, i, o, m), p.acked = IF 1 \in Acks(w, i) THEN w[1].hi ELSE o.acked
      PROVE  LastAck(v, i, p, m)
  <2>1. CASE Acks(w, i) = {}
    BY <2>1, <1>3, <1>6 DEF LastAck
  <2>2. CASE Acks(w, i) # {}
    <3>1. PICK k \in Acks(w, i) : w[k].hi = m.acked /\ \A j \in Acks(w, i) : j <= k
      BY <2>2, <1>6 DEF LastAck
    <3>2. CASE k = 1
      <4>1. Acks(v, i) = {}
        <5> SUFFICES ASSUME NEW j \in Acks(v, i) PROVE FALSE
          OBVIOUS
        <5>1. j \in Nat /\ j >= 1 /\ j + 1 <= k
          BY <1>3, <3>1
        <5> QED BY <5>1, <3>2
      <4> QED BY <3>1, <3>2, <4>1, <1>6 DEF LastAck
    <3>3. CASE k # 1
      <4>1. k - 1 \in Acks(v, i) /\ v[k - 1].hi = m.acked
        BY <1>4, <3>1, <3>3
      <4>2. \A j \in Acks(v, i) : j <= k - 1
        <5> SUFFICES ASSUME NEW j \in Acks(v, i) PROVE j <= k - 1
          OBVIOUS
        <5>1. j \in Nat /\ j + 1 <= k /\ k \in Nat
          BY <1>3, <3>1, AckPlaces
        <5> QED BY <5>1
      <4> QED BY <4>1, <4>2 DEF LastAck
    <3> QED BY <3>2, <3>3
  <2> QED BY <2>1, <2>2
<1> QED BY <1>5, <1>6 DEF v

(* Losing the end of the wire.                                             *)
LEMMA AcksPrefix ==
    ASSUME NEW w \in Packets, NEW v \in Packets, IsFront(v, w), NEW i, NEW o, NEW m,
           AcksRise(w, i, o, m)
    PROVE  AcksRise(v, i, o, m)
<1>1. Len(w) \in Nat /\ Len(v) \in Nat /\ Len(v) <= Len(w)
  BY PacketAt DEF IsFront
<1>2. \A k \in Acks(v, i) : k \in Acks(w, i) /\ v[k] = w[k]
  BY <1>1 DEF Acks, Places, IsFront
<1> QED BY <1>2 DEF AcksRise

(***************************************************************************)
(* The receiver's record m becomes n and it sends s, which may be lost.    *)
(***************************************************************************)
LEMMA AcksJoin ==
    ASSUME NEW w \in Packets, NEW s \in Packets, NEW i \in Id,
           NEW o \in OutRecord, NEW m \in InRecord, NEW n \in InRecord,
           AcksRise(w, i, o, m), m.acked <= n.acked, n.acked <= n.received,
           \A k \in Acks(s, i) : m.acked < s[k].hi /\ s[k].hi <= n.acked /\ k = 1
    PROVE  AcksRise(w \o s, i, o, n) /\ AcksRise(w, i, o, n)
<1> DEFINE v == w \o s
<1>1. v \in Packets /\ IsConcat(v, w, s)
  BY ConcatIs
<1>2. Len(w) \in Nat /\ Len(s) \in Nat
  BY PacketAt
<1> HIDE DEF v
<1>3. /\ \A k \in Acks(w, i) : k \in Acks(v, i) /\ v[k] = w[k]
      /\ \A k \in Acks(v, i) :
            \/ k \in Acks(w, i) /\ v[k] = w[k]
            \/ k > Len(w) /\ k - Len(w) \in Acks(s, i) /\ v[k] = s[k - Len(w)]
  BY <1>1, PlacesJoin DEF Acks
<1>4. /\ o.acked \in Nat /\ m.acked \in Nat /\ n.acked \in Nat /\ o.acked <= m.acked
      /\ \A k \in Acks(w, i) : /\ o.acked < w[k].hi /\ w[k].hi <= m.acked
                               /\ w[k].hi \in Nat /\ k \in 1 .. Len(w)
      /\ \A k \in Acks(s, i) : s[k].hi \in Nat
      /\ \A k \in Acks(v, i) : k \in Nat
  BY <1>1, AckPlaces DEF AcksRise, OutRecord, InRecord
<1>5. ASSUME NEW k \in Acks(v, i)
      PROVE  /\ o.acked < v[k].hi /\ v[k].hi <= n.acked
             /\ \A j \in Acks(v, i) : j < k => v[j].hi < v[k].hi
  <2>1. CASE k \in Acks(w, i) /\ v[k] = w[k]
    <3>1. \A j \in Acks(v, i) : j < k => j \in Acks(w, i) /\ v[j] = w[j]
      BY <2>1, <1>2, <1>3, <1>4
    <3>2. \A j \in Acks(w, i) : j < k => w[j].hi < w[k].hi
      BY <2>1 DEF AcksRise
    <3>3. o.acked < v[k].hi /\ v[k].hi <= n.acked
      BY <2>1, <1>4
    <3> QED BY <2>1, <3>1, <3>2, <3>3
  <2>2. CASE k > Len(w) /\ k - Len(w) \in Acks(s, i) /\ v[k] = s[k - Len(w)]
    <3>1. m.acked < v[k].hi /\ v[k].hi <= n.acked /\ k = Len(w) + 1 /\ v[k].hi \in Nat
      BY <2>2, <1>2, <1>4
    <3>2. \A j \in Acks(v, i) : j < k => j \in Acks(w, i) /\ v[j] = w[j]
      BY <3>1, <1>2, <1>3, <1>4
    <3>3. \A j \in Acks(v, i) : j < k => v[j].hi < v[k].hi
      BY <3>1, <3>2, <1>4
    <3> QED BY <3>1, <3>3, <1>4
  <2> QED BY <2>1, <2>2, <1>3
<1>6. AcksRise(v, i, o, n)
  BY <1>4, <1>5 DEF AcksRise
<1>7. AcksRise(w, i, o, n)
  BY <1>4 DEF AcksRise
<1> QED BY <1>6, <1>7 DEF v

LEMMA LastAckJoins ==
    ASSUME NEW w \in Packets, NEW s \in Packets, NEW i \in Id, NEW o, NEW m, NEW n,
           LastAck(w, i, o, m),
           \/ Acks(s, i) = {} /\ n.acked = m.acked
           \/ \E k \in Acks(s, i) : s[k].hi = n.acked /\ \A j \in Acks(s, i) : j <= k
    PROVE  LastAck(w \o s, i, o, n)
<1> DEFINE v == w \o s
<1>1. v \in Packets /\ IsConcat(v, w, s)
  BY ConcatIs
<1>2. Len(w) \in Nat /\ Len(s) \in Nat
  BY PacketAt
<1> HIDE DEF v
<1>3. /\ \A k \in Acks(w, i) : k \in Acks(v, i) /\ v[k] = w[k]
      /\ \A k \in Acks(s, i) : Len(w) + k \in Acks(v, i) /\ v[Len(w) + k] = s[k]
      /\ \A k \in Acks(v, i) : k \in Acks(w, i) \/ k - Len(w) \in Acks(s, i)
  BY <1>1, PlacesJoin DEF Acks
<1>4. /\ \A k \in Acks(w, i) : k \in 1 .. Len(w)
      /\ \A k \in Acks(v, i) : k \in Nat
      /\ \A k \in Acks(s, i) : k \in Nat /\ k >= 1
  BY <1>1, AckPlaces
<1>5. CASE Acks(s, i) = {} /\ n.acked = m.acked
  <2>1. \A k \in Acks(v, i) : k \in Acks(w, i)
    BY <1>3, <1>5
  <2>2. CASE Acks(w, i) = {} /\ o.acked = m.acked
    BY <1>5, <2>1, <2>2 DEF LastAck, v
  <2>3. CASE \E k \in Acks(w, i) : w[k].hi = m.acked /\ \A j \in Acks(w, i) : j <= k
    <3>1. PICK k \in Acks(w, i) : w[k].hi = m.acked /\ \A j \in Acks(w, i) : j <= k
      BY <2>3
    <3>2. k \in Acks(v, i) /\ v[k].hi = n.acked /\ \A j \in Acks(v, i) : j <= k
      BY <3>1, <2>1, <1>3, <1>5
    <3> QED BY <3>2 DEF LastAck, v
  <2> QED BY <2>2, <2>3 DEF LastAck
<1>6. CASE \E k \in Acks(s, i) : s[k].hi = n.acked /\ \A j \in Acks(s, i) : j <= k
  <2>1. PICK k \in Acks(s, i) : s[k].hi = n.acked /\ \A j \in Acks(s, i) : j <= k
    BY <1>6
  <2>2. Len(w) + k \in Acks(v, i) /\ v[Len(w) + k].hi = n.acked
    BY <1>3, <2>1
  <2>3. \A j \in Acks(v, i) : j <= Len(w) + k
    <3> TAKE j \in Acks(v, i)
    <3>1. CASE j \in Acks(w, i)
      BY <3>1, <1>2, <1>4, <2>1
    <3>2. CASE j - Len(w) \in Acks(s, i)
      <4>1. j - Len(w) <= k /\ j \in Nat /\ k \in Nat
        BY <2>1, <3>2, <1>4
      <4> QED BY <4>1, <1>2
    <3> QED BY <1>3, <3>1, <3>2
  <2> QED BY <2>2, <2>3 DEF LastAck, v
<1> QED BY <1>5, <1>6

(***************************************************************************)
(* What a receiving end acknowledges when its consumer is given n bytes:   *)
(* unless it bounces the message, never more than it has received.         *)
(***************************************************************************)
LEMMA AcksOfWritten ==
    ASSUME NEW i \in Id, NEW m \in InRecord, NEW n \in Number, n > 0,
           NEW how \in {"flow", "pause", "bounce"}
    PROVE  LET s == AcksWritten(i, m, n, how)
               r == Written(m, n, how)
           IN  /\ \A k \in 1 .. Len(s) : s[k].cmd = "ACK" /\ s[k].id = i
               /\ r.received = m.received + n
               /\ (~m.paused => m.received <= m.acked) => (~r.paused => r.received <= r.acked)
               /\ \/ Acks(s, i) = {} /\ r.acked = m.acked
                  \/ \E k \in Acks(s, i) : s[k].hi = r.acked /\ \A j \in Acks(s, i) : j <= k
               /\ how # "bounce" /\ m.acked <= m.received =>
                     /\ m.acked <= r.acked /\ r.acked <= r.received
                     /\ \A k \in Acks(s, i) : m.acked < s[k].hi /\ s[k].hi <= r.acked /\ k = 1
<1> USE DEF Number
<1> DEFINE s == AcksWritten(i, m, n, how)
           r == Written(m, n, how)
           q == [m EXCEPT !.received = @ + n]
<1>1. q \in InRecord /\ q.received = m.received + n /\ q.acked = m.acked /\ q.paused = m.paused
  BY DEF InRecord
<1>2. m.acked \in Nat /\ m.received \in Nat
  BY DEF InRecord
<1>3. CASE how = "flow" /\ m.paused
  <2>1. s = <<>> /\ r = q
    BY <1>3 DEF AcksWritten, Written
  <2>2. Acks(s, i) = {} /\ Len(s) = 0
    BY <2>1 DEF Acks, Places
  <2> HIDE DEF s, r, q
  <2>3. r.received = m.received + n /\ r.acked = m.acked /\ r.paused
    BY <1>1, <1>3, <2>1
  <2> QED BY <1>2, <2>2, <2>3 DEF s, r
<1>4. CASE how = "flow" /\ ~m.paused
  <2>1. s = <<Ack(i, m.acked + n)>> /\ r = [q EXCEPT !.acked = @ + n]
    BY <1>4 DEF AcksWritten, Written
  <2> HIDE DEF s, r, q
  <2>2. r.received = m.received + n /\ r.acked = m.acked + n /\ r.paused = m.paused
    BY <1>1, <2>1 DEF InRecord
  <2>3. Len(s) = 1 /\ s[1].cmd = "ACK" /\ s[1].id = i /\ s[1].hi = m.acked + n
    BY <2>1 DEF Ack, Packet
  <2>4. Acks(s, i) = {1}
    BY <2>3 DEF Acks, Places
  <2> QED BY <1>2, <1>4, <2>2, <2>3, <2>4 DEF s, r
<1>5. CASE how = "pause"
  <2>1. s = <<>> /\ r = [q EXCEPT !.paused = TRUE]
    BY <1>5 DEF AcksWritten, Written
  <2> HIDE DEF s, r, q
  <2>2. r.received = m.received + n /\ r.acked = m.acked /\ r.paused
    BY <1>1, <2>1 DEF InRecord
  <2>3. Acks(s, i) = {} /\ Len(s) = 0
    BY <2>1 DEF Acks, Places
  <2> QED BY <1>2, <2>2, <2>3 DEF s, r
<1>6. CASE how = "bounce"
  <2>1. /\ s = <<Ack(i, m.received + n), Ack(i, m.received + n + n)>>
        /\ r = [q EXCEPT !.paused = FALSE, !.acked = q.received + n]
    BY <1>6 DEF AcksWritten, Written
  <2> HIDE DEF s, r, q
  <2>2. r.received = m.received + n /\ r.acked = m.received + n + n /\ ~r.paused
    BY <1>1, <2>1 DEF InRecord
  <2>3. /\ Len(s) = 2
        /\ s[1].cmd = "ACK" /\ s[1].id = i
        /\ s[2].cmd = "ACK" /\ s[2].id = i /\ s[2].hi = m.received + n + n
    BY <2>1 DEF Ack, Packet
  <2>4. Acks(s, i) = {1, 2}
    BY <2>3 DEF Acks, Places
  <2> QED BY <1>2, <1>6, <2>2, <2>3, <2>4 DEF s, r
<1> QED BY <1>3, <1>4, <1>5, <1>6

-------------------------------------------------------------------------------
(***************************************************************************)
(* The invariant.  The wires: which of them may hold packets.              *)
(***************************************************************************)
WiresKept ==
    \A e \in Endpoint :
       /\ started[e] => outBuf[e] = <<>>
       /\ ~started[e] => net[Peer[e]] = <<>>
       /\ closed[e] => ~up
       /\ closed[e] /\ net[e] # <<>> => bounced # {}

(* Messages are opened in order, and an unopened one has a blank record.   *)
InOrder ==
    \A e \in Endpoint, i \in Id :
       /\ in[e][i].state # "idle" <=> i < nextIn[e]
       /\ out[e][i].state # "idle" <=> i < nextOut[e]
       /\ in[e][i].state = "idle" => in[e][i] = IdleIn /\ <<e, i>> \notin bounced
       /\ out[e][i].state = "idle" => out[e][i] = IdleOut

(* The acknowledgements of message i of e, while its consumer has not      *)
(* bounced it; the last of them counts all its receiver acknowledged.      *)
AcksOf(e, i) ==
    /\ <<Peer[e], i>> \in bounced \/ AcksRise(Wire(Peer[e]), i, out[e][i], in[Peer[e]][i])
    /\ up /\ out[e][i].state = "open" => LastAck(Wire(Peer[e]), i, out[e][i], in[Peer[e]][i])

(* What is not acknowledged is held by its consumer.                       *)
AllDrained == \A e \in Endpoint, i \in Id : ~in[e][i].paused => in[e][i].received <= in[e][i].acked

(* All that relates the two ends, and the invariant.                       *)
WireInv ==
    /\ WiresKept /\ InOrder /\ AllDrained
    /\ \A e \in Endpoint : DirectionOf(e) /\ \A i \in Id : AcksOf(e, i)

PipeInv == IInv /\ WireInv

-------------------------------------------------------------------------------
LEMMA PeerFacts ==
    \A e \in Endpoint : /\ Peer[e] \in Endpoint /\ Peer[e] # e /\ Peer[Peer[e]] = e
                        /\ \A f \in Endpoint : f = e \/ f = Peer[e]
BY DEF Peer, Endpoint

LEMMA PipeTypes ==
    ASSUME IInv, NEW e \in Endpoint
    PROVE  /\ Wire(e) \in Packets /\ net[e] \in Packets /\ outBuf[e] \in Packets
           /\ out[e] \in OutRow /\ in[e] \in InRow
           /\ nextIn[e] \in Number /\ nextOut[e] \in Number
           /\ Sends(e) \in Flag /\ closed[e] \in Flag /\ started[e] \in Flag /\ up \in Flag
BY PeerFacts DEF Number, Flag, IInv, WiresOK, OutOK, InOK, FlagsOK, Packets, OutRow, InRow, Wire, Sends

LEMMA WireTypes ==
    ASSUME IInv', NEW e \in Endpoint
    PROVE  /\ out'[e] \in OutRow /\ in'[e] \in InRow
           /\ nextIn'[e] \in Number /\ nextOut'[e] \in Number
           /\ Sends(e)' \in Flag /\ closed'[e] \in Flag /\ up' \in Flag
BY PeerFacts DEF Number, Flag, IInv, WiresOK, OutOK, InOK, FlagsOK, Packets, OutRow, InRow, Wire, Sends

(***************************************************************************)
(* e transmits packets s, having consumed from its own wire at most: they  *)
(* join its wire, or what e says is lost.                                  *)
(***************************************************************************)
LEMMA TransmitWires ==
    ASSUME IInv, WiresKept, NEW e \in Endpoint, NEW s, NEW w \in [Endpoint -> Packets],
           w[Peer[e]] = net[Peer[e]], w[e] # <<>> => net[e] # <<>>,
           Transmit(e, s, w), UNCHANGED <<started, closed, up>>, bounced \subseteq bounced'
    PROVE  /\ WiresKept'
           /\ Wire(e)' = IF Sends(e) THEN Wire(e) \o s ELSE Wire(e)
           /\ Wire(Peer[e])' = IF started[Peer[e]] THEN w[e] ELSE outBuf[Peer[e]]
           /\ \A f \in Endpoint : Sends(f)' = Sends(f)
<1> DEFINE r == Peer[e]
<1>1. /\ r \in Endpoint /\ r # e /\ Peer[r] = e /\ \A f \in Endpoint : f = e \/ f = r
  BY PeerFacts
<1>2. /\ DOMAIN net = Endpoint /\ DOMAIN outBuf = Endpoint /\ DOMAIN w = Endpoint
      /\ \A f \in Endpoint : closed[f] \in BOOLEAN /\ started[f] \in BOOLEAN
      /\ up \in BOOLEAN
  BY DEF IInv, WiresOK, FlagsOK
<1>3. /\ outBuf'[e] = IF closed[e] \/ started[e] THEN outBuf[e] ELSE outBuf[e] \o s
      /\ outBuf'[r] = outBuf[r]
      /\ net'[r] = IF closed[e] \/ ~started[e] \/ ~up THEN net[r] ELSE net[r] \o s
      /\ net'[e] = w[e]
  BY <1>1, <1>2 DEF Transmit
<1>4. started' = started /\ closed' = closed /\ up' = up
  OBVIOUS
<1> HIDE DEF r
<1>5. Wire(e)' = IF Sends(e) THEN Wire(e) \o s ELSE Wire(e)
  BY <1>2, <1>3, <1>4 DEF Wire, Sends, r
<1>6. Wire(r)' = IF started[r] THEN w[e] ELSE outBuf[r]
  BY <1>1, <1>3, <1>4 DEF Wire
<1>7. \A f \in Endpoint : Sends(f)' = Sends(f)
  BY <1>4 DEF Sends
<1>8. WiresKept'
  <2>1. /\ started[e] => outBuf[e] = <<>>
        /\ ~started[e] => net[r] = <<>>
        /\ closed[e] => ~up
        /\ closed[e] /\ net[e] # <<>> => bounced # {}
        /\ started[r] => outBuf[r] = <<>>
        /\ ~started[r] => net[e] = <<>>
        /\ closed[r] => ~up
        /\ closed[r] /\ net[r] # <<>> => bounced # {}
    BY <1>1 DEF WiresKept, r
  <2>2. bounced # {} => bounced' # {}
    OBVIOUS
  <2>3. w[e] # <<>> => net[e] # <<>>
    OBVIOUS
  <2>4. /\ started'[e] => outBuf'[e] = <<>>
        /\ ~started'[e] => net'[r] = <<>>
        /\ closed'[e] => ~up'
        /\ closed'[e] /\ net'[e] # <<>> => bounced' # {}
    BY <1>3, <1>4, <2>1, <2>2, <2>3
  <2>5. /\ started'[r] => outBuf'[r] = <<>>
        /\ ~started'[r] => net'[e] = <<>>
        /\ closed'[r] => ~up'
        /\ closed'[r] /\ net'[r] # <<>> => bounced' # {}
    BY <1>3, <1>4, <2>1, <2>2, <2>3
  <2> QED BY <1>1, <2>4, <2>5 DEF WiresKept, r
<1> QED BY <1>5, <1>6, <1>7, <1>8 DEF r

(* A step that leaves one direction and its acknowledgements alone.        *)
LEMMA DirectionSame ==
    ASSUME NEW d \in Endpoint, DirectionOf(d),
           Wire(d)' = Wire(d), Sends(d)' = Sends(d),
           nextIn'[Peer[d]] = nextIn[Peer[d]], nextOut'[d] = nextOut[d],
           out'[d] = out[d], in'[Peer[d]] = in[Peer[d]], closed'[Peer[d]] = closed[Peer[d]]
    PROVE  DirectionOf(d)'
BY DEF DirectionOf

(* Packets without an acknowledgement of message i join its wire.          *)
LEMMA QuietJoins ==
    ASSUME NEW w \in Packets, NEW s \in Packets, NEW i \in Id,
           NEW o \in OutRecord, NEW m \in InRecord, Acks(s, i) = {}
    PROVE  /\ AcksRise(w, i, o, m) => AcksRise(w \o s, i, o, m)
           /\ LastAck(w, i, o, m) => LastAck(w \o s, i, o, m)
<1>1. ASSUME AcksRise(w, i, o, m) PROVE AcksRise(w \o s, i, o, m)
  <2>1. m.acked <= m.received /\ m.acked <= m.acked
    BY <1>1 DEF AcksRise, InRecord
  <2>2. \A k \in Acks(s, i) : m.acked < s[k].hi /\ s[k].hi <= m.acked /\ k = 1
    OBVIOUS
  <2> QED BY <1>1, <2>1, <2>2, AcksJoin
<1>2. ASSUME LastAck(w, i, o, m) PROVE LastAck(w \o s, i, o, m)
  BY <1>2, LastAckJoins
<1> QED BY <1>1, <1>2

(* The two depend on the acknowledged counts alone.                        *)
LEMMA AcksSame ==
    ASSUME NEW w, NEW i, NEW o, NEW p, NEW m, NEW n,
           p.acked = o.acked, n.acked = m.acked, n.received = m.received
    PROVE  /\ AcksRise(w, i, o, m) => AcksRise(w, i, p, n)
           /\ LastAck(w, i, o, m) => LastAck(w, i, p, n)
BY DEF AcksRise, LastAck

(* Nothing of a message that its receiver has not seen is acknowledged.    *)
LEMMA NoAcksYet ==
    ASSUME PipeInv, NEW e \in Endpoint, NEW i \in Id, in[Peer[e]][i].state = "idle"
    PROVE  Acks(Wire(Peer[e]), i) = {} /\ in[Peer[e]][i].acked = 0 /\ out[e][i].acked = 0
<1> DEFINE w == Wire(Peer[e])
<1>1. Peer[e] \in Endpoint /\ w \in Packets /\ out[e][i] \in OutRecord
  BY PeerFacts, PipeTypes DEF PipeInv, OutRow
<1>2. in[Peer[e]][i] = IdleIn /\ <<Peer[e], i>> \notin bounced
  BY <1>1 DEF PipeInv, WireInv, InOrder
<1>3. in[Peer[e]][i].acked = 0
  BY <1>2 DEF IdleIn, NewIn
<1>4. AcksRise(w, i, out[e][i], in[Peer[e]][i])
  BY <1>2 DEF PipeInv, WireInv, AcksOf
<1> HIDE DEF w
<1>5. \A k \in Acks(w, i) : w[k].hi \in Nat /\ out[e][i].acked < w[k].hi /\ w[k].hi <= 0
  BY <1>1, <1>3, <1>4, AckPlaces DEF AcksRise
<1>6. out[e][i].acked \in Nat /\ out[e][i].acked <= 0
  BY <1>1, <1>3, <1>4 DEF AcksRise, OutRecord
<1> QED BY <1>3, <1>5, <1>6 DEF w

(* What it takes to send packets of message i alone.                       *)
LEMMA SendingOne ==
    ASSUME NEW i \in Id, NEW s \in Packets, NEW o \in OutRow, NEW p \in OutRecord,
           NEW to \in Nat, NEW next \in Nat,
           \/ next = to /\ \A k \in 1 .. Len(s) : s[k].cmd # "HEADER"
           \/ next = to + 1 /\ s = <<Header(to)>> /\ to \in Id,
           \A k \in 1 .. Len(s) : s[k].id = i,
           p.sent >= o[i].sent,
           DataChain(s, i, o[i].sent, p.sent), Reaches(s, i, o[i].sent, p.sent),
           Headers(s, i) # {} => o[i].state = "idle" /\ Datas(s, i) = {} /\ Ends(s, i) = {},
           Datas(s, i) \union Ends(s, i) # {} => o[i].state = "open",
           \/ p.state = o[i].state /\ p.sent = o[i].sent /\ Ends(s, i) = {}
           \/ o[i].state \in {"idle", "open"} /\ p.state # "idle" /\ EndLast(s, i, p.state)
    PROVE  Sending(s, to, next, o, [o EXCEPT ![i] = p])
<1> DEFINE q == [o EXCEPT ![i] = p]
<1>1. q[i] = p /\ \A j \in Id : j # i => q[j] = o[j]
  BY DEF OutRow
<1>2. \A j \in Id : j # i => Headers(s, j) = {} /\ Datas(s, j) = {} /\ Ends(s, j) = {}
  BY DEF Headers, Datas, Ends, Places
<1>3. \A j \in Id : o[j].sent \in Nat
  BY DEF OutRow, OutRecord
<1> HIDE DEF q
<1>4. ASSUME NEW j \in Id
      PROVE  /\ q[j].sent >= o[j].sent
             /\ DataChain(s, j, o[j].sent, q[j].sent) /\ Reaches(s, j, o[j].sent, q[j].sent)
             /\ Headers(s, j) # {} => o[j].state = "idle" /\ Datas(s, j) = {} /\ Ends(s, j) = {}
             /\ Datas(s, j) \union Ends(s, j) # {} => o[j].state = "open"
             /\ \/ q[j].state = o[j].state /\ q[j].sent = o[j].sent /\ Ends(s, j) = {}
                \/ /\ o[j].state \in {"idle", "open"} /\ q[j].state # "idle"
                   /\ EndLast(s, j, q[j].state)
  <2>1. CASE j = i
    BY <2>1, <1>1
  <2>2. CASE j # i
    BY <2>2, <1>1, <1>2, <1>3 DEF DataChain, Reaches
  <2> QED BY <2>1, <2>2
<1> QED BY <1>4 DEF Sending, q

(***************************************************************************)
(* e's program sends packets s of message i, its record of which becomes   *)
(* new.                                                                    *)
(***************************************************************************)
LEMMA Sent ==
    ASSUME PipeInv, IInv', NEW e \in Endpoint, NEW i \in Id, NEW s \in Packets, NEW new \in OutRecord,
           Transmit(e, s, net), out' = [out EXCEPT ![e][i] = new],
           UNCHANGED <<started, closed, up, nextIn, in, bounced>>,
           \A f \in Endpoint, j \in Id :
              /\ out'[f][j].state # "idle" <=> j < nextOut'[f]
              /\ out'[f][j].state = "idle" => out'[f][j] = IdleOut,
           nextOut'[Peer[e]] = nextOut[Peer[e]],
           Sending(s, nextOut[e], nextOut'[e], out[e], out'[e]),
           \A k \in 1 .. Len(s) : s[k].cmd # "ACK" /\ s[k].id = i,
           new.acked = out[e][i].acked, out[e][i].state \in {"idle", "open"},
           out[e][i].state = "idle" => in[Peer[e]][i].state = "idle"
    PROVE  WireInv'
<1> DEFINE r == Peer[e]
<1>1. /\ r \in Endpoint /\ r # e /\ Peer[r] = e /\ \A f \in Endpoint : f = e \/ f = r
  BY PeerFacts
<1>2. /\ IInv /\ WiresKept /\ InOrder /\ AllDrained /\ DirectionOf(e) /\ DirectionOf(r)
      /\ \A j \in Id : AcksOf(e, j) /\ AcksOf(r, j)
  BY <1>1 DEF PipeInv, WireInv
<1>3. /\ Wire(e) \in Packets /\ Wire(r) \in Packets /\ out[e] \in OutRow /\ out[r] \in OutRow
      /\ in[e] \in InRow /\ in[r] \in InRow /\ nextIn[r] \in Number /\ nextOut[e] \in Number
      /\ Sends(e) \in Flag /\ closed[r] \in Flag
  BY <1>1, <1>2, PipeTypes
<1>4. out'[e] \in OutRow /\ nextOut'[e] \in Number
  BY WireTypes
<1>5. /\ WiresKept'
      /\ Wire(e)' = IF Sends(e) THEN Wire(e) \o s ELSE Wire(e)
      /\ Wire(r)' = Wire(r)
      /\ Sends(e)' = Sends(e) /\ Sends(r)' = Sends(r)
  <2>1. net \in [Endpoint -> Packets]
    BY <1>2 DEF IInv, WiresOK, Packets
  <2> QED BY <1>1, <1>2, <2>1, TransmitWires DEF Wire
<1>6. /\ out'[e] = [out[e] EXCEPT ![i] = new] /\ out'[r] = out[r]
      /\ out'[e][i] = new /\ \A j \in Id : j # i => out'[e][j] = out[e][j]
      /\ in' = in /\ nextIn' = nextIn /\ closed' = closed /\ up' = up /\ bounced' = bounced
  BY <1>1, <1>2, <1>3 DEF IInv, OutOK, OutRow
<1> HIDE DEF r
<1>7. DirectionOf(e)'
  <2>1. Counted(nextIn[r], nextOut[e], out[e], in[r])
    BY <1>1, <1>2 DEF InOrder, Counted
  <2>2. Direction(Wire(e), nextIn[r], nextOut[e], Sends(e), out[e], in[r], closed[r])
    BY <1>2 DEF DirectionOf, r
  <2> DEFINE v == Wire(e)'
  <2>3. v = IF Sends(e) THEN Wire(e) \o s ELSE Wire(e)
    BY <1>5
  <2>4. v \in Packets
    BY <1>3, <2>3, ConcatIs
  <2> HIDE DEF v
  <2>5. Direction(v, nextIn[r], nextOut'[e], Sends(e), out'[e], in[r], closed[r])
    BY <1>3, <1>4, <2>1, <2>2, <2>3, <2>4, DirectionJoins
  <2> QED BY <1>5, <1>6, <2>5 DEF DirectionOf, r, v
<1>8. DirectionOf(r)'
  BY <1>1, <1>2, <1>5, <1>6, DirectionSame DEF r
<1>9. \A j \in Id : AcksOf(e, j)'
  <2> TAKE j \in Id
  <2>1. out'[e][j].acked = out[e][j].acked
    BY <1>6
  <2>2. out'[e][j].state = "open" => \/ out[e][j].state = "open"
                                     \/ in[r][j].state = "idle"
    BY <1>6 DEF r
  <2>3. in[r][j].state = "idle" => LastAck(Wire(r), j, out[e][j], in[r][j])
    BY NoAcksYet DEF LastAck, r
  <2>4. /\ AcksRise(Wire(r), j, out[e][j], in[r][j]) => AcksRise(Wire(r), j, out'[e][j], in[r][j])
        /\ LastAck(Wire(r), j, out[e][j], in[r][j]) => LastAck(Wire(r), j, out'[e][j], in[r][j])
    BY <2>1, AcksSame
  <2>5. AcksOf(e, j)
    BY <1>2
  <2> QED BY <1>5, <1>6, <2>2, <2>3, <2>4, <2>5 DEF AcksOf, r
<1>10. \A j \in Id : AcksOf(r, j)'
  <2> TAKE j \in Id
  <2>1. Acks(s, j) = {}
    BY DEF Acks, Places
  <2>2. out[r][j] \in OutRecord /\ in[e][j] \in InRecord
    BY <1>3 DEF OutRow, InRow
  <2>3. /\ AcksRise(Wire(e), j, out[r][j], in[e][j]) => AcksRise(Wire(e) \o s, j, out[r][j], in[e][j])
        /\ LastAck(Wire(e), j, out[r][j], in[e][j]) => LastAck(Wire(e) \o s, j, out[r][j], in[e][j])
    BY <1>3, <2>1, <2>2, QuietJoins
  <2>4. AcksOf(r, j)
    BY <1>2
  <2> QED BY <1>1, <1>5, <1>6, <2>3, <2>4 DEF AcksOf
<1>11. InOrder' /\ AllDrained'
  BY <1>2, <1>6 DEF InOrder, AllDrained
<1> QED BY <1>1, <1>5, <1>7, <1>8, <1>9, <1>10, <1>11 DEF WireInv

LEMMA SendMessagePipe ==
    ASSUME PipeInv, NEW e \in Endpoint, SendMessage(e) PROVE WireInv'
<1> DEFINE i == nextOut[e]
           s == <<Header(i)>>
           r == Peer[e]
<1>1. IInv /\ IInv' /\ r \in Endpoint /\ r # e /\ \A f \in Endpoint : f = e \/ f = r
  BY SendMessageInv, PeerFacts DEF PipeInv
<1>2. i \in Id /\ i \in Nat
  <2>1. nextOut[e] \in Nat /\ Quota[e] \in Nat /\ nextOut[e] < Quota[e]
    BY <1>1, QuotaAssumption DEF IInv, FlagsOK, SendMessage
  <2>2. nextOut[e] \in 0 .. Quota[e] - 1
    BY <2>1
  <2> QED BY <2>1, <2>2 DEF Id
<1>3. /\ nextOut' = [nextOut EXCEPT ![e] = i + 1]
      /\ out' = [out EXCEPT ![e][i] = NewOut]
      /\ Transmit(e, s, net)
      /\ UNCHANGED <<started, closed, up, nextIn, in, bounced>>
  BY DEF SendMessage
<1>4. InOrder /\ DirectionOf(e)
  BY DEF PipeInv, WireInv
<1>5. out[e][i] = IdleOut /\ in[r][i].state = "idle"
  <2>1. nextIn[r] <= i /\ nextIn[r] \in Nat
    BY <1>1, <1>4 DEF DirectionOf, Direction, HeaderChain, IInv, FlagsOK
  <2>2. /\ out[e][i].state # "idle" <=> i < i
        /\ out[e][i].state = "idle" => out[e][i] = IdleOut
        /\ in[r][i].state # "idle" <=> i < nextIn[r]
    BY <1>1, <1>2, <1>4 DEF InOrder
  <2> HIDE DEF i, r
  <2> QED BY <1>2, <2>1, <2>2
<1>6. /\ nextOut'[e] = i + 1 /\ nextOut'[r] = nextOut[r]
      /\ out'[e] = [out[e] EXCEPT ![i] = NewOut] /\ out'[r] = out[r]
      /\ out[e] \in OutRow
  BY <1>1, <1>2, <1>3 DEF IInv, FlagsOK, OutOK, OutRow
<1>7. NewOut \in OutRecord
  BY DEF NewOut, OutRecord, States
<1>8. s \in Packets /\ Len(s) = 1 /\ s[1].cmd = "HEADER" /\ s[1].id = i
  BY <1>2, PacketType, OnePacket DEF Packets, Header, Packet
<1>9. Datas(s, i) = {} /\ Ends(s, i) = {}
  BY <1>8 DEF Datas, Ends, Places
<1>10. \A f \in Endpoint, j \in Id :
          /\ out'[f][j].state # "idle" <=> j < nextOut'[f]
          /\ out'[f][j].state = "idle" => out'[f][j] = IdleOut
  <2> SUFFICES ASSUME NEW f \in Endpoint, NEW j \in Id
               PROVE  /\ out'[f][j].state # "idle" <=> j < nextOut'[f]
                      /\ out'[f][j].state = "idle" => out'[f][j] = IdleOut
    OBVIOUS
  <2>1. j \in Nat
    BY IdIsNat
  <2>2. CASE f = e /\ j = i
    BY <2>2, <1>2, <1>6 DEF NewOut, OutRow
  <2>3. CASE f = e /\ j # i
    <3>1. out'[f][j] = out[e][j] /\ (j < i + 1 <=> j < i)
      BY <2>1, <2>3, <1>2, <1>6 DEF OutRow
    <3> QED BY <2>3, <3>1, <1>4, <1>6 DEF InOrder
  <2>4. CASE f = r
    <3>1. out'[f][j] = out[f][j] /\ nextOut'[f] = nextOut[f]
      BY <2>4, <1>6
    <3> QED BY <3>1, <1>4 DEF InOrder
  <2> QED BY <1>1, <2>2, <2>3, <2>4
<1> HIDE DEF i, r
<1>11. Sending(s, i, nextOut'[e], out[e], [out[e] EXCEPT ![i] = NewOut])
  <2>1. out[e][i].sent = 0 /\ out[e][i].state = "idle" /\ NewOut.sent = 0 /\ NewOut.state = "open"
    BY <1>5 DEF IdleOut, NewOut
  <2>2. DataChain(s, i, out[e][i].sent, NewOut.sent) /\ Reaches(s, i, out[e][i].sent, NewOut.sent)
    BY <1>9, <2>1 DEF DataChain, Reaches
  <2>3. EndLast(s, i, NewOut.state)
    BY <1>9 DEF EndLast
  <2>4. i + 1 \in Nat
    BY <1>2
  <2> HIDE DEF s
  <2> QED BY <1>2, <1>6, <1>7, <1>8, <1>9, <2>1, <2>2, <2>3, <2>4, SendingOne DEF s
<1>12. /\ NewOut.acked = out[e][i].acked /\ out[e][i].state = "idle"
       /\ \A k \in 1 .. Len(s) : s[k].cmd # "ACK" /\ s[k].id = i
  BY <1>5, <1>8 DEF IdleOut, NewOut
<1> HIDE DEF s
<1>13. Sending(s, nextOut[e], nextOut'[e], out[e], out'[e])
  BY <1>6, <1>11 DEF i
<1> QED BY <1>1, <1>2, <1>3, <1>5, <1>6, <1>7, <1>8, <1>10, <1>12, <1>13, Sent DEF r

(* What the program writes to an open message, and its end.                *)
LEMMA SentMore ==
    ASSUME PipeInv, IInv', NEW e \in Endpoint, NEW i \in Id, NEW s \in Packets, NEW new \in OutRecord,
           out[e][i].state = "open", Transmit(e, s, net), out' = [out EXCEPT ![e][i] = new],
           UNCHANGED <<started, closed, up, nextOut, nextIn, in, bounced>>,
           \A k \in 1 .. Len(s) : s[k].cmd \in {"DATA", "EOF", "TXERR"} /\ s[k].id = i,
           new.acked = out[e][i].acked, new.sent >= out[e][i].sent, new.state # "idle",
           DataChain(s, i, out[e][i].sent, new.sent), Reaches(s, i, out[e][i].sent, new.sent),
           EndLast(s, i, new.state)
    PROVE  WireInv'
<1>1. IInv /\ InOrder /\ Peer[e] \in Endpoint
  BY PeerFacts DEF PipeInv, WireInv
<1>2. /\ out'[e] = [out[e] EXCEPT ![i] = new] /\ out[e] \in OutRow
      /\ nextOut' = nextOut /\ nextOut[e] \in Number
  BY <1>1, PipeTypes DEF IInv, OutOK, OutRow
<1>3. Headers(s, i) = {} /\ \A k \in 1 .. Len(s) : s[k].cmd # "HEADER" /\ s[k].cmd # "ACK"
  BY DEF Headers, Places
<1>4. Sending(s, nextOut[e], nextOut[e], out[e], [out[e] EXCEPT ![i] = new])
  <2> DEFINE to == nextOut[e]
             o == out[e]
  <2>1. to \in Nat /\ o \in OutRow
    BY <1>2 DEF Number
  <2>2. /\ o[i].state = "open" /\ new.sent >= o[i].sent
        /\ DataChain(s, i, o[i].sent, new.sent) /\ Reaches(s, i, o[i].sent, new.sent)
    OBVIOUS
  <2> HIDE DEF to, o
  <2>3. Sending(s, to, to, o, [o EXCEPT ![i] = new])
    BY <1>3, <2>1, <2>2, SendingOne
  <2> QED BY <2>3 DEF to, o
<1>5. Sending(s, nextOut[e], nextOut'[e], out[e], out'[e])
  BY <1>2, <1>4
<1>6. ASSUME NEW f \in Endpoint, NEW j \in Id
      PROVE  /\ out'[f][j].state # "idle" <=> j < nextOut'[f]
             /\ out'[f][j].state = "idle" => out'[f][j] = IdleOut
  <2>1. CASE f = e /\ j = i
    <3>1. out'[f][j] = new /\ (out[f][j].state # "idle" <=> j < nextOut[f])
      BY <2>1, <1>1, <1>2 DEF OutRow, InOrder
    <3> QED BY <2>1, <3>1, <1>2
  <2>2. CASE ~(f = e /\ j = i)
    <3>1. out'[f][j] = out[f][j]
      BY <2>2, <1>1 DEF IInv, OutOK
    <3> QED BY <3>1, <1>1, <1>2 DEF InOrder
  <2> QED BY <2>1, <2>2
<1> QED BY <1>1, <1>2, <1>3, <1>5, <1>6, Sent

LEMMA WritePipe ==
    ASSUME PipeInv, NEW e \in Endpoint, NEW i \in Id, NEW n \in Writes, Write(e, i, n)
    PROVE  WireInv'
<1> DEFINE o == out[e][i]
           s == Slices(i, o.sent, n)
           new == AfterWrite(o, n)
<1>1. /\ out' = [out EXCEPT ![e][i] = new] /\ Transmit(e, s, net)
      /\ o.state = "open" /\ ~o.paused
      /\ UNCHANGED <<started, closed, up, nextOut, nextIn, in, bounced>>
  BY DEF Write
<1>2. IInv /\ IInv' /\ o \in OutRecord /\ n \in Nat \ {0}
  BY WriteInv, WritesAssumption DEF PipeInv, IInv, OutOK
<1>3. o.sent \in Nat /\ o.acked \in Nat
  BY <1>2 DEF OutRecord
<1> HIDE DEF o
<1>4. new \in OutRecord /\ new.state = "open"
  BY <1>1, <1>2, AfterWriteRight
<1>5. new.sent = o.sent + n /\ new.acked = o.acked
  BY <1>2 DEF AfterWrite, OutRecord
<1>6. /\ \A k \in 1 .. Len(s) : s[k].cmd = "DATA" /\ s[k].id = i
      /\ DataChain(s, i, o.sent, o.sent + n) /\ Reaches(s, i, o.sent, o.sent + n)
  BY <1>2, <1>3, SlicesChain
<1>7. s \in Packets
  BY <1>2, <1>3, SlicesType DEF Packets
<1>8. EndLast(s, i, new.state)
  BY <1>6 DEF EndLast, Ends, Places
<1> HIDE DEF s, new
<1>9. new.sent >= o.sent
  BY <1>2, <1>3, <1>5
<1> QED BY <1>1, <1>2, <1>4, <1>5, <1>6, <1>7, <1>8, <1>9, SentMore DEF o

LEMMA EndPipe ==
    ASSUME PipeInv, NEW e \in Endpoint, NEW i \in Id, NEW how \in {"ok", "err"}, End(e, i, how)
    PROVE  WireInv'
<1> DEFINE o == out[e][i]
           s == <<IF how = "ok" THEN Eof(i) ELSE TxErr(i)>>
           new == [o EXCEPT !.state = how]
<1>1. /\ out' = [out EXCEPT ![e][i] = new] /\ Transmit(e, s, net) /\ o.state = "open"
      /\ UNCHANGED <<started, closed, up, nextOut, nextIn, in, bounced>>
  BY DEF End
<1>2. IInv /\ IInv' /\ o \in OutRecord
  BY EndInv DEF PipeInv, IInv, OutOK
<1> HIDE DEF o
<1>3. /\ new \in OutRecord /\ new.state = how /\ new.sent = o.sent /\ new.acked = o.acked
      /\ o.sent \in Nat
  BY <1>2 DEF OutRecord, States
<1>4. s \in Packets /\ Len(s) = 1 /\ s[1].id = i /\ s[1].cmd = IF how = "ok" THEN "EOF" ELSE "TXERR"
  BY PacketType, OnePacket DEF Packets, Eof, TxErr, Packet
<1> HIDE DEF s, new
<1>5. Datas(s, i) = {} /\ Ends(s, i) = {1}
  BY <1>4 DEF Datas, Ends, Places
<1>6. /\ DataChain(s, i, o.sent, new.sent) /\ Reaches(s, i, o.sent, new.sent)
      /\ EndLast(s, i, new.state)
  BY <1>3, <1>4, <1>5 DEF DataChain, Reaches, EndLast
<1>7. \A k \in 1 .. Len(s) : s[k].cmd \in {"DATA", "EOF", "TXERR"} /\ s[k].id = i
  BY <1>4
<1>8. new.sent >= o.sent /\ new.state # "idle"
  BY <1>3
<1> QED BY <1>1, <1>2, <1>3, <1>4, <1>6, <1>7, <1>8, SentMore DEF o

(***************************************************************************)
(* e sends acknowledgements only: they do not disturb what it has to say   *)
(* of its own messages.                                                    *)
(***************************************************************************)
LEMMA OnlyAcks ==
    ASSUME PipeInv, IInv', NEW e \in Endpoint, NEW s \in Packets,
           \A k \in 1 .. Len(s) : s[k].cmd = "ACK",
           Wire(e)' = IF Sends(e) THEN Wire(e) \o s ELSE Wire(e),
           UNCHANGED <<Sends(e), out[e], nextOut[e], in[Peer[e]], nextIn[Peer[e]], closed[Peer[e]]>>
    PROVE  DirectionOf(e)'
<1> DEFINE r == Peer[e]
<1>1. IInv /\ InOrder /\ DirectionOf(e) /\ r \in Endpoint
  BY PeerFacts DEF PipeInv, WireInv
<1>2. /\ Wire(e) \in Packets /\ out[e] \in OutRow /\ in[r] \in InRow
      /\ nextIn[r] \in Number /\ nextOut[e] \in Number /\ Sends(e) \in Flag /\ closed[r] \in Flag
  BY <1>1, PipeTypes
<1>3. Sending(s, nextOut[e], nextOut[e], out[e], out[e])
  <2>1. \A i \in Id : Headers(s, i) = {} /\ Datas(s, i) = {} /\ Ends(s, i) = {} /\ out[e][i].sent \in Nat
    BY <1>2 DEF Headers, Datas, Ends, Places, OutRow, OutRecord
  <2> QED BY <2>1 DEF Sending, DataChain, Reaches
<1>4. Counted(nextIn[r], nextOut[e], out[e], in[r])
  BY <1>1 DEF InOrder, Counted
<1>5. Direction(Wire(e), nextIn[r], nextOut[e], Sends(e), out[e], in[r], closed[r])
  BY <1>1 DEF DirectionOf
<1> DEFINE v == Wire(e)'
<1>6. v = (IF Sends(e) THEN Wire(e) \o s ELSE Wire(e)) /\ v \in Packets
  BY <1>2, ConcatIs
<1> HIDE DEF v, r
<1>7. Direction(v, nextIn[r], nextOut[e], Sends(e), out[e], in[r], closed[r])
  BY <1>2, <1>3, <1>4, <1>5, <1>6, DirectionJoins
<1> QED BY <1>7 DEF DirectionOf, r, v

LEMMA ResumePipe ==
    ASSUME PipeInv, NEW e \in Endpoint, NEW i \in Id, Resume(e, i) PROVE WireInv'
<1> DEFINE r == Peer[e]
           m == in[e][i]
           s == DrainAcks(i, m)
           new == [m EXCEPT !.paused = FALSE, !.acked = m.received]
<1>1. IInv /\ IInv' /\ r \in Endpoint /\ r # e /\ Peer[r] = e /\ \A f \in Endpoint : f = e \/ f = r
  BY ResumeInv, PeerFacts DEF PipeInv
<1>2. /\ WiresKept /\ InOrder /\ AllDrained /\ DirectionOf(e) /\ DirectionOf(r)
      /\ \A j \in Id : AcksOf(e, j) /\ AcksOf(r, j)
  BY <1>1 DEF PipeInv, WireInv
<1>3. /\ Wire(e) \in Packets /\ Wire(r) \in Packets /\ out[e] \in OutRow /\ out[r] \in OutRow
      /\ in[e] \in InRow /\ nextIn[e] \in Number /\ nextOut[r] \in Number
      /\ Sends(r) \in Flag /\ closed[e] \in Flag
  BY <1>1, PipeTypes
<1>4. /\ Transmit(e, s, net) /\ m.paused
      /\ UNCHANGED <<started, closed, up, nextOut, nextIn, out, bounced>>
  BY DEF Resume
<1>5. m \in InRecord
  BY <1>3 DEF InRow
<1>9. /\ in'[r] = in[r] /\ in'[e][i] = new /\ \A j \in Id : j # i => in'[e][j] = in[e][j]
      /\ in'[e] \in InRow
  <2>1. in' = [in EXCEPT ![e][i].paused = FALSE, ![e][i].acked = m.received]
    BY DEF Resume
  <2> QED BY <1>1, <1>5, <2>1, WireTypes DEF IInv, InOK, InRecord
<1> HIDE DEF m
<1>6. /\ new \in InRecord /\ new.state = m.state /\ new.received = m.received
      /\ new.acked = m.received /\ ~new.paused
  BY <1>5 DEF InRecord
<1>7. /\ s \in Packets
      /\ \A k \in 1 .. Len(s) : s[k].cmd = "ACK" /\ s[k].id = i /\ s[k].hi = m.received
      /\ m.received = m.acked => Acks(s, i) = {}
      /\ m.received # m.acked => Acks(s, i) = {1}
  <2>1. m.received \in Nat
    BY <1>5 DEF InRecord
  <2>2. CASE m.received # m.acked
    <3>1. s = <<Ack(i, m.received)>>
      BY <2>2 DEF DrainAcks
    <3>2. s \in Packets
      BY <2>1, <3>1, PacketType, OnePacket DEF Packets
    <3>3. Len(s) = 1 /\ s[1].cmd = "ACK" /\ s[1].id = i /\ s[1].hi = m.received
      BY <3>1 DEF Ack, Packet
    <3> HIDE DEF s
    <3>4. Acks(s, i) = {1}
      BY <3>3 DEF Acks, Places
    <3> QED BY <2>2, <3>2, <3>3, <3>4
  <2>3. CASE m.received = m.acked
    <3>1. s = <<>>
      BY <2>3 DEF DrainAcks
    <3>2. s \in Packets /\ Len(s) = 0
      BY <3>1, EmptySeq DEF Packets
    <3> QED BY <2>3, <3>2 DEF Acks, Places
  <2> QED BY <2>2, <2>3
<1> HIDE DEF s, new
<1>8. /\ WiresKept' /\ Wire(e)' = IF Sends(e) THEN Wire(e) \o s ELSE Wire(e)
      /\ Wire(r)' = Wire(r) /\ Sends(e)' = Sends(e) /\ Sends(r)' = Sends(r)
  <2>1. net \in [Endpoint -> Packets]
    BY <1>1 DEF IInv, WiresOK, Packets
  <2> QED BY <1>1, <1>2, <1>4, <2>1, TransmitWires DEF Wire
<1>10. DirectionOf(e)'
  BY <1>1, <1>4, <1>7, <1>8, <1>9, OnlyAcks DEF r
<1>11. DirectionOf(r)'
  <2>1. Direction(Wire(r), nextIn[e], nextOut[r], Sends(r), out[r], in[e], closed[e])
    BY <1>1, <1>2 DEF DirectionOf
  <2>2. Kept(out[r], out[r], in[e], in'[e], Sends(r), Sends(r), closed[e], closed[e])
    BY <1>6, <1>9 DEF m, Kept
  <2>3. Direction(Wire(r), nextIn[e], nextOut[r], Sends(r), out[r], in'[e], closed[e])
    BY <1>3, <1>9, <2>1, <2>2, DirectionKept
  <2> QED BY <1>1, <1>4, <1>8, <2>3 DEF DirectionOf
<1>12. \A j \in Id : AcksOf(e, j)'
  BY <1>2, <1>4, <1>8, <1>9 DEF AcksOf, r
<1>13. \A j \in Id : AcksOf(r, j)'
  <2> TAKE j \in Id
  <2> DEFINE o == out[r][j]
  <2>1. AcksOf(r, j) /\ o \in OutRecord /\ in[e][j] \in InRecord
    BY <1>2, <1>3 DEF OutRow, InRow
  <2> HIDE DEF o
  <2>2. CASE j # i
    <3>1. Acks(s, j) = {}
      BY <1>7, <2>2 DEF Acks, Places
    <3>2. /\ AcksRise(Wire(e), j, o, in[e][j]) => AcksRise(Wire(e) \o s, j, o, in[e][j])
          /\ LastAck(Wire(e), j, o, in[e][j]) => LastAck(Wire(e) \o s, j, o, in[e][j])
      BY <1>3, <1>7, <2>1, <3>1, QuietJoins
    <3> QED BY <1>1, <1>4, <1>8, <1>9, <2>1, <2>2, <3>2 DEF AcksOf, o
  <2>3. CASE j = i
    <3>1. ASSUME AcksRise(Wire(e), i, o, m)
          PROVE  AcksRise(Wire(e) \o s, i, o, new) /\ AcksRise(Wire(e), i, o, new)
      <4>1. m.acked <= m.received /\ m.acked \in Nat /\ m.received \in Nat
        BY <1>5, <3>1 DEF AcksRise, InRecord
      <4>2. m.acked <= new.acked /\ new.acked <= new.received
        BY <1>6, <4>1
      <4>3. \A k \in Acks(s, i) : m.acked < s[k].hi /\ s[k].hi <= new.acked /\ k = 1
        BY <1>6, <1>7, <4>1 DEF Acks, Places
      <4> QED BY <1>3, <1>5, <1>6, <1>7, <2>1, <2>3, <3>1, <4>2, <4>3, AcksJoin
    <3>2. ASSUME LastAck(Wire(e), i, o, m) PROVE LastAck(Wire(e) \o s, i, o, new)
      <4>1. \/ Acks(s, i) = {} /\ new.acked = m.acked
            \/ \E k \in Acks(s, i) : s[k].hi = new.acked /\ \A l \in Acks(s, i) : l <= k
        BY <1>6, <1>7 DEF Acks, Places
      <4> QED BY <1>3, <1>7, <3>2, <4>1, LastAckJoins
    <3>3. up /\ o.state = "open" => Sends(e)
      BY <1>1, <1>2 DEF Sends, WiresKept
    <3> QED BY <1>1, <1>4, <1>8, <1>9, <2>1, <2>3, <3>1, <3>2, <3>3 DEF AcksOf, m, o
  <2> QED BY <2>2, <2>3
<1>14. InOrder'
  <2> SUFFICES ASSUME NEW f \in Endpoint, NEW j \in Id
               PROVE  /\ in'[f][j].state # "idle" <=> j < nextIn[f]
                      /\ in'[f][j].state = "idle" => in'[f][j] = IdleIn /\ <<f, j>> \notin bounced
    BY <1>2, <1>4 DEF InOrder
  <2>1. CASE f = e /\ j = i
    <3>1. in'[f][j] = new /\ m.paused
      BY <2>1, <1>4, <1>9
    <3>2. /\ m.state # "idle" <=> j < nextIn[f]
          /\ m.state = "idle" => m = IdleIn
      BY <2>1, <1>2 DEF InOrder, m
    <3> QED BY <1>6, <3>1, <3>2 DEF IdleIn, NewIn
  <2>2. CASE ~(f = e /\ j = i)
    BY <2>2, <1>1, <1>2, <1>9 DEF InOrder
  <2> QED BY <2>1, <2>2
<1>15. AllDrained'
  <2> SUFFICES ASSUME NEW f \in Endpoint, NEW j \in Id
               PROVE  ~in'[f][j].paused => in'[f][j].received <= in'[f][j].acked
    BY DEF AllDrained
  <2>1. CASE f = e /\ j = i
    BY <2>1, <1>5, <1>6, <1>9 DEF InRecord
  <2>2. CASE ~(f = e /\ j = i)
    BY <2>2, <1>1, <1>2, <1>9 DEF AllDrained
  <2> QED BY <2>1, <2>2
<1> QED BY <1>1, <1>8, <1>10, <1>11, <1>12, <1>13, <1>14, <1>15 DEF WireInv

-------------------------------------------------------------------------------
(* The packet handlers: what e reads is the head of its peer's wire.       *)
LEMMA ReadsWire ==
    ASSUME PipeInv, NEW e \in Endpoint, net[e] # <<>>
    PROVE  /\ started[Peer[e]] /\ Wire(Peer[e]) = net[e] /\ Wire(Peer[e]) \in Packets
           /\ Head(net[e]) = net[e][1] /\ 1 \in 1 .. Len(net[e])
           /\ Head(net[e]) \in GoodPacket /\ Head(net[e]).id \in Id
           /\ Head(net[e]).lo \in Nat /\ Head(net[e]).hi \in Nat
<1>1. IInv /\ WiresKept /\ Peer[e] \in Endpoint /\ Peer[Peer[e]] = e
  BY PeerFacts DEF PipeInv, WireInv
<1>2. started[Peer[e]] /\ Wire(Peer[e]) = net[e] /\ Wire(Peer[e]) \in Packets
  BY <1>1, PipeTypes DEF WiresKept, Wire
<1>3. Head(net[e]) = net[e][1] /\ 1 \in 1 .. Len(net[e]) /\ Head(net[e]) \in GoodPacket
  BY <1>1, <1>2, HeadPacket DEF IInv, Packets
<1> QED BY <1>2, <1>3, PacketFields

LEMMA ConsumeWires ==
    ASSUME PipeInv, NEW e \in Endpoint, net[e] # <<>>, net' = Consumed(e),
           UNCHANGED <<started, closed, up, outBuf, bounced>>
    PROVE  /\ WiresKept' /\ Wire(e)' = Wire(e) /\ Wire(Peer[e])' = Tail(Wire(Peer[e]))
           /\ \A f \in Endpoint : Sends(f)' = Sends(f)
<1> DEFINE r == Peer[e]
<1>1. IInv /\ WiresKept /\ r \in Endpoint /\ r # e /\ Peer[r] = e /\ \A f \in Endpoint : f = e \/ f = r
  BY PeerFacts DEF PipeInv, WireInv
<1>2. net'[e] = Tail(net[e]) /\ net'[r] = net[r]
  BY <1>1 DEF Consumed, IInv, WiresOK
<1>3. Wire(e)' = Wire(e) /\ Wire(r)' = Tail(Wire(r))
  BY <1>1, <1>2, ReadsWire DEF Wire
<1>4. WiresKept'
  <2>1. net[e] # <<>> /\ started[r]
    BY ReadsWire
  <2>2. \A f \in Endpoint : f = e \/ (f = r /\ net'[f] = net[f])
    BY <1>1, <1>2
  <2> QED BY <1>1, <1>2, <2>1, <2>2 DEF WiresKept
<1> QED BY <1>3, <1>4 DEF Sends

(***************************************************************************)
(* e handles the head of the wire, which is not an acknowledgement, and    *)
(* may send acknowledgements s.                                            *)
(***************************************************************************)
LEMMA Handled ==
    ASSUME PipeInv, IInv', NEW e \in Endpoint, net[e] # <<>>, Head(net[e]).cmd # "ACK",
           NEW s \in Packets, \A k \in 1 .. Len(s) : s[k].cmd = "ACK",
           Wire(e)' = IF Sends(e) THEN Wire(e) \o s ELSE Wire(e),
           Wire(Peer[e])' = Tail(Wire(Peer[e])), \A f \in Endpoint : Sends(f)' = Sends(f),
           UNCHANGED <<out, nextOut, closed, up, in[Peer[e]], nextIn[Peer[e]]>>,
           bounced \subseteq bounced',
           nextIn'[e] = IF Head(net[e]).cmd = "HEADER" THEN nextIn[e] + 1 ELSE nextIn[e],
           Handling(net[e], out[Peer[e]], in[e], in'[e], closed[e])
    PROVE  /\ \A f \in Endpoint : DirectionOf(f)'
           /\ \A i \in Id : AcksOf(e, i)'
<1> DEFINE r == Peer[e]
           w == Wire(r)
<1>1. IInv /\ r \in Endpoint /\ r # e /\ Peer[r] = e /\ \A f \in Endpoint : f = e \/ f = r
  BY PeerFacts DEF PipeInv
<1>2. DirectionOf(r) /\ \A i \in Id : AcksOf(e, i)
  BY <1>1 DEF PipeInv, WireInv
<1>3. /\ w \in Packets /\ out[e] \in OutRow /\ out[r] \in OutRow
      /\ in[e] \in InRow /\ in[r] \in InRow /\ nextIn[e] \in Number /\ nextOut[r] \in Number
      /\ Sends(r) \in Flag /\ closed[e] \in Flag /\ in'[e] \in InRow
  BY <1>1, PipeTypes, WireTypes
<1>4. w = net[e] /\ w # <<>> /\ w[1] = Head(net[e])
  BY ReadsWire
<1>5. DirectionOf(e)'
  BY <1>1, OnlyAcks
<1>6. DirectionOf(r)'
  <2>1. Direction(w, nextIn[e], nextOut[r], Sends(r), out[r], in[e], closed[e])
    BY <1>1, <1>2 DEF DirectionOf
  <2>2. Handling(w, out[r], in[e], in'[e], closed[e])
    BY <1>4
  <2> HIDE DEF w, r
  <2>3. Direction(Tail(w), IF w[1].cmd = "HEADER" THEN nextIn[e] + 1 ELSE nextIn[e], nextOut[r], Sends(r),
                  out[r], in'[e], closed[e])
    BY <1>3, <1>4, <2>1, <2>2, DirectionHandled
  <2> QED BY <1>1, <1>4, <2>3 DEF DirectionOf, w, r
<1>7. ASSUME NEW i \in Id PROVE AcksOf(e, i)'
  <2>1. AcksOf(e, i) /\ out[e][i] \in OutRecord /\ in[r][i] \in InRecord
    BY <1>2, <1>3 DEF OutRow, InRow
  <2>2. 1 \notin Acks(w, i)
    BY <1>4 DEF Acks, Places
  <2> HIDE DEF w, r
  <2>3. /\ AcksRise(w, i, out[e][i], in[r][i]) => AcksRise(Tail(w), i, out[e][i], in[r][i])
        /\ LastAck(w, i, out[e][i], in[r][i]) => LastAck(Tail(w), i, out[e][i], in[r][i])
    BY <1>3, <1>4, <2>1, <2>2, AcksTail
  <2> QED BY <2>1, <2>3 DEF AcksOf, w, r
<1> QED BY <1>1, <1>5, <1>6, <1>7

(* The acknowledged and received counts of e's incoming messages, and its  *)
(* wire, are as they were.                                                 *)
LEMMA AcksStay ==
    ASSUME PipeInv, NEW e \in Endpoint, Wire(e)' = Wire(e), bounced \subseteq bounced',
           out'[Peer[e]] = out[Peer[e]], up' => up,
           \A j \in Id : in'[e][j].acked = in[e][j].acked /\ in'[e][j].received = in[e][j].received
    PROVE  \A i \in Id : AcksOf(Peer[e], i)'
<1> TAKE i \in Id
<1> DEFINE r == Peer[e]
<1>1. r \in Endpoint /\ Peer[r] = e /\ AcksOf(r, i)
  BY PeerFacts DEF PipeInv, WireInv
<1>2. /\ AcksRise(Wire(e), i, out[r][i], in[e][i]) => AcksRise(Wire(e), i, out'[r][i], in'[e][i])
      /\ LastAck(Wire(e), i, out[r][i], in[e][i]) => LastAck(Wire(e), i, out'[r][i], in'[e][i])
  BY AcksSame
<1> HIDE DEF r
<1> QED BY <1>1, <1>2 DEF AcksOf, r

(* Both hold of the message that a packet is for, before it is handled.    *)
LEMMA AtHead ==
    ASSUME PipeInv, NEW e \in Endpoint, net[e] # <<>>, NEW i \in Id
    PROVE  /\ BodyChain(net[e], i, out[Peer[e]][i], in[e][i], Sends(Peer[e]))
           /\ EndChain(net[e], i, out[Peer[e]][i], in[e][i], closed[e])
           /\ HeaderChain(net[e], nextIn[e], nextOut[Peer[e]], Sends(Peer[e]))
           /\ net[e] \in Packets /\ IsTail(Tail(net[e]), net[e]) /\ Tail(net[e]) \in Packets
           /\ out[Peer[e]][i] \in OutRecord /\ in[e][i] \in InRecord
<1>1. IInv /\ Peer[e] \in Endpoint /\ Peer[Peer[e]] = e /\ DirectionOf(Peer[e])
  BY PeerFacts DEF PipeInv, WireInv
<1>2. Wire(Peer[e]) = net[e] /\ net[e] \in Packets
  BY <1>1, ReadsWire
<1>3. out[Peer[e]] \in OutRow /\ in[e] \in InRow
  BY <1>1, PipeTypes
<1> QED BY <1>1, <1>2, <1>3, TailIs DEF DirectionOf, Direction, OutRow, InRow

(* A message the head of the wire is not for is as it was.                 *)
LEMMA HandlingOthers ==
    ASSUME PipeInv, NEW e \in Endpoint, net[e] # <<>>, NEW i \in Id, Head(net[e]).id # i
    PROVE  /\ 1 \notin Headers(net[e], i) /\ 1 \notin Datas(net[e], i)
           /\ in[e][i].received <= out[Peer[e]][i].sent
           /\ EndChain(Tail(net[e]), i, out[Peer[e]][i], in[e][i], closed[e])
<1>1. 1 \notin Headers(net[e], i) /\ 1 \notin Datas(net[e], i)
  BY ReadsWire DEF Headers, Datas, Places
<1>2. in[e][i].received <= out[Peer[e]][i].sent
  BY AtHead DEF BodyChain
<1>3. EndChain(Tail(net[e]), i, out[Peer[e]][i], in[e][i], closed[e])
  BY AtHead, EndTail
<1> QED BY <1>1, <1>2, <1>3

(* e handles the packet at the head of its wire, which is for message i.   *)
HandlesHead(e, i, row) ==
    LET p == Head(net[e])
    IN  /\ \A j \in Id : j # i => row[j] = in[e][j]
        /\ in[e][i].state # "idle" \/ p.cmd = "HEADER" => row[i].state # "idle"
        /\ row[i].received = IF p.cmd = "DATA" THEN p.hi ELSE in[e][i].received
        /\ p.cmd = "DATA" => in[e][i].received < p.hi
        /\ row[i].received <= out[Peer[e]][i].sent
        /\ Arriving(row[i]) => Arriving(in[e][i])
        /\ EndChain(Tail(net[e]), i, out[Peer[e]][i], row[i], closed[e])

(* One record changes: what handling the head takes.                       *)
LEMMA HandlingOne ==
    ASSUME PipeInv, NEW e \in Endpoint, net[e] # <<>>, NEW i \in Id, Head(net[e]).id = i, NEW row,
           HandlesHead(e, i, row)
    PROVE  Handling(net[e], out[Peer[e]], in[e], row, closed[e])
<1> USE DEF HandlesHead
<1> DEFINE w == net[e]
<1>1. w[1] = Head(w) /\ 1 \in 1 .. Len(w)
  BY ReadsWire
<1>2. (1 \in Headers(w, i) <=> w[1].cmd = "HEADER") /\ (1 \in Datas(w, i) <=> w[1].cmd = "DATA")
  BY <1>1 DEF Headers, Datas, Places
<1> SUFFICES ASSUME NEW j \in Id
             PROVE  /\ in[e][j].state # "idle" \/ 1 \in Headers(w, j) => row[j].state # "idle"
                    /\ \/ row[j].received = in[e][j].received
                       \/ 1 \in Datas(w, j) /\ in[e][j].received < w[1].hi /\ row[j].received = w[1].hi
                    /\ row[j].received <= out[Peer[e]][j].sent
                    /\ Arriving(row[j]) =>
                          /\ Arriving(in[e][j])
                          /\ row[j].received = IF 1 \in Datas(w, j) THEN w[1].hi ELSE in[e][j].received
                    /\ EndChain(Tail(w), j, out[Peer[e]][j], row[j], closed[e])
  BY DEF Handling
<1>3. CASE j = i
  BY <1>1, <1>2, <1>3
<1>4. CASE j # i
  BY <1>4, HandlingOthers
<1> QED BY <1>3, <1>4

LEMMA HandledQuietly ==
    ASSUME PipeInv, IInv', NEW e \in Endpoint, net[e] # <<>>, Head(net[e]).cmd # "ACK",
           net' = Consumed(e), UNCHANGED <<started, closed, up, outBuf, nextOut, out, bounced>>,
           in'[Peer[e]] = in[Peer[e]], nextIn'[Peer[e]] = nextIn[Peer[e]],
           nextIn'[e] = IF Head(net[e]).cmd = "HEADER" THEN nextIn[e] + 1 ELSE nextIn[e],
           Handling(net[e], out[Peer[e]], in[e], in'[e], closed[e])
    PROVE  /\ WiresKept' /\ Wire(e)' = Wire(e)
           /\ \A f \in Endpoint : DirectionOf(f)'
           /\ \A i \in Id : AcksOf(e, i)'
<1> DEFINE s == <<>>
<1>1. /\ WiresKept' /\ Wire(e)' = Wire(e) /\ Wire(Peer[e])' = Tail(Wire(Peer[e]))
      /\ \A f \in Endpoint : Sends(f)' = Sends(f)
  BY ConsumeWires
<1>2. Wire(e) \in Packets
  BY PipeTypes DEF PipeInv
<1>3. s \in Packets /\ (\A k \in 1 .. Len(s) : s[k].cmd = "ACK") /\ Wire(e) \o s = Wire(e)
  BY <1>2, EmptySeq, ConcatEmptySeq DEF Packets
<1> HIDE DEF s
<1>4. Wire(e)' = IF Sends(e) THEN Wire(e) \o s ELSE Wire(e)
  BY <1>1, <1>3
<1>5. UNCHANGED <<out, nextOut, closed, up, in[Peer[e]], nextIn[Peer[e]]>> /\ bounced \subseteq bounced'
  OBVIOUS
<1> QED BY <1>1, <1>3, <1>4, <1>5, Handled

LEMMA OnHeaderPipe == ASSUME PipeInv, NEW e \in Endpoint, OnHeader(e) PROVE WireInv'
<1> DEFINE r == Peer[e]
           p == Head(net[e])
           i == p.id
<1>1. IInv /\ IInv' /\ r \in Endpoint /\ r # e /\ Peer[r] = e /\ \A f \in Endpoint : f = e \/ f = r
  BY OnHeaderInv, PeerFacts DEF PipeInv
<1>2. InOrder /\ AllDrained
  BY DEF PipeInv, WireInv
<1>3. /\ net[e] # <<>> /\ p.cmd = "HEADER" /\ i = nextIn[e] /\ i \in Id
      /\ nextIn' = [nextIn EXCEPT ![e] = i + 1]
      /\ in' = [in EXCEPT ![e][i] = NewIn]
      /\ net' = Consumed(e)
      /\ UNCHANGED <<started, closed, up, outBuf, nextOut, out, bounced>>
  BY ReadsWire DEF OnHeader, Reads, Malformed, OutOfSequence
<1> HIDE DEF r, i
<1>4. i \in Nat /\ in[e][i] = IdleIn /\ in[e][i].state = "idle"
  <2>1. i \in Nat /\ ~(i < i)
    BY <1>3, IdIsNat
  <2>2. in[e][i].state # "idle" <=> i < i
    BY <1>2, <1>3 DEF InOrder
  <2> QED BY <1>2, <1>3, <2>1, <2>2 DEF InOrder
<1>5. /\ in'[e][i] = NewIn /\ in'[r] = in[r] /\ \A j \in Id : j # i => in'[e][j] = in[e][j]
      /\ nextIn'[e] = i + 1 /\ nextIn'[r] = nextIn[r]
  BY <1>1, <1>3 DEF IInv, InOK, FlagsOK
<1>7. Handling(net[e], out[r], in[e], in'[e], closed[e])
  <2>1. NewIn.state = "open" /\ NewIn.received = 0 /\ in[e][i].received = 0 /\ Arriving(in[e][i])
    BY <1>4 DEF NewIn, IdleIn, Arriving
  <2>2. in[e][i].received <= out[r][i].sent
    BY <1>3, AtHead DEF BodyChain, r
  <2>3. EndChain(Tail(net[e]), i, out[r][i], NewIn, closed[e])
    BY <2>1 DEF EndChain, Ended
  <2>4. HandlesHead(e, i, in'[e])
    BY <1>3, <1>5, <2>1, <2>2, <2>3 DEF HandlesHead, r
  <2> QED BY <1>3, <2>4, HandlingOne DEF r, i
<1>8. /\ WiresKept' /\ Wire(e)' = Wire(e)
      /\ (\A f \in Endpoint : DirectionOf(f)') /\ \A j \in Id : AcksOf(e, j)'
  BY <1>1, <1>3, <1>5, <1>7, HandledQuietly DEF r
<1>9. \A j \in Id : AcksOf(r, j)'
  <2>1. \A j \in Id : in'[e][j].acked = in[e][j].acked /\ in'[e][j].received = in[e][j].received
    BY <1>4, <1>5 DEF NewIn, IdleIn
  <2> QED BY <1>3, <1>8, <2>1, AcksStay DEF r
<1>10. InOrder'
  <2> SUFFICES ASSUME NEW f \in Endpoint, NEW j \in Id
               PROVE  /\ in'[f][j].state # "idle" <=> j < nextIn'[f]
                      /\ in'[f][j].state = "idle" => in'[f][j] = IdleIn /\ <<f, j>> \notin bounced
    BY <1>2, <1>3 DEF InOrder
  <2>1. CASE f = e /\ j = i
    BY <2>1, <1>4, <1>5 DEF NewIn
  <2>2. CASE f = e /\ j # i
    <3>1. in'[f][j] = in[e][j] /\ (j < i + 1 <=> j < i)
      BY <2>2, <1>4, <1>5, IdIsNat
    <3> QED BY <2>2, <3>1, <1>2, <1>3, <1>5 DEF InOrder
  <2>3. CASE f = r
    <3>1. in'[f][j] = in[f][j] /\ nextIn'[f] = nextIn[f]
      BY <2>3, <1>5
    <3> QED BY <3>1, <1>2 DEF InOrder
  <2> QED BY <1>1, <2>1, <2>2, <2>3
<1>11. AllDrained'
  <2> SUFFICES ASSUME NEW f \in Endpoint, NEW j \in Id
               PROVE  ~in'[f][j].paused => in'[f][j].received <= in'[f][j].acked
    BY DEF AllDrained
  <2>1. CASE f = e /\ j = i
    BY <2>1, <1>5 DEF NewIn
  <2>2. CASE ~(f = e /\ j = i)
    BY <2>2, <1>1, <1>2, <1>5 DEF AllDrained
  <2> QED BY <2>1, <2>2
<1> QED BY <1>1, <1>8, <1>9, <1>10, <1>11 DEF WireInv

(* Only the state of an incoming record changes, and it was not idle.      *)
LEMMA StatesOnly ==
    ASSUME InOrder, AllDrained, InOK, InOK', UNCHANGED <<nextIn, nextOut, out, bounced>>,
           \A f \in Endpoint, j \in Id :
              \/ in'[f][j] = in[f][j]
              \/ /\ in[f][j].state # "idle" /\ in'[f][j].state # "idle"
                 /\ in'[f][j].received = in[f][j].received /\ in'[f][j].acked = in[f][j].acked
                 /\ in'[f][j].paused = in[f][j].paused
    PROVE  InOrder' /\ AllDrained'
<1>1. InOrder'
  <2> SUFFICES ASSUME NEW f \in Endpoint, NEW j \in Id
               PROVE  /\ in'[f][j].state # "idle" <=> j < nextIn[f]
                      /\ in'[f][j].state = "idle" => in'[f][j] = IdleIn /\ <<f, j>> \notin bounced
    BY DEF InOrder
  <2> QED BY DEF InOrder
<1>2. AllDrained'
  <2> SUFFICES ASSUME NEW f \in Endpoint, NEW j \in Id
               PROVE  ~in'[f][j].paused => in'[f][j].received <= in'[f][j].acked
    BY DEF AllDrained
  <2> QED BY DEF AllDrained
<1> QED BY <1>1, <1>2

LEMMA EndingPipe ==
    ASSUME PipeInv, NEW e \in Endpoint, NEW how \in {"ok", "err"}, Ending(e, how),
           Head(net[e]).cmd = IF how = "ok" THEN "EOF" ELSE "TXERR"
    PROVE  WireInv'
<1> DEFINE r == Peer[e]
           i == Head(net[e]).id
           w == net[e]
           m == in[e][i]
           new == [m EXCEPT !.state = how]
<1>1. /\ IInv /\ IInv' /\ r \in Endpoint /\ r # e /\ Peer[r] = e
      /\ \A f \in Endpoint : f = e \/ f = r
  BY MessageEnds, PeerFacts DEF PipeInv
<1>2. InOrder /\ AllDrained
  BY DEF PipeInv, WireInv
<1>3. /\ w # <<>> /\ i \in Id /\ m.state = "open"
      /\ in' = [in EXCEPT ![e][i] = new]
      /\ net' = Consumed(e)
      /\ UNCHANGED <<started, closed, up, outBuf, nextOut, nextIn, out, bounced>>
  BY ReadsWire DEF Ending
<1>4. m \in InRecord /\ out[r][i] \in OutRecord
  BY <1>3, AtHead
<1> HIDE DEF m
<1>5. new.state = how /\ new.received = m.received /\ new.acked = m.acked /\ new.paused = m.paused
  BY <1>4 DEF InRecord
<1>6. in'[e][i] = new /\ in'[r] = in[r] /\ \A j \in Id : j # i => in'[e][j] = in[e][j]
  BY <1>1, <1>3 DEF IInv, InOK
<1> HIDE DEF new
<1>7. Handling(w, out[r], in[e], in'[e], closed[e])
  <2>1. /\ out[r][i].state = how /\ m.received = out[r][i].sent
        /\ \A k \in Datas(w, i) \union Ends(w, i) : k = 1
    <3>1. BodyChain(w, i, out[r][i], m, Sends(r)) /\ w \in Packets
      BY <1>3, AtHead DEF m
    <3>2. Arriving(m)
      BY <1>3 DEF Arriving
    <3>3. Head(w).cmd \in {"EOF", "TXERR"} /\ Head(w).id = i
      OBVIOUS
    <3>4. /\ out[r][i].state = IF Head(w).cmd = "EOF" THEN "ok" ELSE "err"
          /\ m.received = out[r][i].sent
          /\ \A k \in Datas(w, i) \union Ends(w, i) : k = 1
      BY <1>3, <1>4, <3>1, <3>2, <3>3, BodyAtHead
    <3> QED BY <3>4
  <2>2. EndChain(Tail(w), i, out[r][i], new, closed[e])
    <3>1. \A k \in Datas(Tail(w), i) : FALSE
      <4> SUFFICES ASSUME NEW k \in Datas(Tail(w), i) PROVE FALSE
        OBVIOUS
      <4>1. k + 1 \in Datas(w, i) /\ k \in Nat /\ k >= 1
        BY <1>3, AtHead, PacketAt DEF IsTail, Datas, Places
      <4> QED BY <2>1, <4>1
    <3>2. \A k \in Ends(Tail(w), i) : FALSE
      <4> SUFFICES ASSUME NEW k \in Ends(Tail(w), i) PROVE FALSE
        OBVIOUS
      <4>1. k + 1 \in Ends(w, i) /\ k \in Nat /\ k >= 1
        BY <1>3, AtHead, PacketAt DEF IsTail, Ends, Places
      <4> QED BY <2>1, <4>1
    <3> QED BY <1>5, <2>1, <3>1, <3>2 DEF EndChain, Ended
  <2>3. out[r][i].sent \in Nat
    BY <1>4 DEF OutRecord
  <2>4. m.received <= out[r][i].sent
    BY <2>1, <2>3
  <2>5. HandlesHead(e, i, in'[e])
    BY <1>3, <1>5, <1>6, <2>2, <2>4 DEF HandlesHead, Arriving, m
  <2> QED BY <1>3, <2>5, HandlingOne
<1>8. /\ WiresKept' /\ Wire(e)' = Wire(e)
      /\ (\A f \in Endpoint : DirectionOf(f)') /\ \A j \in Id : AcksOf(e, j)'
  BY <1>1, <1>3, <1>6, <1>7, HandledQuietly
<1>9. \A j \in Id : AcksOf(r, j)'
  <2>1. \A j \in Id : in'[e][j].acked = in[e][j].acked /\ in'[e][j].received = in[e][j].received
    BY <1>5, <1>6 DEF m
  <2> QED BY <1>3, <1>8, <2>1, AcksStay
<1>10. InOrder' /\ AllDrained'
  <2>1. \A f \in Endpoint, j \in Id :
           \/ in'[f][j] = in[f][j]
           \/ /\ in[f][j].state # "idle" /\ in'[f][j].state # "idle"
              /\ in'[f][j].received = in[f][j].received /\ in'[f][j].acked = in[f][j].acked
              /\ in'[f][j].paused = in[f][j].paused
    BY <1>1, <1>3, <1>5, <1>6 DEF m
  <2> QED BY <1>1, <1>2, <1>3, <2>1, StatesOnly DEF IInv
<1> QED BY <1>1, <1>8, <1>9, <1>10 DEF WireInv

LEMMA OnEndPipe == ASSUME PipeInv, NEW e \in Endpoint, OnEof(e) \/ OnTxErr(e) PROVE WireInv'
<1>1. CASE OnEof(e)
  <2>1. Ending(e, "ok") /\ Head(net[e]).cmd = "EOF"
    BY <1>1 DEF OnEof, Malformed, NoActiveMessage, Reads, Ending
  <2> QED BY <2>1, EndingPipe
<1>2. CASE OnTxErr(e)
  <2>1. Ending(e, "err") /\ Head(net[e]).cmd = "TXERR"
    BY <1>2 DEF OnTxErr, Malformed, NoActiveMessage, Reads, Ending
  <2> QED BY <2>1, EndingPipe
<1> QED BY <1>1, <1>2

LEMMA OnDataPipe ==
    ASSUME PipeInv, NEW e \in Endpoint, NEW how \in Consumers, OnData(e, how) PROVE WireInv'
<1> DEFINE r == Peer[e]
           p == Head(net[e])
           i == p.id
           w == net[e]
           m == in[e][i]
           n == p.hi - p.lo
           s == AcksWritten(i, m, n, how)
           new == Written(m, n, how)
<1>1. /\ IInv /\ IInv' /\ r \in Endpoint /\ r # e /\ Peer[r] = e
      /\ \A f \in Endpoint : f = e \/ f = r
  BY OnDataInv, PeerFacts DEF PipeInv
<1>2. /\ WiresKept /\ InOrder /\ AllDrained /\ \A j \in Id : AcksOf(r, j)
  BY <1>1 DEF PipeInv, WireInv
<1>3. /\ w # <<>> /\ p.cmd = "DATA" /\ i \in Id /\ m.state = "open" /\ p.lo \in Nat /\ p.hi \in Nat
      /\ in' = [in EXCEPT ![e][i] = new]
      /\ Transmit(e, s, Consumed(e))
      /\ bounced' = IF how = "bounce" THEN bounced \union {<<e, i>>} ELSE bounced
      /\ UNCHANGED <<started, closed, up, nextOut, nextIn, out>>
  BY ReadsWire DEF OnData, Reads, Malformed, NoActiveMessage
<1>4. m \in InRecord /\ out[r][i] \in OutRecord
  BY <1>3, AtHead
<1>5. how \in {"flow", "pause", "bounce"}
  BY ConsumersAssumption
<1>6. p.lo = m.received /\ m.received < p.hi /\ p.hi <= out[r][i].sent
  BY <1>3, AtHead, BodyAtHead DEF Arriving
<1>7. n \in Nat \ {0} /\ m.received + n = p.hi /\ m.received \in Nat /\ m.acked \in Nat
  <2>1. m.received \in Nat /\ m.acked \in Nat
    BY <1>4 DEF InRecord
  <2> HIDE DEF m, p
  <2> QED BY <1>3, <1>6, <2>1
<1> HIDE DEF n, i, m
<1>8. /\ \A k \in 1 .. Len(s) : s[k].cmd = "ACK" /\ s[k].id = i
      /\ new.received = m.received + n
      /\ (~m.paused => m.received <= m.acked) => (~new.paused => new.received <= new.acked)
      /\ \/ Acks(s, i) = {} /\ new.acked = m.acked
         \/ \E k \in Acks(s, i) : s[k].hi = new.acked /\ \A j \in Acks(s, i) : j <= k
      /\ how # "bounce" /\ m.acked <= m.received =>
            /\ m.acked <= new.acked /\ new.acked <= new.received
            /\ \A k \in Acks(s, i) : m.acked < s[k].hi /\ s[k].hi <= new.acked /\ k = 1
  <2>1. n \in Number /\ n > 0
    BY <1>7 DEF Number
  <2> QED BY <1>3, <1>4, <1>5, <2>1, AcksOfWritten
<1>9. new \in InRecord /\ new.state = "open" /\ s \in Packets
  BY <1>3, <1>4, <1>5, <1>7, WrittenType, AcksWrittenType DEF Packets
<1> HIDE DEF s, new
<1>10. in'[e][i] = new /\ in'[r] = in[r] /\ \A j \in Id : j # i => in'[e][j] = in[e][j]
  BY <1>1, <1>3 DEF IInv, InOK
<1>11. /\ WiresKept' /\ Wire(e)' = (IF Sends(e) THEN Wire(e) \o s ELSE Wire(e))
       /\ Wire(r)' = Tail(Wire(r)) /\ \A f \in Endpoint : Sends(f)' = Sends(f)
  <2>1. /\ Consumed(e) \in [Endpoint -> Packets] /\ Consumed(e)[r] = net[r]
        /\ Consumed(e)[e] = Tail(net[e])
    BY <1>1, <1>3, HeadPacket DEF IInv, WiresOK, Packets, Consumed
  <2>2. started[r] /\ Wire(r) = net[e]
    BY <1>3, ReadsWire
  <2>3. bounced \subseteq bounced'
    BY <1>3
  <2>4. Consumed(e)[e] # <<>> => net[e] # <<>>
    BY <1>3
  <2> QED BY <1>1, <1>2, <1>3, <1>9, <2>1, <2>2, <2>3, <2>4, TransmitWires
<1>12. Handling(w, out[r], in[e], in'[e], closed[e])
  <2>1. EndChain(Tail(w), i, out[r][i], new, closed[e])
    BY <1>9 DEF EndChain, Ended
  <2>2. HandlesHead(e, i, in'[e])
    BY <1>3, <1>6, <1>7, <1>8, <1>9, <1>10, <2>1 DEF HandlesHead, Arriving, m
  <2> QED BY <1>3, <2>2, HandlingOne DEF i
<1>13. (\A f \in Endpoint : DirectionOf(f)') /\ \A j \in Id : AcksOf(e, j)'
  <2>1. bounced \subseteq bounced' /\ nextIn'[e] = nextIn[e] /\ nextIn'[r] = nextIn[r]
    BY <1>3
  <2>2. \A k \in 1 .. Len(s) : s[k].cmd = "ACK"
    BY <1>8
  <2>3. nextIn'[e] = IF p.cmd = "HEADER" THEN nextIn[e] + 1 ELSE nextIn[e]
    BY <1>3, <2>1
  <2>4. UNCHANGED <<out, nextOut, closed, up, in[r], nextIn[r]>>
    BY <1>3, <1>10, <2>1
  <2>5. p.cmd # "ACK"
    BY <1>3
  <2> HIDE DEF p
  <2> QED BY <1>1, <1>3, <1>9, <1>11, <1>12, <2>1, <2>2, <2>3, <2>4, <2>5, Handled DEF p
<1>14. \A j \in Id : AcksOf(r, j)'
  <2> TAKE j \in Id
  <2> DEFINE o == out[r][j]
  <2>1. /\ AcksOf(r, j) /\ o \in OutRecord /\ in[e][j] \in InRecord /\ Wire(e) \in Packets
    BY <1>1, <1>2, PipeTypes DEF OutRow, InRow
  <2> HIDE DEF o
  <2>2. CASE j # i
    <3>1. Acks(s, j) = {}
      BY <1>8, <2>2 DEF Acks, Places
    <3>2. /\ AcksRise(Wire(e), j, o, in[e][j]) => AcksRise(Wire(e) \o s, j, o, in[e][j])
          /\ LastAck(Wire(e), j, o, in[e][j]) => LastAck(Wire(e) \o s, j, o, in[e][j])
      BY <1>9, <2>1, <3>1, QuietJoins
    <3> QED BY <1>1, <1>3, <1>10, <1>11, <2>1, <2>2, <3>2 DEF AcksOf, o
  <2>3. CASE j = i
    <3>1. ASSUME AcksRise(Wire(e), i, o, m), how # "bounce"
          PROVE  AcksRise(Wire(e) \o s, i, o, new) /\ AcksRise(Wire(e), i, o, new)
      <4>1. m.acked <= m.received
        BY <3>1 DEF AcksRise
      <4> QED BY <1>3, <1>4, <1>8, <1>9, <2>1, <2>3, <3>1, <4>1, AcksJoin
    <3>2. ASSUME LastAck(Wire(e), i, o, m) PROVE LastAck(Wire(e) \o s, i, o, new)
      BY <1>3, <1>8, <1>9, <2>1, <3>2, LastAckJoins
    <3>3. up /\ o.state = "open" => Sends(e)
      BY <1>1, <1>2 DEF Sends, WiresKept
    <3>4. how = "bounce" => <<e, i>> \in bounced'
      BY <1>3
    <3>5. \/ <<e, i>> \in bounced
          \/ AcksRise(Wire(e), i, o, m)
      BY <1>1, <2>1, <2>3 DEF AcksOf, o, m
    <3>6. up /\ o.state = "open" => LastAck(Wire(e), i, o, m)
      BY <1>1, <2>1, <2>3 DEF AcksOf, o, m
    <3>7. <<e, i>> \in bounced' \/ AcksRise(Wire(e)', i, o, new)
      BY <1>3, <1>11, <3>1, <3>4, <3>5
    <3>8. up /\ o.state = "open" => LastAck(Wire(e)', i, o, new)
      BY <1>11, <3>2, <3>3, <3>6
    <3> QED BY <1>1, <1>3, <1>10, <2>3, <3>7, <3>8 DEF AcksOf, o
  <2> QED BY <2>2, <2>3
<1>15. InOrder'
  <2> SUFFICES ASSUME NEW f \in Endpoint, NEW j \in Id
               PROVE  /\ in'[f][j].state # "idle" <=> j < nextIn[f]
                      /\ in'[f][j].state = "idle" => in'[f][j] = IdleIn /\ <<f, j>> \notin bounced'
    BY <1>2, <1>3 DEF InOrder
  <2>1. CASE f = e /\ j = i
    <3>1. m.state # "idle" <=> j < nextIn[f]
      BY <2>1, <1>2 DEF InOrder, m
    <3> QED BY <2>1, <3>1, <1>3, <1>9, <1>10
  <2>2. CASE ~(f = e /\ j = i)
    <3>1. in'[f][j] = in[f][j] /\ (<<f, j>> \in bounced' <=> <<f, j>> \in bounced)
      BY <2>2, <1>1, <1>3, <1>10
    <3> QED BY <3>1, <1>2 DEF InOrder
  <2> QED BY <2>1, <2>2
<1>16. AllDrained'
  <2> SUFFICES ASSUME NEW f \in Endpoint, NEW j \in Id
               PROVE  ~in'[f][j].paused => in'[f][j].received <= in'[f][j].acked
    BY DEF AllDrained
  <2>1. CASE f = e /\ j = i
    <3>1. ~m.paused => m.received <= m.acked
      BY <1>2, <1>3 DEF AllDrained, m
    <3> QED BY <2>1, <3>1, <1>8, <1>10
  <2>2. CASE ~(f = e /\ j = i)
    BY <2>2, <1>1, <1>2, <1>10 DEF AllDrained
  <2> QED BY <2>1, <2>2
<1> QED BY <1>1, <1>11, <1>13, <1>14, <1>15, <1>16 DEF WireInv

(***************************************************************************)
(* In a state of the invariant no packet is refused, except an             *)
(* acknowledgement of a message that was bounced; and a closed end is not  *)
(* handed a header out of sequence either.                                 *)
(***************************************************************************)
LEMMA NothingRefused ==
    ASSUME PipeInv, NEW e \in Endpoint, net[e] # <<>>, Malformed(e, Head(net[e]))
    PROVE  /\ Head(net[e]).cmd \in {"DATA", "EOF", "TXERR"} =>
                 closed[e] /\ Ended(in[e][Head(net[e]).id])
           /\ Head(net[e]).cmd = "ACK" => ~closed[e] /\ <<Peer[e], Head(net[e]).id>> \in bounced
           /\ Head(net[e]).cmd \in {"DATA", "EOF", "TXERR", "ACK"}
<1> DEFINE r == Peer[e]
           w == net[e]
           p == Head(w)
           i == p.id
<1>1. /\ r \in Endpoint /\ Peer[r] = e /\ IInv /\ WiresKept /\ AcksOf(e, i)
      /\ i \in Id /\ w \in Packets /\ p = w[1] /\ 1 \in 1 .. Len(w) /\ Wire(r) = w
  BY PeerFacts, ReadsWire DEF PipeInv, WireInv
<1>2. /\ BodyChain(w, i, out[r][i], in[e][i], Sends(r)) /\ EndChain(w, i, out[r][i], in[e][i], closed[e])
      /\ HeaderChain(w, nextIn[e], nextOut[r], Sends(r))
      /\ out[r][i] \in OutRecord /\ in[e][i] \in InRecord
  BY <1>1, AtHead
<1>3. p.cmd # "HEADER"
  <2> SUFFICES ASSUME p.cmd = "HEADER" PROVE FALSE
    OBVIOUS
  <2>1. p.id = nextIn[e]
    <3>1. nextIn[e] \in Nat /\ nextOut[r] \in Nat /\ Sends(r) \in BOOLEAN
      BY <1>1 DEF IInv, FlagsOK, Sends
    <3>2. ASSUME NEW from \in Nat, NEW to \in Nat, HeaderChain(w, from, to, Sends(r)) PROVE p.id = from
      <4>1. i \in Id /\ 1 \in Headers(w, i)
        BY <1>1 DEF Headers, Places
      <4>2. i = from \/ \E j \in Headers(w, i - 1) : j < 1
        BY <3>2, <4>1 DEF HeaderChain
      <4>3. \A j \in Headers(w, i - 1) : ~(j < 1)
        BY <1>1, PacketAt DEF Headers, Places
      <4> QED BY <4>2, <4>3
    <3> QED BY <1>2, <3>1, <3>2
  <2> QED BY <2>1 DEF Malformed, OutOfSequence, NoActiveMessage, BadAck
<1>4. p.cmd \in {"DATA", "EOF", "TXERR", "ACK"}
  BY <1>1, <1>3, ReadsWire DEF GoodPacket, PacketSet
<1>5. ASSUME p.cmd \in {"DATA", "EOF", "TXERR"} PROVE closed[e] /\ Ended(in[e][i])
  <2>1. in[e][i].state # "open"
    BY <1>5 DEF Malformed, OutOfSequence, NoActiveMessage, BadAck
  <2>2. in[e][i].state # "idle"
    <3>1. BodyChain(w, i, out[r][i], in[e][i], Sends(r)) /\ Head(w).id = i /\ w # <<>>
      BY <1>2
    <3> QED BY <1>1, <1>2, <1>5, <3>1, BodyAtHead
  <2>3. Ended(in[e][i])
    BY <1>2, <2>1, <2>2 DEF InRecord, States, Ended
  <2>4. 1 \in Datas(w, i) \/ 1 \in Ends(w, i)
    BY <1>1, <1>5 DEF Datas, Ends, Places
  <2> QED BY <1>2, <2>3, <2>4 DEF EndChain
<1>6. ASSUME p.cmd = "ACK" PROVE ~closed[e] /\ <<r, i>> \in bounced
  <2>1. /\ out[e][i].state = "open" /\ ~closed[e]
        /\ p.hi <= out[e][i].acked \/ p.hi > out[e][i].sent
    BY <1>6 DEF Malformed, OutOfSequence, NoActiveMessage, BadAck, Outgoing
  <2>2. ASSUME <<r, i>> \notin bounced PROVE FALSE
    <3>1. AcksRise(w, i, out[e][i], in[r][i])
      BY <1>1, <2>2 DEF AcksOf
    <3>2. 1 \in Acks(w, i)
      BY <1>1, <1>6 DEF Acks, Places
    <3>3. /\ out[e][i].acked < p.hi /\ p.hi <= in[r][i].acked
          /\ in[r][i].acked <= in[r][i].received
      BY <1>1, <3>1, <3>2 DEF AcksRise
    <3>4. in[r][i].received <= out[e][i].sent
      BY <1>1, PeerFacts DEF PipeInv, WireInv, DirectionOf, Direction, BodyChain
    <3>5. /\ out[e][i].acked \in Nat /\ p.hi \in Nat /\ in[r][i].acked \in Nat
          /\ in[r][i].received \in Nat /\ out[e][i].sent \in Nat
      BY <1>1, ReadsWire DEF IInv, OutOK, InOK, OutRecord, InRecord
    <3> HIDE DEF p, i
    <3> QED BY <2>1, <3>3, <3>4, <3>5
  <2> QED BY <2>1, <2>2
<1> QED BY <1>4, <1>5, <1>6

LEMMA OnAckPipe == ASSUME PipeInv, NEW e \in Endpoint, OnAck(e) PROVE WireInv'
<1> DEFINE r == Peer[e]
           p == Head(net[e])
           i == p.id
           w == net[e]
<1>1. /\ IInv /\ IInv' /\ r \in Endpoint /\ r # e /\ Peer[r] = e
      /\ \A f \in Endpoint : f = e \/ f = r
  BY OnAckInv, PeerFacts DEF PipeInv
<1>2. /\ WiresKept /\ InOrder /\ AllDrained /\ DirectionOf(e) /\ DirectionOf(r)
      /\ \A j \in Id : AcksOf(e, j)
  BY <1>1 DEF PipeInv, WireInv
<1>3. /\ w # <<>> /\ p.cmd = "ACK" /\ i \in Id /\ p.hi \in Nat /\ p = w[1] /\ 1 \in 1 .. Len(w)
      /\ Wire(r) = w /\ w \in Packets
      /\ out' = IF Outgoing(e, i) THEN [out EXCEPT ![e][i] = AfterAck(@, p.hi)] ELSE out
      /\ net' = Consumed(e)
      /\ UNCHANGED <<started, closed, up, outBuf, nextOut, nextIn, in, bounced>>
  BY ReadsWire DEF OnAck, Reads
<1> HIDE DEF r, i
<1>4. /\ out[e] \in OutRow /\ out[r] \in OutRow /\ in[e] \in InRow /\ in[r] \in InRow
      /\ nextIn[e] \in Number /\ nextOut[r] \in Number /\ nextIn[r] \in Number /\ nextOut[e] \in Number
      /\ Sends(r) \in Flag /\ closed[e] \in Flag /\ Sends(e) \in Flag /\ closed[r] \in Flag
      /\ out'[e] \in OutRow /\ Wire(e) \in Packets
  BY <1>1, PipeTypes, WireTypes
<1>5. /\ WiresKept' /\ Wire(e)' = Wire(e) /\ Wire(r)' = Tail(w)
      /\ \A f \in Endpoint : Sends(f)' = Sends(f)
  BY <1>3, ConsumeWires DEF r
<1>6. /\ out'[r] = out[r]
      /\ \A j \in Id : j # i => out'[e][j] = out[e][j]
      /\ Outgoing(e, i) => /\ out'[e][i].acked = p.hi /\ out'[e][i].state = out[e][i].state
                           /\ out'[e][i].sent = out[e][i].sent
      /\ ~Outgoing(e, i) => out'[e][i] = out[e][i]
  <2>1. CASE Outgoing(e, i)
    <3>1. out' = [out EXCEPT ![e][i] = AfterAck(out[e][i], p.hi)] /\ out[e][i] \in OutRecord
      BY <1>3, <1>4, <2>1 DEF OutRow
    <3>2. /\ AfterAck(out[e][i], p.hi).acked = p.hi /\ AfterAck(out[e][i], p.hi).state = out[e][i].state
          /\ AfterAck(out[e][i], p.hi).sent = out[e][i].sent
      BY <3>1 DEF AfterAck, OutRecord
    <3> HIDE DEF p
    <3> QED BY <1>1, <1>3, <2>1, <3>1, <3>2 DEF IInv, OutOK
  <2>2. CASE ~Outgoing(e, i)
    BY <1>3, <2>2
  <2> QED BY <2>1, <2>2
<1>7. DirectionOf(r)'
  <2>1. Direction(w, nextIn[e], nextOut[r], Sends(r), out[r], in[e], closed[e])
    BY <1>1, <1>2, <1>3 DEF DirectionOf
  <2>2. Direction(Tail(w), nextIn[e], nextOut[r], Sends(r), out[r], in[e], closed[e])
    BY <1>3, <1>4, <2>1, DirectionSkips
  <2> QED BY <1>1, <1>3, <1>5, <1>6, <2>2 DEF DirectionOf
<1>8. DirectionOf(e)'
  <2>1. Direction(Wire(e), nextIn[r], nextOut[e], Sends(e), out[e], in[r], closed[r])
    BY <1>2 DEF DirectionOf, r
  <2>2. Kept(out[e], out'[e], in[r], in[r], Sends(e), Sends(e), closed[r], closed[r])
    BY <1>6 DEF Kept
  <2>3. Direction(Wire(e), nextIn[r], nextOut[e], Sends(e), out'[e], in[r], closed[r])
    BY <1>4, <2>1, <2>2, DirectionKept
  <2> QED BY <1>1, <1>3, <1>5, <2>3 DEF DirectionOf, r
<1>9. ASSUME NEW j \in Id PROVE AcksOf(e, j)'
  <2> DEFINE o == out[e][j]
             q == out'[e][j]
             m == in[r][j]
  <2>1. /\ o \in OutRecord /\ q \in OutRecord /\ m \in InRecord
    BY <1>4 DEF OutRow, InRow
  <2>2. /\ <<r, j>> \in bounced \/ AcksRise(w, j, o, m)
        /\ up /\ o.state = "open" => LastAck(w, j, o, m)
    BY <1>2, <1>3 DEF AcksOf, r
  <2>3. 1 \in Acks(w, j) <=> j = i
    BY <1>3 DEF Acks, Places, i
  <2>4. q.acked = o.acked \/ (1 \in Acks(w, j) /\ q.acked = w[1].hi)
    BY <1>3, <1>6, <2>3
  <2>5. up /\ q.state = "open" =>
           o.state = "open" /\ q.acked = IF 1 \in Acks(w, j) THEN w[1].hi ELSE o.acked
    BY <1>2, <1>3, <1>6, <2>3 DEF Outgoing, WiresKept
  <2> HIDE DEF o, q, m
  <2>6. /\ AcksRise(w, j, o, m) => AcksRise(Tail(w), j, q, m)
        /\ LastAck(w, j, o, m) /\ (q.acked = IF 1 \in Acks(w, j) THEN w[1].hi ELSE o.acked)
           => LastAck(Tail(w), j, q, m)
    BY <1>3, <2>1, <2>4, AcksTail
  <2>7. /\ <<r, j>> \in bounced \/ AcksRise(Tail(w), j, q, m)
        /\ up /\ q.state = "open" => LastAck(Tail(w), j, q, m)
    BY <2>2, <2>5, <2>6
  <2> QED BY <1>3, <1>5, <2>7 DEF AcksOf, r, q, m
<1>10. \A j \in Id : AcksOf(r, j)'
  BY <1>3, <1>5, <1>6, AcksStay DEF r
<1>11. InOrder' /\ AllDrained'
  <2>1. ASSUME NEW f \in Endpoint, NEW j \in Id
        PROVE  /\ out'[f][j].state # "idle" <=> j < nextOut'[f]
               /\ out'[f][j].state = "idle" => out'[f][j] = IdleOut
    <3>1. out'[f][j] = out[f][j] \/ (out'[f][j].state = out[f][j].state /\ out[f][j].state = "open")
      BY <1>1, <1>6 DEF Outgoing
    <3> QED BY <1>2, <1>3, <3>1 DEF InOrder
  <2> QED BY <1>2, <1>3, <2>1 DEF InOrder, AllDrained
<1> QED BY <1>1, <1>5, <1>7, <1>8, <1>9, <1>10, <1>11 DEF WireInv

-------------------------------------------------------------------------------
(* The ends of the connection: starting, shutting down, losing the wire.   *)
LEMMA AbortedSame ==
    ASSUME NEW m \in InRecord
    PROVE  /\ Aborted(m).received = m.received /\ Aborted(m).acked = m.acked
           /\ Aborted(m).paused = m.paused
           /\ Aborted(m).state = m.state \/ (Aborted(m).state = "err" /\ m.state = "open")
           /\ Aborted(m) = m \/ (m.state = "open" /\ Aborted(m).state = "err")
BY DEF Aborted, InRecord

(***************************************************************************)
(* e shuts down and keeps rest of its input, which begins the packets v    *)
(* it had still to handle.                                                 *)
(***************************************************************************)
LEMMA ShutPipe ==
    ASSUME PipeInv, IInv', NEW e \in Endpoint, NEW v \in Packets, NEW rest \in Packets, Shut(e, rest),
           UNCHANGED <<started, outBuf, nextOut, nextIn, out, bounced>>,
           rest # <<>> => bounced # {} /\ started[Peer[e]],
           IsFront(rest, v),
           started[Peer[e]] =>
              /\ Direction(v, nextIn[e], nextOut[Peer[e]], Sends(Peer[e]), out[Peer[e]], in[e], closed[e])
              /\ \A i \in Id : <<Peer[e], i>> \in bounced \/ AcksRise(v, i, out[e][i], in[Peer[e]][i])
    PROVE  WireInv'
<1> DEFINE r == Peer[e]
<1>1. /\ IInv /\ r \in Endpoint /\ r # e /\ Peer[r] = e /\ \A f \in Endpoint : f = e \/ f = r
  BY PeerFacts DEF PipeInv
<1>2. /\ WiresKept /\ InOrder /\ AllDrained /\ DirectionOf(e) /\ DirectionOf(r)
      /\ \A j \in Id : AcksOf(e, j)
  BY <1>1 DEF PipeInv, WireInv
<1>3. /\ out[e] \in OutRow /\ out[r] \in OutRow /\ in[e] \in InRow /\ in[r] \in InRow
      /\ nextIn[e] \in Number /\ nextOut[r] \in Number /\ nextIn[r] \in Number /\ nextOut[e] \in Number
      /\ Sends(r) \in Flag /\ closed[e] \in Flag /\ Sends(e) \in Flag /\ closed[r] \in Flag
      /\ in'[e] \in InRow /\ Wire(e) \in Packets /\ Wire(r) \in Packets
      /\ Sends(r)' \in Flag /\ closed'[e] \in Flag /\ Sends(e)' \in Flag
  BY <1>1, PipeTypes, WireTypes
<1>4. /\ ~closed[e] /\ closed'[e] = TRUE /\ closed'[r] = closed[r] /\ up' = FALSE
      /\ net'[e] = rest /\ net'[r] = net[r]
      /\ in'[r] = in[r] /\ \A j \in Id : in'[e][j] = Aborted(in[e][j])
  BY <1>1 DEF Shut, IInv, FlagsOK, WiresOK, InOK
<1>5. /\ Wire(e)' = Wire(e) /\ Wire(r)' = (IF started[r] THEN rest ELSE Wire(r))
      /\ Sends(e)' = FALSE /\ (started[r] => Sends(r)' = FALSE) /\ (~started[r] => Sends(r)' = Sends(r))
  <2>1. started' = started /\ outBuf' = outBuf
    OBVIOUS
  <2>2. Wire(e)' = Wire(e)
    BY <1>4, <2>1 DEF Wire
  <2>3. Wire(r)' = IF started[r] THEN rest ELSE Wire(r)
    BY <1>1, <1>4, <2>1 DEF Wire
  <2>4. Sends(e)' = FALSE
    BY <1>4 DEF Sends
  <2>5. (started[r] => Sends(r)' = FALSE) /\ (~started[r] => Sends(r)' = Sends(r))
    BY <1>4, <2>1 DEF Sends
  <2> QED BY <2>2, <2>3, <2>4, <2>5
<1>6. WiresKept'
  <2>1. started' = started /\ outBuf' = outBuf /\ bounced' = bounced
    OBVIOUS
  <2>2. /\ started[e] => outBuf[e] = <<>>
        /\ ~started[e] => net[r] = <<>>
        /\ started[r] => outBuf[r] = <<>>
        /\ closed[r] /\ net[r] # <<>> => bounced # {}
    BY <1>1, <1>2 DEF WiresKept
  <2>3. /\ started'[e] => outBuf'[e] = <<>>
        /\ ~started'[e] => net'[r] = <<>>
        /\ closed'[e] => ~up'
        /\ closed'[e] /\ net'[e] # <<>> => bounced' # {}
    BY <1>4, <2>1, <2>2
  <2>4. /\ started'[r] => outBuf'[r] = <<>>
        /\ ~started'[r] => net'[e] = <<>>
        /\ closed'[r] => ~up'
        /\ closed'[r] /\ net'[r] # <<>> => bounced' # {}
    BY <1>4, <2>1, <2>2
  <2> QED BY <1>1, <2>3, <2>4 DEF WiresKept
<1>7. \A j \in Id : in[e][j] \in InRecord
  BY <1>3 DEF InRow
<1>8. DirectionOf(e)'
  <2>1. Direction(Wire(e), nextIn[r], nextOut[e], Sends(e), out[e], in[r], closed[r])
    BY <1>2 DEF DirectionOf
  <2>2. Kept(out[e], out[e], in[r], in[r], Sends(e), Sends(e)', closed[r], closed[r])
    BY <1>5 DEF Kept
  <2> HIDE DEF r
  <2>3. Direction(Wire(e), nextIn[r], nextOut[e], Sends(e)', out[e], in[r], closed[r])
    BY <1>3, <2>1, <2>2, DirectionKept
  <2> QED BY <1>4, <1>5, <2>3 DEF DirectionOf, r
<1>9. DirectionOf(r)'
  <2>1. \A j \in Id : /\ in'[e][j].received = in[e][j].received
                      /\ \/ in'[e][j].state = in[e][j].state
                         \/ in'[e][j].state = "err" /\ in[e][j].state = "open"
    BY <1>4, <1>7, AbortedSame
  <2>2. CASE started[r]
    <3>1. Direction(v, nextIn[e], nextOut[r], Sends(r), out[r], in[e], closed[e])
      BY <2>2
    <3>2. Direction(rest, nextIn[e], nextOut[r], FALSE, out[r], in[e], closed[e])
      BY <1>3, <3>1, DirectionCut
    <3>3. Kept(out[r], out[r], in[e], in'[e], Sends(r)', Sends(r)', closed[e], closed'[e])
      BY <1>4, <1>5, <2>1 DEF Kept
    <3>4. Direction(rest, nextIn[e], nextOut[r], Sends(r)', out[r], in[e], closed[e])
      BY <1>5, <2>2, <3>2
    <3> HIDE DEF r
    <3>5. Direction(rest, nextIn[e], nextOut[r], Sends(r)', out[r], in'[e], closed'[e])
      BY <1>3, <3>3, <3>4, DirectionKept
    <3> QED BY <1>1, <1>5, <2>2, <3>5 DEF DirectionOf
  <2>3. CASE ~started[r]
    <3>1. Direction(Wire(r), nextIn[e], nextOut[r], Sends(r), out[r], in[e], closed[e])
      BY <1>1, <1>2 DEF DirectionOf
    <3>2. Kept(out[r], out[r], in[e], in'[e], Sends(r), Sends(r)', closed[e], closed'[e])
      BY <1>4, <1>5, <2>1, <2>3 DEF Kept
    <3> HIDE DEF r
    <3>3. Direction(Wire(r), nextIn[e], nextOut[r], Sends(r)', out[r], in'[e], closed'[e])
      BY <1>3, <3>1, <3>2, DirectionKept
    <3> QED BY <1>1, <1>5, <2>3, <3>3 DEF DirectionOf
  <2> QED BY <2>2, <2>3
<1>10. ASSUME NEW j \in Id PROVE AcksOf(e, j)'
  <2>1. <<r, j>> \in bounced \/ AcksRise(Wire(r), j, out[e][j], in[r][j])
    BY <1>2 DEF AcksOf
  <2>2. started[r] => <<r, j>> \in bounced \/ AcksRise(rest, j, out[e][j], in[r][j])
    BY AcksPrefix
  <2>3. <<r, j>> \in bounced \/ AcksRise(Wire(r)', j, out[e][j], in[r][j])
    BY <1>5, <2>1, <2>2
  <2> QED BY <1>4, <2>3 DEF AcksOf
<1>11. \A j \in Id : AcksOf(r, j)'
  <2>1. \A j \in Id : in'[e][j].acked = in[e][j].acked /\ in'[e][j].received = in[e][j].received
    BY <1>4, <1>7, AbortedSame
  <2> QED BY <1>4, <1>5, <2>1, AcksStay
<1>12. InOrder' /\ AllDrained'
  <2>1. \A f \in Endpoint, j \in Id :
           \/ in'[f][j] = in[f][j]
           \/ /\ in[f][j].state # "idle" /\ in'[f][j].state # "idle"
              /\ in'[f][j].received = in[f][j].received /\ in'[f][j].acked = in[f][j].acked
              /\ in'[f][j].paused = in[f][j].paused
    <3> SUFFICES ASSUME NEW f \in Endpoint, NEW j \in Id, in'[f][j] # in[f][j]
                 PROVE  /\ in[f][j].state # "idle" /\ in'[f][j].state # "idle"
                        /\ in'[f][j].received = in[f][j].received /\ in'[f][j].acked = in[f][j].acked
                        /\ in'[f][j].paused = in[f][j].paused
      OBVIOUS
    <3>1. f = e /\ in'[f][j] = Aborted(in[e][j]) /\ in[e][j] \in InRecord
      BY <1>1, <1>4, <1>7
    <3> QED BY <3>1, AbortedSame
  <2> QED BY <1>1, <1>2, <2>1, StatesOnly DEF IInv
<1> QED BY <1>1, <1>6, <1>8, <1>9, <1>10, <1>11, <1>12 DEF WireInv

LEMMA ClosePipe == ASSUME PipeInv, NEW e \in Endpoint, Close(e) PROVE WireInv'
<1> DEFINE r == Peer[e]
           rest == <<>>
<1>1. /\ IInv /\ IInv' /\ r \in Endpoint /\ Peer[r] = e /\ DirectionOf(r) /\ \A j \in Id : AcksOf(e, j)
  BY CloseInv, PeerFacts DEF PipeInv, WireInv
<1>2. Wire(r) \in Packets
  BY <1>1, PipeTypes
<1>3. rest \in Packets /\ IsFront(rest, Wire(r))
  BY <1>2, EmptySeq, PacketAt DEF Packets, IsFront
<1>4. Direction(Wire(r), nextIn[e], nextOut[r], Sends(r), out[r], in[e], closed[e])
  BY <1>1 DEF DirectionOf
<1>5. \A i \in Id : <<r, i>> \in bounced \/ AcksRise(Wire(r), i, out[e][i], in[r][i])
  BY <1>1 DEF AcksOf
<1>6. Shut(e, rest) /\ UNCHANGED <<started, outBuf, nextOut, nextIn, out, bounced>>
  BY DEF Close
<1>7. ~(rest # <<>>)
  OBVIOUS
<1> HIDE DEF r, rest
<1> QED BY <1>1, <1>2, <1>3, <1>4, <1>5, <1>6, <1>7, ShutPipe DEF r

LEMMA BufferedIsFront ==
    ASSUME NEW e, net[e] \in Packets, net[e] # <<>>, NEW rest \in Buffered(e)
    PROVE  rest \in Packets /\ IsFront(rest, Tail(net[e]))
<1> DEFINE w == net[e]
<1>1. PICK k \in 1 .. Len(w) : rest = SubSeq(w, 2, k)
  BY DEF Buffered
<1>2. Len(w) \in Nat /\ w \in Seq(GoodPacket)
  BY PacketAt DEF Packets
<1>3. \A j \in 2 .. k : j \in 1 .. Len(w)
  BY <1>1, <1>2
<1>4. /\ rest \in Seq(GoodPacket)
      /\ Len(rest) = IF 2 <= k THEN k - 2 + 1 ELSE 0
      /\ \A j \in 1 .. (k - 2 + 1) : rest[j] = w[2 + j - 1]
  BY <1>1, <1>2, <1>3, SubSeqProperties
<1>5. IsTail(Tail(w), w)
  BY <1>2, TailIs DEF Packets
<1> HIDE DEF w
<1>6. Len(rest) \in Nat /\ Len(rest) = k - 1 /\ k \in Nat /\ k >= 1 /\ k <= Len(w)
  BY <1>1, <1>2, <1>4
<1>7. Len(rest) <= Len(Tail(w)) /\ Len(Tail(w)) = Len(w) - 1
  BY <1>2, <1>5, <1>6 DEF IsTail
<1>8. ASSUME NEW j \in 1 .. Len(rest) PROVE rest[j] = Tail(w)[j]
  <2>1. j \in 1 .. (k - 2 + 1) /\ j \in 1 .. Len(Tail(w)) /\ 2 + j - 1 = j + 1
    BY <1>2, <1>6, <1>7
  <2> QED BY <1>4, <1>5, <2>1 DEF IsTail
<1> QED BY <1>4, <1>7, <1>8 DEF IsFront, Packets, w

LEMMA ProtocolErrorPipe == ASSUME PipeInv, NEW e \in Endpoint, ProtocolError(e) PROVE WireInv'
<1> DEFINE r == Peer[e]
           w == net[e]
           p == Head(w)
           i == p.id
<1>1. /\ IInv /\ IInv' /\ r \in Endpoint /\ r # e /\ Peer[r] = e
      /\ \A f \in Endpoint : f = e \/ f = r
  BY ProtocolErrorInv, PeerFacts DEF PipeInv
<1>2. /\ w # <<>> /\ Malformed(e, p) /\ started[r] /\ Wire(r) = w /\ w \in Packets /\ p = w[1]
      /\ 1 \in 1 .. Len(w) /\ i \in Id
  BY ReadsWire DEF ProtocolError
<1>3. /\ p.cmd \in {"DATA", "EOF", "TXERR"} => closed[e] /\ Ended(in[e][i])
      /\ p.cmd = "ACK" => ~closed[e] /\ <<r, i>> \in bounced
      /\ p.cmd \in {"DATA", "EOF", "TXERR", "ACK"}
  BY <1>2, NothingRefused
<1>4. UNCHANGED <<started, outBuf, nextOut, nextIn, out, bounced>>
  BY <1>3 DEF ProtocolError
<1>5. /\ out[e] \in OutRow /\ out[r] \in OutRow /\ in[e] \in InRow /\ in[r] \in InRow
      /\ nextIn[e] \in Number /\ nextOut[r] \in Number
      /\ Sends(r) \in Flag /\ closed[e] \in Flag
  BY <1>1, PipeTypes
<1>6. Direction(w, nextIn[e], nextOut[r], Sends(r), out[r], in[e], closed[e])
  BY <1>1, <1>2 DEF DirectionOf, PipeInv, WireInv
<1>7. Direction(Tail(w), nextIn[e], nextOut[r], Sends(r), out[r], in[e], closed[e])
  <2>1. p.cmd # "HEADER" /\ (p.cmd = "DATA" => ~Arriving(in[e][p.id]))
    BY <1>3 DEF Ended, Arriving
  <2> HIDE DEF w, r
  <2> QED BY <1>2, <1>5, <1>6, <2>1, DirectionSkips
<1>8. CASE \E rest \in Buffered(e) : Shut(e, rest)
  <2>1. PICK rest \in Buffered(e) : Shut(e, rest)
    BY <1>8
  <2>2. rest \in Packets /\ IsFront(rest, Tail(w)) /\ Tail(w) \in Packets
    BY <1>2, BufferedIsFront, TailIs
  <2>3. p.cmd = "ACK" /\ bounced # {}
    BY <1>3, <2>1 DEF Shut
  <2>4. ASSUME NEW j \in Id
        PROVE  <<r, j>> \in bounced \/ AcksRise(Tail(w), j, out[e][j], in[r][j])
    <3>1. <<r, j>> \in bounced \/ AcksRise(w, j, out[e][j], in[r][j])
      BY <1>2 DEF PipeInv, WireInv, AcksOf
    <3>2. out[e][j] \in OutRecord /\ in[r][j] \in InRecord
      BY <1>5 DEF OutRow, InRow
    <3> HIDE DEF w, r
    <3>3. AcksRise(w, j, out[e][j], in[r][j]) => AcksRise(Tail(w), j, out[e][j], in[r][j])
      BY <1>2, <3>2, AcksTail
    <3> QED BY <3>1, <3>3
  <2> QED BY <1>1, <1>2, <1>4, <1>7, <2>1, <2>2, <2>3, <2>4, ShutPipe
<1>9. CASE closed[e] /\ net' = Consumed(e) /\ UNCHANGED <<closed, up, in>>
  <2>1. p.cmd # "ACK" /\ p.cmd # "HEADER" /\ Ended(in[e][i])
    BY <1>3, <1>9
  <2>2. Handling(w, out[r], in[e], in'[e], closed[e])
    <3>1. in'[e] = in[e]
      BY <1>9
    <3>2. ASSUME NEW j \in Id
          PROVE  /\ 1 \notin Headers(w, j) /\ (1 \in Datas(w, j) => ~Arriving(in[e][j]))
                 /\ in[e][j].received <= out[r][j].sent
                 /\ EndChain(Tail(w), j, out[r][j], in[e][j], closed[e])
      <4>1. 1 \notin Headers(w, j)
        BY <1>2, <2>1 DEF Headers, Places
      <4>2. 1 \in Datas(w, j) => ~Arriving(in[e][j])
        BY <1>2, <2>1 DEF Datas, Places, Ended, Arriving
      <4>3. in[e][j].received <= out[r][j].sent
        BY <1>2, AtHead DEF BodyChain
      <4>4. EndChain(Tail(w), j, out[r][j], in[e][j], closed[e])
        BY <1>2, AtHead, EndTail
      <4> QED BY <4>1, <4>2, <4>3, <4>4
    <3> QED BY <3>1, <3>2 DEF Handling
  <2>3. /\ WiresKept' /\ Wire(e)' = Wire(e)
        /\ (\A f \in Endpoint : DirectionOf(f)') /\ \A j \in Id : AcksOf(e, j)'
    BY <1>1, <1>2, <1>4, <1>9, <2>1, <2>2, HandledQuietly
  <2>4. \A j \in Id : AcksOf(r, j)'
    BY <1>4, <1>9, <2>3, AcksStay
  <2>5. InOrder' /\ AllDrained'
    BY <1>4, <1>9 DEF PipeInv, WireInv, InOrder, AllDrained
  <2> QED BY <1>1, <2>3, <2>4, <2>5 DEF WireInv
<1> QED BY <1>8, <1>9 DEF ProtocolError

(* What a step that only concerns the wires leaves alone.                  *)
LEMMA OnlyWires ==
    ASSUME PipeInv, UNCHANGED <<nextOut, nextIn, out, in, bounced>>
    PROVE  InOrder' /\ AllDrained'
BY DEF PipeInv, WireInv, InOrder, AllDrained

LEMMA DisconnectPipe == ASSUME PipeInv, Disconnect PROVE WireInv'
<1>1. UNCHANGED <<started, closed, outBuf, net, nextOut, nextIn, out, in, bounced>> /\ up' = FALSE
  BY DEF Disconnect
<1>2. WiresKept'
  BY <1>1 DEF PipeInv, WireInv, WiresKept
<1>3. IInv /\ IInv'
  BY DisconnectInv DEF PipeInv
<1>4. ASSUME NEW e \in Endpoint PROVE DirectionOf(e)' /\ \A i \in Id : AcksOf(e, i)'
  <2>1. Wire(e)' = Wire(e) /\ Wire(Peer[e])' = Wire(Peer[e]) /\ (Sends(e)' => Sends(e))
    BY <1>1 DEF Wire, Sends
  <2>2. Peer[e] \in Endpoint /\ DirectionOf(e) /\ \A i \in Id : AcksOf(e, i)
    BY PeerFacts DEF PipeInv, WireInv
  <2>3. /\ out[e] \in OutRow /\ in[Peer[e]] \in InRow /\ nextIn[Peer[e]] \in Number
        /\ nextOut[e] \in Number /\ Sends(e) \in Flag /\ Sends(e)' \in Flag
        /\ closed[Peer[e]] \in Flag /\ Wire(e) \in Packets
    BY <1>3, <2>2, PipeTypes, WireTypes
  <2>4. Kept(out[e], out[e], in[Peer[e]], in[Peer[e]], Sends(e), Sends(e)', closed[Peer[e]], closed[Peer[e]])
    BY <2>1 DEF Kept
  <2>5. Direction(Wire(e), nextIn[Peer[e]], nextOut[e], Sends(e)', out[e], in[Peer[e]], closed[Peer[e]])
    BY <2>2, <2>3, <2>4, DirectionKept DEF DirectionOf
  <2>6. DirectionOf(e)'
    BY <1>1, <2>1, <2>5 DEF DirectionOf
  <2>7. \A i \in Id : AcksOf(e, i)'
    BY <1>1, <2>1, <2>2 DEF AcksOf
  <2> QED BY <2>6, <2>7
<1> QED BY <1>1, <1>2, <1>4, OnlyWires DEF WireInv

LEMMA StartPipe == ASSUME PipeInv, NEW e \in Endpoint, Start(e) PROVE WireInv'
<1> DEFINE r == Peer[e]
<1>1. /\ IInv /\ IInv' /\ r \in Endpoint /\ r # e /\ Peer[r] = e
      /\ \A f \in Endpoint : f = e \/ f = r
  BY StartInv, PeerFacts DEF PipeInv
<1>2. /\ WiresKept /\ DirectionOf(e) /\ DirectionOf(r)
      /\ \A i \in Id : AcksOf(e, i) /\ AcksOf(r, i)
  BY <1>1 DEF PipeInv, WireInv
<1>3. /\ ~started[e] /\ ~closed[e] /\ started'[e] = TRUE /\ started'[r] = started[r]
      /\ net'[e] = net[e] /\ net'[r] = IF up THEN net[r] \o outBuf[e] ELSE net[r]
      /\ outBuf'[e] = <<>> /\ outBuf'[r] = outBuf[r]
      /\ UNCHANGED <<closed, up, nextOut, nextIn, out, in, bounced>>
  BY <1>1 DEF Start, IInv, FlagsOK, WiresOK
<1>4. net[r] = <<>> /\ outBuf[e] \in Packets
  BY <1>1, <1>2, <1>3, PipeTypes DEF WiresKept
<1>5. net[r] \o outBuf[e] = outBuf[e]
  BY <1>4, ConcatEmptySeq DEF Packets
<1>6. /\ Wire(e) = outBuf[e] /\ Wire(e)' = (IF up THEN Wire(e) ELSE <<>>)
      /\ Wire(r)' = Wire(r) /\ Sends(r)' = Sends(r)
      /\ Sends(e) = TRUE /\ Sends(e)' = up
  <2>1. up \in BOOLEAN
    BY <1>1 DEF IInv, FlagsOK
  <2>2. Wire(e) = outBuf[e] /\ Wire(e)' = (IF up THEN Wire(e) ELSE <<>>)
    BY <1>3, <1>4, <1>5 DEF Wire
  <2>3. Wire(r)' = Wire(r)
    BY <1>1, <1>3 DEF Wire
  <2> QED BY <1>3, <2>1, <2>2, <2>3 DEF Sends
<1>7. WiresKept'
  <2>1. /\ started[r] => outBuf[r] = <<>>
        /\ ~started[r] => net[e] = <<>>
        /\ closed[r] => ~up
        /\ closed[r] /\ net[r] # <<>> => bounced # {}
    BY <1>1, <1>2 DEF WiresKept
  <2>2. /\ started'[e] => outBuf'[e] = <<>>
        /\ ~started'[e] => net'[r] = <<>>
        /\ closed'[e] => ~up'
        /\ closed'[e] /\ net'[e] # <<>> => bounced' # {}
    BY <1>3
  <2>3. /\ started'[r] => outBuf'[r] = <<>>
        /\ ~started'[r] => net'[e] = <<>>
        /\ closed'[r] => ~up'
        /\ closed'[r] /\ net'[r] # <<>> => bounced' # {}
    BY <1>3, <2>1
  <2> QED BY <1>1, <2>2, <2>3 DEF WiresKept
<1>8. DirectionOf(r)'
  BY <1>1, <1>2, <1>3, <1>6, DirectionSame
<1>9. DirectionOf(e)'
  <2>1. Direction(Wire(e), nextIn[r], nextOut[e], Sends(e), out[e], in[r], closed[r])
    BY <1>2 DEF DirectionOf
  <2>2. CASE up
    <3>1. Wire(e)' = Wire(e) /\ Sends(e)' = Sends(e)
      BY <1>6, <2>2
    <3> QED BY <1>1, <1>2, <1>3, <3>1, DirectionSame
  <2>3. CASE ~up
    <3> DEFINE v == <<>>
    <3>1. /\ out[e] \in OutRow /\ in[r] \in InRow /\ nextIn[r] \in Number
          /\ nextOut[e] \in Number /\ Sends(e) \in Flag /\ closed[r] \in Flag /\ Wire(e) \in Packets
      BY <1>1, PipeTypes
    <3>2. v \in Packets /\ IsFront(v, Wire(e))
      BY <3>1, EmptySeq, PacketAt DEF Packets, IsFront
    <3>3. Wire(e)' = v /\ Sends(e)' = FALSE
      BY <1>1, <1>6, <2>3 DEF IInv, FlagsOK
    <3> HIDE DEF v, r
    <3>4. Direction(v, nextIn[r], nextOut[e], FALSE, out[e], in[r], closed[r])
      BY <2>1, <3>1, <3>2, DirectionCut
    <3> QED BY <1>3, <3>3, <3>4 DEF DirectionOf, r
  <2> QED BY <2>2, <2>3
<1>10. \A i \in Id : AcksOf(e, i)'
  BY <1>2, <1>3, <1>6 DEF AcksOf
<1>11. ASSUME NEW i \in Id PROVE AcksOf(r, i)'
  <2> DEFINE v == <<>>
  <2>1. AcksOf(r, i) /\ Wire(e) \in Packets
    BY <1>1, <1>2, PipeTypes
  <2>2. v \in Packets /\ IsFront(v, Wire(e))
    BY <2>1, EmptySeq, PacketAt DEF Packets, IsFront
  <2>3. up => Wire(e)' = Wire(e)
    BY <1>6
  <2>4. ~up => Wire(e)' = v
    BY <1>6
  <2> HIDE DEF v
  <2>5. AcksRise(Wire(e), i, out[r][i], in[e][i]) => AcksRise(v, i, out[r][i], in[e][i])
    BY <2>1, <2>2, AcksPrefix
  <2> QED BY <1>1, <1>3, <2>1, <2>3, <2>4, <2>5 DEF AcksOf
<1> QED BY <1>1, <1>3, <1>7, <1>8, <1>9, <1>10, <1>11, OnlyWires DEF WireInv

-------------------------------------------------------------------------------
LEMMA PipeInit == Init => PipeInv
<1> SUFFICES ASSUME Init PROVE PipeInv
  OBVIOUS
<1>1. IInv
  BY InvInit
<1>2. \A e \in Endpoint : Wire(e) = <<>> /\ Peer[e] \in Endpoint
  BY PeerFacts DEF Init, Wire
<1>3. WiresKept
  BY <1>2 DEF Init, WiresKept
<1>4. InOrder /\ AllDrained
  <2>1. \A e \in Endpoint, i \in Id :
           /\ in[e][i] = IdleIn /\ out[e][i] = IdleOut
           /\ nextIn[e] = 0 /\ nextOut[e] = 0 /\ <<e, i>> \notin bounced
    BY DEF Init
  <2>2. /\ IdleIn.state = "idle" /\ ~IdleIn.paused /\ IdleIn.received = 0 /\ IdleIn.acked = 0
        /\ IdleOut.state = "idle"
    BY DEF IdleIn, IdleOut, NewIn, NewOut
  <2>3. \A i \in Id : ~(i < 0)
    BY IdIsNat
  <2>4. InOrder
    BY <2>1, <2>2, <2>3 DEF InOrder
  <2>5. AllDrained
    <3> SUFFICES ASSUME NEW e \in Endpoint, NEW i \in Id
                 PROVE  in[e][i].received <= in[e][i].acked
      BY DEF AllDrained
    <3>1. in[e][i].received = 0 /\ in[e][i].acked = 0
      BY <2>1, <2>2
    <3> QED BY <3>1
  <2> QED BY <2>4, <2>5
<1>5. \A i : /\ Headers(<<>>, i) = {} /\ Datas(<<>>, i) = {} /\ Ends(<<>>, i) = {}
             /\ Acks(<<>>, i) = {}
  BY DEF Headers, Datas, Ends, Acks, Places
<1>6. ASSUME NEW e \in Endpoint PROVE DirectionOf(e)
  <2>1. Wire(e) = <<>> /\ nextIn[Peer[e]] = 0 /\ nextOut[e] = 0
    BY <1>2 DEF Init
  <2>2. HeaderChain(<<>>, 0, 0, Sends(e))
    BY <1>5, IdIsNat DEF HeaderChain
  <2>3. ASSUME NEW i \in Id
        PROVE  /\ BodyChain(<<>>, i, out[e][i], in[Peer[e]][i], Sends(e))
               /\ EndChain(<<>>, i, out[e][i], in[Peer[e]][i], closed[Peer[e]])
    <3>1. /\ out[e][i].sent = 0 /\ in[Peer[e]][i].received = 0
          /\ out[e][i].state = "idle" /\ in[Peer[e]][i].state = "idle"
      BY <1>2 DEF Init, IdleIn, IdleOut, NewIn, NewOut
    <3> QED BY <1>5, <3>1 DEF BodyChain, EndChain, Introduced, EndLast, DataChain, Reaches, Ended
  <2> QED BY <2>1, <2>2, <2>3 DEF DirectionOf, Direction
<1>7. ASSUME NEW e \in Endpoint, NEW i \in Id PROVE AcksOf(e, i)
  <2>1. /\ out[e][i].acked = 0 /\ in[Peer[e]][i].received = 0 /\ in[Peer[e]][i].acked = 0
        /\ Wire(Peer[e]) = <<>>
    BY <1>2 DEF Init, IdleIn, IdleOut, NewIn, NewOut
  <2> QED BY <1>5, <2>1 DEF AcksOf, AcksRise, LastAck
<1> QED BY <1>1, <1>3, <1>4, <1>6, <1>7 DEF PipeInv, WireInv

LEMMA PipeStep == PipeInv /\ [Next]_vars => PipeInv'
<1> SUFFICES ASSUME PipeInv, [Next]_vars PROVE PipeInv'
  OBVIOUS
<1>1. IInv'
  BY Step DEF PipeInv
<1>2. ASSUME NEW e \in Endpoint, Start(e) PROVE WireInv'
  BY <1>2, StartPipe
<1>3. ASSUME NEW e \in Endpoint, SendMessage(e) PROVE WireInv'
  BY <1>3, SendMessagePipe
<1>4. ASSUME NEW e \in Endpoint, NEW i \in Id, NEW n \in Writes, Write(e, i, n) PROVE WireInv'
  BY <1>4, WritePipe
<1>5. ASSUME NEW e \in Endpoint, NEW i \in Id, NEW how \in {"ok", "err"}, End(e, i, how) PROVE WireInv'
  BY <1>5, EndPipe
<1>6. ASSUME NEW e \in Endpoint, NEW i \in Id, Resume(e, i) PROVE WireInv'
  BY <1>6, ResumePipe
<1>7. ASSUME NEW e \in Endpoint, Handle(e) PROVE WireInv'
  BY <1>7, OnHeaderPipe, OnDataPipe, OnEndPipe, OnAckPipe, ProtocolErrorPipe DEF Handle
<1>8. ASSUME NEW e \in Endpoint, Close(e) \/ TransportLost(e) PROVE WireInv'
  BY <1>8, ClosePipe DEF TransportLost
<1>9. CASE Disconnect
  BY <1>1, <1>9, DisconnectPipe DEF PipeInv
<1>10. CASE UNCHANGED vars
  <2>1. \A e \in Endpoint : Wire(e)' = Wire(e) /\ Sends(e)' = Sends(e) /\ Peer[e] \in Endpoint
    BY <1>10, PeerFacts DEF vars, Wire, Sends
  <2>2. \A e \in Endpoint : DirectionOf(e)'
    BY <1>10, <2>1, DirectionSame DEF vars, PipeInv, WireInv
  <2>3. \A e \in Endpoint, i \in Id : AcksOf(e, i)'
    BY <1>10, <2>1 DEF vars, PipeInv, WireInv, AcksOf
  <2>4. WiresKept' /\ InOrder' /\ AllDrained'
    BY <1>10 DEF vars, PipeInv, WireInv, WiresKept, InOrder, AllDrained
  <2> QED BY <1>1, <2>2, <2>3, <2>4 DEF WireInv, PipeInv
<1> QED BY <1>1, <1>2, <1>3, <1>4, <1>5, <1>6, <1>7, <1>8, <1>9, <1>10 DEF Next, PipeInv

THEOREM PipeInvariance == Spec => []PipeInv
<1>1. PipeInv /\ [Next]_vars => PipeInv'
  BY PipeStep
<1> QED BY PipeInit, <1>1, PTL DEF Spec

(***************************************************************************)
(* Two ends that run this code never refuse a packet of each other, but    *)
(* for acknowledgements of a bounced message, whatever is in flight when   *)
(* messages end, consumers pause and connections close                     *)
(* (connection.js:170-250).                                                *)
(***************************************************************************)
THEOREM AlwaysNoProtocolError == Spec => []NoProtocolError
<1>1. PipeInv => NoProtocolError
  BY NothingRefused DEF NoProtocolError
<1> QED BY PipeInvariance, <1>1, PTL

(***************************************************************************)
(* The counts of sender and receiver never overtake each other and count   *)
(* the same bytes, whatever is on the wires (connection.js:198-211,        *)
(* 237-249, 291-299).                                                      *)
(***************************************************************************)
THEOREM AlwaysAckChain == Spec => []AckChain
<1>1. PipeInv => AckChain
  <2> SUFFICES ASSUME PipeInv, NEW e \in Endpoint, NEW i \in Id
               PROVE  LET o == out[e][i]
                          m == in[Peer[e]][i]
                          p == Head(net[Peer[e]])
                      IN  /\ m.received <= o.sent
                          /\ <<Peer[e], i>> \notin bounced => o.acked <= m.acked /\ m.acked <= m.received
                          /\ Reads(Peer[e], "DATA") /\ p.id = i /\ m.state = "open" =>
                                p.lo = m.received /\ p.hi > p.lo
    BY DEF AckChain
  <2> DEFINE r == Peer[e]
  <2>1. r \in Endpoint /\ Peer[r] = e /\ DirectionOf(e) /\ AcksOf(e, i) /\ IInv
    BY PeerFacts DEF PipeInv, WireInv
  <2>2. in[r][i].received <= out[e][i].sent
    BY <2>1 DEF DirectionOf, Direction, BodyChain
  <2>3. <<r, i>> \notin bounced => out[e][i].acked <= in[r][i].acked /\ in[r][i].acked <= in[r][i].received
    BY <2>1 DEF AcksOf, AcksRise
  <2>4. ASSUME Reads(r, "DATA"), Head(net[r]).id = i, in[r][i].state = "open"
        PROVE  Head(net[r]).lo = in[r][i].received /\ Head(net[r]).hi > Head(net[r]).lo
    <3>1. net[r] # <<>> /\ Head(net[r]).cmd = "DATA"
      BY <2>4 DEF Reads
    <3>2. Head(net[r]).lo = in[r][i].received /\ in[r][i].received < Head(net[r]).hi
      BY <2>1, <2>4, <3>1, AtHead, BodyAtHead DEF Arriving
    <3> QED BY <3>2
  <2> QED BY <2>2, <2>3, <2>4
<1> QED BY PipeInvariance, <1>1, PTL

(***************************************************************************)
(* While the transport is up a paused sender is waiting for something that *)
(* is on its way, or is held back by the consumer: no combination of       *)
(* pauses, slices and acknowledgements leaves it stuck                     *)
(* (connection.js:190-195, 205-211, 247-249).                              *)
(***************************************************************************)
THEOREM AlwaysWakeupComing == Spec => []WakeupComing
<1>1. PipeInv => WakeupComing
  <2> SUFFICES ASSUME PipeInv, NEW e \in Endpoint, NEW i \in Id,
                      up, out[e][i].state = "open", out[e][i].paused, ~in[Peer[e]][i].paused
               PROVE  \/ Carries(outBuf[e] \o net[Peer[e]], "DATA", i)
                      \/ Carries(outBuf[Peer[e]] \o net[e], "ACK", i)
    BY DEF WakeupComing
  <2> DEFINE r == Peer[e]
             o == out[e][i]
             m == in[r][i]
  <2>1. /\ r \in Endpoint /\ Peer[r] = e /\ IInv /\ WiresKept /\ AllDrained
        /\ DirectionOf(e) /\ AcksOf(e, i)
    BY PeerFacts DEF PipeInv, WireInv
  <2>2. o \in OutRecord /\ m \in InRecord /\ Wire(e) \in Packets /\ Wire(r) \in Packets
    BY <2>1, PipeTypes DEF OutRow, InRow
  <2>3. \A f \in Endpoint, cmd \in {"DATA", "ACK"} :
           Places(Wire(f), {cmd}, i) # {} => Carries(outBuf[f] \o net[Peer[f]], cmd, i)
    <3> SUFFICES ASSUME NEW f \in Endpoint, NEW cmd \in {"DATA", "ACK"}, NEW k \in Places(Wire(f), {cmd}, i)
                 PROVE  Carries(outBuf[f] \o net[Peer[f]], cmd, i)
      OBVIOUS
    <3> DEFINE v == outBuf[f]
               w == net[Peer[f]]
    <3>1. v \in Packets /\ w \in Packets
      BY <2>1, PipeTypes, PeerFacts
    <3>2. IsConcat(v \o w, v, w) /\ v \o w \in Packets
      BY <3>1, ConcatIs
    <3>3. Wire(f) = v \/ Wire(f) = w
      BY DEF Wire
    <3> HIDE DEF v, w
    <3>4. \E j \in Places(v \o w, {cmd}, i) : TRUE
      BY <3>1, <3>2, <3>3, PlacesJoin
    <3>5. Len(v \o w) \in Nat /\ DOMAIN (v \o w) = 1 .. Len(v \o w)
      BY <3>2 DEF Packets
    <3> QED BY <3>4, <3>5 DEF Places, Carries, v, w
  <2>4. CASE Acks(Wire(r), i) # {}
    BY <2>1, <2>3, <2>4 DEF Acks
  <2>5. CASE Acks(Wire(r), i) = {}
    <3>1. o.acked = m.acked
      BY <2>1, <2>5 DEF AcksOf, LastAck
    <3>2. m.received <= m.acked
      BY <2>1 DEF AllDrained
    <3>3. WindowFull(o)
      BY <2>1 DEF IInv, PausedIffFull
    <3>4. m.received # o.sent
      <4> HIDE DEF o, m
      <4> QED BY <2>2, <3>1, <3>2, <3>3, MaxFlowAssumption DEF WindowFull, OutRecord, InRecord
    <3>5. ~closed[e] /\ ~closed[r] /\ Sends(e)
      BY <2>1 DEF WiresKept, Sends
    <3>6. BodyChain(Wire(e), i, o, m, Sends(e)) /\ EndChain(Wire(e), i, o, m, closed[r])
      BY <2>1 DEF DirectionOf, Direction
    <3>7. Arriving(m)
      BY <2>2, <3>5, <3>6 DEF EndChain, Ended, Arriving, InRecord, States
    <3>8. Datas(Wire(e), i) # {}
      BY <3>4, <3>5, <3>6, <3>7 DEF BodyChain, Reaches
    <3> QED BY <2>3, <3>8 DEF Datas
  <2> QED BY <2>4, <2>5
<1> QED BY PipeInvariance, <1>1, PTL

-------------------------------------------------------------------------------
(***************************************************************************)
(* The ends of messages.  While what e says is not lost, the end of a      *)
(* message that its receiver has not ended is on the wire; and a receiver  *)
(* that has not shut down ends a message the way its sender did, with all  *)
(* of its bytes.                                                           *)
(***************************************************************************)
EndsKept(e) ==
    \A i \in Id :
       LET o == out[e][i]
           m == in[Peer[e]][i]
       IN  /\ Sends(e) /\ Ended(o) /\ Arriving(m) => Ends(Wire(e), i) # {}
           /\ Ended(m) /\ ~closed[Peer[e]] => m.state = o.state /\ m.received = o.sent

AllEndsKept == \A e \in Endpoint : EndsKept(e)

(* The same message, as far as its ends are concerned.                     *)
SameOut(e, i) == out'[e][i].state = out[e][i].state /\ out'[e][i].sent = out[e][i].sent
SameIn(e, i)  == in'[e][i].state = in[e][i].state /\ in'[e][i].received = in[e][i].received

(* The wire of e is as it was, or nobody listens to e any more.            *)
LEMMA EndsStay ==
    ASSUME NEW e \in Endpoint, EndsKept(e),
           Sends(e)' => Sends(e) /\ Wire(e)' = Wire(e),
           \A i \in Id : /\ SameOut(e, i)
                         /\ Arriving(in'[Peer[e]][i]) => Arriving(in[Peer[e]][i])
                         /\ ~closed'[Peer[e]] => ~closed[Peer[e]] /\ SameIn(Peer[e], i)
    PROVE  EndsKept(e)'
<1> SUFFICES ASSUME NEW i \in Id
             PROVE  /\ Sends(e)' /\ Ended(out'[e][i]) /\ Arriving(in'[Peer[e]][i]) => Ends(Wire(e)', i) # {}
                    /\ Ended(in'[Peer[e]][i]) /\ ~closed'[Peer[e]] =>
                          /\ in'[Peer[e]][i].state = out'[e][i].state
                          /\ in'[Peer[e]][i].received = out'[e][i].sent
  BY DEF EndsKept
<1> QED BY DEF EndsKept, SameOut, SameIn, Ended

(* e sends packets s; if that ends a message, its end is among them.       *)
LEMMA EndsSent ==
    ASSUME NEW e \in Endpoint, EndsKept(e), Wire(e) \in Packets, NEW s \in Packets,
           Wire(e)' = IF Sends(e) THEN Wire(e) \o s ELSE Wire(e), Sends(e)' = Sends(e),
           in'[Peer[e]] = in[Peer[e]], closed' = closed,
           \A i \in Id : \/ SameOut(e, i)
                         \/ ~Ended(out[e][i]) /\ (Ended(out'[e][i]) => Ends(s, i) # {})
    PROVE  EndsKept(e)'
<1> DEFINE v == Wire(e) \o s
<1>1. v \in Packets /\ IsConcat(v, Wire(e), s)
  BY ConcatIs
<1> HIDE DEF v
<1>2. \A i \in Id : Ends(Wire(e), i) # {} \/ Ends(s, i) # {} => Ends(v, i) # {}
  BY <1>1, PlacesJoin DEF Ends
<1> SUFFICES ASSUME NEW i \in Id
             PROVE  /\ Sends(e)' /\ Ended(out'[e][i]) /\ Arriving(in[Peer[e]][i]) => Ends(Wire(e)', i) # {}
                    /\ Ended(in[Peer[e]][i]) /\ ~closed[Peer[e]] =>
                          /\ in[Peer[e]][i].state = out'[e][i].state
                          /\ in[Peer[e]][i].received = out'[e][i].sent
  BY DEF EndsKept
<1>3. Sends(e)' => Wire(e)' = v
  BY DEF v
<1>4. CASE SameOut(e, i)
  BY <1>2, <1>3, <1>4 DEF EndsKept, SameOut, Ended
<1>5. CASE ~Ended(out[e][i]) /\ (Ended(out'[e][i]) => Ends(s, i) # {})
  BY <1>2, <1>3, <1>5 DEF EndsKept, Ended
<1> QED BY <1>4, <1>5

(* The other end handles the head of e's wire.                             *)
LEMMA EndsRead ==
    ASSUME NEW e \in Endpoint, EndsKept(e), Wire(e) \in Packets, Wire(e) # <<>>,
           Wire(e)' = Tail(Wire(e)), Sends(e)' = Sends(e), closed' = closed,
           \A i \in Id :
              /\ SameOut(e, i)
              /\ \/ SameIn(Peer[e], i) /\ 1 \notin Ends(Wire(e), i)
                 \/ /\ Arriving(in[Peer[e]][i]) /\ Arriving(in'[Peer[e]][i])
                    /\ 1 \notin Ends(Wire(e), i)
                 \/ /\ Ended(in'[Peer[e]][i])
                    /\ in'[Peer[e]][i].state = out[e][i].state /\ in'[Peer[e]][i].received = out[e][i].sent
    PROVE  EndsKept(e)'
<1> DEFINE w == Wire(e)
           v == Tail(w)
<1>1. IsTail(v, w) /\ v \in Packets
  BY TailIs
<1>2. Len(w) \in Nat /\ Len(v) \in Nat /\ Len(v) = Len(w) - 1
  BY <1>1, PacketAt DEF IsTail
<1> HIDE DEF w, v
<1>3. ASSUME NEW i \in Id, Ends(w, i) # {}, 1 \notin Ends(w, i) PROVE Ends(v, i) # {}
  <2>1. PICK k \in Ends(w, i) : k # 1
    BY <1>3
  <2>2. k \in 1 .. Len(w) /\ k - 1 \in 1 .. Len(v) /\ (k - 1) + 1 = k
    BY <1>2, <2>1 DEF Ends, Places
  <2>3. v[k - 1] = w[k]
    BY <1>1, <2>2 DEF IsTail
  <2>4. k - 1 \in Ends(v, i)
    BY <2>1, <2>2, <2>3 DEF Ends, Places
  <2> QED BY <2>4
<1>4. Wire(e)' = v /\ Wire(e) = w
  BY DEF v, w
<1> SUFFICES ASSUME NEW i \in Id
             PROVE  /\ Sends(e)' /\ Ended(out'[e][i]) /\ Arriving(in'[Peer[e]][i]) => Ends(v, i) # {}
                    /\ Ended(in'[Peer[e]][i]) /\ ~closed[Peer[e]] =>
                          /\ in'[Peer[e]][i].state = out'[e][i].state
                          /\ in'[Peer[e]][i].received = out'[e][i].sent
  BY <1>4 DEF EndsKept
<1>5. SameOut(e, i)
  OBVIOUS
<1>6. CASE SameIn(Peer[e], i) /\ 1 \notin Ends(Wire(e), i)
  BY <1>3, <1>4, <1>5, <1>6 DEF EndsKept, SameOut, SameIn, Ended, Arriving
<1>7. CASE /\ Arriving(in[Peer[e]][i]) /\ Arriving(in'[Peer[e]][i])
           /\ 1 \notin Ends(Wire(e), i)
  BY <1>3, <1>4, <1>5, <1>7 DEF EndsKept, SameOut, Ended, Arriving
<1>8. CASE /\ Ended(in'[Peer[e]][i])
           /\ in'[Peer[e]][i].state = out[e][i].state /\ in'[Peer[e]][i].received = out[e][i].sent
  BY <1>5, <1>8 DEF SameOut, Ended, Arriving
<1> QED BY <1>6, <1>7, <1>8

(* What e has sent to the other end, and what the other end has sent to e. *)
LEMMA BothEnds ==
    ASSUME PipeInv, AllEndsKept, NEW e \in Endpoint
    PROVE  /\ IInv /\ WiresKept /\ EndsKept(e) /\ EndsKept(Peer[e])
           /\ Peer[e] \in Endpoint /\ Peer[e] # e /\ Peer[Peer[e]] = e
           /\ \A f \in Endpoint : f = e \/ f = Peer[e]
           /\ Wire(e) \in Packets /\ Wire(Peer[e]) \in Packets
           /\ out[e] \in OutRow /\ in[e] \in InRow
BY PeerFacts, PipeTypes DEF PipeInv, WireInv, AllEndsKept

(* A step that changes no message: e starts, or the transport is lost.     *)
LEMMA StartEnds == ASSUME PipeInv, AllEndsKept, NEW e \in Endpoint, Start(e) PROVE AllEndsKept'
<1> DEFINE r == Peer[e]
<1>1. /\ IInv /\ WiresKept /\ EndsKept(e) /\ EndsKept(r) /\ r \in Endpoint /\ r # e /\ Peer[r] = e
      /\ \A f \in Endpoint : f = e \/ f = r
  BY BothEnds
<1>2. /\ ~started[e] /\ ~closed[e] /\ started'[e] = TRUE /\ started'[r] = started[r]
      /\ net'[e] = net[e] /\ net'[r] = IF up THEN net[r] \o outBuf[e] ELSE net[r]
      /\ outBuf'[r] = outBuf[r]
      /\ UNCHANGED <<closed, up, out, in>>
  BY <1>1 DEF Start, IInv, FlagsOK, WiresOK
<1>3. net[r] \o outBuf[e] = outBuf[e]
  BY <1>1, <1>2, PipeTypes, ConcatEmptySeq DEF WiresKept, Packets
<1>4. Wire(r)' = Wire(r) /\ Sends(r)' = Sends(r)
  BY <1>1, <1>2 DEF Wire, Sends
<1>5. Sends(e)' => Sends(e) /\ Wire(e)' = Wire(e)
  BY <1>2, <1>3 DEF Wire, Sends
<1>6. \A f \in Endpoint, i \in Id : SameOut(f, i) /\ SameIn(f, i)
  BY <1>2 DEF SameOut, SameIn
<1>7. EndsKept(e)' /\ EndsKept(r)'
  BY <1>1, <1>2, <1>4, <1>5, <1>6, EndsStay
<1> QED BY <1>1, <1>7 DEF AllEndsKept

LEMMA DisconnectEnds == ASSUME PipeInv, AllEndsKept, Disconnect PROVE AllEndsKept'
<1> SUFFICES ASSUME NEW e \in Endpoint PROVE EndsKept(e)'
  BY DEF AllEndsKept
<1>1. UNCHANGED <<started, closed, outBuf, net, out, in>> /\ up' = FALSE
  BY DEF Disconnect
<1>2. Sends(e)' => Sends(e) /\ Wire(e)' = Wire(e)
  BY <1>1 DEF Sends, Wire
<1>3. \A f \in Endpoint, i \in Id : SameOut(f, i) /\ SameIn(f, i)
  BY <1>1 DEF SameOut, SameIn
<1> QED BY <1>1, <1>2, <1>3, BothEnds, EndsStay

(***************************************************************************)
(* e transmits packets s, having read at most some of its own wire w.      *)
(***************************************************************************)
LEMMA TransmitEnds ==
    ASSUME PipeInv, AllEndsKept, NEW e \in Endpoint, NEW s \in Packets,
           Transmit(e, s, net), UNCHANGED <<started, closed, up, bounced>>,
           in'[Peer[e]] = in[Peer[e]], out'[Peer[e]] = out[Peer[e]],
           \A i \in Id : SameIn(e, i),
           \A i \in Id : \/ SameOut(e, i)
                         \/ ~Ended(out[e][i]) /\ (Ended(out'[e][i]) => Ends(s, i) # {})
    PROVE  AllEndsKept'
<1> DEFINE r == Peer[e]
<1>1. /\ IInv /\ WiresKept /\ EndsKept(e) /\ EndsKept(r) /\ r \in Endpoint /\ r # e /\ Peer[r] = e
      /\ \A f \in Endpoint : f = e \/ f = r
      /\ Wire(e) \in Packets
  BY BothEnds
<1>2. /\ Wire(e)' = IF Sends(e) THEN Wire(e) \o s ELSE Wire(e)
      /\ Wire(r)' = IF started[r] THEN net[e] ELSE outBuf[r]
      /\ \A f \in Endpoint : Sends(f)' = Sends(f)
  <2>1. net \in [Endpoint -> Packets] /\ bounced \subseteq bounced'
    BY <1>1 DEF IInv, WiresOK, Packets
  <2> QED BY <1>1, <2>1, TransmitWires
<1>3. EndsKept(e)'
  BY <1>1, <1>2, EndsSent
<1>4. Wire(r)' = Wire(r)
  BY <1>1, <1>2 DEF Wire
<1>5. \A i \in Id : SameOut(r, i)
  BY DEF SameOut
<1>6. \A i \in Id : Arriving(in'[e][i]) => Arriving(in[e][i])
  BY DEF SameIn, Arriving
<1>7. EndsKept(r)'
  BY <1>1, <1>2, <1>4, <1>5, <1>6, EndsStay
<1> QED BY <1>1, <1>3, <1>7 DEF AllEndsKept

LEMMA SendMessageEnds == ASSUME PipeInv, AllEndsKept, NEW e \in Endpoint, SendMessage(e) PROVE AllEndsKept'
<1> DEFINE i == nextOut[e]
           s == <<Header(i)>>
<1>1. /\ IInv /\ Peer[e] \in Endpoint /\ Peer[e] # e /\ out[e] \in OutRow
  BY BothEnds
<1>2. i \in Id
  <2>1. nextOut[e] \in Nat /\ Quota[e] \in Nat /\ nextOut[e] < Quota[e]
    BY <1>1, QuotaAssumption DEF IInv, FlagsOK, SendMessage
  <2> QED BY <2>1 DEF Id
<1>3. /\ out' = [out EXCEPT ![e][i] = NewOut]
      /\ Transmit(e, s, net)
      /\ UNCHANGED <<started, closed, up, nextIn, in, bounced>>
  BY DEF SendMessage
<1>4. s \in Packets
  BY <1>2, PacketType, OnePacket DEF Packets
<1>5. out[e][i].state = "idle"
  <2>1. out[e][i].state # "idle" <=> i < i
    BY <1>2 DEF PipeInv, WireInv, InOrder
  <2>2. i \in Nat
    BY <1>2, IdIsNat
  <2> HIDE DEF i
  <2> QED BY <2>1, <2>2
<1> HIDE DEF s, i
<1>6. out'[Peer[e]] = out[Peer[e]] /\ out'[e][i] = NewOut /\ \A j \in Id : j # i => out'[e][j] = out[e][j]
  BY <1>1, <1>2, <1>3 DEF IInv, OutOK
<1>7. \A j \in Id : \/ SameOut(e, j)
                    \/ ~Ended(out[e][j]) /\ (Ended(out'[e][j]) => Ends(s, j) # {})
  BY <1>5, <1>6 DEF SameOut, Ended, NewOut
<1> QED BY <1>3, <1>4, <1>6, <1>7, TransmitEnds DEF SameIn

LEMMA WriteEnds ==
    ASSUME PipeInv, AllEndsKept, NEW e \in Endpoint, NEW i \in Id, NEW n \in Writes, Write(e, i, n)
    PROVE  AllEndsKept'
<1> DEFINE o == out[e][i]
           s == Slices(i, o.sent, n)
<1>1. /\ IInv /\ Peer[e] \in Endpoint /\ Peer[e] # e /\ o \in OutRecord /\ n \in Nat \ {0}
  BY BothEnds, WritesAssumption DEF OutRow
<1>2. /\ out' = [out EXCEPT ![e][i] = AfterWrite(o, n)] /\ o.state = "open" /\ ~o.paused
      /\ Transmit(e, s, net)
      /\ UNCHANGED <<started, closed, up, nextOut, nextIn, in, bounced>>
  BY DEF Write
<1>3. s \in Packets
  BY <1>1, SlicesType DEF Packets, OutRecord
<1> HIDE DEF s, o
<1>6. AfterWrite(o, n).state = "open"
  BY <1>1, <1>2, AfterWriteRight
<1>4. /\ out'[Peer[e]] = out[Peer[e]] /\ out'[e][i] = AfterWrite(o, n)
      /\ \A j \in Id : j # i => out'[e][j] = out[e][j]
  BY <1>1, <1>2 DEF IInv, OutOK
<1>5. \A j \in Id : \/ SameOut(e, j)
                    \/ ~Ended(out[e][j]) /\ (Ended(out'[e][j]) => Ends(s, j) # {})
  BY <1>2, <1>4, <1>6 DEF SameOut, Ended, o
<1> QED BY <1>2, <1>3, <1>4, <1>5, TransmitEnds DEF SameIn

LEMMA EndEnds ==
    ASSUME PipeInv, AllEndsKept, NEW e \in Endpoint, NEW i \in Id, NEW how \in {"ok", "err"}, End(e, i, how)
    PROVE  AllEndsKept'
<1> DEFINE s == <<IF how = "ok" THEN Eof(i) ELSE TxErr(i)>>
<1>1. IInv /\ Peer[e] \in Endpoint /\ Peer[e] # e
  BY BothEnds
<1>2. /\ out' = [out EXCEPT ![e][i].state = how] /\ Transmit(e, s, net) /\ out[e][i].state = "open"
      /\ UNCHANGED <<started, closed, up, nextOut, nextIn, in, bounced>>
  BY DEF End
<1>3. s \in Packets /\ Len(s) = 1 /\ s[1].id = i /\ s[1].cmd \in {"EOF", "TXERR"}
  BY PacketType, OnePacket DEF Packets, Eof, TxErr, Packet
<1> HIDE DEF s
<1>4. 1 \in Ends(s, i)
  BY <1>3 DEF Ends, Places
<1>5. /\ out'[Peer[e]] = out[Peer[e]]
      /\ \A j \in Id : j # i => out'[e][j] = out[e][j]
  BY <1>1, <1>2 DEF IInv, OutOK
<1>6. \A j \in Id : \/ SameOut(e, j)
                    \/ ~Ended(out[e][j]) /\ (Ended(out'[e][j]) => Ends(s, j) # {})
  BY <1>2, <1>4, <1>5 DEF SameOut, Ended
<1> QED BY <1>2, <1>3, <1>5, <1>6, TransmitEnds DEF SameIn

LEMMA ResumeEnds ==
    ASSUME PipeInv, AllEndsKept, NEW e \in Endpoint, NEW i \in Id, Resume(e, i) PROVE AllEndsKept'
<1> DEFINE m == in[e][i]
           s == DrainAcks(i, m)
<1>1. IInv /\ Peer[e] \in Endpoint /\ Peer[e] # e /\ m \in InRecord
  BY BothEnds DEF InRow
<1>2. /\ in' = [in EXCEPT ![e][i].paused = FALSE, ![e][i].acked = m.received]
      /\ Transmit(e, s, net)
      /\ UNCHANGED <<started, closed, up, nextOut, nextIn, out, bounced>>
  BY DEF Resume
<1>3. s \in Packets
  BY <1>1, EmptySeq, PacketType, OnePacket DEF DrainAcks, Packets, InRecord
<1> HIDE DEF s
<1>4. in'[Peer[e]] = in[Peer[e]] /\ \A j \in Id : SameIn(e, j)
  BY <1>1, <1>2 DEF IInv, InOK, InRecord, SameIn
<1> QED BY <1>2, <1>3, <1>4, TransmitEnds DEF SameOut

(***************************************************************************)
(* e reads the head of the wire, and may send acknowledgements s.          *)
(***************************************************************************)
LEMMA ReadEnds ==
    ASSUME PipeInv, AllEndsKept, NEW e \in Endpoint, net[e] # <<>>, NEW s \in Packets,
           \/ Wire(e)' = Wire(e)
           \/ Wire(e)' = IF Sends(e) THEN Wire(e) \o s ELSE Wire(e),
           Wire(Peer[e])' = Tail(Wire(Peer[e])), \A f \in Endpoint : Sends(f)' = Sends(f),
           closed' = closed, in'[Peer[e]] = in[Peer[e]],
           \A f \in Endpoint, i \in Id : SameOut(f, i),
           \A i \in Id :
              \/ SameIn(e, i) /\ 1 \notin Ends(net[e], i)
              \/ Arriving(in[e][i]) /\ Arriving(in'[e][i]) /\ 1 \notin Ends(net[e], i)
              \/ /\ Ended(in'[e][i])
                 /\ in'[e][i].state = out[Peer[e]][i].state /\ in'[e][i].received = out[Peer[e]][i].sent
    PROVE  AllEndsKept'
<1> DEFINE r == Peer[e]
<1>1. /\ EndsKept(e) /\ EndsKept(r) /\ r \in Endpoint /\ Peer[r] = e
      /\ \A f \in Endpoint : f = e \/ f = r
      /\ Wire(e) \in Packets /\ Wire(r) \in Packets
  BY BothEnds
<1>2. Wire(r) = net[e]
  BY ReadsWire
<1>3. \A i \in Id : SameIn(r, i)
  BY DEF SameIn
<1>4. EndsKept(e)'
  <2>1. CASE Wire(e)' = Wire(e)
    BY <1>1, <1>3, <2>1, EndsStay
  <2>2. CASE Wire(e)' = IF Sends(e) THEN Wire(e) \o s ELSE Wire(e)
    BY <1>1, <2>2, EndsSent
  <2> QED BY <2>1, <2>2
<1>5. EndsKept(r)'
  BY <1>1, <1>2, EndsRead
<1> QED BY <1>1, <1>4, <1>5 DEF AllEndsKept

LEMMA OnHeaderEnds == ASSUME PipeInv, AllEndsKept, NEW e \in Endpoint, OnHeader(e) PROVE AllEndsKept'
<1> DEFINE p == Head(net[e])
           i == p.id
           s == <<>>
<1>1. IInv /\ Peer[e] \in Endpoint /\ Peer[e] # e
  BY BothEnds
<1>2. /\ net[e] # <<>> /\ p.cmd = "HEADER" /\ i = nextIn[e] /\ i \in Id /\ p = net[e][1]
      /\ in' = [in EXCEPT ![e][i] = NewIn]
      /\ net' = Consumed(e)
      /\ UNCHANGED <<started, closed, up, outBuf, nextOut, out, bounced>>
  BY ReadsWire DEF OnHeader, Reads, Malformed, OutOfSequence
<1> HIDE DEF i, p
<1>3. Arriving(in[e][i])
  <2>1. i \in Nat /\ (in[e][i].state # "idle" <=> i < i)
    BY <1>2, IdIsNat DEF PipeInv, WireInv, InOrder
  <2> QED BY <2>1 DEF Arriving
<1>4. in'[Peer[e]] = in[Peer[e]] /\ in'[e][i] = NewIn /\ \A j \in Id : j # i => in'[e][j] = in[e][j]
  BY <1>1, <1>2 DEF IInv, InOK
<1>5. \A j \in Id : 1 \notin Ends(net[e], j)
  BY <1>2 DEF Ends, Places
<1>6. \A j \in Id : SameIn(e, j) \/ (Arriving(in[e][j]) /\ Arriving(in'[e][j]))
  BY <1>3, <1>4 DEF SameIn, Arriving, NewIn
<1>7. \A f \in Endpoint, j \in Id : SameOut(f, j)
  BY <1>2 DEF SameOut
<1>8. /\ Wire(e)' = Wire(e) /\ Wire(Peer[e])' = Tail(Wire(Peer[e]))
      /\ \A f \in Endpoint : Sends(f)' = Sends(f)
  BY <1>2, ConsumeWires
<1>9. s \in Packets
  BY EmptySeq DEF Packets
<1> QED BY <1>2, <1>4, <1>5, <1>6, <1>7, <1>8, <1>9, ReadEnds

LEMMA OnDataEnds ==
    ASSUME PipeInv, AllEndsKept, NEW e \in Endpoint, NEW how \in Consumers, OnData(e, how) PROVE AllEndsKept'
<1> DEFINE p == Head(net[e])
           i == p.id
           m == in[e][i]
           n == p.hi - p.lo
           s == AcksWritten(i, m, n, how)
           new == Written(m, n, how)
           r == Peer[e]
<1>1. /\ IInv /\ WiresKept /\ r \in Endpoint /\ r # e /\ Peer[r] = e /\ in[e] \in InRow
      /\ \A f \in Endpoint : f = e \/ f = r
  BY BothEnds
<1>2. /\ net[e] # <<>> /\ p.cmd = "DATA" /\ i \in Id /\ m.state = "open" /\ p = net[e][1]
      /\ n \in Nat
      /\ in' = [in EXCEPT ![e][i] = new]
      /\ Transmit(e, s, Consumed(e))
      /\ bounced \subseteq bounced'
      /\ UNCHANGED <<started, closed, up, nextOut, nextIn, out>>
  <2>1. net[e] # <<>>
    BY DEF OnData, Reads
  <2>2. n \in Nat
    BY <2>1, ReadsWire, PacketFields
  <2> QED BY <2>1, <2>2, ReadsWire DEF OnData, Reads, Malformed, NoActiveMessage
<1>3. m \in InRecord /\ how \in {"flow", "pause", "bounce"}
  BY <1>1, <1>2, ConsumersAssumption DEF InRow
<1> HIDE DEF i, m, n, p
<1>4. s \in Packets /\ new.state = "open"
  BY <1>2, <1>3, WrittenType, AcksWrittenType DEF Packets
<1> HIDE DEF s, new
<1>5. in'[r] = in[r] /\ in'[e][i] = new /\ \A j \in Id : j # i => in'[e][j] = in[e][j]
  BY <1>1, <1>2 DEF IInv, InOK
<1>6. \A j \in Id : 1 \notin Ends(net[e], j)
  BY <1>2 DEF Ends, Places
<1>7. \A j \in Id : SameIn(e, j) \/ (Arriving(in[e][j]) /\ Arriving(in'[e][j]))
  BY <1>2, <1>4, <1>5 DEF SameIn, Arriving, m
<1>8. \A f \in Endpoint, j \in Id : SameOut(f, j)
  BY <1>2 DEF SameOut
<1>9. /\ Wire(e)' = IF Sends(e) THEN Wire(e) \o s ELSE Wire(e)
      /\ Wire(r)' = Tail(Wire(r)) /\ \A f \in Endpoint : Sends(f)' = Sends(f)
  <2>1. /\ Consumed(e) \in [Endpoint -> Packets] /\ Consumed(e)[r] = net[r]
        /\ Consumed(e)[e] = Tail(net[e])
    BY <1>1, <1>2, HeadPacket DEF IInv, WiresOK, Packets, Consumed
  <2>2. started[r] /\ Wire(r) = net[e]
    BY <1>2, ReadsWire
  <2>3. Consumed(e)[e] # <<>> => net[e] # <<>>
    BY <1>2
  <2> QED BY <1>1, <1>2, <1>4, <2>1, <2>2, <2>3, TransmitWires
<1> QED BY <1>2, <1>4, <1>5, <1>6, <1>7, <1>8, <1>9, ReadEnds DEF r

LEMMA EndingEnds ==
    ASSUME PipeInv, AllEndsKept, NEW e \in Endpoint, NEW how \in {"ok", "err"}, Ending(e, how),
           Head(net[e]).cmd = IF how = "ok" THEN "EOF" ELSE "TXERR"
    PROVE  AllEndsKept'
<1> DEFINE r == Peer[e]
           p == Head(net[e])
           i == p.id
           m == in[e][i]
           s == <<>>
<1>1. IInv /\ r \in Endpoint /\ r # e
  BY BothEnds
<1>2. /\ net[e] # <<>> /\ i \in Id /\ m.state = "open" /\ p = net[e][1]
      /\ in' = [in EXCEPT ![e][i] = [m EXCEPT !.state = how]]
      /\ net' = Consumed(e)
      /\ UNCHANGED <<started, closed, up, outBuf, nextOut, nextIn, out, bounced>>
  BY ReadsWire DEF Ending
<1>3. m \in InRecord /\ out[r][i] \in OutRecord
  BY <1>2, AtHead
<1>4. out[r][i].state = how /\ m.received = out[r][i].sent
  <2>1. BodyChain(net[e], i, out[r][i], m, Sends(r)) /\ net[e] \in Packets /\ Arriving(m)
    BY <1>2, AtHead DEF Arriving
  <2>2. p.cmd \in {"EOF", "TXERR"} /\ p.id = i
    OBVIOUS
  <2>3. /\ out[r][i].state = IF p.cmd = "EOF" THEN "ok" ELSE "err"
        /\ m.received = out[r][i].sent
    BY <1>2, <1>3, <2>1, <2>2, BodyAtHead
  <2> QED BY <2>3
<1>5. \A j \in Id : j # i => 1 \notin Ends(net[e], j)
  BY <1>2 DEF Ends, Places
<1> HIDE DEF i, m, p
<1>6. /\ in'[r] = in[r] /\ \A j \in Id : j # i => in'[e][j] = in[e][j]
      /\ in'[e][i].state = how /\ in'[e][i].received = m.received
  BY <1>1, <1>2, <1>3 DEF IInv, InOK, InRecord
<1>7. ASSUME NEW j \in Id
      PROVE  \/ SameIn(e, j) /\ 1 \notin Ends(net[e], j)
             \/ /\ Ended(in'[e][j])
                /\ in'[e][j].state = out[r][j].state /\ in'[e][j].received = out[r][j].sent
  BY <1>4, <1>5, <1>6 DEF SameIn, Ended
<1>8. \A f \in Endpoint, j \in Id : SameOut(f, j)
  BY <1>2 DEF SameOut
<1>9. /\ Wire(e)' = Wire(e) /\ Wire(r)' = Tail(Wire(r))
      /\ \A f \in Endpoint : Sends(f)' = Sends(f)
  BY <1>2, ConsumeWires
<1>10. s \in Packets
  BY EmptySeq DEF Packets
<1> QED BY <1>2, <1>6, <1>7, <1>8, <1>9, <1>10, ReadEnds DEF r

LEMMA OnEndEnds == ASSUME PipeInv, AllEndsKept, NEW e \in Endpoint, OnEof(e) \/ OnTxErr(e) PROVE AllEndsKept'
<1>1. CASE OnEof(e)
  <2>1. Ending(e, "ok") /\ Head(net[e]).cmd = "EOF"
    BY <1>1 DEF OnEof, Malformed, NoActiveMessage, Reads, Ending
  <2> QED BY <2>1, EndingEnds
<1>2. CASE OnTxErr(e)
  <2>1. Ending(e, "err") /\ Head(net[e]).cmd = "TXERR"
    BY <1>2 DEF OnTxErr, Malformed, NoActiveMessage, Reads, Ending
  <2> QED BY <2>1, EndingEnds
<1> QED BY <1>1, <1>2

LEMMA OnAckEnds == ASSUME PipeInv, AllEndsKept, NEW e \in Endpoint, OnAck(e) PROVE AllEndsKept'
<1> DEFINE p == Head(net[e])
           i == p.id
           s == <<>>
<1>1. IInv /\ out[e] \in OutRow
  BY BothEnds
<1>2. /\ net[e] # <<>> /\ p.cmd = "ACK" /\ i \in Id /\ p = net[e][1]
      /\ out' = IF Outgoing(e, i) THEN [out EXCEPT ![e][i] = AfterAck(@, p.hi)] ELSE out
      /\ net' = Consumed(e)
      /\ UNCHANGED <<started, closed, up, outBuf, nextOut, nextIn, in, bounced>>
  BY ReadsWire DEF OnAck, Reads
<1> HIDE DEF i
<1>3. \A f \in Endpoint, j \in Id : SameOut(f, j)
  <2>1. out[e][i] \in OutRecord
    BY <1>1, <1>2 DEF OutRow
  <2>2. AfterAck(out[e][i], p.hi).state = out[e][i].state /\ AfterAck(out[e][i], p.hi).sent = out[e][i].sent
    BY <2>1 DEF AfterAck, OutRecord
  <2> HIDE DEF p
  <2> QED BY <1>1, <1>2, <2>2 DEF IInv, OutOK, SameOut
<1> HIDE DEF p
<1>4. \A j \in Id : SameIn(e, j) /\ 1 \notin Ends(net[e], j)
  BY <1>2 DEF SameIn, Ends, Places
<1>5. /\ Wire(e)' = Wire(e) /\ Wire(Peer[e])' = Tail(Wire(Peer[e]))
      /\ \A f \in Endpoint : Sends(f)' = Sends(f)
  BY <1>2, ConsumeWires
<1>6. s \in Packets
  BY EmptySeq DEF Packets
<1> QED BY <1>2, <1>3, <1>4, <1>5, <1>6, ReadEnds

(* e shuts down, whatever it keeps of its input: it ends what was arriving. *)
LEMMA ShutEnds ==
    ASSUME PipeInv, AllEndsKept, NEW e \in Endpoint, NEW rest, Shut(e, rest), rest # <<>> => net[e] # <<>>,
           UNCHANGED <<started, outBuf, out>>
    PROVE  AllEndsKept'
<1> DEFINE r == Peer[e]
<1>1. /\ IInv /\ WiresKept /\ EndsKept(e) /\ EndsKept(r) /\ r \in Endpoint /\ r # e /\ Peer[r] = e
      /\ \A f \in Endpoint : f = e \/ f = r
      /\ in[e] \in InRow
  BY BothEnds
<1>2. /\ ~closed[e] /\ closed'[e] = TRUE /\ closed'[r] = closed[r] /\ up' = FALSE
      /\ in'[r] = in[r] /\ \A j \in Id : in'[e][j] = Aborted(in[e][j])
      /\ net'[e] = rest
  BY <1>1 DEF Shut, IInv, FlagsOK, WiresOK, InOK
<1>3. \A j \in Id : Arriving(in'[e][j]) => Arriving(in[e][j])
  BY <1>2 DEF Aborted, Arriving
<1>4. \A f \in Endpoint, j \in Id : SameOut(f, j)
  BY DEF SameOut
<1>5. EndsKept(e)'
  BY <1>1, <1>2, <1>4, EndsStay DEF Sends, SameIn
<1>6. Sends(r)' => Sends(r) /\ Wire(r)' = Wire(r)
  BY <1>1, <1>2 DEF Sends, Wire
<1>7. EndsKept(r)'
  BY <1>1, <1>2, <1>3, <1>4, <1>6, EndsStay
<1> QED BY <1>1, <1>5, <1>7 DEF AllEndsKept

LEMMA CloseEnds == ASSUME PipeInv, AllEndsKept, NEW e \in Endpoint, Close(e) PROVE AllEndsKept'
<1>1. Shut(e, <<>>) /\ UNCHANGED <<started, outBuf, out>>
  BY DEF Close
<1> QED BY <1>1, ShutEnds

LEMMA ProtocolErrorEnds == ASSUME PipeInv, AllEndsKept, NEW e \in Endpoint, ProtocolError(e) PROVE AllEndsKept'
<1> DEFINE r == Peer[e]
<1>1. /\ IInv /\ WiresKept /\ EndsKept(e) /\ EndsKept(r) /\ r \in Endpoint /\ r # e /\ Peer[r] = e
      /\ \A f \in Endpoint : f = e \/ f = r
  BY BothEnds
<1>2. net[e] # <<>> /\ UNCHANGED <<started, outBuf, out>>
  BY DEF ProtocolError
<1>3. CASE \E rest \in Buffered(e) : Shut(e, rest)
  BY <1>2, <1>3, ShutEnds
<1>4. CASE closed[e] /\ net' = Consumed(e) /\ UNCHANGED <<closed, up, in>>
  <2>1. ~up /\ started[r]
    BY <1>1, <1>2, <1>4, ReadsWire DEF WiresKept
  <2>2. ~Sends(e)' /\ ~Sends(r)'
    BY <1>2, <1>4, <2>1 DEF Sends
  <2>3. \A f \in Endpoint, j \in Id : SameOut(f, j) /\ SameIn(f, j)
    BY <1>2, <1>4 DEF SameOut, SameIn
  <2>4. EndsKept(e)' /\ EndsKept(r)'
    BY <1>1, <1>4, <2>2, <2>3, EndsStay
  <2> QED BY <1>1, <2>4 DEF AllEndsKept
<1> QED BY <1>3, <1>4 DEF ProtocolError

LEMMA EndsInit == Init => AllEndsKept
BY PeerFacts DEF Init, AllEndsKept, EndsKept, Ended, IdleIn, IdleOut, NewIn, NewOut

LEMMA EndsStep == PipeInv /\ AllEndsKept /\ [Next]_vars => AllEndsKept'
<1> SUFFICES ASSUME PipeInv, AllEndsKept, [Next]_vars PROVE AllEndsKept'
  OBVIOUS
<1>1. ASSUME NEW e \in Endpoint, Start(e) PROVE AllEndsKept'
  BY <1>1, StartEnds
<1>2. ASSUME NEW e \in Endpoint, SendMessage(e) PROVE AllEndsKept'
  BY <1>2, SendMessageEnds
<1>3. ASSUME NEW e \in Endpoint, NEW i \in Id, NEW n \in Writes, Write(e, i, n) PROVE AllEndsKept'
  BY <1>3, WriteEnds
<1>4. ASSUME NEW e \in Endpoint, NEW i \in Id, NEW how \in {"ok", "err"}, End(e, i, how) PROVE AllEndsKept'
  BY <1>4, EndEnds
<1>5. ASSUME NEW e \in Endpoint, NEW i \in Id, Resume(e, i) PROVE AllEndsKept'
  BY <1>5, ResumeEnds
<1>6. ASSUME NEW e \in Endpoint, Handle(e) PROVE AllEndsKept'
  BY <1>6, OnHeaderEnds, OnDataEnds, OnEndEnds, OnAckEnds, ProtocolErrorEnds DEF Handle
<1>7. ASSUME NEW e \in Endpoint, Close(e) \/ TransportLost(e) PROVE AllEndsKept'
  BY <1>7, CloseEnds DEF TransportLost
<1>8. CASE Disconnect
  BY <1>8, DisconnectEnds
<1>9. CASE UNCHANGED vars
  <2>1. \A f \in Endpoint : Sends(f)' = Sends(f) /\ Wire(f)' = Wire(f)
    BY <1>9, PeerFacts DEF vars, Sends, Wire
  <2>2. \A f \in Endpoint, j \in Id : SameOut(f, j) /\ SameIn(f, j)
    BY <1>9 DEF vars, SameOut, SameIn
  <2>3. closed' = closed /\ in' = in
    BY <1>9 DEF vars
  <2> SUFFICES ASSUME NEW f \in Endpoint PROVE EndsKept(f)'
    BY DEF AllEndsKept
  <2>4. EndsKept(f) /\ Peer[f] \in Endpoint
    BY BothEnds
  <2> QED BY <2>1, <2>2, <2>3, <2>4, EndsStay
<1> QED BY <1>1, <1>2, <1>3, <1>4, <1>5, <1>6, <1>7, <1>8, <1>9 DEF Next

THEOREM EndsInvariance == Spec => []AllEndsKept
<1>1. PipeInv /\ AllEndsKept /\ [Next]_vars => AllEndsKept'
  BY EndsStep
<1> QED BY EndsInit, PipeInvariance, <1>1, PTL DEF Spec

(***************************************************************************)
(* An end that has not shut down has ended no message but as its sender    *)
(* has, and with every byte that was ever sent of it, whether it ended     *)
(* well or not (connection.js:170-235, 88-94).                             *)
(***************************************************************************)
EndedAsSent ==
    \A e \in Endpoint, i \in Id :
       Ended(in[Peer[e]][i]) /\ ~closed[Peer[e]] =>
          in[Peer[e]][i].state = out[e][i].state /\ in[Peer[e]][i].received = out[e][i].sent

THEOREM AlwaysEndedAsSent == Spec => []EndedAsSent
<1>1. AllEndsKept => EndedAsSent
  BY DEF AllEndsKept, EndsKept, EndedAsSent
<1> QED BY EndsInvariance, <1>1, PTL

(***************************************************************************)
(* While the transport is up the end of a message that its sender has      *)
(* ended is on its way until its receiver has ended it: nothing but a loss *)
(* leaves a reader waiting (connection.js:55-68, 301-308).  It is what     *)
(* EndArrives needs besides fairness.                                      *)
(***************************************************************************)
EndComing ==
    \A e \in Endpoint, i \in Id :
       up /\ Ended(out[e][i]) /\ ~Ended(in[Peer[e]][i]) =>
          \E cmd \in {"EOF", "TXERR"} : Carries(outBuf[e] \o net[Peer[e]], cmd, i)

THEOREM AlwaysEndComing == Spec => []EndComing
<1>1. PipeInv /\ AllEndsKept => EndComing
  <2> SUFFICES ASSUME PipeInv, AllEndsKept, NEW e \in Endpoint, NEW i \in Id,
                      up, Ended(out[e][i]), ~Ended(in[Peer[e]][i])
               PROVE  \E cmd \in {"EOF", "TXERR"} : Carries(outBuf[e] \o net[Peer[e]], cmd, i)
    BY DEF EndComing
  <2> DEFINE v == outBuf[e]
             w == net[Peer[e]]
  <2>1. /\ IInv /\ WiresKept /\ EndsKept(e) /\ Peer[e] \in Endpoint
    BY BothEnds
  <2>2. v \in Packets /\ w \in Packets /\ in[Peer[e]][i] \in InRecord
    BY <2>1, PipeTypes DEF InRow
  <2>3. Sends(e) /\ Arriving(in[Peer[e]][i])
    BY <2>1, <2>2 DEF WiresKept, Sends, Ended, Arriving, InRecord, States
  <2>4. Ends(Wire(e), i) # {}
    BY <2>1, <2>3 DEF EndsKept
  <2>5. Wire(e) = v \/ Wire(e) = w
    BY DEF Wire
  <2> HIDE DEF v, w
  <2>6. IsConcat(v \o w, v, w) /\ v \o w \in Packets
    BY <2>2, ConcatIs
  <2>7. PICK k \in Ends(v \o w, i) : TRUE
    BY <2>2, <2>4, <2>5, <2>6, PlacesJoin DEF Ends
  <2>8. DOMAIN (v \o w) = 1 .. Len(v \o w)
    BY <2>6 DEF Packets
  <2> QED BY <2>7, <2>8 DEF Ends, Places, Carries, v, w
<1> QED BY EndsInvariance, PipeInvariance, <1>1, PTL

-------------------------------------------------------------------------------
(* What the streams are of the records of the two ends.                    *)
LEMMA StreamsAre ==
    ASSUME NEW e \in Endpoint, NEW i \in Id
    PROVE  /\ AllStreams[e][i] = StreamOf(e, i)
           /\ StreamOf(e, i).send = out[e][i].state /\ StreamOf(e, i).sent = out[e][i].sent
           /\ StreamOf(e, i).recv = in[Peer[e]][i].state
           /\ StreamOf(e, i).got = in[Peer[e]][i].received
<1>1. AllStreams[e][i] = StreamOf(e, i)
  BY DEF AllStreams
<1> QED BY <1>1 DEF StreamOf

(* A step touches no stream but message j of f.                            *)
OnlyStream(f, j) ==
    \A e \in Endpoint, i \in Id : ~(e = f /\ i = j) => StreamOf(e, i)' = StreamOf(e, i)

LEMMA StreamsBecome ==
    ASSUME NEW f \in Endpoint, NEW j \in Id, OnlyStream(f, j)
    PROVE  AllStreams' = [AllStreams EXCEPT ![f][j] = StreamOf(f, j)']
BY DEF AllStreams, OnlyStream

(* One field of one stream changes.                                        *)
LEMMA FieldChanges ==
    ASSUME NEW f \in Endpoint, NEW j \in Id, OnlyStream(f, j)
    PROVE  LET r == Peer[f]
               S == AllStreams
           IN  /\ out'[f][j].sent = out[f][j].sent /\ in'[r][j].state = in[r][j].state
                  /\ in'[r][j].received = in[r][j].received
                     => S' = [S EXCEPT ![f][j].send = out'[f][j].state]
               /\ out'[f][j].state = out[f][j].state /\ in'[r][j].state = in[r][j].state
                  /\ in'[r][j].received = in[r][j].received
                     => S' = [S EXCEPT ![f][j].sent = out'[f][j].sent]
               /\ out'[f][j].state = out[f][j].state /\ out'[f][j].sent = out[f][j].sent
                  /\ in'[r][j].received = in[r][j].received
                     => S' = [S EXCEPT ![f][j].recv = in'[r][j].state]
               /\ out'[f][j].state = out[f][j].state /\ out'[f][j].sent = out[f][j].sent
                  /\ in'[r][j].state = in[r][j].state
                     => S' = [S EXCEPT ![f][j].got = in'[r][j].received]
<1> DEFINE S == AllStreams
           r == Peer[f]
           t == [send |-> out'[f][j].state, sent |-> out'[f][j].sent,
                 recv |-> in'[r][j].state, got |-> in'[r][j].received]
           s == [send |-> out[f][j].state, sent |-> out[f][j].sent,
                 recv |-> in[r][j].state, got |-> in[r][j].received]
<1>1. S' = [S EXCEPT ![f][j] = t]
  BY StreamsBecome DEF StreamOf
<1>2. S[f][j] = s
  BY StreamsAre DEF StreamOf
<1> SUFFICES
      /\ t.sent = s.sent /\ t.recv = s.recv /\ t.got = s.got => S' = [S EXCEPT ![f][j].send = t.send]
      /\ t.send = s.send /\ t.recv = s.recv /\ t.got = s.got => S' = [S EXCEPT ![f][j].sent = t.sent]
      /\ t.send = s.send /\ t.sent = s.sent /\ t.got = s.got => S' = [S EXCEPT ![f][j].recv = t.recv]
      /\ t.send = s.send /\ t.sent = s.sent /\ t.recv = s.recv => S' = [S EXCEPT ![f][j].got = t.got]
  OBVIOUS
<1> HIDE DEF S
<1>3. \A x : /\ [S EXCEPT ![f][j].send = x] = [S EXCEPT ![f][j] = [S[f][j] EXCEPT !.send = x]]
             /\ [S EXCEPT ![f][j].sent = x] = [S EXCEPT ![f][j] = [S[f][j] EXCEPT !.sent = x]]
             /\ [S EXCEPT ![f][j].recv = x] = [S EXCEPT ![f][j] = [S[f][j] EXCEPT !.recv = x]]
             /\ [S EXCEPT ![f][j].got = x] = [S EXCEPT ![f][j] = [S[f][j] EXCEPT !.got = x]]
  OBVIOUS
<1>4. /\ t.sent = s.sent /\ t.recv = s.recv /\ t.got = s.got => t = [s EXCEPT !.send = t.send]
      /\ t.send = s.send /\ t.recv = s.recv /\ t.got = s.got => t = [s EXCEPT !.sent = t.sent]
      /\ t.send = s.send /\ t.sent = s.sent /\ t.got = s.got => t = [s EXCEPT !.recv = t.recv]
      /\ t.send = s.send /\ t.sent = s.sent /\ t.recv = s.recv => t = [s EXCEPT !.got = t.got]
  OBVIOUS
<1> HIDE DEF s, t
<1> QED BY <1>1, <1>2, <1>3, <1>4

LEMMA SendMessageStep == ASSUME PipeInv, NEW e \in Endpoint, SendMessage(e) PROVE Streams!Next
<1>1. IInv /\ IInv' /\ InOrder
  BY SendMessageInv DEF PipeInv, WireInv
<1>2. PICK i \in Id : i = nextOut[e]
  <2>1. nextOut[e] \in Nat /\ nextOut[e] < Quota[e] /\ Quota[e] \in Nat
    BY <1>1, QuotaAssumption DEF SendMessage, IInv, FlagsOK
  <2> QED BY <2>1 DEF Id
<1>3. /\ out' = [out EXCEPT ![e][i] = NewOut]
      /\ UNCHANGED <<in, closed, bounced>>
  BY <1>2 DEF SendMessage
<1>4. out[e][i] = IdleOut /\ \A j \in Id : j < i => out[e][j].state # "idle"
  <2>1. ~(i < i)
    BY IdIsNat
  <2> QED BY <1>1, <1>2, <2>1 DEF InOrder
<1>5. /\ out'[e][i] = NewOut
      /\ \A f \in Endpoint, j \in Id : ~(f = e /\ j = i) => out'[f][j] = out[f][j]
  BY <1>1, <1>3 DEF IInv, OutOK
<1>6. OnlyStream(e, i)
  BY <1>3, <1>5 DEF StreamOf, OnlyStream
<1>7. out'[e][i].state = "open" /\ out'[e][i].sent = out[e][i].sent /\ in' = in
  BY <1>3, <1>4, <1>5 DEF IdleOut, NewOut
<1>8. AllStreams' = [AllStreams EXCEPT ![e][i].send = "open"]
  BY <1>6, <1>7, FieldChanges
<1>9. /\ AllStreams[e][i].send = "idle"
      /\ \A j \in Id : j < i => AllStreams[e][j].send # "idle"
  <2>1. out[e][i].state = "idle"
    BY <1>4 DEF IdleOut
  <2>2. ASSUME NEW j \in Id PROVE AllStreams[e][j].send = out[e][j].state
    BY StreamsAre
  <2>3. AllStreams[e][i].send = "idle"
    BY <2>1, <2>2
  <2>4. ASSUME NEW j \in Id, j < i PROVE AllStreams[e][j].send # "idle"
    BY <1>4, <2>2, <2>4
  <2> QED BY <2>3, <2>4
<1>10. closed' = closed /\ (bounced # {})' = (bounced # {})
  BY <1>3
<1>11. Streams!Open(e, i)
  BY <1>8, <1>9, <1>10 DEF Streams!Open
<1> QED BY <1>11 DEF Streams!Next

(* Steps that change one record.                                           *)
LEMMA OutChanges ==
    ASSUME IInv, NEW e \in Endpoint, NEW i \in Id, NEW new,
           out' = [out EXCEPT ![e][i] = new], in' = in
    PROVE  OnlyStream(e, i) /\ out'[e][i] = new
<1>1. /\ out'[e][i] = new
      /\ \A f \in Endpoint, j \in Id : ~(f = e /\ j = i) => out'[f][j] = out[f][j]
  BY DEF IInv, OutOK
<1> QED BY <1>1 DEF OnlyStream, StreamOf

LEMMA InChanges ==
    ASSUME IInv, NEW e \in Endpoint, NEW i \in Id, NEW new,
           in' = [in EXCEPT ![e][i] = new], out' = out
    PROVE  OnlyStream(Peer[e], i) /\ in'[e][i] = new
<1>1. /\ in'[e][i] = new
      /\ \A f \in Endpoint, j \in Id : ~(f = e /\ j = i) => in'[f][j] = in[f][j]
  BY DEF IInv, InOK
<1>2. \A f \in Endpoint, j \in Id : ~(f = Peer[e] /\ j = i) => in'[Peer[f]][j] = in[Peer[f]][j]
  BY <1>1, PeerFacts
<1> QED BY <1>1, <1>2 DEF OnlyStream, StreamOf

(* A step that neither program sees.                                       *)
LEMMA Unseen ==
    ASSUME UNCHANGED <<closed, bounced>>,
           \A e \in Endpoint, i \in Id :
              /\ out'[e][i].state = out[e][i].state /\ out'[e][i].sent = out[e][i].sent
              /\ in'[e][i].state = in[e][i].state /\ in'[e][i].received = in[e][i].received
    PROVE  UNCHANGED Streams!vars
<1>1. \A e \in Endpoint, i \in Id : StreamOf(e, i)' = StreamOf(e, i)
  BY PeerFacts DEF StreamOf
<1>2. AllStreams' = AllStreams
  BY <1>1 DEF AllStreams
<1>3. closed' = closed /\ (bounced # {})' = (bounced # {})
  OBVIOUS
<1> QED BY <1>2, <1>3 DEF Streams!vars

LEMMA WriteStep ==
    ASSUME PipeInv, NEW e \in Endpoint, NEW i \in Id, NEW n \in Writes, Write(e, i, n)
    PROVE  Streams!Next
<1> DEFINE o == out[e][i]
<1>1. IInv /\ o \in OutRecord /\ n \in Nat /\ n > 0
  BY WritesAssumption DEF PipeInv, IInv, OutOK
<1>2. /\ out' = [out EXCEPT ![e][i] = AfterWrite(o, n)] /\ o.state = "open"
      /\ in' = in /\ UNCHANGED <<closed, bounced>>
  BY DEF Write
<1>3. OnlyStream(e, i) /\ out'[e][i] = AfterWrite(o, n)
  BY <1>1, <1>2, OutChanges
<1>4. AfterWrite(o, n).state = o.state /\ AfterWrite(o, n).sent = o.sent + n /\ o.sent \in Nat
  BY <1>1 DEF AfterWrite, OutRecord
<1> HIDE DEF o
<1>5. AllStreams' = [AllStreams EXCEPT ![e][i].sent = out'[e][i].sent]
  BY <1>2, <1>3, <1>4, FieldChanges DEF o
<1>6. AllStreams'[e][i].sent = out'[e][i].sent
  BY DEF AllStreams, StreamOf
<1>7. AllStreams'[e][i].sent > AllStreams[e][i].sent /\ AllStreams[e][i].send = "open"
  BY <1>1, <1>2, <1>3, <1>4, <1>6, StreamsAre DEF o
<1>8. closed' = closed /\ (bounced # {})' = (bounced # {})
  BY <1>2
<1>9. Streams!Produce(e, i)
  BY <1>5, <1>6, <1>7, <1>8 DEF Streams!Produce
<1> QED BY <1>9 DEF Streams!Next

LEMMA EndStep ==
    ASSUME PipeInv, NEW e \in Endpoint, NEW i \in Id, NEW how \in {"ok", "err"}, End(e, i, how)
    PROVE  Streams!Next
<1> DEFINE o == out[e][i]
           new == [o EXCEPT !.state = how]
<1>1. IInv /\ o \in OutRecord
  BY DEF PipeInv, IInv, OutOK
<1>2. /\ out' = [out EXCEPT ![e][i] = new] /\ o.state = "open"
      /\ in' = in /\ UNCHANGED <<closed, bounced>>
  BY DEF End
<1>3. new.state = how /\ new.sent = o.sent
  BY <1>1 DEF OutRecord
<1> HIDE DEF new
<1>4. OnlyStream(e, i) /\ out'[e][i] = new
  BY <1>1, <1>2, OutChanges
<1>5. AllStreams' = [AllStreams EXCEPT ![e][i].send = how]
  BY <1>2, <1>3, <1>4, FieldChanges
<1>6. AllStreams[e][i].send = "open"
  BY <1>2, StreamsAre
<1>7. closed' = closed /\ (bounced # {})' = (bounced # {})
  BY <1>2
<1>8. Streams!Finish(e, i)
  BY <1>5, <1>6, <1>7 DEF Streams!Finish
<1> QED BY <1>8 DEF Streams!Next

LEMMA ResumeStep ==
    ASSUME PipeInv, NEW e \in Endpoint, NEW i \in Id, Resume(e, i) PROVE UNCHANGED Streams!vars
<1>1. in' = [in EXCEPT ![e][i].paused = FALSE, ![e][i].acked = in[e][i].received] /\ out' = out
  BY DEF Resume
<1>2. \A f \in Endpoint, j \in Id :
         in'[f][j].state = in[f][j].state /\ in'[f][j].received = in[f][j].received
  BY <1>1 DEF PipeInv, IInv, InOK, InRecord
<1>3. UNCHANGED <<closed, bounced>>
  BY DEF Resume
<1> QED BY <1>1, <1>2, <1>3, Unseen

LEMMA OnHeaderStep == ASSUME PipeInv, NEW e \in Endpoint, OnHeader(e) PROVE Streams!Next
<1> DEFINE p == Head(net[e])
<1>1. IInv /\ InOrder /\ WiresKept /\ net[e] # <<>> /\ p.cmd = "HEADER"
  BY DEF PipeInv, WireInv, OnHeader, Reads
<1>2. PICK i \in Id : i = p.id /\ i = nextIn[e]
  BY <1>1, ReadsWire DEF OnHeader, Malformed, OutOfSequence
<1>3. PICK r \in Endpoint : r = Peer[e] /\ Peer[r] = e
  BY PeerFacts
<1>4. /\ in' = [in EXCEPT ![e][i] = NewIn] /\ out' = out /\ UNCHANGED <<closed, bounced>>
  BY <1>2 DEF OnHeader
<1>5. nextIn[e] \in Number /\ nextOut[r] \in Number /\ Sends(r) \in Flag
  BY <1>1, PipeTypes
<1>6. i < nextOut[r]
  BY <1>1, <1>2, <1>3, <1>5, AtHead, HeaderAtHead DEF Number, Flag
<1>7. in[e][i] = IdleIn /\ out[r][i].state # "idle" /\ \A j \in Id : j < i => in[e][j].state # "idle"
  <2>1. ~(i < i)
    BY IdIsNat
  <2> QED BY <1>1, <1>2, <1>6, <2>1 DEF InOrder
<1>8. OnlyStream(r, i) /\ in'[e][i] = NewIn
  <2>1. OnlyStream(Peer[e], i) /\ in'[e][i] = NewIn
    BY <1>1, <1>4, InChanges
  <2> QED BY <1>3, <2>1
<1>9. NewIn.state = "open" /\ NewIn.received = IdleIn.received /\ IdleIn.state = "idle"
  BY DEF NewIn, IdleIn
<1>10. AllStreams' = [AllStreams EXCEPT ![r][i].recv = "open"]
  BY <1>3, <1>4, <1>7, <1>8, <1>9, FieldChanges
<1>11. \A j \in Id : AllStreams[r][j].send = out[r][j].state /\ AllStreams[r][j].recv = in[e][j].state
  BY <1>3, StreamsAre
<1>12. /\ AllStreams[r][i].recv = "idle" /\ AllStreams[r][i].send # "idle"
       /\ \A j \in Id : j < i => AllStreams[r][j].recv # "idle"
  BY <1>7, <1>9, <1>11
<1>13. ~closed[e] \/ bounced # {}
  BY <1>1 DEF WiresKept
<1>14. closed' = closed /\ (bounced # {})' = (bounced # {})
  BY <1>4
<1>15. Streams!Accept(r, i)
  BY <1>3, <1>10, <1>12, <1>13, <1>14 DEF Streams!Accept
<1> QED BY <1>15 DEF Streams!Next

LEMMA OnDataStep ==
    ASSUME PipeInv, NEW e \in Endpoint, NEW how \in Consumers, OnData(e, how) PROVE Streams!Next
<1>1. IInv /\ net[e] # <<>> /\ Head(net[e]).cmd = "DATA"
  BY DEF PipeInv, OnData, Reads
<1>2. PICK p \in GoodPacket : p = Head(net[e])
  BY <1>1, ReadsWire
<1>3. PICK i \in Id : i = p.id
  BY <1>1, <1>2, ReadsWire
<1>4. PICK r \in Endpoint : r = Peer[e] /\ Peer[r] = e
  BY PeerFacts
<1> DEFINE m == in[e][i]
           n == p.hi - p.lo
           new == Written(m, n, how)
<1>5. /\ in' = [in EXCEPT ![e][i] = new] /\ out' = out /\ closed' = closed
      /\ bounced' = IF how = "bounce" THEN bounced \union {<<e, i>>} ELSE bounced
      /\ m.state = "open"
  BY <1>1, <1>2, <1>3 DEF OnData, Malformed, NoActiveMessage
<1>6. m \in InRecord /\ out[r][i] \in OutRecord
  BY <1>1, <1>4, AtHead
<1>7. p.lo = m.received /\ m.received < p.hi /\ p.hi <= out[r][i].sent
  BY <1>1, <1>2, <1>3, <1>4, <1>5, <1>6, AtHead, BodyAtHead DEF Arriving
<1>8. n \in Nat /\ n > 0 /\ m.received + n = p.hi /\ m.received \in Nat /\ m.acked \in Nat
  <2>1. m.received \in Nat /\ m.acked \in Nat /\ p.lo \in Nat /\ p.hi \in Nat
    BY <1>6 DEF InRecord, GoodPacket, PacketSet
  <2> HIDE DEF m
  <2> QED BY <1>7, <2>1
<1>9. how \in {"flow", "pause", "bounce"}
  BY ConsumersAssumption
<1> HIDE DEF n, m
<1>10. new.state = "open" /\ new.received = m.received + n
  <2>1. n \in Number /\ n > 0
    BY <1>8 DEF Number
  <2>2. new.received = m.received + n
    BY <1>6, <1>9, <2>1, AcksOfWritten
  <2>3. new.state = m.state
    BY <1>6, <1>8, <1>9, WrittenType
  <2> QED BY <1>5, <2>2, <2>3 DEF m
<1> HIDE DEF new
<1>11. OnlyStream(r, i) /\ in'[e][i] = new
  BY <1>1, <1>4, <1>5, InChanges
<1>12. AllStreams' = [AllStreams EXCEPT ![r][i].got = in'[e][i].received]
  BY <1>4, <1>5, <1>10, <1>11, FieldChanges DEF m
<1>13. AllStreams'[r][i].got = in'[e][i].received
  BY <1>4 DEF AllStreams, StreamOf
<1>14. /\ AllStreams[r][i].got = m.received /\ AllStreams[r][i].sent = out[r][i].sent
       /\ AllStreams[r][i].recv = "open"
  BY <1>4, <1>5, StreamsAre DEF m
<1>15. /\ AllStreams'[r][i].got > AllStreams[r][i].got
       /\ AllStreams'[r][i].got <= AllStreams[r][i].sent
  BY <1>7, <1>8, <1>10, <1>11, <1>13, <1>14
<1>16. (bounced # {})' \in {bounced # {}, TRUE}
  <2>1. bounced' = bounced \/ <<e, i>> \in bounced'
    BY <1>5
  <2> QED BY <2>1
<1>17. Streams!Deliver(r, i)
  BY <1>5, <1>12, <1>13, <1>14, <1>15, <1>16 DEF Streams!Deliver
<1> QED BY <1>17 DEF Streams!Next

LEMMA EndingStep ==
    ASSUME PipeInv, NEW e \in Endpoint, NEW how \in {"ok", "err"}, Ending(e, how),
           Head(net[e]).cmd = IF how = "ok" THEN "EOF" ELSE "TXERR"
    PROVE  Streams!Next
<1>1. IInv /\ net[e] # <<>>
  BY DEF PipeInv, Ending
<1>2. PICK i \in Id : i = Head(net[e]).id
  BY <1>1, ReadsWire
<1>3. PICK r \in Endpoint : r = Peer[e] /\ Peer[r] = e
  BY PeerFacts
<1> DEFINE m == in[e][i]
           new == [m EXCEPT !.state = how]
<1>4. /\ in' = [in EXCEPT ![e][i] = new] /\ out' = out /\ UNCHANGED <<closed, bounced>>
      /\ m.state = "open"
  BY <1>2 DEF Ending
<1>5. m \in InRecord /\ out[r][i] \in OutRecord
  BY <1>1, <1>3, AtHead
<1>6. out[r][i].state = how /\ m.received = out[r][i].sent
  <2>1. BodyChain(net[e], i, out[r][i], m, Sends(r)) /\ net[e] \in Packets
    BY <1>1, <1>3, AtHead
  <2>2. Arriving(m) /\ Head(net[e]).cmd \in {"EOF", "TXERR"} /\ Head(net[e]).id = i
    BY <1>2, <1>4 DEF Arriving
  <2>3. /\ out[r][i].state = IF Head(net[e]).cmd = "EOF" THEN "ok" ELSE "err"
        /\ m.received = out[r][i].sent
    BY <1>1, <1>5, <2>1, <2>2, BodyAtHead
  <2> QED BY <2>3
<1>7. new.state = how /\ new.received = m.received
  BY <1>5 DEF InRecord
<1> HIDE DEF new
<1>8. OnlyStream(r, i) /\ in'[e][i] = new
  BY <1>1, <1>3, <1>4, InChanges
<1>9. AllStreams' = [AllStreams EXCEPT ![r][i].recv = how]
  BY <1>3, <1>4, <1>7, <1>8, FieldChanges
<1>10. /\ AllStreams[r][i].send = how /\ AllStreams[r][i].recv = "open"
       /\ AllStreams[r][i].got = AllStreams[r][i].sent
  BY <1>3, <1>4, <1>6, StreamsAre
<1>11. closed' = closed /\ (bounced # {})' = (bounced # {})
  BY <1>4
<1>12. Streams!Complete(r, i)
  BY <1>9, <1>10, <1>11 DEF Streams!Complete
<1> QED BY <1>12 DEF Streams!Next

LEMMA OnAckStep == ASSUME PipeInv, NEW e \in Endpoint, OnAck(e) PROVE UNCHANGED Streams!vars
<1>1. IInv /\ net[e] # <<>>
  BY DEF PipeInv, OnAck, Reads
<1>2. PICK i \in Id : i = Head(net[e]).id
  BY <1>1, ReadsWire
<1>3. PICK n \in Nat : n = Head(net[e]).hi
  BY <1>1, ReadsWire
<1>4. /\ out' = IF Outgoing(e, i) THEN [out EXCEPT ![e][i] = AfterAck(@, n)] ELSE out
      /\ UNCHANGED <<in, closed, bounced>>
  BY <1>2, <1>3 DEF OnAck
<1>5. \A o \in OutRecord : AfterAck(o, n).state = o.state /\ AfterAck(o, n).sent = o.sent
  BY DEF AfterAck, OutRecord
<1>6. \A f \in Endpoint, j \in Id :
         out'[f][j].state = out[f][j].state /\ out'[f][j].sent = out[f][j].sent
  BY <1>1, <1>4, <1>5 DEF IInv, OutOK
<1> QED BY <1>4, <1>6, Unseen

LEMMA ShutStep ==
    ASSUME PipeInv, NEW e \in Endpoint, NEW rest, Shut(e, rest), UNCHANGED <<out, bounced>>
    PROVE  Streams!Next
<1>1. PICK r \in Endpoint : r = Peer[e] /\ Peer[r] = e /\ r # e /\ \A f \in Endpoint : f = e \/ f = r
  BY PeerFacts
<1>2. /\ ~closed[e] /\ closed' = [closed EXCEPT ![e] = TRUE] /\ out' = out
      /\ in'[r] = in[r] /\ \A i \in Id : in'[e][i] = Aborted(in[e][i])
  BY <1>1 DEF Shut, PipeInv, IInv, InOK
<1>3. ASSUME NEW i \in Id
      PROVE  StreamOf(r, i)' = IF StreamOf(r, i).recv = "open"
                               THEN [StreamOf(r, i) EXCEPT !.recv = "err"] ELSE StreamOf(r, i)
  <2> DEFINE m == in[e][i]
  <2>1. m \in InRecord /\ in'[e][i] = Aborted(m)
    BY <1>2 DEF PipeInv, IInv, InOK
  <2>2. /\ m.state = "open" => Aborted(m).state = "err"
        /\ m.state # "open" => Aborted(m).state = m.state
        /\ Aborted(m).received = m.received
    BY <2>1 DEF Aborted, InRecord
  <2>3. in'[e][i].received = m.received
        /\ in'[e][i].state = IF m.state = "open" THEN "err" ELSE m.state
    BY <2>1, <2>2
  <2> QED BY <1>1, <1>2, <2>3 DEF StreamOf
<1>4. \A i \in Id : StreamOf(e, i)' = StreamOf(e, i)
  BY <1>1, <1>2 DEF StreamOf
<1>5. AllStreams' = [f \in Endpoint |->
                       IF Peer[f] = e
                       THEN [i \in Id |-> IF AllStreams[f][i].recv = "open"
                                          THEN [AllStreams[f][i] EXCEPT !.recv = "err"]
                                          ELSE AllStreams[f][i]]
                       ELSE AllStreams[f]]
  <2>1. Peer[r] = e /\ Peer[e] # e
    BY <1>1
  <2>2. AllStreams'[r] = [i \in Id |-> IF AllStreams[r][i].recv = "open"
                                       THEN [AllStreams[r][i] EXCEPT !.recv = "err"]
                                       ELSE AllStreams[r][i]]
    BY <1>3 DEF AllStreams
  <2>3. AllStreams'[e] = AllStreams[e]
    BY <1>4 DEF AllStreams
  <2>4. AllStreams' = [f \in Endpoint |-> AllStreams'[f]]
    BY DEF AllStreams
  <2> HIDE DEF AllStreams
  <2> QED BY <1>1, <2>1, <2>2, <2>3, <2>4
<1>6. (bounced # {})' = (bounced # {})
  OBVIOUS
<1>7. Streams!Lose(e)
  BY <1>2, <1>5, <1>6 DEF Streams!Lose
<1> QED BY <1>7 DEF Streams!Next

LEMMA StreamsInit == Init => Streams!Init
<1> SUFFICES ASSUME Init PROVE Streams!Init
  OBVIOUS
<1>1. ASSUME NEW e \in Endpoint, NEW i \in Id PROVE StreamOf(e, i) = Streams!Unsent
  <2>1. out[e][i].state = "idle" /\ out[e][i].sent = 0
    BY DEF Init, IdleOut, NewOut
  <2>2. in[Peer[e]][i].state = "idle" /\ in[Peer[e]][i].received = 0
    BY PeerFacts DEF Init, IdleIn, NewIn
  <2> QED BY <2>1, <2>2 DEF StreamOf, Streams!Unsent
<1>2. AllStreams = [e \in Endpoint |-> [i \in Id |-> Streams!Unsent]]
  BY <1>1 DEF AllStreams
<1> QED BY <1>2 DEF Init, Streams!Init

LEMMA HandleStep ==
    ASSUME PipeInv, NEW e \in Endpoint, Handle(e) PROVE [Streams!Next]_Streams!vars
<1>1. CASE OnHeader(e)
  BY <1>1, OnHeaderStep
<1>2. CASE \E how \in Consumers : OnData(e, how)
  BY <1>2, OnDataStep
<1>3. CASE OnEof(e)
  <2>1. Ending(e, "ok") /\ Head(net[e]).cmd = "EOF"
    BY <1>3 DEF OnEof, Malformed, NoActiveMessage, Reads, Ending
  <2> QED BY <2>1, EndingStep
<1>4. CASE OnTxErr(e)
  <2>1. Ending(e, "err") /\ Head(net[e]).cmd = "TXERR"
    BY <1>4 DEF OnTxErr, Malformed, NoActiveMessage, Reads, Ending
  <2> QED BY <2>1, EndingStep
<1>5. CASE OnAck(e)
  BY <1>5, OnAckStep
<1>6. CASE ProtocolError(e)
  <2>1. out' = out /\ bounced' = bounced
    BY <1>6 DEF ProtocolError
  <2>2. CASE \E rest \in Buffered(e) : Shut(e, rest)
    BY <2>1, <2>2, ShutStep
  <2>3. CASE UNCHANGED <<closed, in>>
    BY <2>1, <2>3, Unseen
  <2> QED BY <1>6, <2>2, <2>3 DEF ProtocolError
<1> QED BY <1>1, <1>2, <1>3, <1>4, <1>5, <1>6 DEF Handle

(* Every step of the connection is a step of its streams, or unseen.       *)
LEMMA StreamsStep == PipeInv /\ [Next]_vars => [Streams!Next]_Streams!vars
<1> SUFFICES ASSUME PipeInv, [Next]_vars PROVE [Streams!Next]_Streams!vars
  OBVIOUS
<1>1. ASSUME NEW e \in Endpoint, Start(e) PROVE UNCHANGED Streams!vars
  BY <1>1, Unseen DEF Start
<1>2. ASSUME NEW e \in Endpoint, Close(e) \/ TransportLost(e) PROVE Streams!Next
  <2>1. Shut(e, <<>>) /\ out' = out /\ bounced' = bounced
    BY <1>2 DEF Close, TransportLost
  <2> QED BY <2>1, ShutStep
<1>3. ASSUME Disconnect PROVE UNCHANGED Streams!vars
  BY <1>3, Unseen DEF Disconnect
<1>4. ASSUME UNCHANGED vars PROVE UNCHANGED Streams!vars
  BY <1>4, Unseen DEF vars
<1> QED BY <1>1, <1>2, <1>3, <1>4, SendMessageStep, WriteStep, EndStep, ResumeStep, HandleStep DEF Next

(***************************************************************************)
(* The connection implements the streams of MessageStream: what the        *)
(* programs at both ends see is what that module promises, whatever the    *)
(* wires hold, and whenever the transport breaks (connection.js:16-334).   *)
(***************************************************************************)
THEOREM StreamsImplemented == Spec => ImplementsStreams
<1>1. PipeInv /\ [Next]_vars => [Streams!Next]_Streams!vars
  BY StreamsStep
<1> QED BY PipeInvariance, StreamsInit, <1>1, PTL DEF Spec, ImplementsStreams, Streams!Spec

-------------------------------------------------------------------------------
(***************************************************************************)
(* MessageBody: a buffer that is dripped into the client's first message.  *)
(* A source that runs has an open message that is not paused because it is *)
(* itself paused whenever its message is (held), and every start() that    *)
(* nextTick still has to make looks at that flag.  One that is not paused  *)
(* before its end runs, or nextTick has a start() to make.                 *)
(***************************************************************************)
SourceOK ==
    /\ drip \in BOOLEAN /\ spent \in BOOLEAN /\ held \in BOOLEAN /\ dripping \in BOOLEAN
    /\ offset \in 0 .. BodySize /\ starts \in Nat

(* The message, for its source.                                            *)
InStep(m) ==
    /\ offset = m.sent
    /\ held = m.paused
    /\ m.state = "idle" => offset = 0 /\ starts = 0 /\ ~dripping /\ ~spent /\ ~held
    /\ m.state # "idle" => m.state = IF spent THEN "ok" ELSE "open"
    /\ m.state = "open" /\ ~held => dripping \/ starts > 0

SourceInv ==
    /\ SourceOK
    /\ drip => InStep(Message)
    /\ dripping => drip /\ ~held /\ ~spent
    /\ ~drip => starts = 0 /\ ~held

LEMMA FirstId == "client" \in Endpoint /\ 0 \in Id
BY FeederAssumption, QuotaAssumption DEF Id, Endpoint

LEMMA SourceInit == BodyInit => SourceInv
<1> SUFFICES ASSUME BodyInit PROVE SourceInv
  OBVIOUS
<1>1. Message = IdleOut
  BY FirstId DEF BodyInit, Init, Message
<1>2. 0 \in 0 .. BodySize /\ 0 \in Nat
  BY BodySizeAssumption, MaxBodyAssumption
<1>3. SourceOK
  BY <1>2 DEF BodyInit, SourceOK
<1> QED BY <1>1, <1>3 DEF BodyInit, SourceInv, InStep, IdleOut, NewOut

(* What there is to write is something a program may write.                *)
LEMMA QuantityIs ==
    ASSUME SourceInv, offset < BodySize
    PROVE  Quantity \in Writes /\ Quantity \in Nat /\ offset + Quantity \in 0 .. BodySize
BY ChunkAssumption, BodySizeAssumption, MaxBodyAssumption DEF SourceInv, SourceOK, Quantity

(* Every step of MessageBody is a step of Connection.                      *)
LEMMA BodyIsStep == SourceInv /\ [BodyNext]_bodyVars => [Next]_vars
<1> SUFFICES ASSUME SourceInv, [BodyNext]_bodyVars PROVE [Next]_vars
  OBVIOUS
<1>1. CASE Send
  BY <1>1, FirstId DEF Send, Next
<1>2. CASE StartDrip
  BY <1>2 DEF StartDrip
<1>3. CASE ProgramWrites
  BY <1>3, FirstId DEF ProgramWrites, Next
<1>4. CASE Give
  <2>1. Write("client", 0, Quantity) /\ Quantity \in Writes
    BY <1>4, QuantityIs DEF Give
  <2> QED BY <2>1, FirstId DEF Next
<1>5. CASE Finish
  BY <1>5, FirstId DEF Finish, Next
<1>6. ASSUME NEW e \in Endpoint, Elsewhere(e) PROVE [Next]_vars
  BY <1>6 DEF Elsewhere, Next
<1>7. CASE Disconnect
  BY <1>7 DEF Next
<1>8. CASE UNCHANGED bodyVars
  BY <1>8 DEF bodyVars
<1> QED BY <1>1, <1>2, <1>3, <1>4, <1>5, <1>6, <1>7, <1>8 DEF BodyNext

LEMMA MessageType == ASSUME IInv PROVE Message \in OutRecord
BY FirstId DEF IInv, OutOK, Message

(* A new message meets a source that has not begun.                        *)
LEMMA SendSource == ASSUME IInv, SourceInv, Send PROVE SourceInv'
<1>1. /\ nextOut["client"] = 0
      /\ out' = [out EXCEPT !["client"][nextOut["client"]] = NewOut]
      /\ starts' = IF drip THEN 1 ELSE 0
      /\ UNCHANGED <<drip, offset, spent, held, dripping>>
  BY DEF Send, SendMessage
<1>2. Message.state = "idle"
  <2>1. Message.state # "idle" => 0 < nextOut["client"]
    BY FirstId DEF IInv, KnownCounted, Message
  <2> QED BY <1>1, <2>1
<1>3. Message' = NewOut
  BY <1>1, FirstId DEF IInv, OutOK, Message
<1>4. Message.paused \in BOOLEAN
  BY MessageType DEF OutRecord
<1>5. SourceOK'
  BY <1>1 DEF SourceInv, SourceOK
<1>6. CASE drip
  <2>1. offset = 0 /\ ~spent /\ ~dripping
    BY <1>2, <1>6 DEF SourceInv, InStep
  <2>2. held = FALSE
    BY <1>2, <1>6 DEF SourceInv, SourceOK, InStep
  <2>3. starts' = 1 /\ starts' > 0
    BY <1>1, <1>6
  <2>4. Message'.state = "open" /\ Message'.sent = 0 /\ Message'.paused = FALSE
    BY <1>3 DEF NewOut
  <2>5. InStep(Message)'
    BY <1>1, <2>1, <2>2, <2>3, <2>4 DEF InStep
  <2> QED BY <1>1, <1>5, <1>6, <2>1, <2>5 DEF SourceInv
<1>7. CASE ~drip
  BY <1>1, <1>5, <1>7 DEF SourceInv, SourceOK
<1> QED BY <1>6, <1>7 DEF SourceInv, SourceOK

(* A start() begins to drip if the source is neither paused nor spent.     *)
LEMMA StartDripSource == ASSUME IInv, SourceInv, StartDrip PROVE SourceInv'
<1>1. /\ starts > 0 /\ starts' = starts - 1
      /\ dripping' = (~held /\ ~spent)
      /\ UNCHANGED <<out, drip, offset, spent, held>>
  BY DEF StartDrip, vars
<1>2. Message' = Message /\ starts \in Nat
  BY <1>1 DEF Message, SourceInv, SourceOK
<1>3. drip
  BY <1>1 DEF SourceInv
<1>4. SourceOK' /\ (dripping' => ~held /\ ~spent)
  BY <1>1, <1>2 DEF SourceInv, SourceOK
<1>5. InStep(Message) /\ Message.state # "idle"
  BY <1>1, <1>3 DEF SourceInv, InStep
<1> QED BY <1>1, <1>2, <1>3, <1>4, <1>5 DEF SourceInv, InStep

(* A source that runs writes to an open message that is not paused, and is *)
(* paused if that pauses the message.                                      *)
LEMMA GiveSource == ASSUME IInv, SourceInv, Give PROVE SourceInv'
<1>1. /\ dripping /\ offset < BodySize
      /\ Message.state = "open" /\ out' = [out EXCEPT !["client"][0] = AfterWrite(@, Quantity)]
      /\ offset' = offset + Quantity
      /\ held' = Message'.paused /\ dripping' = ~held'
      /\ UNCHANGED <<drip, spent, starts>>
  BY DEF Give, Write, PausedBy, Message
<1>2. Quantity \in Nat /\ offset + Quantity \in 0 .. BodySize
  BY <1>1, QuantityIs
<1>3. Message \in OutRecord
  BY MessageType
<1>4. Message' = AfterWrite(Message, Quantity)
  BY <1>1, FirstId DEF IInv, OutOK, Message
<1>5. /\ Message'.sent = Message.sent + Quantity /\ Message'.state = "open"
      /\ Message'.paused \in BOOLEAN
  BY <1>1, <1>2, <1>3, <1>4, MaxFlowAssumption DEF AfterWrite, WindowFull, OutRecord
<1>6. drip /\ ~spent /\ offset = Message.sent
  BY <1>1 DEF SourceInv, InStep
<1>7. SourceOK'
  BY <1>1, <1>2, <1>5 DEF SourceInv, SourceOK
<1>8. InStep(Message)'
  BY <1>1, <1>5, <1>6 DEF InStep
<1> QED BY <1>1, <1>6, <1>7, <1>8 DEF SourceInv

(* The end of the buffer ends the message.                                 *)
LEMMA FinishSource == ASSUME IInv, SourceInv, Finish PROVE SourceInv'
<1>1. /\ dripping /\ spent' = TRUE /\ dripping' = FALSE
      /\ Message.state = "open" /\ out' = [out EXCEPT !["client"][0].state = "ok"]
      /\ UNCHANGED <<drip, offset, held, starts>>
  BY DEF Finish, End, Message
<1>2. Message \in OutRecord
  BY MessageType
<1>3. Message' = [Message EXCEPT !.state = "ok"]
  BY <1>1, FirstId DEF IInv, OutOK, Message
<1>4. Message'.state = "ok" /\ Message'.sent = Message.sent /\ Message'.paused = Message.paused
  BY <1>2, <1>3 DEF OutRecord
<1>5. drip /\ InStep(Message)
  BY <1>1 DEF SourceInv
<1>6. SourceOK'
  BY <1>1 DEF SourceInv, SourceOK
<1> QED BY <1>1, <1>4, <1>5, <1>6 DEF SourceInv, InStep

(***************************************************************************)
(* What the rest of the program does to the message: an acknowledgement    *)
(* may resume it, and everything else leaves it alone.                     *)
(***************************************************************************)
LEMMA ElsewhereMessage ==
    ASSUME IInv, NEW e \in Endpoint,
           \/ Start(e) \/ Handle(e) \/ Close(e) \/ TransportLost(e)
           \/ \E i \in Id : Resume(e, i)
    PROVE  /\ Message'.state = Message.state /\ Message'.sent = Message.sent
           /\ Message'.paused \in BOOLEAN
           /\ Message' # Message => e = "client" /\ (Message'.paused => Message.paused)
<1>1. Message \in OutRecord
  BY MessageType
<1>2. CASE out' = out
  BY <1>1, <1>2 DEF Message, OutRecord
<1>3. CASE OnAck(e) /\ out' # out
  <2>1. PICK p : /\ p = Head(net[e]) /\ Outgoing(e, p.id)
                 /\ out' = [out EXCEPT ![e][p.id] = AfterAck(@, p.hi)]
    BY <1>3 DEF OnAck
  <2>2. CASE e = "client" /\ p.id = 0
    <3>1. Message' = AfterAck(Message, p.hi)
      BY <2>1, <2>2, FirstId DEF IInv, OutOK, Message
    <3>2. /\ Message'.state = Message.state /\ Message'.sent = Message.sent
          /\ Message'.paused = (Message.paused /\ WindowFull([Message EXCEPT !.acked = p.hi]))
      BY <1>1, <3>1 DEF AfterAck, OutRecord
    <3>3. Message'.paused \in BOOLEAN /\ (Message'.paused => Message.paused)
      BY <3>2
    <3> QED BY <2>2, <3>2, <3>3
  <2>3. CASE ~(e = "client" /\ p.id = 0)
    <3>1. Message' = Message
      BY <2>1, <2>3, FirstId DEF IInv, OutOK, Message
    <3> QED BY <1>1, <3>1 DEF OutRecord
  <2> QED BY <2>2, <2>3
<1> QED BY <1>2, <1>3
        DEF Start, Handle, OnHeader, OnData, OnEof, OnTxErr, ProtocolError, Close, TransportLost, Resume

(* 'drain' resumes the source with the message.                            *)
LEMMA ElsewhereSource ==
    ASSUME IInv, SourceInv, NEW e \in Endpoint, Elsewhere(e) PROVE SourceInv'
<1>1. /\ e = "client" => ~dripping
      /\ Message'.state = Message.state /\ Message'.sent = Message.sent
      /\ Message'.paused \in BOOLEAN
      /\ Message' # Message => e = "client" /\ (Message'.paused => Message.paused)
  BY ElsewhereMessage DEF Elsewhere
<1>2. Message.paused \in BOOLEAN
  BY MessageType DEF OutRecord
<1>3. CASE Message.paused /\ ~Message'.paused /\ held
  <2>1. /\ held' = FALSE /\ starts' = starts + 1
        /\ UNCHANGED <<drip, offset, spent, dripping>>
    BY <1>3 DEF Elsewhere, Drain, StartsAfterResume
  <2>2. drip /\ InStep(Message) /\ Message.state # "idle"
    BY <1>3 DEF SourceInv, InStep
  <2>3. starts' \in Nat /\ starts' > 0
    BY <2>1 DEF SourceInv, SourceOK
  <2>4. SourceOK'
    BY <2>1, <2>3 DEF SourceInv, SourceOK
  <2>5. InStep(Message)'
    BY <1>1, <1>3, <2>1, <2>2, <2>3 DEF InStep
  <2> QED BY <2>1, <2>2, <2>4, <2>5 DEF SourceInv
<1>4. CASE ~(Message.paused /\ ~Message'.paused /\ held)
  <2>1. UNCHANGED <<drip, offset, spent, held, starts, dripping>>
    BY <1>4 DEF Elsewhere, Drain, sourceVars
  <2>2. drip => Message'.paused = Message.paused
    BY <1>1, <1>2, <1>4 DEF SourceInv, InStep
  <2> QED BY <1>1, <2>1, <2>2 DEF SourceInv, SourceOK, InStep
<1> QED BY <1>3, <1>4

LEMMA SourceStep == IInv /\ SourceInv /\ [BodyNext]_bodyVars => SourceInv'
<1> SUFFICES ASSUME IInv, SourceInv, [BodyNext]_bodyVars PROVE SourceInv'
  OBVIOUS
<1>1. CASE Send
  BY <1>1, SendSource
<1>2. CASE StartDrip
  BY <1>2, StartDripSource
<1>3. CASE Give
  BY <1>3, GiveSource
<1>4. CASE Finish
  BY <1>4, FinishSource
<1>5. CASE ProgramWrites
  BY <1>5 DEF ProgramWrites, sourceVars, SourceInv, SourceOK
<1>6. ASSUME NEW e \in Endpoint, Elsewhere(e) PROVE SourceInv'
  BY <1>6, ElsewhereSource
<1>7. CASE Disconnect /\ UNCHANGED sourceVars
  <2>1. Message' = Message
    BY <1>7 DEF Disconnect, Message
  <2> QED BY <1>7, <2>1 DEF sourceVars, SourceInv, SourceOK, InStep
<1>8. CASE UNCHANGED bodyVars
  <2>1. Message' = Message
    BY <1>8 DEF bodyVars, vars, Message
  <2> QED BY <1>8, <2>1 DEF bodyVars, sourceVars, SourceInv, SourceOK, InStep
<1> QED BY <1>1, <1>2, <1>3, <1>4, <1>5, <1>6, <1>7, <1>8 DEF BodyNext

THEOREM SourceInvariance == BodySpec => [](IInv /\ SourceInv)
<1>1. BodyInit => IInv /\ SourceInv
  BY InvInit, SourceInit DEF BodyInit
<1>2. IInv /\ SourceInv /\ [BodyNext]_bodyVars => IInv' /\ SourceInv'
  BY SourceStep, BodyIsStep, Step
<1> QED BY <1>1, <1>2, PTL DEF BodySpec

(***************************************************************************)
(* A DripSource is a writer as Connection takes writers to be: its         *)
(* behaviours with a connection are behaviours of Connection, whose        *)
(* theorems therefore hold of it.                                          *)
(***************************************************************************)
THEOREM BodyIsConnection == BodySpec => Spec
<1>1. BodyInit => Init
  BY DEF BodyInit
<1> QED BY <1>1, BodyIsStep, SourceInvariance, PTL DEF BodySpec, Spec

(***************************************************************************)
(* A source that is about to give or to end finds its message open and not *)
(* paused, however often pause and resume have made nextTick call start()  *)
(* (DripSource.js:26-52).                                                  *)
(***************************************************************************)
THEOREM SourceAlwaysObeys == BodySpec => []SourceObeys
<1>1. SourceInv => SourceObeys
  BY DEF SourceInv, InStep, SourceObeys
<1> QED BY SourceInvariance, <1>1, PTL

(***************************************************************************)
(* While the transport is up a body that is not sent yet goes on: its      *)
(* source runs or will be started, or it waits for something that is on    *)
(* its way or for a consumer that holds the message paused                 *)
(* (DripSource.js:26-52, connection.js:190-211, 247-249).                  *)
(***************************************************************************)
BodyGoesOn ==
    drip /\ up /\ Message.state = "open" =>
       \/ dripping \/ starts > 0
       \/ Carries(outBuf["client"] \o net[Peer["client"]], "DATA", 0)
       \/ Carries(outBuf[Peer["client"]] \o net["client"], "ACK", 0)
       \/ in[Peer["client"]][0].paused

THEOREM BodyAlwaysGoesOn == BodySpec => []BodyGoesOn
<1>1. SourceInv /\ WakeupComing => BodyGoesOn
  BY FirstId DEF SourceInv, InStep, WakeupComing, BodyGoesOn, Message
<1> QED BY SourceInvariance, BodyIsConnection, AlwaysWakeupComing, <1>1, PTL

(* So the flow control is right for bodies that are dripped, too.          *)
THEOREM BodyFlowControlled ==
    BodySpec => [](NoProtocolError /\ AckChain /\ PausedIffFull /\ WakeupComing)
BY BodyIsConnection, AlwaysNoProtocolError, AlwaysAckChain, AlwaysPausedIffFull,
   AlwaysWakeupComing, PTL

-------------------------------------------------------------------------------
(***************************************************************************)
(* Framing.  What is proved by induction over a list of packets rests on   *)
(* this form of it, which speaks of a set instead of a predicate: a set    *)
(* with 0 in it that is closed under the successor has every number.       *)
(***************************************************************************)
LEMMA Induction ==
    ASSUME NEW T, 0 \in T, \A n \in Nat : n \in T => n + 1 \in T
    PROVE  \A n \in Nat : n \in T
<1> DEFINE R == OpToRel(<, Nat)
           U == Nat \ T
<1>1. R = {p \in Nat \X Nat : p[1] < p[2]}
  BY DEF OpToRel
<1>2. IsWellFoundedOn(R, Nat)
  BY NatLessThanWellFounded
<1>3. SUFFICES ASSUME U # {} PROVE FALSE
  OBVIOUS
<1>4. PICK x \in U : \A y \in U : ~(<<y, x>> \in R)
  <2> U \subseteq Nat
    OBVIOUS
  <2> HIDE DEF R, U
  <2> QED BY <1>2, <1>3, WFMin
<1>5. x # 0 /\ x - 1 \in Nat
  OBVIOUS
<1>6. x - 1 \in U
  BY <1>5
<1>7. <<x - 1, x>> \in R
  <2> HIDE DEF R
  <2> QED BY <1>1, <1>5
<1> QED BY <1>4, <1>6, <1>7

(* FlattenSeq is defined by a recursive function.  There is one, and there *)
(* is only one, of any length.                                             *)
Flattens(f, q, n) == f = [i \in 1 .. n |-> IF i = 1 THEN q[i] ELSE f[i - 1] \o q[i]]

LEMMA FlattensAt ==
    ASSUME NEW f, NEW q, NEW n \in Nat, Flattens(f, q, n), NEW i \in 1 .. n
    PROVE  f[i] = IF i = 1 THEN q[i] ELSE f[i - 1] \o q[i]
<1> DEFINE h == [j \in 1 .. n |-> IF j = 1 THEN q[j] ELSE f[j - 1] \o q[j]]
<1>1. f = h
  BY DEF Flattens
<1>2. h[i] = IF i = 1 THEN q[i] ELSE f[i - 1] \o q[i]
  OBVIOUS
<1> HIDE DEF h
<1>3. f[i] = h[i]
  BY <1>1
<1> QED BY <1>2, <1>3

LEMMA FlattenExists ==
    ASSUME NEW q PROVE \A n \in Nat : \E f : Flattens(f, q, n)
<1> DEFINE T == {n \in Nat : \E f : Flattens(f, q, n)}
<1>1. 0 \in T
  <2>1. <<>> = [i \in 1 .. 0 |-> IF i = 1 THEN q[i] ELSE <<>>[i - 1] \o q[i]]
    OBVIOUS
  <2> QED BY <2>1 DEF Flattens
<1>2. ASSUME NEW n \in Nat, n \in T PROVE n + 1 \in T
  <2>1. PICK f : Flattens(f, q, n)
    BY <1>2
  <2> DEFINE g == [i \in 1 .. n + 1 |-> IF i = 1 THEN q[1] ELSE IF i = n + 1 THEN f[n] \o q[n + 1] ELSE f[i]]
  <2>2. ASSUME NEW i \in 1 .. n + 1
        PROVE  g[i] = IF i = 1 THEN q[i] ELSE g[i - 1] \o q[i]
    <3>1. CASE i = 1
      BY <3>1
    <3>2. CASE i # 1
      <4>1. i - 1 \in 1 .. n /\ i - 1 \in 1 .. n + 1
        BY <3>2
      <4>2. f[i - 1] = g[i - 1]
        <5>1. i - 1 = 1 => f[i - 1] = q[1]
          BY <2>1, <4>1 DEF Flattens
        <5> QED BY <4>1, <5>1
      <4>3. CASE i = n + 1
        <5>1. i - 1 = n
          BY <4>3
        <5>2. g[i] = f[n] \o q[n + 1]
          <6> HIDE DEF T
          <6> QED BY <3>2, <4>3
        <5> HIDE DEF g
        <5> QED BY <3>2, <4>2, <4>3, <5>1, <5>2
      <4>4. CASE i # n + 1
        <5>1. i \in 1 .. n
          BY <4>4
        <5>2. f[i] = f[i - 1] \o q[i]
          <6> HIDE DEF g
          <6> QED BY <2>1, <3>2, <5>1, FlattensAt
        <5>3. g[i] = f[i]
          BY <3>2, <4>4
        <5> QED BY <3>2, <4>2, <5>2, <5>3
      <4> QED BY <4>3, <4>4
    <3> QED BY <3>1, <3>2
  <2>3. DOMAIN g = 1 .. n + 1
    OBVIOUS
  <2>4. g = [i \in 1 .. n + 1 |-> g[i]]
    OBVIOUS
  <2> HIDE DEF g
  <2>5. Flattens(g, q, n + 1)
    BY <2>2, <2>4 DEF Flattens
  <2> QED BY <2>5
<1> HIDE DEF T
<1>3. \A n \in Nat : n \in T
  BY <1>1, <1>2, Induction
<1> QED BY <1>3 DEF T

Agree(p, q, n) == \A i \in 1 .. n : p[i] = q[i]

LEMMA FlattenUnique ==
    ASSUME NEW q, NEW p, NEW n \in Nat, NEW m \in Nat, n <= m, Agree(p, q, n),
           NEW f, NEW g, Flattens(f, p, n), Flattens(g, q, m)
    PROVE  Agree(f, g, n)
<1> DEFINE T == {i \in Nat : i \in 1 .. n => f[i] = g[i]}
<1>1. 0 \in T
  OBVIOUS
<1>2. ASSUME NEW i \in Nat, i \in T PROVE i + 1 \in T
  <2> SUFFICES ASSUME i + 1 \in 1 .. n PROVE f[i + 1] = g[i + 1]
    OBVIOUS
  <2>1. /\ f[i + 1] = IF i + 1 = 1 THEN p[i + 1] ELSE f[i + 1 - 1] \o p[i + 1]
        /\ g[i + 1] = IF i + 1 = 1 THEN q[i + 1] ELSE g[i + 1 - 1] \o q[i + 1]
    <3>1. i + 1 \in 1 .. m
      OBVIOUS
    <3> QED BY <3>1, FlattensAt
  <2>2. i + 1 - 1 = i /\ (i + 1 # 1 => i \in 1 .. n) /\ p[i + 1] = q[i + 1]
    BY DEF Agree
  <2> QED BY <1>2, <2>1, <2>2
<1> HIDE DEF T
<1>3. \A i \in Nat : i \in T
  BY <1>1, <1>2, Induction
<1> QED BY <1>3 DEF T, Agree

LEMMA FlattenIs ==
    ASSUME NEW q, Len(q) \in Nat \ {0}
    PROVE  \E f : Flattens(f, q, Len(q)) /\ FlattenSeq(q) = f[Len(q)]
<1> DEFINE c == CHOOSE f : f = [i \in 1 .. Len(q) |-> IF i = 1 THEN q[i] ELSE f[i - 1] \o q[i]]
<1>1. FlattenSeq(q) = c[Len(q)]
  BY DEF FlattenSeq
<1>2. \E f : f = [i \in 1 .. Len(q) |-> IF i = 1 THEN q[i] ELSE f[i - 1] \o q[i]]
  BY FlattenExists DEF Flattens
<1>3. Flattens(c, q, Len(q))
  BY <1>2 DEF Flattens
<1> HIDE DEF c
<1> QED BY <1>1, <1>3

(* One more sequence is appended to the flattened ones before it.          *)
LEMMA FlattenGrows ==
    ASSUME NEW S, NEW n \in Nat, NEW m \in Nat, m = n + 1,
           NEW p \in Seq(Seq(S)), NEW q \in Seq(Seq(S)),
           Len(p) = n, Len(q) = m, Agree(p, q, n)
    PROVE  FlattenSeq(q) = FlattenSeq(p) \o q[m]
<1>1. PICK g : Flattens(g, q, m) /\ FlattenSeq(q) = g[m]
  BY FlattenIs
<1>2. m \in 1 .. m /\ n <= m /\ q[m] \in Seq(S)
  OBVIOUS
<1>3. g[m] = IF m = 1 THEN q[m] ELSE g[m - 1] \o q[m]
  BY <1>1, <1>2, FlattensAt
<1>4. CASE n = 0
  <2>1. FlattenSeq(p) = <<>>
    BY <1>4 DEF FlattenSeq
  <2>2. FlattenSeq(q) = q[m]
    BY <1>1, <1>3, <1>4
  <2> QED BY <1>2, <2>1, <2>2, ConcatEmptySeq
<1>5. CASE n # 0
  <2>1. PICK f : Flattens(f, p, n) /\ FlattenSeq(p) = f[n]
    BY <1>5, FlattenIs
  <2>2. f[n] = g[n]
    <3>1. Agree(f, g, n)
      BY <1>1, <1>2, <2>1, FlattenUnique
    <3>2. n \in 1 .. n
      BY <1>5
    <3> QED BY <3>1, <3>2 DEF Agree
  <2>3. m - 1 = n /\ m # 1
    BY <1>5
  <2> QED BY <1>1, <1>3, <2>1, <2>2, <2>3
<1> QED BY <1>4, <1>5

-------------------------------------------------------------------------------
(* The bytes of the packets.                                               *)
Byte == Nat \X {"line", "payload", "trailer", "zero"} \X Nat

SentOK == sent \in Seq([line : Lines, size : Sizes])

FramedPacket(k) == Line(k) \o Payload(k) \o Trailer(k)

FramedPackets(n) == [k \in 1 .. n |-> FramedPacket(k)]

Bytes(n) == FlattenSeq(FramedPackets(n))

PacketSize(k) == sent[k].line + sent[k].size + TrailerSize

LEMMA PartIs ==
    ASSUME NEW k \in Nat, NEW name \in {"line", "payload", "trailer", "zero"}, NEW n \in Nat
    PROVE  /\ Part(k, name, n) \in Seq(Byte) /\ Len(Part(k, name, n)) = n
           /\ \A i \in 1 .. n : Part(k, name, n)[i] = <<k, name, i>>
<1>1. \A i \in 1 .. n : <<k, name, i>> \in Byte
  BY DEF Byte
<1> QED BY <1>1 DEF Part

LEMMA SizesAre ==
    ASSUME SentOK, NEW k \in DOMAIN sent
    PROVE  /\ k \in Nat /\ k \in 1 .. Len(sent)
           /\ sent[k].line \in 1 .. HeaderLimit /\ sent[k].size \in Nat /\ TrailerSize \in Nat \ {0}
           /\ HeaderLimit \in Nat
           /\ PacketSize(k) \in Nat
<1>1. k \in 1 .. Len(sent) /\ Len(sent) \in Nat /\ sent[k] \in [line : Lines, size : Sizes]
  BY LenProperties, ElementOfSeq DEF SentOK
<1>2. sent[k].line \in Lines /\ sent[k].size \in Sizes
  BY <1>1
<1>3. /\ sent[k].line \in 1 .. HeaderLimit /\ sent[k].size \in Nat
      /\ HeaderLimit \in Nat /\ TrailerSize \in Nat \ {0}
  BY <1>2, LinesAssumption, SizesAssumption, LimitsAssumption
<1>4. PacketSize(k) \in Nat
  BY <1>3 DEF PacketSize
<1> QED BY <1>1, <1>3, <1>4

(* A packet is its line, its payload and its trailer.                      *)
LEMMA PacketIs ==
    ASSUME SentOK, NEW k \in DOMAIN sent
    PROVE  /\ FramedPacket(k) \in Seq(Byte) /\ Len(FramedPacket(k)) = PacketSize(k)
           /\ \A i \in 1 .. sent[k].line : FramedPacket(k)[i] = <<k, "line", i>>
           /\ \A i \in 1 .. sent[k].size : FramedPacket(k)[sent[k].line + i] = <<k, "payload", i>>
           /\ \A i \in 1 .. TrailerSize :
                 FramedPacket(k)[sent[k].line + sent[k].size + i] = <<k, "trailer", i>>
<1> DEFINE l == sent[k].line
           s == sent[k].size
           two == Line(k) \o Payload(k)
<1>1. l \in Nat /\ s \in Nat /\ TrailerSize \in Nat /\ k \in Nat
  BY SizesAre
<1>2. /\ Line(k) \in Seq(Byte) /\ Len(Line(k)) = l
      /\ \A i \in 1 .. l : Line(k)[i] = <<k, "line", i>>
  BY <1>1, PartIs DEF Line
<1>3. /\ Payload(k) \in Seq(Byte) /\ Len(Payload(k)) = s
      /\ \A i \in 1 .. s : Payload(k)[i] = <<k, "payload", i>>
  BY <1>1, PartIs DEF Payload
<1>4. /\ Trailer(k) \in Seq(Byte) /\ Len(Trailer(k)) = TrailerSize
      /\ \A i \in 1 .. TrailerSize : Trailer(k)[i] = <<k, "trailer", i>>
  BY <1>1, PartIs DEF Trailer
<1> HIDE DEF l, s
<1>5. /\ two \in Seq(Byte) /\ Len(two) = l + s
      /\ \A i \in 1 .. l + s : two[i] = IF i <= l THEN Line(k)[i] ELSE Payload(k)[i - l]
  BY <1>2, <1>3, ConcatProperties
<1> HIDE DEF two
<1>6. /\ two \o Trailer(k) \in Seq(Byte) /\ Len(two \o Trailer(k)) = l + s + TrailerSize
      /\ \A i \in 1 .. l + s + TrailerSize :
            (two \o Trailer(k))[i] = IF i <= l + s THEN two[i] ELSE Trailer(k)[i - (l + s)]
  <2>1. /\ two \o Trailer(k) \in Seq(Byte) /\ Len(two \o Trailer(k)) = Len(two) + Len(Trailer(k))
        /\ \A i \in 1 .. Len(two) + Len(Trailer(k)) :
              (two \o Trailer(k))[i] = IF i <= Len(two) THEN two[i] ELSE Trailer(k)[i - Len(two)]
    BY <1>4, <1>5, ConcatProperties
  <2> QED BY <1>4, <1>5, <2>1
<1>7. FramedPacket(k) = two \o Trailer(k)
  BY DEF FramedPacket, two
<1>8. \A i \in 1 .. l : FramedPacket(k)[i] = <<k, "line", i>>
  BY <1>1, <1>2, <1>5, <1>6, <1>7
<1>9. ASSUME NEW i \in 1 .. s PROVE FramedPacket(k)[l + i] = <<k, "payload", i>>
  <2> DEFINE j == l + i
  <2>1. j \in 1 .. l + s /\ j \in 1 .. l + s + TrailerSize /\ j - l = i /\ ~(j <= l) /\ j <= l + s
    BY <1>1
  <2> HIDE DEF j
  <2>2. FramedPacket(k)[j] = two[j] /\ two[j] = Payload(k)[j - l]
    BY <1>5, <1>6, <1>7, <2>1
  <2> QED BY <1>3, <2>1, <2>2 DEF j
<1>10. ASSUME NEW i \in 1 .. TrailerSize PROVE FramedPacket(k)[l + s + i] = <<k, "trailer", i>>
  <2> DEFINE j == l + s + i
  <2>1. j \in 1 .. l + s + TrailerSize /\ j - (l + s) = i /\ ~(j <= l + s)
    BY <1>1
  <2> HIDE DEF j
  <2>2. FramedPacket(k)[j] = Trailer(k)[j - (l + s)]
    BY <1>6, <1>7, <2>1
  <2> QED BY <1>4, <2>1, <2>2 DEF j
<1> QED BY <1>6, <1>7, <1>8, <1>9, <1>10 DEF PacketSize, l, s

(* The bytes of n packets, and of one more.                                *)
LEMMA PacketsAre ==
    ASSUME SentOK, NEW n \in 0 .. Len(sent)
    PROVE  /\ FramedPackets(n) \in Seq(Seq(Byte)) /\ Len(FramedPackets(n)) = n
           /\ \A k \in 1 .. n : FramedPackets(n)[k] = FramedPacket(k)
<1>1. \A k \in 1 .. n : FramedPacket(k) \in Seq(Byte)
  BY PacketIs DEF SentOK
<1>2. n \in Nat
  BY DEF SentOK
<1> QED BY <1>1, <1>2 DEF FramedPackets

LEMMA BytesGrow ==
    ASSUME SentOK, NEW n \in Nat, NEW m \in Nat, m = n + 1, m <= Len(sent)
    PROVE  Bytes(m) = Bytes(n) \o FramedPacket(m)
<1>1. n \in 0 .. Len(sent) /\ m \in 0 .. Len(sent) /\ m \in 1 .. m
  BY DEF SentOK
<1>2. /\ FramedPackets(n) \in Seq(Seq(Byte)) /\ Len(FramedPackets(n)) = n
      /\ FramedPackets(m) \in Seq(Seq(Byte)) /\ Len(FramedPackets(m)) = m
      /\ FramedPackets(m)[m] = FramedPacket(m)
  BY <1>1, PacketsAre
<1>3. Agree(FramedPackets(n), FramedPackets(m), n)
  BY <1>1, PacketsAre DEF Agree
<1>4. FlattenSeq(FramedPackets(m)) = FlattenSeq(FramedPackets(n)) \o FramedPackets(m)[m]
  BY <1>2, <1>3, FlattenGrows
<1> QED BY <1>2, <1>4 DEF Bytes

LEMMA BytesType ==
    ASSUME SentOK
    PROVE  \A n \in 0 .. Len(sent) : Bytes(n) \in Seq(Byte)
<1> DEFINE T == {n \in Nat : n <= Len(sent) => Bytes(n) \in Seq(Byte)}
<1>1. 0 \in T
  <2>1. FramedPackets(0) = <<>>
    BY DEF FramedPackets
  <2>2. Len(<<>>) = 0 /\ <<>> \in Seq(Byte)
    OBVIOUS
  <2>3. Bytes(0) = <<>>
    BY <2>1, <2>2 DEF Bytes, FlattenSeq
  <2> QED BY <2>2, <2>3
<1>2. ASSUME NEW n \in Nat, n \in T PROVE n + 1 \in T
  <2> SUFFICES ASSUME n + 1 <= Len(sent) PROVE Bytes(n + 1) \in Seq(Byte)
    OBVIOUS
  <2>1. Bytes(n) \in Seq(Byte)
    BY <1>2 DEF SentOK
  <2>2. n + 1 \in DOMAIN sent
    BY DEF SentOK
  <2>3. FramedPacket(n + 1) \in Seq(Byte)
    BY <2>2, PacketIs
  <2>4. Bytes(n + 1) = Bytes(n) \o FramedPacket(n + 1)
    BY BytesGrow
  <2> QED BY <2>1, <2>3, <2>4, ConcatProperties
<1> HIDE DEF T
<1>3. \A n \in Nat : n \in T
  BY <1>1, <1>2, Induction
<1> QED BY <1>3 DEF T, SentOK

(* What is flattened first stays in front.                                 *)
LEMMA BytesPrefix ==
    ASSUME SentOK, NEW k \in 0 .. Len(sent), NEW n \in k .. Len(sent)
    PROVE  /\ Len(Bytes(k)) \in Nat /\ Len(Bytes(n)) \in Nat /\ Len(Bytes(k)) <= Len(Bytes(n))
           /\ \A i \in 1 .. Len(Bytes(k)) : Bytes(n)[i] = Bytes(k)[i]
<1> DEFINE P(m) == /\ Len(Bytes(k)) <= Len(Bytes(m))
                   /\ \A i \in 1 .. Len(Bytes(k)) : Bytes(m)[i] = Bytes(k)[i]
           T == {d \in Nat : k + d <= Len(sent) => P(k + d)}
<1>0. /\ \A m \in 0 .. Len(sent) : Bytes(m) \in Seq(Byte) /\ Len(Bytes(m)) \in Nat
      /\ Len(sent) \in Nat /\ k \in Nat /\ n \in Nat
  <2>1. Len(sent) \in Nat
    BY DEF SentOK
  <2>2. \A m \in 0 .. Len(sent) : Bytes(m) \in Seq(Byte)
    BY BytesType
  <2> QED BY <2>1, <2>2
<1>1. 0 \in T
  BY <1>0
<1>2. ASSUME NEW d \in Nat, d \in T PROVE d + 1 \in T
  <2> DEFINE m == k + d
  <2> SUFFICES ASSUME k + (d + 1) <= Len(sent) PROVE P(k + (d + 1))
    OBVIOUS
  <2>1. m \in Nat /\ m + 1 \in Nat /\ k + (d + 1) = m + 1 /\ m + 1 <= Len(sent)
        /\ m \in 0 .. Len(sent) /\ m + 1 \in 1 .. Len(sent)
    BY <1>0
  <2>2. P(m)
    BY <1>0, <1>2, <2>1
  <2> HIDE DEF m, T
  <2>3. Bytes(m + 1) = Bytes(m) \o FramedPacket(m + 1)
    BY <2>1, BytesGrow
  <2>4. FramedPacket(m + 1) \in Seq(Byte) /\ Bytes(m) \in Seq(Byte) /\ Len(FramedPacket(m + 1)) \in Nat
    <3>1. FramedPacket(m + 1) \in Seq(Byte)
      BY <2>1, PacketIs DEF SentOK
    <3> QED BY <1>0, <2>1, <3>1
  <2>5. /\ Len(Bytes(m + 1)) = Len(Bytes(m)) + Len(FramedPacket(m + 1))
        /\ \A i \in 1 .. Len(Bytes(m)) : Bytes(m + 1)[i] = Bytes(m)[i]
    BY <1>0, <2>1, <2>3, <2>4, ConcatProperties
  <2>6. P(m + 1)
    BY <1>0, <2>1, <2>2, <2>4, <2>5
  <2> HIDE DEF P
  <2> QED BY <2>1, <2>6
<1> HIDE DEF T, P
<1>3. \A d \in Nat : d \in T
  BY <1>1, <1>2, Induction
<1>4. n - k \in Nat /\ k + (n - k) = n /\ n <= Len(sent)
  BY <1>0
<1>5. P(n)
  BY <1>3, <1>4 DEF T
<1> QED BY <1>0, <1>5 DEF P

(* Where the packets are in the stream.                                    *)
LEMMA StreamIs ==
    ASSUME SentOK
    PROVE  /\ Stream = Bytes(Len(sent)) /\ Stream \in Seq(Byte) /\ Len(Stream) \in Nat
           /\ \A k \in Nat : Before(k) = Len(Bytes(k - 1))
<1>1. DOMAIN sent = 1 .. Len(sent) /\ Len(sent) \in Nat
  BY LenProperties DEF SentOK
<1>2. Stream = Bytes(Len(sent))
  BY <1>1 DEF Stream, Bytes, FramedPackets, FramedPacket
<1>3. Bytes(Len(sent)) \in Seq(Byte)
  BY <1>1, BytesType
<1>4. \A k \in Nat : Before(k) = Len(Bytes(k - 1))
  BY DEF Before, Bytes, FramedPackets, FramedPacket
<1> QED BY <1>2, <1>3, <1>4, LenProperties

LEMMA BeforeStep ==
    ASSUME SentOK, NEW k \in DOMAIN sent
    PROVE  Before(k) \in Nat /\ Before(k + 1) = Before(k) + PacketSize(k)
<1> DEFINE j == k - 1
<1>1. j \in Nat /\ k \in Nat /\ k = j + 1 /\ k <= Len(sent) /\ k + 1 \in Nat /\ k + 1 - 1 = k
  BY SizesAre
<1>2. Before(k) = Len(Bytes(j)) /\ Before(k + 1) = Len(Bytes(k))
  BY <1>1, StreamIs
<1> HIDE DEF j
<1>3. Bytes(k) = Bytes(j) \o FramedPacket(k)
  BY <1>1, BytesGrow
<1>4. Bytes(j) \in Seq(Byte)
  <2>1. j \in 0 .. Len(sent)
    BY <1>1 DEF SentOK
  <2> QED BY <2>1, BytesType
<1>5. FramedPacket(k) \in Seq(Byte) /\ Len(FramedPacket(k)) = PacketSize(k)
  BY PacketIs
<1>6. Len(Bytes(j) \o FramedPacket(k)) = Len(Bytes(j)) + Len(FramedPacket(k)) /\ Len(Bytes(j)) \in Nat
  BY <1>4, <1>5, ConcatProperties, LenProperties
<1> QED BY <1>2, <1>3, <1>5, <1>6

LEMMA BeforeFirst == SentOK => Before(1) = 0
<1> SUFFICES ASSUME SentOK PROVE Before(1) = 0
  OBVIOUS
<1>1. FramedPackets(0) = <<>> /\ Len(<<>>) = 0
  BY DEF FramedPackets
<1>2. Bytes(0) = <<>>
  BY <1>1 DEF Bytes, FlattenSeq
<1>3. Before(1) = Len(Bytes(1 - 1))
  BY StreamIs
<1> QED BY <1>1, <1>2, <1>3

LEMMA BeforeRises ==
    ASSUME SentOK, NEW k \in 1 .. Len(sent) + 1, NEW l \in k .. Len(sent) + 1
    PROVE  Before(k) \in Nat /\ Before(l) \in Nat /\ Before(k) <= Before(l) /\ Before(l) <= Len(Stream)
<1>1. Len(sent) \in Nat
  BY DEF SentOK
<1>2. k - 1 \in 0 .. Len(sent) /\ l - 1 \in k - 1 .. Len(sent) /\ l - 1 \in 0 .. Len(sent)
      /\ Len(sent) \in l - 1 .. Len(sent) /\ k \in Nat /\ l \in Nat
  BY <1>1
<1>3. Before(k) = Len(Bytes(k - 1)) /\ Before(l) = Len(Bytes(l - 1)) /\ Stream = Bytes(Len(sent))
  BY <1>2, StreamIs
<1>4. Len(Bytes(k - 1)) \in Nat /\ Len(Bytes(k - 1)) <= Len(Bytes(l - 1))
  BY <1>2, BytesPrefix
<1>5. Len(Bytes(l - 1)) \in Nat /\ Len(Bytes(l - 1)) <= Len(Bytes(Len(sent)))
  BY <1>2, BytesPrefix
<1> QED BY <1>3, <1>4, <1>5

LEMMA StreamAt ==
    ASSUME SentOK, NEW k \in DOMAIN sent, NEW i \in 1 .. PacketSize(k)
    PROVE  Stream[Before(k) + i] = FramedPacket(k)[i]
<1> DEFINE j == k - 1
           at == Before(k) + i
<1>1. j \in Nat /\ k \in Nat /\ k = j + 1 /\ k <= Len(sent) /\ Len(sent) \in Nat
  BY SizesAre DEF SentOK
<1>2. /\ Before(k) \in Nat /\ Before(k) = Len(Bytes(j))
      /\ Stream = Bytes(Len(sent)) /\ PacketSize(k) \in Nat
  BY <1>1, StreamIs, BeforeStep, SizesAre
<1> HIDE DEF j
<1>3. Bytes(k) = Bytes(j) \o FramedPacket(k)
  BY <1>1, BytesGrow
<1>4. Bytes(j) \in Seq(Byte) /\ FramedPacket(k) \in Seq(Byte) /\ Len(FramedPacket(k)) = PacketSize(k)
  <2>1. j \in 0 .. Len(sent)
    BY <1>1
  <2> QED BY <2>1, BytesType, PacketIs
<1>5. at \in 1 .. Before(k) + PacketSize(k) /\ ~(at <= Before(k)) /\ at - Before(k) = i
  BY <1>2
<1> HIDE DEF at
<1>6. Len(Bytes(k)) = Before(k) + PacketSize(k) /\ Bytes(k)[at] = FramedPacket(k)[at - Before(k)]
  <2>1. /\ Len(Bytes(j) \o FramedPacket(k)) = Len(Bytes(j)) + Len(FramedPacket(k))
        /\ \A x \in 1 .. Len(Bytes(j)) + Len(FramedPacket(k)) :
              (Bytes(j) \o FramedPacket(k))[x] = IF x <= Len(Bytes(j)) THEN Bytes(j)[x]
                                           ELSE FramedPacket(k)[x - Len(Bytes(j))]
    BY <1>4, ConcatProperties
  <2> QED BY <1>2, <1>3, <1>4, <1>5, <2>1
<1>7. Bytes(Len(sent))[at] = Bytes(k)[at]
  <2>1. k \in 0 .. Len(sent) /\ Len(sent) \in k .. Len(sent) /\ at \in 1 .. Len(Bytes(k))
    BY <1>1, <1>5, <1>6
  <2> QED BY <2>1, BytesPrefix
<1> QED BY <1>2, <1>5, <1>6, <1>7 DEF at

(* The byte that begins the next packet, the end of its line, and the rest.*)
LEMMA LineAt ==
    ASSUME SentOK, NEW k \in DOMAIN sent
    PROVE  /\ \A i \in 1 .. sent[k].line : Stream[Before(k) + i] = <<k, "line", i>>
           /\ \A i \in 1 .. sent[k].size : Stream[Before(k) + sent[k].line + i] = <<k, "payload", i>>
           /\ \A i \in 1 .. TrailerSize :
                 Stream[Before(k) + sent[k].line + sent[k].size + i] = <<k, "trailer", i>>
<1> DEFINE l == sent[k].line
           s == sent[k].size
<1>1. l \in Nat /\ s \in Nat /\ TrailerSize \in Nat /\ PacketSize(k) = l + s + TrailerSize
  BY SizesAre DEF PacketSize
<1>2. Before(k) \in Nat
  BY BeforeStep
<1>3. /\ \A i \in 1 .. l : FramedPacket(k)[i] = <<k, "line", i>>
      /\ \A i \in 1 .. s : FramedPacket(k)[l + i] = <<k, "payload", i>>
      /\ \A i \in 1 .. TrailerSize : FramedPacket(k)[l + s + i] = <<k, "trailer", i>>
  BY PacketIs
<1>4. \A i \in 1 .. PacketSize(k) : Stream[Before(k) + i] = FramedPacket(k)[i]
  BY StreamAt
<1> HIDE DEF l, s
<1>5. ASSUME NEW i \in 1 .. l PROVE Stream[Before(k) + i] = <<k, "line", i>>
  BY <1>1, <1>3, <1>4
<1>6. ASSUME NEW i \in 1 .. s PROVE Stream[Before(k) + l + i] = <<k, "payload", i>>
  <2>1. l + i \in 1 .. PacketSize(k) /\ Before(k) + l + i = Before(k) + (l + i)
    BY <1>1, <1>2
  <2> QED BY <1>3, <1>4, <2>1
<1>7. ASSUME NEW i \in 1 .. TrailerSize PROVE Stream[Before(k) + l + s + i] = <<k, "trailer", i>>
  <2>1. l + s + i \in 1 .. PacketSize(k) /\ Before(k) + l + s + i = Before(k) + (l + s + i)
    BY <1>1, <1>2
  <2> QED BY <1>3, <1>4, <2>1
<1> QED BY <1>5, <1>6, <1>7 DEF l, s

-------------------------------------------------------------------------------
(* The buffers.                                                            *)
Buffers == UNION {[0 .. n - 1 -> Byte] : n \in Nat}

LengthOf(f) == Cardinality(DOMAIN f)

LEMMA BufferIs ==
    ASSUME NEW n \in Nat, NEW f \in [0 .. n - 1 -> Byte]
    PROVE  f \in Buffers /\ LengthOf(f) = n
<1>1. Cardinality(0 .. n - 1) = n
  BY FS_Interval
<1> QED BY <1>1 DEF Buffers, LengthOf

LEMMA BufferHas ==
    ASSUME NEW f \in Buffers
    PROVE  /\ LengthOf(f) \in Nat /\ DOMAIN f = 0 .. LengthOf(f) - 1
           /\ \A i \in 0 .. LengthOf(f) - 1 : f[i] \in Byte
<1>1. PICK n \in Nat : f \in [0 .. n - 1 -> Byte]
  BY DEF Buffers
<1> QED BY <1>1, BufferIs

LEMMA AllocIs == ASSUME NEW n \in Nat PROVE Alloc(n) \in Buffers /\ LengthOf(Alloc(n)) = n
<1>1. Zero \in Byte
  BY DEF Zero, Byte
<1>2. Alloc(n) \in [0 .. n - 1 -> Byte]
  BY <1>1 DEF Alloc
<1> QED BY <1>2, BufferIs

LEMMA CopiedIs ==
    ASSUME NEW q \in Seq(Byte), NEW f \in Buffers, NEW at \in Nat
    PROVE  /\ Copied(q, f, at) \in Buffers /\ LengthOf(Copied(q, f, at)) = LengthOf(f)
           /\ \A i \in 0 .. LengthOf(f) - 1 :
                 Copied(q, f, at)[i] = IF i >= at /\ i < at + Len(q) THEN q[i - at + 1] ELSE f[i]
<1> DEFINE n == LengthOf(f)
           c == Copied(q, f, at)
<1>1. n \in Nat /\ DOMAIN f = 0 .. n - 1 /\ \A i \in 0 .. n - 1 : f[i] \in Byte
  BY BufferHas
<1>2. Len(q) \in Nat /\ \A i \in 1 .. Len(q) : q[i] \in Byte
  BY LenProperties, ElementOfSeq
<1> HIDE DEF n
<1>3. c = [i \in 0 .. n - 1 |-> IF i >= at /\ i < at + Len(q) THEN q[i - at + 1] ELSE f[i]]
  BY <1>1 DEF Copied
<1>4. ASSUME NEW i \in 0 .. n - 1, i >= at, i < at + Len(q) PROVE q[i - at + 1] \in Byte
  <2>1. i - at + 1 \in 1 .. Len(q)
    BY <1>1, <1>2, <1>4
  <2> QED BY <1>2, <2>1
<1>5. c \in [0 .. n - 1 -> Byte]
  BY <1>1, <1>3, <1>4
<1>6. c \in Buffers /\ LengthOf(c) = n
  BY <1>1, <1>5, BufferIs
<1> QED BY <1>3, <1>6 DEF n

-------------------------------------------------------------------------------
(* The inductive invariant.  The buffer in use holds what has come in and  *)
(* is not read yet, from where the next packet begins in the stream; what  *)
(* was handed on is in front of the bytes that are still written to.       *)
ReadTo == Before(Len(handed) + 1)

FramingOK ==
    /\ SentOK
    /\ arrived \in Nat /\ arrived <= Len(Stream)
    /\ begun \in BOOLEAN /\ failed \in BOOLEAN /\ reading \in BOOLEAN
    /\ mem \in Seq(Buffers) /\ mem # <<>>
    /\ inStart \in Nat /\ inEnd \in Nat /\ inStart <= inEnd /\ inEnd <= LengthOf(mem[inBuf])
    /\ handed \in Seq([buf : Nat, from : Nat, to : Nat])

UnreadIsNext ==
    /\ Len(handed) <= Len(sent)
    /\ ReadTo + (inEnd - inStart) = arrived
    /\ \A j \in 0 .. inEnd - inStart - 1 : mem[inBuf][inStart + j] = Stream[ReadTo + j + 1]

KeptSlice(k) ==
    /\ handed[k].buf \in 1 .. inBuf
    /\ handed[k].to <= LengthOf(mem[handed[k].buf])
    /\ handed[k].buf = inBuf => handed[k].to <= inEnd
    /\ Slice(handed[k].buf, handed[k].from, handed[k].to) = Payload(k)

LoopFlags ==
    /\ failed => begun /\ ~reading
    /\ reading => begun
    /\ \A k \in 1 .. Len(handed) : ~TooLong(k)

FramingInv ==
    /\ FramingOK /\ UnreadIsNext /\ LoopFlags /\ ReadsAll
    /\ \A k \in 1 .. Len(handed) : KeptSlice(k)

LEMMA LastBuffer ==
    ASSUME FramingOK
    PROVE  /\ inBuf \in Nat \ {0} /\ inBuf \in 1 .. inBuf
           /\ mem[inBuf] \in Buffers /\ \A b \in 1 .. inBuf : mem[b] \in Buffers
           /\ LengthOf(mem[inBuf]) \in Nat /\ Size(inBuf) = LengthOf(mem[inBuf])
           /\ DOMAIN mem[inBuf] = 0 .. LengthOf(mem[inBuf]) - 1
<1>1. mem \in Seq(Buffers) /\ mem # <<>>
  BY DEF FramingOK
<1>2. Len(mem) \in Nat \ {0} /\ \A b \in 1 .. Len(mem) : mem[b] \in Buffers
  BY <1>1, LenProperties, ElementOfSeq, EmptySeq
<1>3. inBuf \in 1 .. inBuf /\ mem[inBuf] \in Buffers
  BY <1>2 DEF inBuf
<1>4. LengthOf(mem[inBuf]) \in Nat /\ DOMAIN mem[inBuf] = 0 .. LengthOf(mem[inBuf]) - 1
  BY <1>3, BufferHas
<1> QED BY <1>2, <1>3, <1>4 DEF inBuf, Size, LengthOf

(* What only depends on what is sent.                                      *)
LEMMA StreamSame ==
    ASSUME UNCHANGED sent
    PROVE  /\ Stream' = Stream /\ (SentOK' <=> SentOK)
           /\ \A k : Before(k)' = Before(k) /\ Payload(k)' = Payload(k)
           /\ \A k : (TooLong(k)' <=> TooLong(k)) /\ PacketSize(k)' = PacketSize(k)
BY DEF Stream, SentOK, Before, Payload, Line, Trailer, Part, TooLong, PacketSize

(* There is room for n more bytes, and what was not read is in front.      *)
LEMMA RoomIs ==
    ASSUME FramingOK, NEW n \in Nat, NEW room, room = Room(n)
    PROVE  /\ room.mem \in Seq(Buffers)
           /\ room.start \in Nat /\ room.end \in Nat /\ room.end - room.start = inEnd - inStart
           /\ \/ Len(room.mem) = inBuf /\ room.end = inEnd
              \/ Len(room.mem) = inBuf + 1
           /\ \A b \in 1 .. inBuf : room.mem[b] = mem[b]
           /\ room.end + n <= LengthOf(room.mem[Len(room.mem)])
           /\ \A j \in 0 .. inEnd - inStart - 1 :
                 room.mem[Len(room.mem)][room.start + j] = mem[inBuf][inStart + j]
<1>1. /\ inStart \in Nat /\ inEnd \in Nat /\ inStart <= inEnd /\ inEnd <= LengthOf(mem[inBuf])
      /\ mem \in Seq(Buffers) /\ Len(mem) = inBuf
  BY DEF FramingOK, inBuf
<1>2. /\ inBuf \in Nat \ {0} /\ mem[inBuf] \in Buffers /\ Size(inBuf) = LengthOf(mem[inBuf])
      /\ LengthOf(mem[inBuf]) \in Nat
  BY LastBuffer
<1>3. CASE n + inEnd <= Size(inBuf)
  <2>1. room = [mem |-> mem, start |-> inStart, end |-> inEnd]
    BY <1>3 DEF Room
  <2> QED BY <1>1, <1>2, <1>3, <2>1
<1>4. CASE ~(n + inEnd <= Size(inBuf))
  <2> DEFINE u == inEnd - inStart
             size == IF Len(Unread) + n < SmallBuf THEN FirstBuf ELSE (Len(Unread) + n) * 2
             fresh == Copied(Unread, Larger(n), 0)
  <2>1. u \in Nat
    BY <1>1
  <2>2. Unread \in Seq(Byte) /\ Len(Unread) = u
        /\ \A i \in 1 .. u : Unread[i] = mem[inBuf][inStart + i - 1]
    <3>1. \A i \in 1 .. u : mem[inBuf][inStart + i - 1] \in Byte
      <4>1. \A i \in 1 .. u : inStart + i - 1 \in 0 .. LengthOf(mem[inBuf]) - 1
        BY <1>1, <1>2
      <4> QED BY <1>2, <4>1, BufferHas
    <3> QED BY <2>1, <3>1 DEF Unread, Slice
  <2>3. size \in Nat /\ u + n <= size
    BY <2>1, <2>2, BufAssumption
  <2> HIDE DEF u
  <2>4. Larger(n) \in Buffers /\ LengthOf(Larger(n)) = size
    <3>1. Larger(n) = Alloc(size)
      BY DEF Larger
    <3> HIDE DEF size
    <3> QED BY <2>3, <3>1, AllocIs
  <2> HIDE DEF size
  <2>5. /\ fresh \in Buffers /\ LengthOf(fresh) = size
        /\ \A i \in 0 .. size - 1 :
              fresh[i] = IF i >= 0 /\ i < 0 + u THEN Unread[i - 0 + 1] ELSE Larger(n)[i]
    BY <2>2, <2>4, CopiedIs, 0 \in Nat
  <2>6. room = [mem |-> Append(mem, fresh), start |-> 0, end |-> u]
    BY <1>4, <2>2 DEF Room
  <2> HIDE DEF fresh
  <2>7. /\ Append(mem, fresh) \in Seq(Buffers) /\ Len(Append(mem, fresh)) = inBuf + 1
        /\ \A b \in 1 .. inBuf : Append(mem, fresh)[b] = mem[b]
        /\ Append(mem, fresh)[inBuf + 1] = fresh
    BY <1>1, <1>2, <2>5, AppendProperties
  <2>8. ASSUME NEW j \in 0 .. u - 1 PROVE fresh[0 + j] = mem[inBuf][inStart + j]
    <3>1. j \in 0 .. size - 1 /\ j >= 0 /\ j < 0 + u /\ j - 0 + 1 = j + 1 /\ j + 1 \in 1 .. u
          /\ inStart + (j + 1) - 1 = inStart + j /\ 0 + j = j
      BY <1>1, <2>1, <2>3
    <3>2. fresh[j] = Unread[j + 1]
      BY <2>5, <3>1
    <3>3. Unread[j + 1] = mem[inBuf][inStart + (j + 1) - 1]
      BY <2>2, <3>1
    <3> QED BY <3>1, <3>2, <3>3
  <2> QED BY <1>1, <1>2, <2>1, <2>3, <2>5, <2>6, <2>7, <2>8 DEF u
<1> QED BY <1>3, <1>4

(* What is handed on stays what it is if the part of its buffer that is in *)
(* front of inEnd does.                                                    *)
LEMMA SliceKept ==
    ASSUME FramingOK, NEW k \in 1 .. Len(handed), KeptSlice(k),
           UNCHANGED <<sent, handed>>,
           inBuf' \in {inBuf, inBuf + 1}, inBuf' = inBuf => inEnd' >= inEnd, inEnd' \in Nat,
           \A b \in 1 .. inBuf :
              /\ LengthOf(mem'[b]) = LengthOf(mem[b])
              /\ \A i \in 0 .. LengthOf(mem[b]) - 1 :
                    b # inBuf \/ i < inEnd => mem'[b][i] = mem[b][i]
    PROVE  KeptSlice(k)'
<1> DEFINE h == handed[k]
<1>1. h \in [buf : Nat, from : Nat, to : Nat] /\ inBuf \in Nat /\ inEnd \in Nat
  BY LastBuffer, ElementOfSeq DEF FramingOK
<1>2. /\ h.buf \in 1 .. inBuf /\ h.to <= LengthOf(mem[h.buf]) /\ LengthOf(mem[h.buf]) \in Nat
      /\ h.buf = inBuf => h.to <= inEnd
      /\ Slice(h.buf, h.from, h.to) = Payload(k)
  <2>1. h.buf \in 1 .. inBuf
    BY DEF KeptSlice
  <2>2. LengthOf(mem[h.buf]) \in Nat
    BY <2>1, LastBuffer, BufferHas
  <2> QED BY <2>1, <2>2 DEF KeptSlice
<1> HIDE DEF h
<1>3. ASSUME NEW i \in 1 .. h.to - h.from
      PROVE  mem'[h.buf][h.from + i - 1] = mem[h.buf][h.from + i - 1]
  <2>1. h.from + i - 1 \in 0 .. LengthOf(mem[h.buf]) - 1 /\ h.from + i - 1 < h.to
    BY <1>1, <1>2
  <2>2. h.buf # inBuf \/ h.from + i - 1 < inEnd
    BY <1>1, <1>2, <2>1
  <2> QED BY <1>2, <2>1, <2>2
<1>4. h' = h
  BY DEF h
<1>5. Slice(h.buf, h.from, h.to)' = Slice(h.buf, h.from, h.to)
  <2>1. Slice(h.buf, h.from, h.to)' = [i \in 1 .. h.to - h.from |-> mem'[h.buf][h.from + i - 1]]
    BY <1>4 DEF Slice
  <2>2. Slice(h.buf, h.from, h.to) = [i \in 1 .. h.to - h.from |-> mem[h.buf][h.from + i - 1]]
    BY DEF Slice
  <2> QED BY <1>3, <2>1, <2>2
<1>6. Payload(k)' = Payload(k)
  BY StreamSame
<1>7. /\ h.buf \in 1 .. inBuf' /\ h.to <= LengthOf(mem'[h.buf])
      /\ h.buf = inBuf' => h.to <= inEnd'
  BY <1>1, <1>2
<1> QED BY <1>2, <1>4, <1>5, <1>6, <1>7 DEF KeptSlice, h

LEMMA OnBytesInv ==
    ASSUME FramingInv, NEW n \in Pieces, OnBytes(n) PROVE FramingInv'
<1> DEFINE u == inEnd - inStart
           piece == SubSeq(Stream, arrived + 1, arrived + n)
<1>0. /\ ~failed /\ ~reading /\ arrived + n <= Len(Stream) /\ arrived' = arrived + n
      /\ reading' = begun /\ UNCHANGED <<sent, begun, failed, handed>>
      /\ n \in Nat \ {0}
  BY BoundsAssumption DEF OnBytes
<1>1. FramingOK /\ UnreadIsNext /\ LoopFlags /\ ReadsAll /\ SentOK /\ inBuf \in Nat \ {0}
  BY LastBuffer DEF FramingInv, FramingOK
<1>2. /\ arrived \in Nat /\ arrived <= Len(Stream) /\ u \in Nat /\ n \in Nat
      /\ inStart \in Nat /\ inEnd \in Nat /\ ReadTo + u = arrived
  BY <1>0, <1>1 DEF FramingOK, UnreadIsNext
<1> HIDE DEF piece
<1> DEFINE Fits(m, s, e) ==
              /\ mem' = [m EXCEPT ![Len(m)] = Copied(piece, m[Len(m)], e)]
              /\ inStart' = s /\ inEnd' = e + n
              /\ m \in Seq(Buffers) /\ s \in Nat /\ e \in Nat /\ e - s = u
              /\ \/ Len(m) = inBuf /\ e = inEnd
                 \/ Len(m) = inBuf + 1
              /\ \A b \in 1 .. inBuf : m[b] = mem[b]
              /\ e + n <= LengthOf(m[Len(m)])
              /\ \A j \in 0 .. u - 1 : m[Len(m)][s + j] = mem[inBuf][inStart + j]
<1>3. PICK m, s, e : Fits(m, s, e)
  <2> DEFINE room == Room(n)
  <2>1. /\ mem' = [room.mem EXCEPT ![Len(room.mem)] = Copied(piece, @, room.end)]
        /\ inStart' = room.start /\ inEnd' = room.end + n
    BY DEF OnBytes, piece
  <2> HIDE DEF room
  <2>2. room = Room(n)
    BY DEF room
  <2>3. /\ room.mem \in Seq(Buffers)
        /\ room.start \in Nat /\ room.end \in Nat /\ room.end - room.start = u
        /\ \/ Len(room.mem) = inBuf /\ room.end = inEnd
           \/ Len(room.mem) = inBuf + 1
        /\ \A b \in 1 .. inBuf : room.mem[b] = mem[b]
        /\ room.end + n <= LengthOf(room.mem[Len(room.mem)])
        /\ \A j \in 0 .. u - 1 : room.mem[Len(room.mem)][room.start + j] = mem[inBuf][inStart + j]
    BY <1>1, <1>2, <2>2, RoomIs
  <2>4. Fits(room.mem, room.start, room.end)
    BY <2>1, <2>3
  <2> HIDE DEF Fits
  <2> QED BY <2>4
<1> DEFINE last == Len(m)
           old == m[last]
           new == Copied(piece, old, e)
<1> HIDE DEF u
<1>5. /\ last \in Nat \ {0} /\ last \in 1 .. last /\ old \in Buffers /\ LengthOf(old) \in Nat
      /\ last \in {inBuf, inBuf + 1}
  <2>1. last \in 1 .. last
    BY <1>1, <1>3
  <2>2. old \in Buffers
    BY <1>3, <2>1, ElementOfSeq, LenProperties
  <2> QED BY <1>1, <1>3, <2>1, <2>2, BufferHas
<1>6. /\ piece \in Seq(Byte) /\ Len(piece) = n
      /\ \A i \in 1 .. n : piece[i] = Stream[arrived + i]
  <2>0. piece = SubSeq(Stream, arrived + 1, arrived + n)
    BY DEF piece
  <2>1. Stream \in Seq(Byte)
    BY <1>1, StreamIs
  <2>2. \A i \in arrived + 1 .. arrived + n : Stream[i] \in Byte
    BY <1>0, <1>2, <2>1, ElementOfSeq
  <2> DEFINE from == arrived + 1
             to == arrived + n
  <2>3. from \in Int /\ to \in Int /\ \A i \in from .. to : Stream[i] \in Byte
    BY <1>2, <2>2
  <2>4. to - from + 1 = n /\ from <= to /\ \A i \in 1 .. n : from + i - 1 = arrived + i
    BY <1>0, <1>2
  <2>5. piece = SubSeq(Stream, from, to)
    BY <2>0
  <2> HIDE DEF from, to
  <2>6. /\ SubSeq(Stream, from, to) \in Seq(Byte)
        /\ Len(SubSeq(Stream, from, to)) = IF from <= to THEN to - from + 1 ELSE 0
        /\ \A i \in 1 .. to - from + 1 : SubSeq(Stream, from, to)[i] = Stream[from + i - 1]
    BY <2>3, SubSeqProperties
  <2>7. \A i \in 1 .. n : SubSeq(Stream, from, to)[i] = Stream[arrived + i]
    BY <2>4, <2>6
  <2> QED BY <2>4, <2>5, <2>6, <2>7
<1>7. /\ new \in Buffers /\ LengthOf(new) = LengthOf(old)
      /\ \A i \in 0 .. LengthOf(old) - 1 :
            new[i] = IF i >= e /\ i < e + n THEN piece[i - e + 1] ELSE old[i]
  <2> HIDE DEF old
  <2> QED BY <1>3, <1>5, <1>6, CopiedIs
<1>8. /\ mem' \in Seq(Buffers) /\ Len(mem') = last /\ mem' # <<>> /\ mem'[last] = new
      /\ \A b \in 1 .. last : b # last => mem'[b] = m[b]
  <2>1. mem' = [m EXCEPT ![last] = new]
    BY <1>3, <1>5
  <2> HIDE DEF new
  <2> QED BY <1>3, <1>5, <1>7, <2>1
<1>9. inBuf' = last
  BY <1>8 DEF inBuf
<1> HIDE DEF old, new
<1>10. FramingOK'
  <2>1. inEnd' <= LengthOf(new) /\ inStart' \in Nat /\ inEnd' \in Nat /\ inStart' <= inEnd'
    BY <1>2, <1>3, <1>7 DEF old
  <2>2. SentOK' /\ Stream' = Stream
    BY <1>0, <1>1, StreamSame
  <2> QED BY <1>0, <1>1, <1>2, <1>8, <1>9, <2>1, <2>2 DEF FramingOK
<1>11. UnreadIsNext'
  <2>1. ReadTo' = ReadTo /\ Stream' = Stream
    BY <1>0, StreamSame DEF ReadTo
  <2>2. ReadTo \in Nat
    <3>1. Len(handed) + 1 \in 1 .. Len(sent) + 1
      BY <1>1 DEF UnreadIsNext, FramingOK, SentOK
    <3>2. Len(handed) + 1 \in Len(handed) + 1 .. Len(sent) + 1
      BY <3>1
    <3> QED BY <1>1, <3>1, <3>2, BeforeRises DEF ReadTo
  <2>3. inEnd' - inStart' = u + n
    BY <1>2, <1>3
  <2>4. ASSUME NEW j \in 0 .. u + n - 1
        PROVE  mem'[last][s + j] = Stream[ReadTo + j + 1]
    <3>1. s + j \in 0 .. LengthOf(old) - 1
      BY <1>2, <1>3, <1>5 DEF old
    <3>2. CASE j < u
      <4>1. j \in 0 .. u - 1 /\ ~(s + j >= e)
        BY <1>2, <1>3, <3>2
      <4>2. new[s + j] = old[s + j]
        BY <1>7, <3>1, <4>1
      <4>3. old[s + j] = mem[inBuf][inStart + j]
        BY <1>3, <4>1 DEF old
      <4>4. mem[inBuf][inStart + j] = Stream[ReadTo + j + 1]
        BY <1>1, <4>1 DEF UnreadIsNext, u
      <4> QED BY <1>8, <4>2, <4>3, <4>4
    <3>3. CASE ~(j < u)
      <4> DEFINE x == s + j
      <4>1. /\ x >= e /\ x < e + n /\ x \in 0 .. LengthOf(old) - 1
            /\ x - e + 1 = j - u + 1 /\ j - u + 1 \in 1 .. n
            /\ arrived + (j - u + 1) = ReadTo + j + 1
        BY <1>2, <1>3, <2>2, <3>1, <3>3
      <4>2. new[x] = piece[x - e + 1]
        <5> HIDE DEF x
        <5> QED BY <1>7, <4>1
      <4>3. piece[j - u + 1] = Stream[arrived + (j - u + 1)]
        BY <1>6, <4>1
      <4> QED BY <1>8, <4>1, <4>2, <4>3
    <3> QED BY <3>2, <3>3
  <2>5. ReadTo + (u + n) = arrived + n
    BY <1>2, <2>2
  <2> QED BY <1>0, <1>3, <1>1, <1>9, <2>1, <2>3, <2>4, <2>5 DEF UnreadIsNext
<1>12. LoopFlags' /\ ReadsAll'
  <2>1. LoopFlags'
    BY <1>0, <1>1, StreamSame DEF LoopFlags
  <2> QED BY <1>0, <2>1 DEF ReadsAll
<1>13. ASSUME NEW k \in 1 .. Len(handed) PROVE KeptSlice(k)'
  <2>1. KeptSlice(k) /\ inEnd' \in Nat
    BY <1>10 DEF FramingInv, FramingOK
  <2>2. inBuf' = inBuf => inEnd' >= inEnd
    BY <1>1, <1>2, <1>3, <1>9
  <2>3. ASSUME NEW b \in 1 .. inBuf
        PROVE  /\ LengthOf(mem'[b]) = LengthOf(mem[b])
               /\ \A i \in 0 .. LengthOf(mem[b]) - 1 :
                     b # inBuf \/ i < inEnd => mem'[b][i] = mem[b][i]
    <3>1. CASE b # last
      <4>1. mem'[b] = mem[b]
        <5>1. b \in 1 .. last /\ m[b] = mem[b]
          BY <1>1, <1>3, <1>5
        <5> QED BY <1>8, <3>1, <5>1
      <4> QED BY <4>1
    <3>2. CASE b = last
      <4>1. inBuf = last /\ old = mem[b] /\ mem'[b] = new /\ e = inEnd
        <5>1. inBuf = last /\ m[b] = mem[b]
          BY <1>1, <1>3, <1>5, <3>2
        <5>2. e = inEnd
          BY <1>1, <1>3, <5>1
        <5> QED BY <1>8, <3>2, <5>1, <5>2 DEF old
      <4> QED BY <1>2, <1>7, <3>2, <4>1
    <3> QED BY <3>1, <3>2
  <2> QED BY <1>0, <1>1, <1>5, <1>9, <2>1, <2>2, <2>3, SliceKept
<1> QED BY <1>0, <1>10, <1>11, <1>12, <1>13 DEF FramingInv

(***************************************************************************)
(* What the loop finds.  The next packet is the one after those handed on, *)
(* and what is not read yet are its bytes, as far as they have come in.    *)
(***************************************************************************)
following == Len(handed) + 1

InUse == inEnd - inStart

LEMMA FollowingIs ==
    ASSUME FramingInv
    PROVE  /\ following \in Nat \ {0} /\ InUse \in Nat /\ Len(sent) \in Nat /\ Len(handed) \in Nat
           /\ DOMAIN sent = 1 .. Len(sent)
           /\ following \in 1 .. Len(sent) + 1
           /\ ReadTo = Before(following) /\ ReadTo \in Nat /\ ReadTo + InUse = arrived
           /\ following \notin DOMAIN sent => InUse = 0
<1>1. FramingOK /\ UnreadIsNext /\ SentOK
  BY DEF FramingInv, FramingOK
<1>2. Len(sent) \in Nat /\ DOMAIN sent = 1 .. Len(sent) /\ Len(handed) \in Nat
  BY <1>1, LenProperties DEF FramingOK, SentOK
<1>3. InUse \in Nat /\ ReadTo + InUse = arrived /\ Len(handed) <= Len(sent) /\ arrived <= Len(Stream)
  BY <1>1 DEF FramingOK, UnreadIsNext, InUse
<1>4. following \in 1 .. Len(sent) + 1 /\ ReadTo = Before(following)
  BY <1>2, <1>3 DEF following, ReadTo
<1>5. ReadTo \in Nat
  <2>1. Len(sent) + 1 \in following .. Len(sent) + 1
    BY <1>2, <1>4
  <2> QED BY <1>1, <1>4, <2>1, BeforeRises
<1>6. ASSUME following \notin DOMAIN sent PROVE InUse = 0
  <2>1. following = Len(sent) + 1
    BY <1>2, <1>4, <1>6
  <2>2. following - 1 = Len(sent) /\ following \in Nat
    BY <1>2, <2>1
  <2>3. Before(following) = Len(Bytes(following - 1)) /\ Stream = Bytes(Len(sent))
    BY <1>1, <2>2, StreamIs
  <2>4. ReadTo = Len(Stream)
    BY <1>4, <2>2, <2>3
  <2> QED BY <1>3, <1>5, <2>4
<1> QED BY <1>2, <1>3, <1>4, <1>5, <1>6

LEMMA FoundAt ==
    ASSUME FramingInv, following \in DOMAIN sent,
           NEW k, k = following
    PROVE  /\ \A i \in 1 .. sent[k].line : i <= InUse => mem[inBuf][inStart + i - 1] = <<k, "line", i>>
           /\ \A i \in 1 .. sent[k].size :
                 sent[k].line + i <= InUse =>
                    mem[inBuf][inStart + sent[k].line + i - 1] = <<k, "payload", i>>
           /\ \A i \in 1 .. TrailerSize :
                 sent[k].line + sent[k].size + i <= InUse =>
                    mem[inBuf][inStart + sent[k].line + sent[k].size + i - 1] = <<k, "trailer", i>>
<1> DEFINE l == sent[k].line
           s == sent[k].size
<1>1. SentOK /\ inStart \in Nat /\ inEnd \in Nat
      /\ \A j \in 0 .. InUse - 1 : mem[inBuf][inStart + j] = Stream[ReadTo + j + 1]
  BY DEF FramingInv, FramingOK, UnreadIsNext, InUse
<1>2. /\ l \in Nat /\ s \in Nat /\ TrailerSize \in Nat /\ InUse \in Nat
      /\ ReadTo = Before(k) /\ ReadTo \in Nat
  BY <1>1, SizesAre, FollowingIs
<1>3. /\ \A i \in 1 .. l : Stream[Before(k) + i] = <<k, "line", i>>
      /\ \A i \in 1 .. s : Stream[Before(k) + l + i] = <<k, "payload", i>>
      /\ \A i \in 1 .. TrailerSize : Stream[Before(k) + l + s + i] = <<k, "trailer", i>>
  BY <1>1, LineAt
<1> HIDE DEF l, s
<1>4. ASSUME NEW i \in 1 .. l, i <= InUse PROVE mem[inBuf][inStart + i - 1] = <<k, "line", i>>
  <2> DEFINE j == i - 1
  <2>1. j \in 0 .. InUse - 1 /\ inStart + j = inStart + i - 1 /\ ReadTo + j + 1 = Before(k) + i
    BY <1>1, <1>2, <1>4
  <2> HIDE DEF j
  <2>2. mem[inBuf][inStart + j] = Stream[ReadTo + j + 1]
    BY <1>1, <2>1
  <2> QED BY <1>3, <2>1, <2>2
<1>5. ASSUME NEW i \in 1 .. s, l + i <= InUse
      PROVE  mem[inBuf][inStart + l + i - 1] = <<k, "payload", i>>
  <2> DEFINE j == l + i - 1
  <2>1. /\ j \in 0 .. InUse - 1 /\ inStart + j = inStart + l + i - 1
        /\ ReadTo + j + 1 = Before(k) + l + i
    BY <1>1, <1>2, <1>5
  <2> HIDE DEF j
  <2>2. mem[inBuf][inStart + j] = Stream[ReadTo + j + 1]
    BY <1>1, <2>1
  <2> QED BY <1>3, <2>1, <2>2
<1>6. ASSUME NEW i \in 1 .. TrailerSize, l + s + i <= InUse
      PROVE  mem[inBuf][inStart + l + s + i - 1] = <<k, "trailer", i>>
  <2> DEFINE j == l + s + i - 1
  <2>1. /\ j \in 0 .. InUse - 1 /\ inStart + j = inStart + l + s + i - 1
        /\ ReadTo + j + 1 = Before(k) + l + s + i
    BY <1>1, <1>2, <1>6
  <2> HIDE DEF j
  <2>2. mem[inBuf][inStart + j] = Stream[ReadTo + j + 1]
    BY <1>1, <2>1
  <2> QED BY <1>3, <2>1, <2>2
<1> QED BY <1>4, <1>5, <1>6 DEF l, s

(* Where the loop cuts: at the end of the next packet's line, if that has  *)
(* come in, and nowhere otherwise.                                         *)
LEMMA CutsAre ==
    ASSUME FramingInv
    PROVE  /\ Cuts # {} <=> following \in DOMAIN sent /\ sent[following].line <= InUse
           /\ Cuts # {} => HeaderLine = Line(following) /\ Match = {following}
           /\ Cuts = {} => InUse < HeaderLimit
<1> DEFINE k == following
           l == sent[k].line
           top == Least(inStart + HeaderLimit, inEnd) - 1
<1>1. /\ SentOK /\ inStart \in Nat /\ inEnd \in Nat /\ InUse = inEnd - inStart /\ InUse \in Nat
      /\ HeaderLimit \in Nat \ {0}
      /\ top \in Int /\ top < inStart + HeaderLimit /\ top < inEnd
      /\ \A j \in Nat : j < inStart + HeaderLimit /\ j < inEnd => j <= top
  <2>1. HeaderLimit \in Nat \ {0}
    BY LinesAssumption
  <2>2. SentOK /\ inStart \in Nat /\ inEnd \in Nat /\ InUse = inEnd - inStart /\ InUse \in Nat
    BY FollowingIs DEF FramingInv, FramingOK, InUse
  <2> QED BY <2>1, <2>2 DEF Least
<1>2. Cuts = {j \in inStart .. top : mem[inBuf][j] \in Newlines}
  BY DEF Cuts
<1> HIDE DEF top
<1>3. CASE k \notin DOMAIN sent
  <2>1. InUse = 0
    BY <1>3, FollowingIs
  <2>2. Cuts = {}
    BY <1>1, <1>2, <2>1
  <2> QED BY <1>1, <1>3, <2>1, <2>2
<1>4. CASE k \in DOMAIN sent
  <2>1. l \in 1 .. HeaderLimit /\ k \in Nat
    BY <1>1, <1>4, SizesAre
  <2>2. \A i \in 1 .. l : i <= InUse => mem[inBuf][inStart + i - 1] = <<k, "line", i>>
    BY <1>4, FoundAt
  <2>3. \A i : <<k, "line", i>> \in Newlines <=> i = l
    BY <1>4 DEF Newlines
  <2> HIDE DEF k, l
  <2>4. ASSUME NEW j \in inStart .. top, j - inStart + 1 <= l
        PROVE  j \in Cuts <=> j = inStart + l - 1
    <3> DEFINE i == j - inStart + 1
    <3>1. i \in 1 .. l /\ i <= InUse /\ inStart + i - 1 = j
      BY <1>1, <2>1, <2>4
    <3>2. mem[inBuf][j] = <<k, "line", i>>
      <4> HIDE DEF i
      <4> QED BY <2>2, <3>1
    <3>3. j \in Cuts <=> i = l
      <4> HIDE DEF i
      <4> QED BY <1>2, <2>3, <3>2
    <3> QED BY <1>1, <2>1, <3>3
  <2>5. CASE l <= InUse
    <3> DEFINE c == inStart + l - 1
    <3>1. c \in inStart .. top /\ c - inStart + 1 <= l /\ c + 1 - inStart = l
      BY <1>1, <2>1, <2>5
    <3>2. c \in Cuts
      BY <2>4, <3>1
    <3>3. ASSUME NEW j \in Cuts PROVE c <= j
      <4>1. j \in inStart .. top
        BY <1>2
      <4> QED BY <1>1, <2>1, <2>4, <4>1
    <3> DEFINE d == CHOOSE j \in Cuts : \A i \in Cuts : j <= i
    <3>4. d = c
      <4> HIDE DEF c
      <4>1. d \in Cuts /\ \A i \in Cuts : d <= i
        BY <3>2, <3>3
      <4>2. d <= c /\ c <= d /\ d \in Int /\ c \in Int
        BY <1>1, <1>2, <3>1, <3>2, <3>3, <4>1
      <4> HIDE DEF d
      <4> QED BY <4>2
    <3>5. HeaderLine = Slice(inBuf, inStart, c + 1)
      BY <3>4 DEF HeaderLine
    <3>6. HeaderLine = [i \in 1 .. l |-> mem[inBuf][inStart + i - 1]]
      <4> DEFINE to == c + 1
      <4>1. to - inStart = l
        BY <1>1, <2>1
      <4>2. HeaderLine = Slice(inBuf, inStart, to)
        <5> HIDE DEF c
        <5> QED BY <3>5
      <4> HIDE DEF to, c
      <4>3. Slice(inBuf, inStart, to) = [i \in 1 .. to - inStart |-> mem[inBuf][inStart + i - 1]]
        BY DEF Slice
      <4> QED BY <4>1, <4>2, <4>3
    <3>7. HeaderLine = Line(k)
      <4>1. ASSUME NEW i \in 1 .. l PROVE mem[inBuf][inStart + i - 1] = <<k, "line", i>>
        <5>1. i <= InUse
          BY <1>1, <2>1, <2>5
        <5> QED BY <2>2, <5>1
      <4>2. Line(k) = [i \in 1 .. l |-> <<k, "line", i>>]
        BY DEF Line, Part, l
      <4> QED BY <3>6, <4>1, <4>2
    <3>8. Match = {k}
      <4>1. ASSUME NEW x \in DOMAIN sent, Line(x) = Line(k) PROVE x = k
        <5>1. 1 \in 1 .. sent[x].line /\ 1 \in 1 .. l
          <6>1. sent[x].line \in 1 .. HeaderLimit
            BY <1>1, SizesAre
          <6> QED BY <1>1, <2>1, <6>1
        <5>2. Line(x)[1] = <<x, "line", 1>> /\ Line(k)[1] = <<k, "line", 1>>
          BY <5>1 DEF Line, Part, l
        <5> QED BY <4>1, <5>2
      <4> QED BY <1>4, <3>7, <4>1 DEF Match
    <3> QED BY <1>4, <2>5, <3>2, <3>7, <3>8 DEF k, l
  <2>6. CASE ~(l <= InUse)
    <3>1. Cuts = {}
      <4>1. ASSUME NEW j \in Cuts PROVE FALSE
        <5>1. j \in inStart .. top
          BY <1>2
        <5> QED BY <1>1, <2>1, <2>4, <2>6, <5>1
      <4> QED BY <4>1
    <3>2. InUse < HeaderLimit
      BY <1>1, <2>1, <2>6
    <3> QED BY <2>6, <3>1, <3>2 DEF k, l
  <2> QED BY <2>5, <2>6
<1> QED BY <1>3, <1>4

(* What it may do: hand on the next packet, if that is whole and not too   *)
(* long, and no other.                                                     *)
LEMMA ReadIs ==
    ASSUME FramingInv
    PROVE  /\ \A x \in DOMAIN sent :
                 Readable(x) <=> x = following /\ ~TooLong(x) /\ PacketSize(x) <= InUse
           /\ \A x \in DOMAIN sent : Readable(x) => Proper(x)
           /\ Incomplete <=> ~(/\ following \in DOMAIN sent
                               /\ sent[following].line <= InUse /\ TooLong(following))
<1>1. SentOK /\ inStart \in Nat /\ inEnd \in Nat /\ InUse = inEnd - inStart /\ InUse \in Nat
  BY FollowingIs DEF FramingInv, FramingOK, InUse
<1>2. /\ Cuts # {} <=> following \in DOMAIN sent /\ sent[following].line <= InUse
      /\ Cuts # {} => Match = {following}
      /\ Cuts = {} => InUse < HeaderLimit
  BY CutsAre
<1>3. MaxPayload \in Nat
  BY LimitsAssumption
<1>4. \A x \in DOMAIN sent : TooLong(x) <=> ~(sent[x].size <= MaxPayload)
  BY <1>1, <1>3, SizesAre DEF TooLong
<1>5. ASSUME NEW x \in DOMAIN sent
      PROVE  Readable(x) <=> x = following /\ ~TooLong(x) /\ PacketSize(x) <= InUse
  <2>1. sent[x].line \in Nat /\ sent[x].size \in Nat /\ TrailerSize \in Nat
    BY <1>1, SizesAre
  <2>2. Whole(x) <=> PacketSize(x) <= InUse
    BY <1>1, <2>1 DEF Whole, PayloadEnd, PayloadStart, PacketSize
  <2>3. PacketSize(x) <= InUse => sent[x].line <= InUse
    BY <1>1, <2>1 DEF PacketSize
  <2> QED BY <1>2, <1>4, <2>2, <2>3 DEF Readable
<1>6. ASSUME NEW x \in DOMAIN sent, Readable(x) PROVE Proper(x)
  <2>1. x = following /\ PacketSize(x) <= InUse
    BY <1>5, <1>6
  <2> DEFINE l == sent[x].line
             s == sent[x].size
  <2>2. l \in Nat /\ s \in Nat /\ TrailerSize \in Nat /\ PacketSize(x) = l + s + TrailerSize
    BY <1>1, SizesAre DEF PacketSize
  <2>3. \A i \in 1 .. TrailerSize :
           l + s + i <= InUse => mem[inBuf][inStart + l + s + i - 1] = <<x, "trailer", i>>
    BY <2>1, FoundAt
  <2>4. PayloadEnd(x) = inStart + l + s
    BY DEF PayloadEnd, PayloadStart
  <2> HIDE DEF l, s
  <2>5. \A i \in 1 .. TrailerSize : mem[inBuf][inStart + l + s + i - 1] = <<x, "trailer", i>>
    BY <1>1, <2>1, <2>2, <2>3
  <2>6. PayloadEnd(x) + TrailerSize - PayloadEnd(x) = TrailerSize
    BY <1>1, <2>2, <2>4
  <2>7. Slice(inBuf, PayloadEnd(x), PayloadEnd(x) + TrailerSize)
           = [i \in 1 .. TrailerSize |-> mem[inBuf][inStart + l + s + i - 1]]
    <3> DEFINE from == PayloadEnd(x)
               to == from + TrailerSize
    <3>1. from = inStart + l + s /\ to - from = TrailerSize
      BY <1>1, <2>2, <2>4, <2>6
    <3> HIDE DEF from, to
    <3>2. Slice(inBuf, from, to) = [i \in 1 .. to - from |-> mem[inBuf][from + i - 1]]
      BY DEF Slice
    <3>3. Slice(inBuf, from, to) = [i \in 1 .. TrailerSize |-> mem[inBuf][inStart + l + s + i - 1]]
      BY <3>1, <3>2
    <3> QED BY <3>3 DEF from, to
  <2>8. Trailer(x) = [i \in 1 .. TrailerSize |-> <<x, "trailer", i>>]
    BY DEF Trailer, Part
  <2> QED BY <2>5, <2>7, <2>8 DEF Proper
<1>7. Incomplete <=> ~(/\ following \in DOMAIN sent
                       /\ sent[following].line <= InUse /\ TooLong(following))
  BY <1>1, <1>2, <1>4 DEF Incomplete
<1> QED BY <1>5, <1>6, <1>7

(* What the bytes that have come in make of the packets, once the next one *)
(* cannot be handed on yet, or ever.                                       *)
LEMMA AcceptedAre ==
    ASSUME FramingInv,
           ~(following \in DOMAIN sent /\ ~TooLong(following) /\ PacketSize(following) <= InUse)
    PROVE  /\ {k \in DOMAIN sent : Accepted(k)} = 1 .. Len(handed)
           /\ \A k \in DOMAIN sent :
                 Refused(k) <=> k = following /\ TooLong(k) /\ sent[k].line <= InUse
<1>1. /\ SentOK /\ LoopFlags /\ following = Len(handed) + 1 /\ arrived \in Nat
      /\ following \in Nat \ {0} /\ InUse \in Nat /\ Len(sent) \in Nat /\ Len(handed) \in Nat
      /\ DOMAIN sent = 1 .. Len(sent) /\ following \in 1 .. Len(sent) + 1
      /\ Before(following) \in Nat /\ Before(following) + InUse = arrived
  BY FollowingIs DEF FramingInv, FramingOK, following
<1>2. ASSUME NEW k \in DOMAIN sent
      PROVE  /\ k \in 1 .. Len(sent) /\ Before(k) \in Nat /\ PacketSize(k) \in Nat
             /\ Before(k + 1) = Before(k) + PacketSize(k)
             /\ sent[k].line \in Nat
             /\ Before(k) + sent[k].line + sent[k].size + TrailerSize = Before(k + 1)
  <2>1. sent[k].line \in Nat /\ sent[k].size \in Nat /\ TrailerSize \in Nat /\ PacketSize(k) \in Nat
    BY <1>1, SizesAre
  <2>2. Before(k) \in Nat /\ Before(k + 1) = Before(k) + PacketSize(k)
    BY <1>1, BeforeStep
  <2> QED BY <1>1, <2>1, <2>2 DEF PacketSize
<1>3. ASSUME NEW k \in DOMAIN sent, k <= Len(handed) PROVE Accepted(k) /\ ~Refused(k)
  <2>1. \A j \in 1 .. k : ~TooLong(j)
    BY <1>1, <1>2, <1>3 DEF LoopFlags
  <2>2. Before(k + 1) <= Before(following)
    <3>1. k + 1 \in 1 .. Len(sent) + 1 /\ following \in k + 1 .. Len(sent) + 1
      BY <1>1, <1>2, <1>3
    <3> QED BY <1>1, <3>1, BeforeRises
  <2>3. k \in 1 .. k /\ Before(k + 1) \in Nat
    BY <1>2
  <2>4. Before(k + 1) <= arrived
    BY <1>1, <2>2, <2>3
  <2> QED BY <1>2, <2>1, <2>3, <2>4 DEF Accepted, Refused
<1>4. ASSUME NEW k \in DOMAIN sent, k = following
      PROVE  ~Accepted(k) /\ (Refused(k) <=> TooLong(k) /\ sent[k].line <= InUse)
  <2>1. ~(~TooLong(k) /\ PacketSize(k) <= InUse)
    BY <1>4
  <2>0. Before(k) + InUse = arrived
    BY <1>1, <1>4
  <2>2. Before(k + 1) <= arrived => PacketSize(k) <= InUse
    BY <1>1, <1>2, <2>0
  <2>3. Before(k) + sent[k].line <= arrived <=> sent[k].line <= InUse
    BY <1>1, <1>2, <2>0
  <2>4. \A j \in 1 .. k - 1 : ~TooLong(j)
    BY <1>1, <1>4 DEF LoopFlags
  <2>5. k \in 1 .. k
    BY <1>2
  <2>6. ~Accepted(k)
    BY <1>2, <2>1, <2>2, <2>5 DEF Accepted
  <2> QED BY <2>3, <2>4, <2>6 DEF Refused
<1>5. ASSUME NEW k \in DOMAIN sent, k > following PROVE ~Accepted(k) /\ ~Refused(k)
  <2> DEFINE f == following
  <2>1. f \in DOMAIN sent /\ f \in 1 .. k /\ f \in 1 .. k - 1
    BY <1>1, <1>2, <1>5
  <2>2. Before(f + 1) <= Before(k)
    <3>1. f + 1 \in 1 .. Len(sent) + 1 /\ k \in f + 1 .. Len(sent) + 1
      BY <1>1, <1>2, <1>5
    <3> QED BY <1>1, <3>1, BeforeRises
  <2>3. TooLong(f) \/ ~(PacketSize(f) <= InUse)
    BY <2>1
  <2>4. Before(f + 1) = Before(f) + PacketSize(f) /\ PacketSize(f) \in Nat
    BY <1>2, <2>1
  <2>5. ~TooLong(f) => Before(k) > arrived
    <3> HIDE DEF f
    <3>1. Before(f) + InUse = arrived /\ Before(f) \in Nat
      BY <1>1 DEF f
    <3> QED BY <1>1, <1>2, <2>2, <2>3, <2>4, <3>1
  <2>6. ~TooLong(f) => Before(k + 1) > arrived /\ Before(k) + sent[k].line > arrived
    BY <1>1, <1>2, <2>5
  <2>7. ~(Before(k + 1) > arrived /\ Before(k + 1) <= arrived)
        /\ ~(Before(k) + sent[k].line > arrived /\ Before(k) + sent[k].line <= arrived)
    BY <1>1, <1>2
  <2>8. ~Accepted(k)
    BY <1>2, <2>1, <2>6, <2>7 DEF Accepted
  <2>9. ~Refused(k)
    BY <2>1, <2>6, <2>7 DEF Refused
  <2> QED BY <2>8, <2>9
<1>6. \A k \in DOMAIN sent : k <= Len(handed) \/ k = following \/ k > following
  BY <1>1
<1>7. \A k \in DOMAIN sent : Accepted(k) <=> k <= Len(handed)
  BY <1>1, <1>3, <1>4, <1>5, <1>6
<1>8. \A k \in 1 .. Len(handed) : k \in DOMAIN sent
  BY <1>1
<1>9. {k \in DOMAIN sent : Accepted(k)} = 1 .. Len(handed)
  BY <1>1, <1>7, <1>8
<1>10. ASSUME NEW k \in DOMAIN sent
       PROVE  Refused(k) <=> k = following /\ TooLong(k) /\ sent[k].line <= InUse
  <2>1. k <= Len(handed) => k # following
    BY <1>1
  <2>2. k > following => k # following
    BY <1>1
  <2> QED BY <1>3, <1>4, <1>5, <1>6, <2>1, <2>2
<1> QED BY <1>9, <1>10

-------------------------------------------------------------------------------
(* The first state and the steps.                                          *)
LEMMA FramingFirst == FramingInit => FramingInv
<1> SUFFICES ASSUME FramingInit PROVE FramingInv
  OBVIOUS
<1>1. /\ arrived = 0 /\ begun = FALSE /\ failed = FALSE /\ reading = FALSE
      /\ mem = <<Alloc(FirstBuf)>> /\ inStart = 0 /\ inEnd = 0 /\ handed = <<>>
  BY DEF FramingInit
<1>2. SentOK
  <2>1. PICK n \in 0 .. MaxPackets : sent \in [1 .. n -> [line : Lines, size : Sizes]]
    BY DEF FramingInit
  <2>2. n \in Nat
    BY BoundsAssumption
  <2> DEFINE R == [line : Lines, size : Sizes]
  <2>3. sent \in Seq(R)
    <3>1. sent \in [1 .. n -> R]
      BY <2>1
    <3> HIDE DEF R
    <3> QED BY <2>2, <3>1
  <2> QED BY <2>3 DEF SentOK
<1>3. Alloc(FirstBuf) \in Buffers /\ LengthOf(Alloc(FirstBuf)) = FirstBuf /\ FirstBuf \in Nat
  BY BufAssumption, AllocIs
<1>4. mem \in Seq(Buffers) /\ mem # <<>> /\ inBuf = 1 /\ mem[1] = Alloc(FirstBuf)
  <2> DEFINE a == Alloc(FirstBuf)
  <2>1. mem = <<a>> /\ a \in Buffers
    BY <1>1, <1>3
  <2> HIDE DEF a
  <2> QED BY <2>1 DEF inBuf, a
<1>5. Stream \in Seq(Byte) /\ Len(Stream) \in Nat /\ Len(sent) \in Nat /\ Len(handed) = 0
  BY <1>1, <1>2, StreamIs DEF SentOK
<1>6. FramingOK
  <2>1. handed \in Seq([buf : Nat, from : Nat, to : Nat])
    BY <1>1
  <2>2. inEnd <= LengthOf(mem[inBuf])
    BY <1>1, <1>3, <1>4
  <2>3. arrived \in Nat /\ arrived <= Len(Stream)
    BY <1>1, <1>5
  <2>4. inStart \in Nat /\ inEnd \in Nat /\ inStart <= inEnd
    BY <1>1
  <2>5. begun \in BOOLEAN /\ failed \in BOOLEAN /\ reading \in BOOLEAN
    BY <1>1
  <2> QED BY <1>2, <1>4, <2>1, <2>2, <2>3, <2>4, <2>5 DEF FramingOK
<1>7. UnreadIsNext
  <2>1. ReadTo = 0
    BY <1>2, <1>5, BeforeFirst DEF ReadTo
  <2> QED BY <1>1, <1>5, <2>1 DEF UnreadIsNext
<1>8. LoopFlags /\ ReadsAll
  BY <1>1, <1>5 DEF LoopFlags, ReadsAll
<1> QED BY <1>5, <1>6, <1>7, <1>8 DEF FramingInv

(* Only whether the loop runs changes.                                     *)
LEMMA LoopOnly ==
    ASSUME FramingInv, UNCHANGED <<sent, arrived, mem, inStart, inEnd, handed>>,
           begun' \in BOOLEAN, failed' \in BOOLEAN, reading' \in BOOLEAN
    PROVE  /\ FramingOK' /\ UnreadIsNext'
           /\ \A k \in 1 .. Len(handed') : KeptSlice(k)'
<1>1. FramingOK'
  BY DEF FramingInv, FramingOK, SentOK, Stream, Line, Payload, Trailer, Part, inBuf
<1>2. UnreadIsNext'
  <2>1. Stream' = Stream /\ ReadTo' = ReadTo /\ inBuf' = inBuf
    BY StreamSame DEF ReadTo, inBuf
  <2> QED BY <2>1 DEF FramingInv, UnreadIsNext
<1>3. ASSUME NEW k \in 1 .. Len(handed') PROVE KeptSlice(k)'
  <2>1. KeptSlice(k)
    BY <1>3 DEF FramingInv
  <2> QED BY <2>1 DEF KeptSlice, Slice, Payload, Part, inBuf
<1> QED BY <1>1, <1>2, <1>3

LEMMA StartReadingInv == ASSUME FramingInv, StartReading PROVE FramingInv'
<1>1. /\ ~begun /\ ~failed /\ begun' = TRUE /\ reading' = TRUE
      /\ UNCHANGED <<sent, arrived, failed, mem, inStart, inEnd, handed>>
  BY DEF StartReading
<1>2. begun \in BOOLEAN /\ failed \in BOOLEAN /\ LoopFlags
  BY DEF FramingInv, FramingOK
<1>3. FramingOK' /\ UnreadIsNext' /\ \A k \in 1 .. Len(handed') : KeptSlice(k)'
  BY <1>1, <1>2, LoopOnly
<1>4. LoopFlags' /\ ReadsAll'
  <2>1. \A k : TooLong(k)' <=> TooLong(k)
    BY <1>1, StreamSame
  <2> QED BY <1>1, <1>2, <2>1 DEF LoopFlags, ReadsAll
<1> QED BY <1>3, <1>4 DEF FramingInv

(* The loop ends: everything there was to read is read.                    *)
LEMMA LoopEnds ==
    ASSUME FramingInv, reading,
           UNCHANGED <<sent, arrived, begun, mem, inStart, inEnd, handed>>,
           reading' = FALSE, failed' \in BOOLEAN,
           ~(following \in DOMAIN sent /\ ~TooLong(following) /\ PacketSize(following) <= InUse),
           failed' <=> following \in DOMAIN sent /\ sent[following].line <= InUse /\ TooLong(following)
    PROVE  FramingInv'
<1>1. begun \in BOOLEAN /\ LoopFlags /\ Len(handed) \in Nat
  BY FollowingIs DEF FramingInv, FramingOK
<1>2. FramingOK' /\ UnreadIsNext' /\ \A k \in 1 .. Len(handed') : KeptSlice(k)'
  BY <1>1, LoopOnly
<1>3. \A k : (TooLong(k)' <=> TooLong(k)) /\ Before(k)' = Before(k)
  BY StreamSame
<1>4. LoopFlags'
  BY <1>1, <1>3 DEF LoopFlags
<1>5. \A k : (Accepted(k)' <=> Accepted(k)) /\ (Refused(k)' <=> Refused(k))
  BY <1>3 DEF Accepted, Refused
<1>6. {k \in DOMAIN sent : Accepted(k)} = 1 .. Len(handed)
  BY AcceptedAre
<1>7. \A k \in DOMAIN sent : Refused(k) <=> k = following /\ TooLong(k) /\ sent[k].line <= InUse
  BY AcceptedAre
<1>8. Cardinality(1 .. Len(handed)) = Len(handed)
  BY <1>1, FS_Interval
<1>9. {k \in DOMAIN sent' : Accepted(k)'} = 1 .. Len(handed)
  BY <1>5, <1>6
<1>10. failed' <=> \E k \in DOMAIN sent' : Refused(k)'
  <2>1. failed' <=> \E k \in DOMAIN sent : Refused(k)
    BY <1>7
  <2> QED BY <1>5, <2>1
<1>11. ReadsAll'
  BY <1>8, <1>9, <1>10 DEF ReadsAll
<1> QED BY <1>2, <1>4, <1>11 DEF FramingInv

LEMMA WaitInv == ASSUME FramingInv, Wait PROVE FramingInv'
<1>1. /\ reading /\ Incomplete /\ \A k \in DOMAIN sent : ~Readable(k)
      /\ reading' = FALSE
      /\ UNCHANGED <<sent, arrived, begun, failed, mem, inStart, inEnd, handed>>
  BY DEF Wait
<1>2. failed' = FALSE
  BY <1>1 DEF FramingInv, FramingOK, LoopFlags
<1>3. ~(following \in DOMAIN sent /\ ~TooLong(following) /\ PacketSize(following) <= InUse)
  BY <1>1, ReadIs
<1>4. ~(following \in DOMAIN sent /\ sent[following].line <= InUse /\ TooLong(following))
  BY <1>1, ReadIs
<1> QED BY <1>1, <1>2, <1>3, <1>4, LoopEnds

LEMMA RefuseInv == ASSUME FramingInv, Refuse PROVE FramingInv'
<1>1. /\ reading
      /\ ~Incomplete \/ \E k \in DOMAIN sent : Readable(k) /\ ~Proper(k)
      /\ reading' = FALSE /\ failed' = TRUE
      /\ UNCHANGED <<sent, arrived, begun, mem, inStart, inEnd, handed>>
  BY DEF Refuse
<1>2. following \in DOMAIN sent /\ sent[following].line <= InUse /\ TooLong(following)
  BY <1>1, ReadIs
<1>3. ~(following \in DOMAIN sent /\ ~TooLong(following) /\ PacketSize(following) <= InUse)
  BY <1>2
<1>4. failed' <=> following \in DOMAIN sent /\ sent[following].line <= InUse /\ TooLong(following)
  BY <1>1, <1>2
<1>5. failed' \in BOOLEAN /\ reading
  BY <1>1
<1> HIDE DEF Refuse
<1> QED BY <1>1, <1>3, <1>4, <1>5, LoopEnds

LEMMA ReadPacketInv ==
    ASSUME FramingInv, NEW k \in DOMAIN sent, ReadPacket(k) PROVE FramingInv'
<1> DEFINE l == sent[k].line
           s == sent[k].size
           r == [buf |-> inBuf, from |-> PayloadStart(k), to |-> PayloadEnd(k)]
<1>1. /\ reading /\ Readable(k)
      /\ inStart' = PayloadEnd(k) + TrailerSize /\ handed' = Append(handed, r)
      /\ UNCHANGED <<sent, arrived, begun, failed, reading, mem, inEnd>>
  BY DEF ReadPacket
<1>2. k = following /\ ~TooLong(k) /\ PacketSize(k) <= InUse
  BY <1>1, ReadIs
<1>3. FramingOK /\ UnreadIsNext /\ LoopFlags /\ SentOK /\ inBuf \in Nat \ {0} /\ inBuf \in 1 .. inBuf
      /\ inStart \in Nat /\ inEnd \in Nat /\ InUse = inEnd - inStart
      /\ inEnd <= LengthOf(mem[inBuf]) /\ LengthOf(mem[inBuf]) \in Nat
      /\ arrived \in Nat /\ begun \in BOOLEAN
  BY LastBuffer DEF FramingInv, FramingOK, InUse
<1>4. /\ l \in Nat /\ s \in Nat /\ TrailerSize \in Nat \ {0} /\ PacketSize(k) = l + s + TrailerSize
      /\ k \in 1 .. Len(sent) /\ Len(sent) \in Nat
  <2>1. l \in Nat /\ s \in Nat /\ TrailerSize \in Nat \ {0} /\ k \in 1 .. Len(sent)
    BY <1>3, SizesAre
  <2>2. Len(sent) \in Nat
    BY FollowingIs
  <2> QED BY <2>1, <2>2 DEF PacketSize
<1>5. /\ Len(handed) \in Nat /\ k = Len(handed) + 1 /\ ReadTo = Before(k) /\ ReadTo \in Nat
      /\ ReadTo + InUse = arrived
  BY <1>2, FollowingIs DEF following
<1>6. PayloadStart(k) = inStart + l /\ PayloadEnd(k) = inStart + l + s
  BY DEF PayloadStart, PayloadEnd
<1> HIDE DEF l, s
<1>7. /\ inStart' = inStart + PacketSize(k) /\ inStart' \in Nat /\ inStart' <= inEnd
      /\ PacketSize(k) \in Nat
  BY <1>1, <1>2, <1>3, <1>4, <1>6
<1>8. /\ r \in [buf : Nat, from : Nat, to : Nat]
      /\ r.buf = inBuf /\ r.from = inStart + l /\ r.to = inStart + l + s
  BY <1>3, <1>4, <1>6
<1> HIDE DEF r
<1>9. /\ handed' \in Seq([buf : Nat, from : Nat, to : Nat]) /\ Len(handed') = k
      /\ handed'[k] = r /\ \A i \in 1 .. Len(handed) : handed'[i] = handed[i]
  <2>1. handed \in Seq([buf : Nat, from : Nat, to : Nat])
    BY <1>3 DEF FramingOK
  <2> QED BY <1>1, <1>5, <1>8, <2>1, AppendProperties
<1>10. /\ Stream' = Stream /\ SentOK' /\ inBuf' = inBuf
       /\ \A i : (TooLong(i)' <=> TooLong(i)) /\ Payload(i)' = Payload(i) /\ Before(i)' = Before(i)
  BY <1>1, <1>3, StreamSame DEF inBuf
<1>11. FramingOK'
  BY <1>1, <1>3, <1>7, <1>9, <1>10 DEF FramingOK
<1>12. ReadTo' = ReadTo + PacketSize(k)
  <2>1. ReadTo' = Before(k + 1)
    BY <1>9, <1>10 DEF ReadTo
  <2> QED BY <1>3, <1>5, <2>1, BeforeStep
<1>13. UnreadIsNext'
  <2> DEFINE p == PacketSize(k)
             at == ReadTo
             end == inStart'
  <2>0. /\ p \in Nat /\ at \in Nat /\ end = inStart + p /\ ReadTo' = at + p
        /\ at + (inEnd - inStart) = arrived /\ inStart \in Nat /\ inEnd \in Nat
    BY <1>3, <1>5, <1>7, <1>12
  <2> HIDE DEF p, at, end
  <2>1. ReadTo' + (inEnd - inStart') = arrived
    BY <2>0 DEF end
  <2>2. ASSUME NEW j \in 0 .. inEnd - inStart' - 1
        PROVE  mem[inBuf][inStart' + j] = Stream[ReadTo' + j + 1]
    <3> DEFINE i == p + j
    <3>1. /\ i \in 0 .. inEnd - inStart - 1
          /\ inStart + i = inStart' + j /\ ReadTo + i + 1 = ReadTo' + j + 1
      BY <2>0 DEF end, at
    <3> HIDE DEF i
    <3>2. mem[inBuf][inStart + i] = Stream[ReadTo + i + 1]
      BY <1>3, <3>1 DEF UnreadIsNext
    <3> QED BY <3>1, <3>2
  <2>3. Len(handed') <= Len(sent)
    BY <1>4, <1>9
  <2> QED BY <1>1, <1>10, <2>1, <2>2, <2>3 DEF UnreadIsNext
<1>14. LoopFlags' /\ ReadsAll'
  <2>1. \A i \in 1 .. k : ~TooLong(i)
    <3>1. \A i \in 1 .. k : i = k \/ i \in 1 .. Len(handed)
      BY <1>5
    <3> QED BY <1>2, <1>3, <3>1 DEF LoopFlags
  <2>2. ~failed /\ begun
    BY <1>1, <1>3 DEF LoopFlags
  <2>3. LoopFlags'
    BY <1>1, <1>9, <1>10, <2>1, <2>2 DEF LoopFlags
  <2>4. ReadsAll'
    BY <1>1 DEF ReadsAll
  <2> QED BY <2>3, <2>4
<1>15. ASSUME NEW i \in 1 .. Len(handed') PROVE KeptSlice(i)'
  <2>1. CASE i \in 1 .. Len(handed)
    <3>1. KeptSlice(i) /\ handed'[i] = handed[i]
      BY <1>9, <2>1 DEF FramingInv
    <3> QED BY <1>1, <1>10, <3>1 DEF KeptSlice, Slice
  <2>2. CASE i = k
    <3>1. inStart + l + s <= inEnd
      BY <1>2, <1>3, <1>4
    <3>2. r.buf \in 1 .. inBuf /\ r.to <= LengthOf(mem[r.buf]) /\ (r.buf = inBuf => r.to <= inEnd)
      BY <1>3, <1>4, <1>8, <3>1
    <3>3. Slice(r.buf, r.from, r.to) = Payload(k)
      <4>1. ASSUME NEW m \in 1 .. s PROVE mem[inBuf][inStart + l + m - 1] = <<k, "payload", m>>
        <5>1. l + m <= InUse
          BY <1>2, <1>3, <1>4
        <5> QED BY <1>2, <5>1, FoundAt DEF l, s
      <4>2. Payload(k) = [m \in 1 .. s |-> <<k, "payload", m>>]
        BY DEF Payload, Part, s
      <4> DEFINE from == inStart + l
                 to == inStart + l + s
      <4>3. to - from = s
        BY <1>3, <1>4
      <4>4. \A m \in 1 .. s : mem[inBuf][from + m - 1] = <<k, "payload", m>>
        BY <4>1
      <4>5. r.buf = inBuf /\ r.from = from /\ r.to = to
        BY <1>8
      <4> HIDE DEF from, to
      <4>6. Slice(inBuf, from, to) = [m \in 1 .. to - from |-> mem[inBuf][from + m - 1]]
        BY DEF Slice
      <4>7. Slice(inBuf, from, to) = [m \in 1 .. s |-> <<k, "payload", m>>]
        BY <4>3, <4>4, <4>6
      <4> QED BY <4>2, <4>5, <4>7
    <3> QED BY <1>1, <1>9, <1>10, <2>2, <3>2, <3>3 DEF KeptSlice, Slice
  <2> QED BY <1>5, <1>9, <1>15, <2>1, <2>2
<1> QED BY <1>11, <1>13, <1>14, <1>15 DEF FramingInv

LEMMA FramingStep == FramingInv /\ [FramingNext]_framingVars => FramingInv'
<1> SUFFICES ASSUME FramingInv, [FramingNext]_framingVars PROVE FramingInv'
  OBVIOUS
<1>1. CASE StartReading
  BY <1>1, StartReadingInv
<1>2. CASE \E n \in Pieces : OnBytes(n)
  BY <1>2, OnBytesInv
<1>3. CASE \E k \in DOMAIN sent : ReadPacket(k)
  BY <1>3, ReadPacketInv
<1>4. CASE Wait
  BY <1>4, WaitInv
<1>5. CASE Refuse
  BY <1>5, RefuseInv
<1>6. CASE UNCHANGED framingVars
  <2>1. UNCHANGED <<sent, arrived, begun, failed, reading, mem, inStart, inEnd, handed>>
    BY <1>6 DEF framingVars
  <2>2. begun' \in BOOLEAN /\ failed' \in BOOLEAN /\ reading' \in BOOLEAN
    BY <2>1 DEF FramingInv, FramingOK
  <2>3. FramingOK' /\ UnreadIsNext' /\ \A k \in 1 .. Len(handed') : KeptSlice(k)'
    BY <2>1, <2>2, LoopOnly
  <2>4. \A k : (TooLong(k)' <=> TooLong(k)) /\ Before(k)' = Before(k)
    BY <2>1, StreamSame
  <2>5. \A k : (Accepted(k)' <=> Accepted(k)) /\ (Refused(k)' <=> Refused(k))
    BY <2>1, <2>4 DEF Accepted, Refused
  <2>6. LoopFlags' /\ ReadsAll'
    BY <2>1, <2>4, <2>5 DEF FramingInv, LoopFlags, ReadsAll
  <2> QED BY <2>3, <2>6 DEF FramingInv
<1> QED BY <1>1, <1>2, <1>3, <1>4, <1>5, <1>6 DEF FramingNext

(* The inductive invariant of the framing, in every state.                 *)
THEOREM FramingInvariance == FramingSpec => []FramingInv
<1> QED BY FramingFirst, FramingStep, PTL DEF FramingSpec

(***************************************************************************)
(* In whatever pieces the bytes of any number of packets come in, what is  *)
(* handed on are the payloads that were sent, in their order, and they     *)
(* stay so while the buffer is written to (connection.js:57-71, 131).      *)
(***************************************************************************)
THEOREM AlwaysHandedIsSent == FramingSpec => []HandedIsSent
<1>1. FramingInv => HandedIsSent
  <2> SUFFICES ASSUME FramingInv PROVE HandedIsSent
    OBVIOUS
  <2>1. Len(handed) <= Len(sent) /\ DOMAIN handed = 1 .. Len(handed)
    BY LenProperties DEF FramingInv, FramingOK, UnreadIsNext
  <2>2. \A k \in DOMAIN handed :
           Slice(handed[k].buf, handed[k].from, handed[k].to) = Payload(k)
    BY <2>1 DEF FramingInv, KeptSlice
  <2> QED BY <2>1, <2>2 DEF HandedIsSent
<1> QED BY <1>1, FramingInvariance, PTL

(***************************************************************************)
(* Whenever the loop has ended, every packet that has come in as a whole   *)
(* was handed on, up to the first with too long a payload, and the         *)
(* connection was closed for that one and for no other reason              *)
(* (connection.js:101-134).                                                *)
(***************************************************************************)
THEOREM AlwaysReadsAll == FramingSpec => []ReadsAll
<1>1. FramingInv => ReadsAll
  BY DEF FramingInv
<1> QED BY <1>1, FramingInvariance, PTL
================================================================================
