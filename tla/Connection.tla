------------------------------ MODULE Connection ------------------------------
(***************************************************************************)
(* The BEEPish protocol engine, lib/transport/beepish/connection.js, at    *)
(* both ends of one TCP/TLS connection, with the streams of                *)
(* lib/handle/Message.js it carries.                                       *)
(*                                                                         *)
(* Each end multiplexes numbered messages over one byte stream.  A message *)
(* is a HEADER packet, DATA packets and a closing EOF or TXERR; received   *)
(* data is acknowledged cumulatively with ACK, and a sender pauses its     *)
(* source while MaxFlow or more bytes are unacknowledged.                  *)
(*                                                                         *)
(* A packet is handled in one step: _readPackets handles what has arrived  *)
(* in a loop without yielding, so its runs are the ones in which the       *)
(* handlers of one end follow each other.  Payload bytes are represented   *)
(* by their offsets [lo, hi) in the message's body.                        *)
(***************************************************************************)
EXTENDS Integers, Sequences

CONSTANTS MaxFlow,    \* flow.max_inflight: unacknowledged bytes that pause a sender
          MaxPacket,  \* bytes of one DATA packet (131072 in the code)
          Writes,     \* sizes of the buffers a program writes to a message
          Consumers,  \* how a program may treat a buffer it is given
          Quota,      \* BOUND: number of messages each end sends
          MaxBody     \* BOUND: bytes in the body of a message

Endpoint == {"client", "server"}

(***************************************************************************)
(* A consumer may take a buffer as it comes ("flow"), pause the message    *)
(* until later ("pause"), or pause and resume it again before its data     *)
(* callback returns ("bounce").                                            *)
(***************************************************************************)
ASSUME MaxFlowAssumption   == MaxFlow \in Nat \ {0}
ASSUME MaxPacketAssumption == MaxPacket \in Nat \ {0}
ASSUME WritesAssumption    == Writes \subseteq Nat \ {0}
ASSUME ConsumersAssumption == Consumers \subseteq {"flow", "pause", "bounce"}
ASSUME QuotaAssumption     == Quota \in [Endpoint -> Nat]
ASSUME MaxBodyAssumption   == MaxBody \in Nat

VARIABLES
    started,    \* _started: the end has flushed its output and reads packets
    closed,     \* _closed: _onerror has run
    up,         \* the transport still carries bytes
    outBuf,     \* outBuf[e]: packets e holds until it starts (_outBuf)
    net,        \* net[e]: packets on their way to e, and e's unread input (_inBuf)
    nextOut,    \* _nextOutgoingID
    nextIn,     \* _nextIncomingID
    out,        \* out[e][i]: the message e sends as number i, and its _outgoing record
    in,         \* in[e][i]: the message e receives as number i, and its _incoming record
    bounced     \* HISTORY: the <<e, i>> of incoming messages that were bounced

vars == <<started, closed, up, outBuf, net, nextOut, nextIn, out, in, bounced>>

Peer == [e \in Endpoint |-> IF e = "client" THEN "server" ELSE "client"]

Id == UNION {0 .. Quota[e] - 1 : e \in Endpoint}

-------------------------------------------------------------------------------
(* Packets and message records.  Definitions named Mutant... are bugs the  *)
(* properties are tested against; nothing uses them.                       *)

Packet(cmd, i, lo, hi) == [cmd |-> cmd, id |-> i, lo |-> lo, hi |-> hi]

Header(i)       == Packet("HEADER", i, 0, 0)
Data(i, lo, hi) == Packet("DATA", i, lo, hi)
Eof(i)          == Packet("EOF", i, 0, 0)
TxErr(i)        == Packet("TXERR", i, 0, 0)
Ack(i, n)       == Packet("ACK", i, 0, n)

(***************************************************************************)
(* The `info' records of _outgoing and _incoming, and the parts of their   *)
(* Message that matter: its pause flag, and how it ended.  The code drops  *)
(* the records of ended messages from its tables but the listeners of the  *)
(* message keep them; a message is in the table while its state is "open". *)
(***************************************************************************)
NewOut == [state |-> "open", sent |-> 0, acked |-> 0, paused |-> FALSE]
NewIn  == [state |-> "open", received |-> 0, acked |-> 0, paused |-> FALSE]

IdleOut == [NewOut EXCEPT !.state = "idle"]
IdleIn  == [NewIn EXCEPT !.state = "idle"]

(* Bug: every piece is cut from the start of the buffer.                   *)
MutantSlices(i, lo, n) ==
    [k \in 1 .. (n + MaxPacket - 1) \div MaxPacket |->
        Data(i, lo, lo + (IF n < MaxPacket THEN n ELSE MaxPacket))]

(* The DATA packets for n bytes at offset lo: pieces of MaxPacket bytes.   *)
Slices(i, lo, n) ==
    [k \in 1 .. (n + MaxPacket - 1) \div MaxPacket |->
        Data(i, lo + (k - 1) * MaxPacket,
                lo + (IF k * MaxPacket < n THEN k * MaxPacket ELSE n))]

(* Too many bytes in flight: the sender's source is paused.                *)
WindowFull(o) == o.sent - o.acked >= MaxFlow

(* The sender's record after it wrote n bytes, and after an ACK for n.     *)
AfterWrite(o, n) ==
    [o EXCEPT !.sent = @ + n, !.paused = @ \/ WindowFull([o EXCEPT !.sent = @ + n])]

(* Bug: any ACK wakes the sender.                                          *)
MutantAfterAck(o, n) == [o EXCEPT !.acked = n, !.paused = FALSE]

AfterAck(o, n) ==
    [o EXCEPT !.acked = n, !.paused = @ /\ WindowFull([o EXCEPT !.acked = n])]

(***************************************************************************)
(* _sendPacket, for a sequence of packets that endpoint e sends one after  *)
(* the other, when the wires are w: nothing once closed, into the output   *)
(* buffer before start, else onto the wire while the socket is writable.   *)
(***************************************************************************)
Transmit(e, packets, w) ==
    /\ outBuf' = IF closed[e] \/ started[e] THEN outBuf
                 ELSE [outBuf EXCEPT ![e] = @ \o packets]
    /\ net' = IF closed[e] \/ ~started[e] \/ ~up THEN w
              ELSE [w EXCEPT ![Peer[e]] = @ \o packets]

-------------------------------------------------------------------------------
Init ==
    /\ started = [e \in Endpoint |-> FALSE]
    /\ closed  = [e \in Endpoint |-> FALSE]
    /\ up      = TRUE
    /\ outBuf  = [e \in Endpoint |-> <<>>]
    /\ net     = [e \in Endpoint |-> <<>>]
    /\ nextOut = [e \in Endpoint |-> 0]
    /\ nextIn  = [e \in Endpoint |-> 0]
    /\ out     = [e \in Endpoint |-> [i \in Id |-> IdleOut]]
    /\ in      = [e \in Endpoint |-> [i \in Id |-> IdleIn]]
    /\ bounced = {}

(***************************************************************************)
(* The program's side.                                                     *)
(***************************************************************************)

(* start: what was sent so far leaves as one write.  The programs call it  *)
(* when the TLS connection is made, never on a closed one.                 *)
Start(e) ==
    /\ ~started[e] /\ ~closed[e]
    /\ started' = [started EXCEPT ![e] = TRUE]
    /\ net' = IF up THEN [net EXCEPT ![Peer[e]] = @ \o outBuf[e]] ELSE net
    /\ outBuf' = [outBuf EXCEPT ![e] = <<>>]
    /\ UNCHANGED <<closed, up, nextOut, nextIn, out, in, bounced>>

(* sendMessage; it does not look at _closed.                               *)
SendMessage(e) ==
    /\ nextOut[e] < Quota[e]
    /\ nextOut' = [nextOut EXCEPT ![e] = @ + 1]
    /\ out' = [out EXCEPT ![e][nextOut[e]] = NewOut]
    /\ Transmit(e, <<Header(nextOut[e])>>, net)
    /\ UNCHANGED <<started, closed, up, nextIn, in, bounced>>

(***************************************************************************)
(* The message's source writes n bytes: the 'data' listener of             *)
(* sendMessage.  Sources (DripSource, a pipe) do not write while the       *)
(* message is paused.                                                      *)
(***************************************************************************)
Write(e, i, n) ==
    /\ out[e][i].state = "open"
    /\ ~out[e][i].paused
    /\ out[e][i].sent + n <= MaxBody
    /\ out' = [out EXCEPT ![e][i] = AfterWrite(@, n)]
    /\ Transmit(e, Slices(i, out[e][i].sent, n), net)
    /\ UNCHANGED <<started, closed, up, nextOut, nextIn, in, bounced>>

(* The message ends at its source, well or with an error: the 'end'        *)
(* listener of sendMessage.  A pipe passes 'end' on to a paused message.   *)
End(e, i, how) ==
    /\ out[e][i].state = "open"
    /\ out' = [out EXCEPT ![e][i].state = how]
    /\ Transmit(e, <<IF how = "ok" THEN Eof(i) ELSE TxErr(i)>>, net)
    /\ UNCHANGED <<started, closed, up, nextOut, nextIn, in, bounced>>

(* Bug: draining acknowledges nothing.                                     *)
MutantSilentDrain(i, m) == <<>>

(* What the 'drain' listener of an incoming message acknowledges.          *)
DrainAcks(i, m) == IF m.received # m.acked THEN <<Ack(i, m.received)>> ELSE <<>>

(* The consumer that paused an incoming message calls resume; the message  *)
(* may have ended meanwhile.                                               *)
Resume(e, i) ==
    /\ in[e][i].paused
    /\ in' = [in EXCEPT ![e][i].paused = FALSE, ![e][i].acked = in[e][i].received]
    /\ Transmit(e, DrainAcks(i, in[e][i]), net)
    /\ UNCHANGED <<started, closed, up, nextOut, nextIn, out, bounced>>

-------------------------------------------------------------------------------
(***************************************************************************)
(* Packet handlers.  Reads(e, cmd) holds when the next packet e handles is *)
(* a cmd; Consumed(e) is the wires without it.  A closed end still handles *)
(* what was in its input buffer when a packet before it was refused.       *)
(***************************************************************************)
Reads(e, cmd) == started[e] /\ net[e] # <<>> /\ Head(net[e]).cmd = cmd

Consumed(e) == [net EXCEPT ![e] = Tail(@)]

(* The packets a handler answers with _onerror.                            *)
OutOfSequence(e, p) == p.cmd = "HEADER" /\ p.id # nextIn[e]

NoActiveMessage(e, p) == p.cmd \in {"DATA", "EOF", "TXERR"} /\ in[e][p.id].state # "open"

(* What an end is sending has an entry in _outgoing until it closes.       *)
Outgoing(e, i) == out[e][i].state = "open" /\ ~closed[e]

BadAck(e, p) ==
    /\ p.cmd = "ACK"
    /\ Outgoing(e, p.id)
    /\ p.hi <= out[e][p.id].acked \/ p.hi > out[e][p.id].sent

Malformed(e, p) == OutOfSequence(e, p) \/ NoActiveMessage(e, p) \/ BadAck(e, p)

OnHeader(e) ==
    /\ Reads(e, "HEADER")
    /\ ~Malformed(e, Head(net[e]))
    /\ nextIn' = [nextIn EXCEPT ![e] = @ + 1]
    /\ in' = [in EXCEPT ![e][Head(net[e]).id] = NewIn]
    /\ net' = Consumed(e)
    /\ UNCHANGED <<started, closed, up, outBuf, nextOut, out, bounced>>

(***************************************************************************)
(* What the consumer of an incoming message makes of n more bytes: the     *)
(* record after the write and the acknowledgements sent during it.  When   *)
(* the consumer resumes inside its callback the 'drain' listener           *)
(* acknowledges the bytes before the DATA handler does so again.           *)
(***************************************************************************)
Written(m, n, how) ==
    LET r == [m EXCEPT !.received = @ + n]
    IN  CASE how = "flow"   -> IF m.paused THEN r ELSE [r EXCEPT !.acked = @ + n]
          [] how = "pause"  -> [r EXCEPT !.paused = TRUE]
          [] how = "bounce" -> [r EXCEPT !.paused = FALSE, !.acked = r.received + n]

(* Bug: data is acknowledged though its consumer has paused the message.   *)
MutantAcksWritten(i, m, n, how) == <<Ack(i, m.received + n)>>

AcksWritten(i, m, n, how) ==
    CASE how = "flow"   -> IF m.paused THEN <<>> ELSE <<Ack(i, m.acked + n)>>
      [] how = "pause"  -> <<>>
      [] how = "bounce" -> <<Ack(i, m.received + n), Ack(i, m.received + n + n)>>

OnData(e, how) ==
    /\ Reads(e, "DATA")
    /\ LET p == Head(net[e])
           m == in[e][p.id]
           n == p.hi - p.lo
       IN  /\ ~Malformed(e, p)
           /\ in' = [in EXCEPT ![e][p.id] = Written(m, n, how)]
           /\ Transmit(e, AcksWritten(p.id, m, n, how), Consumed(e))
           /\ bounced' = IF how = "bounce" THEN bounced \union {<<e, p.id>>} ELSE bounced
    /\ UNCHANGED <<started, closed, up, nextOut, nextIn, out>>

OnEof(e) ==
    /\ Reads(e, "EOF")
    /\ ~Malformed(e, Head(net[e]))
    /\ in' = [in EXCEPT ![e][Head(net[e]).id].state = "ok"]
    /\ net' = Consumed(e)
    /\ UNCHANGED <<started, closed, up, outBuf, nextOut, nextIn, out, bounced>>

(* An error text is a String(Error) (service.js:242) and never the text    *)
(* '0', which the handler refuses: that branch is a Close of this end with *)
(* the packet unread, and a message that ends so is not in the model.      *)
OnTxErr(e) ==
    /\ Reads(e, "TXERR")
    /\ ~Malformed(e, Head(net[e]))
    /\ in' = [in EXCEPT ![e][Head(net[e]).id].state = "err"]
    /\ net' = Consumed(e)
    /\ UNCHANGED <<started, closed, up, outBuf, nextOut, nextIn, out, bounced>>

(* An ACK for a message that is no longer in _outgoing is not an error.    *)
OnAck(e) ==
    /\ Reads(e, "ACK")
    /\ LET p == Head(net[e])
       IN  /\ ~Malformed(e, p)
           /\ out' = IF Outgoing(e, p.id)
                     THEN [out EXCEPT ![e][p.id] = AfterAck(@, p.hi)] ELSE out
    /\ net' = Consumed(e)
    /\ UNCHANGED <<started, closed, up, outBuf, nextOut, nextIn, in, bounced>>

-------------------------------------------------------------------------------
(***************************************************************************)
(* _onerror: destroys the socket, with all that it had not read but rest,  *)
(* and ends with an error every message that is still arriving.            *)
(***************************************************************************)
MutantForgotten(m) == m
MutantCleanAbort(m) == IF m.state = "open" THEN [m EXCEPT !.state = "ok"] ELSE m
Aborted(m) == IF m.state = "open" THEN [m EXCEPT !.state = "err"] ELSE m

Shut(e, rest) ==
    /\ ~closed[e]
    /\ closed' = [closed EXCEPT ![e] = TRUE]
    /\ up' = FALSE
    /\ net' = [net EXCEPT ![e] = rest]
    /\ in' = [in EXCEPT ![e] = [i \in Id |-> Aborted(in[e][i])]]

(* The packets of net[e] after the first, as far as they are in _inBuf.    *)
Buffered(e) == {SubSeq(net[e], 2, k) : k \in 1 .. Len(net[e])}

(***************************************************************************)
(* A handler refuses a packet.  _readPackets goes on with the next one in  *)
(* its buffer all the same; on an end that is closed _onerror does         *)
(* nothing.                                                                *)
(***************************************************************************)
ProtocolError(e) ==
    /\ started[e] /\ net[e] # <<>> /\ Malformed(e, Head(net[e]))
    /\ nextIn' = IF Head(net[e]).cmd = "HEADER" THEN [nextIn EXCEPT ![e] = @ + 1] ELSE nextIn
    /\ \/ \E rest \in Buffered(e) : Shut(e, rest)
       \/ closed[e] /\ net' = Consumed(e) /\ UNCHANGED <<closed, up, in>>
    /\ UNCHANGED <<started, outBuf, nextOut, out, bounced>>

(* close, the 'timeout' event, or an expired heartbeat: any time.          *)
Close(e) == Shut(e, <<>>) /\ UNCHANGED <<started, outBuf, nextOut, nextIn, out, bounced>>

(* The 'end' or 'error' event of a socket whose other end is gone.         *)
TransportLost(e) == ~up /\ Close(e)

(* EXTERNAL: the network breaks the TCP connection.                        *)
Disconnect ==
    /\ up
    /\ up' = FALSE
    /\ UNCHANGED <<started, closed, outBuf, net, nextOut, nextIn, out, in, bounced>>

-------------------------------------------------------------------------------
Handle(e) ==
    \/ OnHeader(e)
    \/ \E how \in Consumers : OnData(e, how)
    \/ OnEof(e)
    \/ OnTxErr(e)
    \/ OnAck(e)
    \/ ProtocolError(e)

Next ==
    \/ \E e \in Endpoint :
          \/ Start(e)
          \/ SendMessage(e)
          \/ \E i \in Id, n \in Writes : Write(e, i, n)
          \/ \E i \in Id, how \in {"ok", "err"} : End(e, i, how)
          \/ \E i \in Id : Resume(e, i)
          \/ Handle(e)
          \/ Close(e)
          \/ TransportLost(e)
    \/ Disconnect

(***************************************************************************)
(* The event loop runs: a connection that was made is started, what has    *)
(* arrived is handled, and a socket whose other end is gone says so.  A    *)
(* consumer that paused a message resumes it.  Nothing makes a program     *)
(* write or end a message, or makes a connection close.                    *)
(***************************************************************************)
Fairness ==
    \A e \in Endpoint :
       /\ WF_vars(Start(e))
       /\ WF_vars(Handle(e))
       /\ WF_vars(TransportLost(e))
       /\ \A i \in Id : WF_vars(Resume(e, i))

Spec == Init /\ [][Next]_vars

FairSpec == Spec /\ Fairness

-------------------------------------------------------------------------------
(* Properties                                                              *)

PacketSet ==
    [cmd : {"HEADER", "DATA", "EOF", "TXERR", "ACK"}, id : Id, lo : Nat, hi : Nat]

States == {"idle", "open", "ok", "err"}

(* Every variable keeps its type.                                          *)
TypeOK ==
    /\ started \in [Endpoint -> BOOLEAN]
    /\ closed \in [Endpoint -> BOOLEAN]
    /\ up \in BOOLEAN
    /\ outBuf \in [Endpoint -> Seq(PacketSet)]
    /\ net \in [Endpoint -> Seq(PacketSet)]
    /\ nextOut \in [Endpoint -> Nat]
    /\ nextIn \in [Endpoint -> Nat]
    /\ out \in [Endpoint -> [Id ->
          [state : States, sent : Nat, acked : Nat, paused : BOOLEAN]]]
    /\ in \in [Endpoint -> [Id ->
          [state : States, received : Nat, acked : Nat, paused : BOOLEAN]]]
    /\ bounced \subseteq Endpoint \X Id

(***************************************************************************)
(* Two ends that both run this code never see a packet the protocol        *)
(* forbids: no header out of sequence, no data or end for a message that   *)
(* is not open, no ACK that is stale or ahead (the _onerror branches of    *)
(* the packet handlers, connection.js:170-250), whatever is in flight when *)
(* messages end, consumers pause and connections close.  The one exception *)
(* is an ACK of a message whose consumer bounced it.                       *)
(***************************************************************************)
NoProtocolError ==
    \A e \in Endpoint :
       started[e] /\ ~closed[e] /\ net[e] # <<>> /\ Malformed(e, Head(net[e]))
          => Head(net[e]).cmd = "ACK" /\ <<Peer[e], Head(net[e]).id>> \in bounced

(***************************************************************************)
(* The counts of the flow control never overtake each other: what the      *)
(* sender believes acknowledged was acknowledged, what is acknowledged was *)
(* received, what was received was sent.  And they count the same bytes:   *)
(* the next one handed to the consumer is the one after the last it was    *)
(* given, across slicing and the output buffer (connection.js:41-46,       *)
(* 198-203, 291-297).  Only the acknowledgements of a message that its     *)
(* consumer bounced may run ahead of its bytes.                            *)
(***************************************************************************)
AckChain ==
    \A e \in Endpoint, i \in Id :
       LET o == out[e][i]
           m == in[Peer[e]][i]
           p == Head(net[Peer[e]])
       IN  /\ m.received <= o.sent
           /\ <<Peer[e], i>> \notin bounced => o.acked <= m.acked /\ m.acked <= m.received
           /\ Reads(Peer[e], "DATA") /\ p.id = i /\ m.state = "open" => p.lo = m.received /\ p.hi > p.lo

(***************************************************************************)
(* An open message is paused exactly while its window is full, so the      *)
(* bytes in flight stay below MaxFlow plus one write (maxflow,             *)
(* connection.js:4, 297-299, 247-249).                                     *)
(***************************************************************************)
PausedIffFull ==
    \A e \in Endpoint, i \in Id :
       out[e][i].state = "open" => (out[e][i].paused <=> WindowFull(out[e][i]))

(***************************************************************************)
(* A paused sender can count on being woken: while the transport is up     *)
(* there is data of the message still to be received, an acknowledgement   *)
(* on its way back, or a consumer that holds the message paused.           *)
(***************************************************************************)
Carries(packets, cmd, i) == \E k \in DOMAIN packets : packets[k].cmd = cmd /\ packets[k].id = i

WakeupComing ==
    \A e \in Endpoint, i \in Id :
       up /\ out[e][i].state = "open" /\ out[e][i].paused =>
          \/ Carries(outBuf[e] \o net[Peer[e]], "DATA", i)
          \/ Carries(outBuf[Peer[e]] \o net[e], "ACK", i)
          \/ in[Peer[e]][i].paused

(***************************************************************************)
(* The connection implements the streams of MessageStream: bytes in order, *)
(* one end per message, a clean end only after the sender's clean end and  *)
(* all of its bytes; and no message after the loss, unless a program has   *)
(* bounced one.                                                            *)
(***************************************************************************)
StreamOf(e, i) ==
    [send |-> out[e][i].state, sent |-> out[e][i].sent,
     recv |-> in[Peer[e]][i].state, got |-> in[Peer[e]][i].received]

AllStreams == [e \in Endpoint |-> [i \in Id |-> StreamOf(e, i)]]

Streams ==
    INSTANCE MessageStream WITH
        stream <- AllStreams,
        lost   <- closed,
        abused <- bounced # {}

ImplementsStreams == Streams!Spec

(* A message that its sender ended ends for its receiver.                  *)
EndArrives ==
    \A e \in Endpoint, i \in Id :
       in[Peer[e]][i].state = "open" /\ out[e][i].state # "open"
          ~> in[Peer[e]][i].state # "open"

(* A paused sender is woken, unless its message or its connection ends.    *)
SenderWakes ==
    \A e \in Endpoint, i \in Id :
       out[e][i].paused ~> (~out[e][i].paused \/ out[e][i].state # "open" \/ closed[e])
=============================================================================
