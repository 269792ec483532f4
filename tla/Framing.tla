-------------------------------- MODULE Framing --------------------------------
(***************************************************************************)
(* How an end of a BEEPish connection finds the packets in the bytes it    *)
(* receives: _ondata and _readPackets of lib/transport/beepish/            *)
(* connection.js.                                                          *)
(*                                                                         *)
(* A packet is a header line, a payload of the length the line gives, and  *)
(* a trailer.  TCP hands the bytes over in pieces of any size.  They are   *)
(* collected in a buffer, which is replaced by a larger one when it is     *)
(* full.  A payload is handed on as a slice of the buffer, without a copy, *)
(* and may be kept by its consumer for as long as it likes.                *)
(*                                                                         *)
(* A byte is represented by where it belongs: the number of its packet,    *)
(* the part of it, and its place in that part.                             *)
(*                                                                         *)
(* The theorems are in ConnectionProofs, which extends Connection too.     *)
(***************************************************************************)
EXTENDS Integers, Sequences, SequencesExt

CONSTANTS Lines,        \* the lengths of header lines
          HeaderLimit,  \* the longest header line that is read (40)
          Sizes,        \* the lengths of payloads that are sent
          MaxPayload,   \* the longest payload that is read (131072)
          TrailerSize,  \* the length of END\r\n (5)
          FirstBuf,     \* the length of the first buffer (256)
          SmallBuf,     \* what is shorter gets a buffer of FirstBuf (128)
          Pieces,       \* BOUND: how many bytes come in at once
          MaxPackets    \* BOUND: how many packets are sent

ASSUME LinesAssumption == HeaderLimit \in Nat \ {0} /\ Lines \subseteq 1 .. HeaderLimit
ASSUME SizesAssumption == Sizes \subseteq Nat
ASSUME LimitsAssumption == MaxPayload \in Nat /\ TrailerSize \in Nat \ {0}
ASSUME BufAssumption == FirstBuf \in Nat /\ SmallBuf \in 0 .. FirstBuf + 1
ASSUME BoundsAssumption == Pieces \subseteq Nat \ {0} /\ MaxPackets \in Nat

VARIABLES
    sent,       \* EXTERNAL: the packets the other end sends
    arrived,    \* how many of their bytes have come in
    begun,      \* _started
    failed,     \* _closed: a packet was refused
    reading,    \* _readPackets is running
    mem,        \* the buffers there have been, each from its byte 0 on; _inBuf is the last
    inStart,    \* _inStart: the first byte of _inBuf that is not read yet
    inEnd,      \* _inEnd: the first byte of _inBuf that is free
    handed      \* what the packet handlers were given: slices of the buffers

framingVars == <<sent, arrived, begun, failed, reading, mem, inStart, inEnd, handed>>

Zero == <<0, "zero", 0>>

Part(k, name, n) == [i \in 1 .. n |-> <<k, name, i>>]

Line(k) == Part(k, "line", sent[k].line)
Payload(k) == Part(k, "payload", sent[k].size)
Trailer(k) == Part(k, "trailer", TrailerSize)

(* _sendPacket: the bytes of all packets.                                  *)
Stream == FlattenSeq([k \in DOMAIN sent |-> Line(k) \o Payload(k) \o Trailer(k)])

(* Buffer.alloc, buf.copy and buf.slice                                    *)
Alloc(n) == [i \in 0 .. n - 1 |-> Zero]

Copied(bytes, target, at) ==
    [i \in DOMAIN target |->
        IF i >= at /\ i < at + Len(bytes) THEN bytes[i - at + 1] ELSE target[i]]

Slice(b, from, to) == [i \in 1 .. to - from |-> mem[b][from + i - 1]]

inBuf == Len(mem)

Size(b) == Cardinality(DOMAIN mem[b])

Least(a, b) == IF a <= b THEN a ELSE b

FramingInit ==
    /\ sent \in UNION {[1 .. n -> [line : Lines, size : Sizes]] : n \in 0 .. MaxPackets}
    /\ arrived = 0
    /\ begun = FALSE /\ failed = FALSE /\ reading = FALSE
    /\ mem = <<Alloc(FirstBuf)>>
    /\ inStart = 0 /\ inEnd = 0
    /\ handed = <<>>

-------------------------------------------------------------------------------
StartReading ==
    /\ ~begun /\ ~failed
    /\ begun' = TRUE
    /\ reading' = TRUE
    /\ UNCHANGED <<sent, arrived, failed, mem, inStart, inEnd, handed>>

(***************************************************************************)
(* _ondata: the buffers, and the part of the last one that is in use, once *)
(* there is room for n more bytes.  Definitions named Mutant... are bugs   *)
(* the properties are tested against; nothing uses them.                   *)
(***************************************************************************)
Unread == Slice(inBuf, inStart, inEnd)

Larger(n) == Alloc(IF Len(Unread) + n < SmallBuf THEN FirstBuf ELSE (Len(Unread) + n) * 2)

(* Bug: a buffer that has been read completely is used again.              *)
MutantRoom(n) ==
    IF inStart = inEnd /\ n <= Size(inBuf) THEN [mem |-> mem, start |-> 0, end |-> 0]
    ELSE [mem |-> Append(mem, Copied(Unread, Larger(n), 0)), start |-> 0, end |-> Len(Unread)]

Room(n) ==
    IF n + inEnd <= Size(inBuf) THEN [mem |-> mem, start |-> inStart, end |-> inEnd]
    ELSE [mem |-> Append(mem, Copied(Unread, Larger(n), 0)), start |-> 0, end |-> Len(Unread)]

OnBytes(n) ==
    /\ ~failed /\ ~reading
    /\ arrived + n <= Len(Stream)
    /\ LET room == Room(n)
           b == Len(room.mem)
       IN  /\ mem' = [room.mem EXCEPT ![b] =
                        Copied(SubSeq(Stream, arrived + 1, arrived + n), @, room.end)]
           /\ inStart' = room.start
           /\ inEnd' = room.end + n
    /\ arrived' = arrived + n
    /\ reading' = begun
    /\ UNCHANGED <<sent, begun, failed, handed>>

-------------------------------------------------------------------------------
(* _readPackets: what the loop finds at the place where it reads on.       *)

Newlines == {<<k, "line", sent[k].line>> : k \in DOMAIN sent}
            \union {<<k, "trailer", TrailerSize>> : k \in DOMAIN sent}

Cuts == {j \in inStart .. Least(inStart + HeaderLimit, inEnd) - 1 : mem[inBuf][j] \in Newlines}

HeaderLine == Slice(inBuf, inStart, (CHOOSE j \in Cuts : \A i \in Cuts : j <= i) + 1)

(* The packets whose header line this is.                                  *)
Match == {k \in DOMAIN sent : Line(k) = HeaderLine}

PayloadStart(k) == inStart + sent[k].line
PayloadEnd(k)   == PayloadStart(k) + sent[k].size

Incomplete == IF Cuts = {} THEN inEnd - inStart < HeaderLimit
              ELSE \E k \in Match : sent[k].size <= MaxPayload

(* Bug: a packet that is complete waits for one more byte.                 *)
MutantWhole(k) == PayloadEnd(k) + TrailerSize < inEnd
Whole(k) == PayloadEnd(k) + TrailerSize <= inEnd

Readable(k) == Cuts # {} /\ k \in Match /\ sent[k].size <= MaxPayload /\ Whole(k)

Proper(k) == Slice(inBuf, PayloadEnd(k), PayloadEnd(k) + TrailerSize) = Trailer(k)

(* A packet is handed on; its handler is in Connection.                    *)
ReadPacket(k) ==
    /\ reading
    /\ Readable(k) /\ Proper(k)
    /\ inStart' = PayloadEnd(k) + TrailerSize
    /\ handed' = Append(handed, [buf |-> inBuf, from |-> PayloadStart(k), to |-> PayloadEnd(k)])
    /\ UNCHANGED <<sent, arrived, begun, failed, reading, mem, inEnd>>

(* The bytes end in the middle of a packet.                                *)
Wait ==
    /\ reading
    /\ Incomplete
    /\ \A k \in DOMAIN sent : ~Readable(k)
    /\ reading' = FALSE
    /\ UNCHANGED <<sent, arrived, begun, failed, mem, inStart, inEnd, handed>>

(* A header line that is too long or malformed, a payload that is too      *)
(* long, a trailer that is none: _onerror.                                 *)
Refuse ==
    /\ reading
    /\ ~Incomplete \/ \E k \in DOMAIN sent : Readable(k) /\ ~Proper(k)
    /\ failed' = TRUE
    /\ reading' = FALSE
    /\ UNCHANGED <<sent, arrived, begun, mem, inStart, inEnd, handed>>

FramingNext ==
    \/ StartReading
    \/ \E n \in Pieces : OnBytes(n)
    \/ \E k \in DOMAIN sent : ReadPacket(k)
    \/ Wait
    \/ Refuse

FramingSpec == FramingInit /\ [][FramingNext]_framingVars

-------------------------------------------------------------------------------
(* Properties                                                              *)

(***************************************************************************)
(* The payloads that were handed on are the payloads that were sent, in    *)
(* the same order, in whatever pieces they came in; and they stay what     *)
(* they are while a consumer keeps them, though they are part of a buffer  *)
(* that is still written to (connection.js:57-71, 131).                    *)
(***************************************************************************)
HandedIsSent ==
    /\ Len(handed) <= Len(sent)
    /\ \A k \in DOMAIN handed : Slice(handed[k].buf, handed[k].from, handed[k].to) = Payload(k)

(***************************************************************************)
(* Whenever an end that has started waits for bytes, every packet that has *)
(* come in as a whole is handled, up to the first with too long a payload, *)
(* which is refused as soon as its header line has come in, and nothing    *)
(* else is (connection.js:101-134).                                        *)
(***************************************************************************)
TooLong(k) == sent[k].size > MaxPayload

Before(k) == Len(FlattenSeq([j \in 1 .. k - 1 |-> Line(j) \o Payload(j) \o Trailer(j)]))

Accepted(k) ==
    /\ \A j \in 1 .. k : ~TooLong(j)
    /\ Before(k) + sent[k].line + sent[k].size + TrailerSize <= arrived

Refused(k) ==
    /\ TooLong(k) /\ \A j \in 1 .. k - 1 : ~TooLong(j)
    /\ Before(k) + sent[k].line <= arrived

ReadsAll ==
    begun /\ ~reading =>
       /\ Len(handed) = Cardinality({k \in DOMAIN sent : Accepted(k)})
       /\ failed <=> \E k \in DOMAIN sent : Refused(k)
=============================================================================
