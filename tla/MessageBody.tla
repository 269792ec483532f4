----------------------------- MODULE MessageBody -----------------------------
(***************************************************************************)
(* A message whose body is a buffer: lib/util/DripSource.js piped into a   *)
(* Message that is sent over a Connection.                                 *)
(*                                                                         *)
(* Connection takes for granted that whoever writes a message does not     *)
(* write while it is paused.  This module replaces the writer of the       *)
(* client's first message by the one the code has, and shows that it obeys *)
(* and that the whole body arrives.                                        *)
(***************************************************************************)
EXTENDS Connection

CONSTANTS Chunk,      \* bytes a DripSource gives at a time (1024 and 16384 in the code)
          BodySize    \* BOUND: bytes in the buffer

(* A program may write what a DripSource writes.                           *)
ASSUME ChunkAssumption == Chunk \in Nat \ {0} /\ 1 .. Chunk \subseteq Writes
ASSUME BodySizeAssumption == BodySize \in 0 .. MaxBody
ASSUME FeederAssumption == Quota["client"] > 0

VARIABLES
    drip,       \* the body is a buffer; otherwise a program writes and ends the message
    offset,     \* _offset
    spent,      \* _data is null
    held,       \* _paused
    starts,     \* the calls of start() that process.nextTick still has to make
    dripping    \* a start() is running

sourceVars == <<drip, offset, spent, held, starts, dripping>>
bodyVars   == <<vars, sourceVars>>

(* The message that the source is piped into.                              *)
Message == out["client"][0]

BodyInit ==
    /\ Init
    /\ drip \in BOOLEAN
    /\ offset = 0 /\ spent = FALSE
    /\ held = FALSE
    /\ starts = 0 /\ dripping = FALSE

-------------------------------------------------------------------------------
(* Definitions named Mutant... are bugs the properties are tested against; *)
(* nothing uses them.                                                      *)

(* The message is handed to sendMessage, and its body to slurp.            *)
Send ==
    /\ SendMessage("client")
    /\ nextOut["client"] = 0
    /\ starts' = IF drip THEN 1 ELSE 0
    /\ UNCHANGED <<drip, offset, spent, held, dripping>>

(* start: its loop runs until the source is paused or spent.               *)
StartDrip ==
    /\ starts > 0
    /\ ~dripping
    /\ starts' = starts - 1
    /\ dripping' = (~held /\ ~spent)
    /\ UNCHANGED <<vars, drip, offset, spent, held>>

(* pipe pauses its source when write returns false: the message is paused. *)
MutantPausedBy(o) == FALSE
PausedBy(o) == o.paused

(* One turn of the loop: a piece of the buffer.                            *)
Quantity == IF BodySize - offset < Chunk THEN BodySize - offset ELSE Chunk

Give ==
    /\ dripping
    /\ offset < BodySize
    /\ Write("client", 0, Quantity)
    /\ offset' = offset + Quantity
    /\ held' = PausedBy(Message')
    /\ dripping' = ~held'
    /\ UNCHANGED <<drip, spent, starts>>

(* The last turn of the loop: pipe ends the message.                       *)
Finish ==
    /\ dripping
    /\ offset = BodySize
    /\ End("client", 0, "ok")
    /\ spent' = TRUE
    /\ dripping' = FALSE
    /\ UNCHANGED <<drip, offset, held, starts>>

(* Bug: a source that is resumed does not go on.                           *)
MutantStartsAfterResume == starts
StartsAfterResume == starts + 1

(* A message that is resumed emits 'drain', and pipe resumes the source.   *)
Drain ==
    IF Message.paused /\ ~Message'.paused /\ held
    THEN held' = FALSE /\ starts' = StartsAfterResume /\ UNCHANGED <<drip, offset, spent, dripping>>
    ELSE UNCHANGED sourceVars

(* A program of its own that writes and ends the message.                  *)
ProgramWrites ==
    /\ ~drip
    /\ \/ \E n \in Writes : Write("client", 0, n)
       \/ \E how \in {"ok", "err"} : End("client", 0, how)
    /\ UNCHANGED sourceVars

(***************************************************************************)
(* Everything else goes on as before, but not in the process of the client *)
(* while a start() runs there.                                             *)
(***************************************************************************)
Elsewhere(e) ==
    /\ e = "client" => ~dripping
    /\ \/ Start(e) \/ Handle(e) \/ Close(e) \/ TransportLost(e)
       \/ \E i \in Id : Resume(e, i)
    /\ Drain

BodyNext ==
    \/ Send \/ StartDrip \/ Give \/ Finish \/ ProgramWrites
    \/ \E e \in Endpoint : Elsewhere(e)
    \/ Disconnect /\ UNCHANGED sourceVars

(* A start() that runs goes on, and nextTick makes its calls.              *)
BodyFairness ==
    /\ Fairness
    /\ WF_bodyVars(StartDrip)
    /\ WF_bodyVars(Give \/ Finish)

BodySpec == BodyInit /\ [][BodyNext]_bodyVars /\ BodyFairness

-------------------------------------------------------------------------------
(***************************************************************************)
(* What Connection assumes of a writer: a source that is about to give or  *)
(* to end finds its message open and not paused, however often pause and   *)
(* resume have made nextTick call start() (DripSource.js:26-52).           *)
(***************************************************************************)
SourceObeys ==
    /\ dripping => ~held /\ ~Message.paused /\ Message.state = "open"
    /\ drip => offset = Message.sent

(***************************************************************************)
(* The body of a message that is sent arrives as a whole, and nothing else *)
(* does, unless the connection is lost: no pause is forgotten and no end   *)
(* comes early on the way from the buffer to the receiving consumer.       *)
(***************************************************************************)
Arrived(m) == m.state = "ok" /\ m.received = BodySize

BodyArrives ==
    drip /\ Message.state # "idle"
       ~> Arrived(in["server"][0]) \/ closed["client"] \/ closed["server"]
=============================================================================
