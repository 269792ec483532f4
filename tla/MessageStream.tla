---------------------------- MODULE MessageStream ----------------------------
(***************************************************************************)
(* What a BEEPish connection promises to the two programs that use it,     *)
(* with no packets, acknowledgements or buffers: every message one side    *)
(* opens is a stream of bytes that the other side sees in order, that ends *)
(* exactly once, and that ends cleanly only when it is complete.           *)
(*                                                                         *)
(* Connection.tla is shown to implement this module.                       *)
(***************************************************************************)
EXTENDS Naturals

CONSTANTS Endpoint,   \* the two ends of the connection
          Peer,       \* Peer[e]: the other end
          Id          \* message numbers of one direction

VARIABLES stream,     \* stream[e][i]: message i that endpoint e sends
          lost,       \* lost[e]: e has been told that the transport is lost
          abused      \* a receiving program has treated a message in a way that
                      \*   may break the connection

vars == <<stream, lost, abused>>

Unsent == [send |-> "idle", sent |-> 0, recv |-> "idle", got |-> 0]

Init ==
    /\ stream = [e \in Endpoint |-> [i \in Id |-> Unsent]]
    /\ lost = [e \in Endpoint |-> FALSE]
    /\ abused = FALSE

(* The sending program opens messages in numerical order.                  *)
Open(e, i) ==
    /\ stream[e][i].send = "idle"
    /\ \A j \in Id : j < i => stream[e][j].send # "idle"
    /\ stream' = [stream EXCEPT ![e][i].send = "open"]
    /\ UNCHANGED <<lost, abused>>

Produce(e, i) ==
    /\ stream[e][i].send = "open"
    /\ stream'[e][i].sent > stream[e][i].sent
    /\ stream' = [stream EXCEPT ![e][i].sent = stream'[e][i].sent]
    /\ UNCHANGED <<lost, abused>>

Finish(e, i) ==
    /\ stream[e][i].send = "open"
    /\ \E how \in {"ok", "err"} : stream' = [stream EXCEPT ![e][i].send = how]
    /\ UNCHANGED <<lost, abused>>

(* The receiving program is told of messages in numerical order.  It may   *)
(* be told of more after the loss when the connection was abused, and such *)
(* messages need never end.                                                *)
Accept(e, i) ==
    /\ ~lost[Peer[e]] \/ abused
    /\ stream[e][i].recv = "idle"
    /\ stream[e][i].send # "idle"
    /\ \A j \in Id : j < i => stream[e][j].recv # "idle"
    /\ stream' = [stream EXCEPT ![e][i].recv = "open"]
    /\ UNCHANGED <<lost, abused>>

Deliver(e, i) ==
    /\ stream[e][i].recv = "open"
    /\ stream'[e][i].got > stream[e][i].got
    /\ stream'[e][i].got <= stream[e][i].sent
    /\ stream' = [stream EXCEPT ![e][i].got = stream'[e][i].got]
    /\ abused' \in {abused, TRUE}
    /\ UNCHANGED lost

(* A message ends for the receiver as it ended for the sender, and only    *)
(* after all of its bytes.                                                 *)
Complete(e, i) ==
    /\ stream[e][i].recv = "open"
    /\ stream[e][i].send \in {"ok", "err"}
    /\ stream[e][i].got = stream[e][i].sent
    /\ stream' = [stream EXCEPT ![e][i].recv = stream[e][i].send]
    /\ UNCHANGED <<lost, abused>>

(* Losing the transport ends, with an error, all the messages an endpoint  *)
(* is receiving.                                                           *)
Lose(r) ==
    /\ ~lost[r]
    /\ lost' = [lost EXCEPT ![r] = TRUE]
    /\ stream' = [e \in Endpoint |->
                    IF Peer[e] = r
                    THEN [i \in Id |-> IF stream[e][i].recv = "open"
                                       THEN [stream[e][i] EXCEPT !.recv = "err"]
                                       ELSE stream[e][i]]
                    ELSE stream[e]]
    /\ UNCHANGED abused

Next ==
    \/ \E e \in Endpoint, i \in Id :
          \/ Open(e, i) \/ Produce(e, i) \/ Finish(e, i)
          \/ Accept(e, i) \/ Deliver(e, i) \/ Complete(e, i)
    \/ \E r \in Endpoint : Lose(r)

Spec == Init /\ [][Next]_vars
=============================================================================
