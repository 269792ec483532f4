---------------------------- MODULE MCMessageBody ----------------------------
(* One message of the client, from a buffer or from a program.             *)
EXTENDS MessageBody

(* How many messages each end sends.                                       *)
OneNone == [e \in Endpoint |-> IF e = "client" THEN 1 ELSE 0]
=============================================================================
