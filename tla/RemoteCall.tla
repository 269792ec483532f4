------------------------------ MODULE RemoteCall ------------------------------
(***************************************************************************)
(* What Requester.makeRequest promises its caller: the callback of a       *)
(* request runs at most once, the action runs at most once however often   *)
(* the request is dispatched, and a reply means that it ran.               *)
(*                                                                         *)
(* Rpc.tla is shown to implement this module.                              *)
(***************************************************************************)
EXTENDS Naturals

CONSTANT Request

VARIABLES outcome,    \* outcome[r]: "idle", "waiting", or what the callback was given
          runs        \* runs[r]: how often the action of r ran at a service

vars == <<outcome, runs>>

Init == outcome = [r \in Request |-> "idle"] /\ runs = [r \in Request |-> 0]

(* A request that cannot be dispatched at all is answered at once.         *)
Call(r) ==
    /\ outcome[r] = "idle"
    /\ \E o \in {"waiting", "error"} : outcome' = [outcome EXCEPT ![r] = o]
    /\ UNCHANGED runs

(* The action may run, and even after the caller gave up.                  *)
Run(r) ==
    /\ outcome[r] # "idle"
    /\ runs[r] = 0
    /\ runs' = [runs EXCEPT ![r] = 1]
    /\ UNCHANGED outcome

Reply(r) ==
    /\ outcome[r] = "waiting"
    /\ runs[r] = 1
    /\ outcome' = [outcome EXCEPT ![r] = "reply"]
    /\ UNCHANGED runs

Fail(r) ==
    /\ outcome[r] = "waiting"
    /\ outcome' = [outcome EXCEPT ![r] = "error"]
    /\ UNCHANGED runs

Next == \E r \in Request : Call(r) \/ Run(r) \/ Reply(r) \/ Fail(r)

Spec == Init /\ [][Next]_vars
=============================================================================
