--------------------------------- MODULE Access ---------------------------------
(***************************************************************************)
(* Who may use an action: tickets, and the table of privileges that a      *)
(* service gets from the action Auth.getAuthzTable and keeps for some      *)
(* minutes (lib/util/ticket.js), asked by staticJsonHandler when a request *)
(* has arrived (lib/actor/service.js).                                     *)
(*                                                                         *)
(* Every request that finds the table too old fetches it for itself; such  *)
(* fetches overlap, and the reply that comes last is the one that is kept. *)
(* Time is counted in seconds, as in a ticket.                             *)
(***************************************************************************)
EXTENDS Integers

CONSTANTS Request,    \* requests
          ActionOf,   \* ActionOf[r]: the action r is for
          Open,       \* the actions whose announcement says 'noauth'
          Signed,     \* the requests whose ticket has a good signature
          From,       \* From[r]: validity_start of the ticket of r
          Length,     \* Length[r]: its validity_length
          PrivsOf,    \* PrivsOf[r]: its privs
          Table,      \* tables the Auth service may have
          Needs,      \* Needs[t][a]: the list of privileges that action a needs
                      \*   by table t; actions that are not configured are not
                      \*   in its domain
          Blank,      \* what JavaScript takes for false in such a list: null, ''
          None,       \* no table
          Validity,   \* how long a table is kept: 300
          MaxFetch,   \* ASSUMED: the longest time that a fetch takes
          MaxTime     \* BOUND: the last moment looked at

ASSUME TableAssumption  == Table # {} /\ None \notin Table
ASSUME TicketAssumption == From \in [Request -> Int] /\ Length \in [Request -> Int]
ASSUME TimeAssumption   == Validity \in Nat /\ MaxFetch \in Nat /\ MaxTime \in Nat

VARIABLES
    now,        \* Date.now()
    current,    \* external: the table the Auth service has
    table,      \* authzTables
    authzTime,  \* authzTime: the last moment at which table is used
    phase,      \* of a request: "arriving", "fetching", or answered: "allowed",
                \*   "denied" (an error), "text" (an error's text as the reply);
                \*   or "thrown": the check ended in an exception
    ticket,     \* does it have a ticket that verify accepted?
    began,      \* when its fetch began
    answer,     \* the table that the Auth service has answered its fetch with
    granted,    \* HISTORY: when it was allowed, and lastHad of the table used
    lastHad     \* HISTORY: when the Auth service last had each table, or -1

tableVars == <<table, authzTime>>
fetchVars == <<began, answer>>
vars == <<now, current, tableVars, phase, ticket, fetchVars, granted, lastHad>>

Init ==
    /\ now = 0
    /\ current \in Table
    /\ table = None /\ authzTime = -1       \* the code has -Infinity
    /\ phase = [r \in Request |-> "arriving"]
    /\ ticket = [r \in Request |-> FALSE]
    /\ began = [r \in Request |-> 0]
    /\ answer = [r \in Request |-> None]
    /\ granted = [r \in Request |-> [at |-> 0, had |-> 0]]
    /\ lastHad = [t \in Table |-> IF t = current THEN 0 ELSE -1]

-------------------------------------------------------------------------------
(* The clock, and the Auth service: external.                              *)

Tick ==
    /\ now < MaxTime
    /\ \A r \in Request : phase[r] = "fetching" => now - began[r] < MaxFetch
    /\ now' = now + 1
    /\ lastHad' = [lastHad EXCEPT ![current] = now + 1]
    /\ UNCHANGED <<current, tableVars, phase, ticket, fetchVars, granted>>

NewTable(t) ==
    /\ t # current
    /\ current' = t
    /\ lastHad' = [lastHad EXCEPT ![t] = now]
    /\ UNCHANGED <<now, tableVars, phase, ticket, fetchVars, granted>>

Serve(r) ==
    /\ phase[r] = "fetching" /\ answer[r] = None
    /\ answer' = [answer EXCEPT ![r] = current]
    /\ UNCHANGED <<now, current, tableVars, phase, ticket, began, granted, lastHad>>

-------------------------------------------------------------------------------
(* verify: the ticket is good now.                                         *)
(* Bug: only its end is looked at.                                         *)
MutantValidAt(r, u) == u < From[r] + Length[r]
ValidAt(r, u) == From[r] <= u /\ u < From[r] + Length[r]

Verified(r) == r \in Signed /\ ValidAt(r, now)

(* What table t allows to a request with or without a ticket.              *)
Configured(r, t) == ActionOf[r] \in DOMAIN Needs[t]

(***************************************************************************)
(* The list is gone through to its end, and only the last of the           *)
(* privileges that the ticket lacks is looked at after that; if it is      *)
(* blank, nothing is missing.                                              *)
(***************************************************************************)
Lacked(r, needs) == {i \in DOMAIN needs : needs[i] \notin PrivsOf[r]}

NothingMissing(r, needs) ==
    \A i \in Lacked(r, needs) :
       (\A j \in Lacked(r, needs) : j <= i) => needs[i] \in Blank

Permits(t, r, hasTicket) ==
    \/ ActionOf[r] \in Open
    \/ hasTicket /\ Configured(r, t) /\ NothingMissing(r, Needs[t][ActionOf[r]])

(***************************************************************************)
(* The second part of checkAccess.  The answers that are possible: any     *)
(* action may be missing in the directory at this moment.                  *)
(***************************************************************************)
Answers(r, t, hasTicket) ==
    {"denied"} \union IF Permits(t, r, hasTicket) THEN {"allowed"} ELSE {}

Decide(r, t, hasTicket) ==
    \E a \in Answers(r, t, hasTicket) :
       /\ phase' = [phase EXCEPT ![r] = a]
       /\ granted' = IF a = "allowed"
                     THEN [granted EXCEPT ![r] = [at |-> now, had |-> lastHad[t]]]
                     ELSE granted

(* Bug: a table, once there, is kept.                                      *)
MutantFresh == table # None
Fresh == now <= authzTime

(* The request has arrived: verify, then checkAccess.                      *)
RequestEnd(r) ==
    /\ phase[r] = "arriving"
    /\ ticket' = [ticket EXCEPT ![r] = Verified(r)]
    /\ IF Fresh
       THEN Decide(r, table, Verified(r)) /\ UNCHANGED began
       ELSE /\ phase' = [phase EXCEPT ![r] = "fetching"]
            /\ began' = [began EXCEPT ![r] = now]
            /\ UNCHANGED granted
    /\ UNCHANGED <<now, current, tableVars, answer, lastHad>>

(* The table arrives, is kept, and decides this request.                   *)
Fetched(r) ==
    /\ phase[r] = "fetching" /\ answer[r] # None
    /\ table' = answer[r]
    /\ authzTime' = now + Validity
    /\ Decide(r, answer[r], ticket[r])
    /\ answer' = [answer EXCEPT ![r] = None]
    /\ UNCHANGED <<now, current, ticket, began, lastHad>>

(***************************************************************************)
(* The fetch fails: makeJsonRequest gives checkAccess a string, not an     *)
(* Error, and return_handler replies with it as with a result.  What       *)
(* arrives is an object, but not a table: an Error is replied.             *)
(***************************************************************************)
FetchFails(r) ==
    /\ phase[r] = "fetching"
    /\ \E p \in {"text", "denied"} : phase' = [phase EXCEPT ![r] = p]
    /\ answer' = [answer EXCEPT ![r] = None]
    /\ UNCHANGED <<now, current, tableVars, ticket, began, granted, lastHad>>

(***************************************************************************)
(* The reply is null, which has no keys to look at (ticket.js:60): the     *)
(* exception goes up to the event loop, and neither cb nor return_handler  *)
(* is called.  The process ends, unless the program catches what nobody    *)
(* else does; then the rest goes on, and this request is never answered.   *)
(***************************************************************************)
FetchThrows(r) ==
    /\ phase[r] = "fetching"
    /\ phase' = [phase EXCEPT ![r] = "thrown"]
    /\ answer' = [answer EXCEPT ![r] = None]
    /\ UNCHANGED <<now, current, tableVars, ticket, began, granted, lastHad>>

-------------------------------------------------------------------------------
Next ==
    \/ Tick
    \/ \E t \in Table : NewTable(t)
    \/ \E r \in Request :
          \/ Serve(r) \/ RequestEnd(r) \/ Fetched(r)
          \/ FetchFails(r) \/ FetchThrows(r)

Spec == Init /\ [][Next]_vars

-------------------------------------------------------------------------------
(* Properties                                                              *)

(* Every variable keeps its type.                                          *)
TypeOK ==
    /\ now \in 0 .. MaxTime
    /\ current \in Table
    /\ table \in Table \union {None}
    /\ authzTime \in -1 .. MaxTime + Validity
    /\ phase \in [Request -> {"arriving", "fetching", "allowed", "denied", "text", "thrown"}]
    /\ ticket \in [Request -> BOOLEAN]
    /\ began \in [Request -> 0 .. MaxTime]
    /\ answer \in [Request -> Table \union {None}]
    /\ granted \in [Request -> [at : 0 .. MaxTime, had : -1 .. MaxTime]]
    /\ lastHad \in [Table -> -1 .. MaxTime]

(***************************************************************************)
(* A privilege that is withdrawn is of no use for longer than a table is   *)
(* kept and a fetch takes, however fetches overlap: what allowed a request *)
(* is a table that the Auth service still had at most that long before     *)
(* (ticket.js:53-69).                                                      *)
(***************************************************************************)
WithdrawnInTime ==
    \A r \in Request :
       phase[r] = "allowed" => granted[r].at - granted[r].had <= Validity + MaxFetch

(***************************************************************************)
(* An action that is not open is allowed only to a ticket that was signed  *)
(* and good not longer ago than a fetch takes: it is verified before the   *)
(* fetch and not again (service.js:262-264, ticket.js:97-107).             *)
(***************************************************************************)
TicketWasGood ==
    \A r \in Request : phase[r] = "allowed" /\ ActionOf[r] \notin Open =>
       /\ r \in Signed
       /\ From[r] <= granted[r].at
       /\ granted[r].at < From[r] + Length[r] + MaxFetch
=============================================================================
