------------------------------ MODULE AccessProofs ------------------------------
(***************************************************************************)
(* Proofs about Access, for any requests, tables and times.                *)
(*                                                                         *)
(* The age of a table is bounded because each fetch is: what it is         *)
(* answered with the Auth service had after the fetch began (AnswerYoung), *)
(* so that however fetches overlap, the table that is kept may be used no  *)
(* longer than Validity and one fetch after the Auth service last had it   *)
(* (TableYoung).                                                           *)
(***************************************************************************)
EXTENDS Access, TLAPS

Fetching(r) == phase[r] = "fetching"

(* A fetch has not lasted too long; its ticket was good when it began.     *)
FetchShort == \A r \in Request : Fetching(r) => began[r] <= now /\ now - began[r] <= MaxFetch

FetchTicket == \A r \in Request : Fetching(r) /\ ticket[r] => r \in Signed /\ ValidAt(r, began[r])

LastHadPast == lastHad[current] = now /\ \A t \in Table : lastHad[t] <= now

AnswerYoung == \A r \in Request : answer[r] # None => Fetching(r) /\ began[r] <= lastHad[answer[r]]

TableYoung ==
    IF table = None THEN authzTime = -1
    ELSE authzTime <= lastHad[table] + Validity + MaxFetch

IInv ==
    /\ TypeOK /\ WithdrawnInTime /\ TicketWasGood
    /\ FetchShort /\ FetchTicket /\ LastHadPast /\ AnswerYoung /\ TableYoung

-------------------------------------------------------------------------------
(* In the initial states nothing is fetched or allowed.                    *)
LEMMA InvInit == Init => IInv
<1> SUFFICES ASSUME Init PROVE IInv
  OBVIOUS
<1> USE TableAssumption, TimeAssumption DEF Init
<1>1. TypeOK
  BY DEF TypeOK
<1>2. WithdrawnInTime /\ TicketWasGood
  BY DEF WithdrawnInTime, TicketWasGood
<1>3. FetchShort /\ FetchTicket /\ AnswerYoung
  BY DEF FetchShort, FetchTicket, AnswerYoung, Fetching
<1>4. LastHadPast /\ TableYoung
  BY DEF LastHadPast, TableYoung
<1> QED BY <1>1, <1>2, <1>3, <1>4 DEF IInv

-------------------------------------------------------------------------------
(* Time passes only while no fetch has lasted too long.                    *)
LEMMA TickInv == IInv /\ Tick => IInv'
<1> SUFFICES ASSUME IInv, Tick PROVE IInv'
  OBVIOUS
<1> USE TableAssumption, TimeAssumption, TicketAssumption DEF IInv, Tick, tableVars, fetchVars
<1>1. TypeOK'
  BY DEF TypeOK
<1>2. (WithdrawnInTime /\ TicketWasGood)'
  BY DEF WithdrawnInTime, TicketWasGood
<1>3. FetchShort'
  BY DEF FetchShort, Fetching, TypeOK
<1>4. FetchTicket'
  BY DEF FetchTicket, Fetching, ValidAt
<1>5. LastHadPast'
  BY DEF LastHadPast, TypeOK
<1>6. \A t \in Table : lastHad[t] <= lastHad'[t]
  BY DEF LastHadPast, TypeOK
<1>7. AnswerYoung'
  BY <1>6 DEF AnswerYoung, Fetching, TypeOK
<1>8. TableYoung'
  BY <1>6 DEF TableYoung, TypeOK
<1> QED BY <1>1, <1>2, <1>3, <1>4, <1>5, <1>7, <1>8 DEF IInv

(* The Auth service gets another table.                                    *)
LEMMA NewTableInv == ASSUME NEW t \in Table, IInv, NewTable(t) PROVE IInv'
<1> USE TableAssumption, TimeAssumption, TicketAssumption DEF IInv, NewTable, tableVars, fetchVars
<1>1. TypeOK'
  BY DEF TypeOK
<1>2. (WithdrawnInTime /\ TicketWasGood)'
  BY DEF WithdrawnInTime, TicketWasGood
<1>3. (FetchShort /\ FetchTicket)'
  BY DEF FetchShort, FetchTicket, Fetching, ValidAt
<1>5. LastHadPast'
  BY DEF LastHadPast, TypeOK
<1>6. \A u \in Table : lastHad[u] <= lastHad'[u]
  BY DEF LastHadPast, TypeOK
<1>7. AnswerYoung'
  BY <1>6 DEF AnswerYoung, Fetching, TypeOK
<1>8. TableYoung'
  BY <1>6 DEF TableYoung, TypeOK
<1> QED BY <1>1, <1>2, <1>3, <1>5, <1>7, <1>8 DEF IInv

(* It answers a fetch with the table that it has now.                      *)
LEMMA ServeInv == ASSUME NEW r \in Request, IInv, Serve(r) PROVE IInv'
<1> USE TableAssumption, TimeAssumption, TicketAssumption DEF IInv, Serve, tableVars
<1>1. TypeOK'
  BY DEF TypeOK
<1>2. (WithdrawnInTime /\ TicketWasGood)'
  BY DEF WithdrawnInTime, TicketWasGood
<1>3. (FetchShort /\ FetchTicket /\ LastHadPast /\ TableYoung)'
  BY DEF FetchShort, FetchTicket, Fetching, ValidAt, LastHadPast, TableYoung
<1>4. began[r] <= lastHad[current]
  BY DEF FetchShort, Fetching, LastHadPast
<1>5. AnswerYoung'
  BY <1>4 DEF AnswerYoung, Fetching, TypeOK
<1> QED BY <1>1, <1>2, <1>3, <1>5 DEF IInv

-------------------------------------------------------------------------------
(* A decision by a table that is young enough, for a ticket that was good  *)
(* not too long ago, allows nothing wrong.                                 *)
LEMMA DecideRight ==
    ASSUME NEW r \in Request, NEW t \in Table, NEW ok \in BOOLEAN, IInv,
           Decide(r, t, ok), ticket' = [ticket EXCEPT ![r] = ok], UNCHANGED lastHad,
           now - lastHad[t] <= Validity + MaxFetch,
           ok => r \in Signed /\ From[r] <= now /\ now < From[r] + Length[r] + MaxFetch
    PROVE  /\ phase' \in [Request -> {"arriving", "fetching", "allowed", "denied", "text", "thrown"}]
           /\ granted' \in [Request -> [at : 0 .. MaxTime, had : -1 .. MaxTime]]
           /\ (WithdrawnInTime /\ TicketWasGood)'
           /\ ~Fetching(r)' /\ \A s \in Request \ {r} : phase'[s] = phase[s]
<1>1. PICK a \in Answers(r, t, ok) :
        /\ phase' = [phase EXCEPT ![r] = a]
        /\ granted' = IF a = "allowed"
                      THEN [granted EXCEPT ![r] = [at |-> now, had |-> lastHad[t]]]
                      ELSE granted
  BY DEF Decide
<1>2. a \in {"allowed", "denied"} /\ (a = "allowed" => Permits(t, r, ok))
  BY DEF Answers
<1>3. phase' \in [Request -> {"arriving", "fetching", "allowed", "denied", "text", "thrown"}]
  BY <1>1, <1>2 DEF IInv, TypeOK
<1>4. granted' \in [Request -> [at : 0 .. MaxTime, had : -1 .. MaxTime]]
  BY <1>1 DEF IInv, TypeOK
<1>5. phase'[r] = a /\ \A s \in Request \ {r} : phase'[s] = phase[s] /\ granted'[s] = granted[s]
  BY <1>1 DEF IInv, TypeOK
<1>6. a = "allowed" => granted'[r] = [at |-> now, had |-> lastHad[t]]
  BY <1>1 DEF IInv, TypeOK
<1>7. WithdrawnInTime'
  BY <1>5, <1>6 DEF IInv, WithdrawnInTime
<1>8. a = "allowed" /\ ActionOf[r] \notin Open => ok
  BY <1>2 DEF Permits
<1>9. TicketWasGood'
  BY <1>5, <1>6, <1>8 DEF IInv, TicketWasGood
<1> QED BY <1>2, <1>3, <1>4, <1>5, <1>7, <1>9 DEF Fetching

(* A request arrives.                                                      *)
LEMMA RequestEndInv == ASSUME NEW r \in Request, IInv, RequestEnd(r) PROVE IInv'
<1> USE TableAssumption, TimeAssumption, TicketAssumption
<1> DEFINE ok == Verified(r)
<1>0. ok \in BOOLEAN /\ (ok => r \in Signed /\ ValidAt(r, now))
  BY DEF Verified, ValidAt
<1>1. /\ ticket' = [ticket EXCEPT ![r] = ok] /\ phase[r] = "arriving"
      /\ UNCHANGED <<now, current, table, authzTime, answer, lastHad>>
  BY DEF RequestEnd, tableVars
<1>2. (LastHadPast /\ TableYoung)'
  BY <1>1 DEF IInv, LastHadPast, TableYoung
<1>3. ticket' \in [Request -> BOOLEAN]
  BY <1>0, <1>1 DEF IInv, TypeOK
<1>4. \A s \in Request \ {r} : ticket'[s] = ticket[s]
  BY <1>1 DEF IInv, TypeOK
<1>5. answer[r] = None
  BY <1>1 DEF IInv, AnswerYoung, Fetching
<1> HIDE DEF ok
<1>6. CASE Fresh
  <2>1. Decide(r, table, ok) /\ UNCHANGED began
    BY <1>6 DEF RequestEnd, ok
  <2>2. table \in Table /\ now <= authzTime
    BY <1>6 DEF Fresh, IInv, TypeOK, TableYoung
  <2>3. now - lastHad[table] <= Validity + MaxFetch
    BY <2>2 DEF IInv, TypeOK, TableYoung
  <2>4. ok => r \in Signed /\ From[r] <= now /\ now < From[r] + Length[r] + MaxFetch
    BY <1>0 DEF ValidAt, IInv, TypeOK
  <2>5. /\ phase' \in [Request -> {"arriving", "fetching", "allowed", "denied", "text", "thrown"}]
        /\ granted' \in [Request -> [at : 0 .. MaxTime, had : -1 .. MaxTime]]
        /\ (WithdrawnInTime /\ TicketWasGood)'
        /\ ~Fetching(r)' /\ \A s \in Request \ {r} : phase'[s] = phase[s]
    BY <1>0, <1>1, <2>1, <2>2, <2>3, <2>4, DecideRight
  <2>6. TypeOK'
    BY <1>1, <1>3, <2>1, <2>5 DEF IInv, TypeOK
  <2>7. (FetchShort /\ FetchTicket)'
    BY <1>1, <1>4, <2>1, <2>5 DEF IInv, FetchShort, FetchTicket, Fetching, ValidAt
  <2>8. AnswerYoung'
    BY <1>1, <1>5, <2>1, <2>5 DEF IInv, AnswerYoung, Fetching
  <2> QED BY <1>2, <2>5, <2>6, <2>7, <2>8 DEF IInv
<1>7. CASE ~Fresh
  <2>1. /\ phase' = [phase EXCEPT ![r] = "fetching"]
        /\ began' = [began EXCEPT ![r] = now] /\ UNCHANGED granted
    BY <1>7 DEF RequestEnd
  <2>2. TypeOK'
    BY <1>1, <1>3, <2>1 DEF IInv, TypeOK
  <2>3. /\ phase'[r] = "fetching" /\ began'[r] = now /\ ticket'[r] = ok
        /\ \A s \in Request \ {r} : phase'[s] = phase[s] /\ began'[s] = began[s]
    BY <1>1, <2>1 DEF IInv, TypeOK
  <2>4. (WithdrawnInTime /\ TicketWasGood)'
    BY <2>1, <2>3 DEF IInv, WithdrawnInTime, TicketWasGood
  <2>5. FetchShort'
    BY <1>1, <2>3 DEF IInv, TypeOK, FetchShort, Fetching
  <2>6. FetchTicket'
    BY <1>0, <1>4, <2>3 DEF IInv, FetchTicket, Fetching, ValidAt
  <2>7. AnswerYoung'
    BY <1>1, <1>5, <2>3 DEF IInv, AnswerYoung, Fetching
  <2> QED BY <1>2, <2>2, <2>4, <2>5, <2>6, <2>7 DEF IInv
<1> QED BY <1>6, <1>7

(* A table arrives.                                                        *)
LEMMA FetchedInv == ASSUME NEW r \in Request, IInv, Fetched(r) PROVE IInv'
<1> USE TableAssumption, TimeAssumption, TicketAssumption
<1> DEFINE t == answer[r]
           ok == ticket[r]
<1>1. /\ Fetching(r) /\ t \in Table /\ ok \in BOOLEAN
      /\ table' = t /\ authzTime' = now + Validity
      /\ answer' = [answer EXCEPT ![r] = None] /\ Decide(r, t, ok)
      /\ UNCHANGED <<now, current, ticket, began, lastHad>>
  BY DEF Fetched, Fetching, IInv, TypeOK
<1>2. /\ began[r] <= lastHad[t] /\ began[r] <= now /\ now - began[r] <= MaxFetch
      /\ (ok => r \in Signed /\ ValidAt(r, began[r]))
  BY <1>1 DEF IInv, AnswerYoung, FetchShort, FetchTicket, Fetched
<1>3. /\ now \in 0 .. MaxTime /\ began[r] \in 0 .. MaxTime /\ lastHad[t] \in -1 .. MaxTime
  BY <1>1 DEF IInv, TypeOK
<1>4. ticket' = [ticket EXCEPT ![r] = ok]
  BY <1>1 DEF IInv, TypeOK
<1> HIDE DEF t, ok
<1>5. now - lastHad[t] <= Validity + MaxFetch /\ now <= lastHad[t] + MaxFetch
  BY <1>2, <1>3
<1>6. ok => r \in Signed /\ From[r] <= now /\ now < From[r] + Length[r] + MaxFetch
  BY <1>2, <1>3 DEF ValidAt
<1>7. /\ phase' \in [Request -> {"arriving", "fetching", "allowed", "denied", "text", "thrown"}]
      /\ granted' \in [Request -> [at : 0 .. MaxTime, had : -1 .. MaxTime]]
      /\ (WithdrawnInTime /\ TicketWasGood)'
      /\ ~Fetching(r)' /\ \A s \in Request \ {r} : phase'[s] = phase[s]
  BY <1>1, <1>4, <1>5, <1>6, DecideRight
<1>8. TypeOK'
  <2>1. answer' \in [Request -> Table \union {None}]
    BY <1>1 DEF IInv, TypeOK
  <2>2. table' \in Table \union {None} /\ authzTime' \in -1 .. MaxTime + Validity
    BY <1>1, <1>3
  <2> QED BY <1>1, <1>7, <2>1, <2>2 DEF IInv, TypeOK
<1>9. (FetchShort /\ FetchTicket /\ LastHadPast)'
  BY <1>1, <1>7 DEF IInv, FetchShort, FetchTicket, LastHadPast, Fetching, ValidAt
<1>10. AnswerYoung'
  BY <1>1, <1>7 DEF IInv, TypeOK, AnswerYoung, Fetching
<1>11. TableYoung'
  BY <1>1, <1>3, <1>5 DEF TableYoung
<1> QED BY <1>7, <1>8, <1>9, <1>10, <1>11 DEF IInv

(* A fetch fails, or what arrives is not a table.                          *)
LEMMA FetchFailsInv ==
    ASSUME NEW r \in Request, IInv, FetchFails(r) \/ FetchThrows(r)
    PROVE  IInv'
<1> USE TableAssumption, TimeAssumption, TicketAssumption
<1>1. PICK p \in {"text", "denied", "thrown"} : phase' = [phase EXCEPT ![r] = p]
  BY DEF FetchFails, FetchThrows
<1>2. /\ answer' = [answer EXCEPT ![r] = None]
      /\ UNCHANGED <<now, current, table, authzTime, ticket, began, granted, lastHad>>
  BY DEF FetchFails, FetchThrows, tableVars
<1>3. TypeOK'
  BY <1>1, <1>2 DEF IInv, TypeOK
<1>4. phase'[r] = p /\ \A s \in Request \ {r} : phase'[s] = phase[s]
  BY <1>1 DEF IInv, TypeOK
<1>5. (WithdrawnInTime /\ TicketWasGood)'
  BY <1>2, <1>4 DEF IInv, WithdrawnInTime, TicketWasGood
<1>6. (FetchShort /\ FetchTicket)'
  BY <1>2, <1>4 DEF IInv, FetchShort, FetchTicket, Fetching, ValidAt
<1>7. (LastHadPast /\ TableYoung)'
  BY <1>2 DEF IInv, LastHadPast, TableYoung
<1>8. AnswerYoung'
  BY <1>2, <1>4 DEF IInv, TypeOK, AnswerYoung, Fetching
<1> QED BY <1>3, <1>5, <1>6, <1>7, <1>8 DEF IInv

(* Nothing happens.                                                        *)
LEMMA StutterInv == IInv /\ UNCHANGED vars => IInv'
BY DEF IInv, vars, tableVars, fetchVars, TypeOK, WithdrawnInTime, TicketWasGood, FetchShort,
       FetchTicket, LastHadPast, AnswerYoung, TableYoung, Fetching, ValidAt

-------------------------------------------------------------------------------
(* The invariant of the specification from which the theorems follow.      *)
THEOREM Invariance == Spec => []IInv
<1>1. IInv /\ [Next]_vars => IInv'
  BY TickInv, NewTableInv, ServeInv, RequestEndInv, FetchedInv, FetchFailsInv, StutterInv
     DEF Next
<1> QED BY InvInit, <1>1, PTL DEF Spec

(* The variables keep their types.                                         *)
THEOREM TypeCorrect == Spec => []TypeOK
<1>1. IInv => TypeOK
  BY DEF IInv
<1> QED BY Invariance, <1>1, PTL

(* What allowed a request the Auth service still had not longer before     *)
(* than a table is kept and a fetch takes (ticket.js:53-69).               *)
THEOREM AlwaysWithdrawnInTime == Spec => []WithdrawnInTime
<1>1. IInv => WithdrawnInTime
  BY DEF IInv
<1> QED BY Invariance, <1>1, PTL

(* An action that is not open is allowed only to a ticket that was good    *)
(* when the check began (service.js:262-264).                              *)
THEOREM TicketAlwaysWasGood == Spec => []TicketWasGood
<1>1. IInv => TicketWasGood
  BY DEF IInv
<1> QED BY Invariance, <1>1, PTL
=============================================================================
