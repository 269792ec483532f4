-------------------------- MODULE CacheManagerProofs --------------------------
(***************************************************************************)
(* Proofs about CacheManager, for any workers, intervals and ages.         *)
(*                                                                         *)
(* A worker stays listed because of an account of time: what its timeout   *)
(* has run down is at most the time since its last announcement and one    *)
(* interval for each announcement missed (Elapsed), and two intervals are  *)
(* less than the timeout.  The file stays fresh because its age and what   *)
(* is left until the next write or touch add up to a constant (AgeKept).   *)
(* A wrong listing is always about to be corrected because no process has  *)
(* accepted anything newer than what a worker now announces (NothingNewer).*)
(***************************************************************************)
EXTENDS CacheManager, TLAPS

Parameters ==
    /\ Interval \in Nat \ {0} /\ Ttl \in Nat /\ 2 * Interval < Ttl
    /\ Grace \in Nat \ {0} /\ MaxAge \in Nat \ {0}
    /\ Undefined \notin Listing
    /\ MaxVersion \in [Worker -> Nat]

(* A manager that does not run remembers nothing.                          *)
Memoryless ==
    ~running => /\ seen = Nothing /\ bag = Nothing /\ contents = Undefined
                /\ hold = Off /\ touchIn = Off

(* The contents that CacheFile was given are those of the bag.             *)
ContentsAreBag == IF contents = Undefined THEN bag = Nothing ELSE contents = bag

BagIsSeen == \A w \in Worker : bag[w] \in {0, seen[w]}

AgeKept ==
    /\ hold # Off => age + hold <= FreshLimit + Grace
    /\ touchIn # Off => age + touchIn <= Half

(* What is in the air was announced in this tick.                          *)
AirIsNew == \A w \in Worker : (\E v \in Nat : <<w, v>> \in air) => since[w] = 0

SinceBound == \A w \in up : since[w] <= Interval

Elapsed ==
    \A w \in up : bag[w] # 0 =>
       /\ missed[w] = 0 => Ttl <= left[w] + since[w]
       /\ missed[w] = 1 => Ttl <= left[w] + since[w] + Interval
       /\ missed[w] = 2 => Ttl <= left[w] + since[w] + 2 * Interval

HeardIsHeld == \A w \in up : seen[w] # 0 /\ Heard(w) => bag[w] # 0

IInv ==
    /\ TypeOK /\ Memoryless /\ ContentsAreBag /\ FileIsBag /\ BagIsSeen
    /\ AgeKept /\ AirIsNew /\ SinceBound /\ Elapsed /\ HeardIsHeld

LEMMA ParametersHold == Parameters
BY IntervalAssumption, TtlAssumption, GraceAssumption, MaxAgeAssumption,
   UndefinedAssumption, BoundsAssumption DEF Parameters, Listing

(* The limits are below the age at which readers refuse the file.          *)
LEMMA Limits == /\ FreshLimit \in Int /\ FreshLimit + Grace <= MaxAge
                /\ Half \in Nat /\ Half <= MaxAge
BY ParametersHold, SMTT(30) DEF Parameters, FreshLimit, Half

-------------------------------------------------------------------------------
(* In the initial states there are no workers and no manager.              *)
LEMMA InvInit == Init => IInv
<1> SUFFICES ASSUME Init PROVE IInv
  OBVIOUS
<1> USE ParametersHold DEF Init, Nothing, Parameters, Off
<1>0. Nothing \in Listing /\ missed \in [Worker -> 0 .. 3]
  BY DEF Listing
<1>1. TypeOK
  <2>1. hold \in Nat \union {Off} /\ touchIn \in Nat \union {Off} /\ age \in Nat
    OBVIOUS
  <2> HIDE DEF Nothing, Off
  <2> QED BY <1>0, <2>1 DEF TypeOK
<1>2. Memoryless /\ ContentsAreBag /\ FileIsBag /\ BagIsSeen
  BY DEF Memoryless, ContentsAreBag, FileIsBag, BagIsSeen
<1>3. AgeKept /\ AirIsNew /\ SinceBound /\ Elapsed /\ HeardIsHeld
  BY DEF AgeKept, AirIsNew, SinceBound, Elapsed, HeardIsHeld
<1> QED BY <1>1, <1>2, <1>3 DEF IInv

-------------------------------------------------------------------------------
(* update, called with a bag that is new to it.                            *)
LEMMA UpdateKeeps ==
    ASSUME IInv, NEW c \in Listing, c # bag, bag' = c, Update(c), hold' = hold, running
    PROVE  /\ contents' = c /\ contents' \in Listing \union {Undefined}
           /\ file' \in Listing /\ age' \in Nat /\ touchIn' \in Nat \union {Off}
           /\ ContentsAreBag' /\ FileIsBag' /\ AgeKept'
<1> USE ParametersHold, Limits DEF IInv, Parameters
<1>1. contents # c \/ contents = Undefined
  BY DEF ContentsAreBag
<1>2. ~Same(c)
  BY <1>1 DEF Same
<1>3. contents' = c /\ IF hold # Off THEN UNCHANGED <<touchIn, diskVars>> ELSE Write(c)
  BY <1>2 DEF Update
<1>4. ContentsAreBag'
  BY <1>3 DEF ContentsAreBag
<1>5. FileIsBag'
  BY <1>3 DEF FileIsBag, Write
<1>6. /\ file' \in Listing /\ age' \in Nat /\ touchIn' \in Nat \union {Off}
      /\ AgeKept'
  BY <1>3 DEF Write, diskVars, TypeOK, AgeKept
<1> QED BY <1>3, <1>4, <1>5, <1>6

(* A worker announces itself again.                                        *)
LEMMA AnnounceInv == ASSUME NEW w \in Worker, IInv, Announce(w) PROVE IInv'
<1> USE ParametersHold DEF IInv, Announce, workerVars, bagVars, timerVars, diskVars, Parameters
<1>1. missed' = [missed EXCEPT ![w] = IF missed[w] < 3 THEN missed[w] + 1 ELSE 3]
  BY DEF OneMoreMissed
<1>2. TypeOK'
  <2>1. air' \subseteq Worker \X Nat
    BY DEF TypeOK, Listing
  <2>2. missed' \in [Worker -> 0 .. 3] /\ since' \in Listing
    BY <1>1 DEF TypeOK, Listing
  <2> QED BY <2>1, <2>2 DEF TypeOK
<1>3. (Memoryless /\ ContentsAreBag /\ FileIsBag /\ BagIsSeen /\ AgeKept)'
  BY DEF Memoryless, ContentsAreBag, FileIsBag, BagIsSeen, AgeKept
<1>4. (AirIsNew /\ SinceBound)'
  BY DEF AirIsNew, SinceBound, TypeOK, Listing
<1>5. Elapsed'
  BY <1>1 DEF Elapsed, TypeOK, Listing
<1>6. HeardIsHeld'
  BY <1>1 DEF HeardIsHeld, Heard, TypeOK, Listing
<1> QED BY <1>2, <1>3, <1>4, <1>5, <1>6

(* A worker starts, or announces something else.                           *)
LEMMA RenewInv == ASSUME NEW w \in Worker, IInv, Renew(w) PROVE IInv'
<1> USE ParametersHold DEF IInv, Renew, bagVars, timerVars, diskVars, Parameters
<1>1. missed' = [missed EXCEPT ![w] = IF w \in up /\ missed[w] < 3 THEN missed[w] + 1 ELSE 3]
  BY DEF OneMoreMissed
<1>2. TypeOK'
  <2>1. ver' \in Listing /\ air' \subseteq Worker \X Nat
    BY DEF TypeOK, Listing
  <2>2. missed' \in [Worker -> 0 .. 3] /\ since' \in Listing /\ up' \subseteq Worker
    BY <1>1 DEF TypeOK, Listing
  <2> QED BY <2>1, <2>2 DEF TypeOK
<1>3. (Memoryless /\ ContentsAreBag /\ FileIsBag /\ BagIsSeen /\ AgeKept)'
  BY DEF Memoryless, ContentsAreBag, FileIsBag, BagIsSeen, AgeKept
<1>4. (AirIsNew /\ SinceBound)'
  BY DEF AirIsNew, SinceBound, TypeOK, Listing
<1>5. Elapsed'
  BY <1>1 DEF Elapsed, SinceBound, TypeOK, Listing
<1>6. HeardIsHeld'
  <2> SUFFICES ASSUME NEW u \in up', seen'[u] # 0, Heard(u)' PROVE bag'[u] # 0
    BY DEF HeardIsHeld
  <2>1. CASE u = w
    <3>0. missed[w] \in 0 .. 3 /\ missed'[w] \in 0 .. 3
      BY <1>2 DEF TypeOK
    <3>1. missed'[w] <= 2
      BY <2>1, <3>0 DEF Heard
    <3>2. w \in up /\ missed[w] <= 1
      BY <1>1, <3>0, <3>1 DEF TypeOK
    <3> QED BY <2>1, <3>2 DEF HeardIsHeld, Heard
  <2>2. CASE u # w
    <3>1. u \in Worker /\ u \in up
      BY <2>2 DEF TypeOK
    <3>2. missed'[u] = missed[u] /\ ver'[u] = ver[u]
      BY <1>1, <2>2, <3>1 DEF TypeOK, Listing
    <3>3. <<u, ver[u]>> \in air' => <<u, ver[u]>> \in air
      BY <2>2
    <3> QED BY <3>1, <3>2, <3>3 DEF HeardIsHeld, Heard
  <2> QED BY <2>1, <2>2
<1> QED BY <1>2, <1>3, <1>4, <1>5, <1>6

(* A worker ends.                                                          *)
LEMMA SilenceInv == ASSUME NEW w \in Worker, IInv, Silence(w) PROVE IInv'
<1> USE DEF IInv, Silence, bagVars, timerVars, diskVars
<1>1. TypeOK'
  BY DEF TypeOK, Listing
<1>2. (Memoryless /\ ContentsAreBag /\ FileIsBag /\ BagIsSeen /\ AgeKept)'
  BY DEF Memoryless, ContentsAreBag, FileIsBag, BagIsSeen, AgeKept
<1>3. (AirIsNew /\ SinceBound)'
  BY DEF AirIsNew, SinceBound, TypeOK, Listing
<1>4. (Elapsed /\ HeardIsHeld)'
  BY DEF Elapsed, HeardIsHeld, Heard, TypeOK, Listing
<1> QED BY <1>1, <1>2, <1>3, <1>4

-------------------------------------------------------------------------------
(* The manager starts: what it finds fresh is fresh until the grace is     *)
(* over.                                                                   *)
LEMMA StartInv == IInv /\ Start => IInv'
<1> SUFFICES ASSUME IInv, Start PROVE IInv'
  OBVIOUS
<1> USE ParametersHold, Limits DEF IInv, Start, workerVars, bagVars, diskVars, Parameters
<1>1. hold' \in Nat \union {Off}
  BY DEF Off
<1>2. TypeOK'
  BY <1>1 DEF TypeOK
<1>3. (Memoryless /\ ContentsAreBag /\ FileIsBag /\ BagIsSeen)'
  BY DEF Memoryless, ContentsAreBag, FileIsBag, BagIsSeen
<1>4. AgeKept'
  BY DEF AgeKept, Memoryless, TypeOK
<1>5. (AirIsNew /\ SinceBound /\ Elapsed /\ HeardIsHeld)'
  BY DEF AirIsNew, SinceBound, Elapsed, HeardIsHeld, Heard
<1> QED BY <1>2, <1>3, <1>4, <1>5

(* Its memory is lost: in a crash, or when it dies of an exception.        *)
LEMMA ForgottenInv ==
    ASSUME IInv, Forgotten, running' = FALSE, crashes' \in Nat,
           UNCHANGED <<workerVars, missed, diskVars>>
    PROVE  IInv'
<1> USE DEF IInv, Forgotten, workerVars, diskVars
<1>1. Nothing \in Listing /\ \A w \in Worker : Nothing[w] = 0
  BY DEF Nothing, Listing
<1>2. TypeOK'
  BY <1>1 DEF TypeOK
<1>3. (Memoryless /\ ContentsAreBag /\ FileIsBag /\ BagIsSeen /\ AgeKept)'
  BY <1>1 DEF Memoryless, ContentsAreBag, FileIsBag, BagIsSeen, AgeKept
<1>4. \A w \in up : seen'[w] = 0 /\ bag'[w] = 0
  BY <1>1 DEF TypeOK
<1>5. (AirIsNew /\ SinceBound /\ Elapsed /\ HeardIsHeld)'
  BY <1>4 DEF AirIsNew, SinceBound, Elapsed, HeardIsHeld
<1> QED BY <1>2, <1>3, <1>5

(* A packet arrives.                                                       *)
LEMMA ReceiveInv ==
    ASSUME NEW w \in Worker, NEW v \in Nat \ {0}, IInv, Receive(w, v)
    PROVE  IInv'
<1> USE ParametersHold DEF Parameters
<1>1. /\ running /\ running' = running /\ hold' = hold /\ crashes' = crashes
      /\ seen' = [seen EXCEPT ![w] = v] /\ bag' = [bag EXCEPT ![w] = v]
      /\ left' = [left EXCEPT ![w] = Ttl] /\ missed' = [missed EXCEPT ![w] = 0]
      /\ UNCHANGED workerVars
  BY DEF Receive, Renewed
<1>2. seen' \in Listing /\ bag' \in Listing /\ left' \in Listing /\ missed' \in [Worker -> 0 .. 3]
  BY <1>1 DEF IInv, TypeOK, Listing
<1>3. /\ contents' \in Listing \union {Undefined}
      /\ file' \in Listing /\ age' \in Nat /\ touchIn' \in Nat \union {Off}
      /\ ContentsAreBag' /\ FileIsBag' /\ AgeKept'
  <2>1. CASE bag[w] = v
    <3>1. UNCHANGED <<contents, touchIn, diskVars>>
      BY <2>1 DEF Receive
    <3>2. bag' = bag
      BY <1>1, <2>1 DEF IInv, TypeOK, Listing
    <3> QED BY <1>1, <3>1, <3>2
            DEF IInv, TypeOK, diskVars, ContentsAreBag, FileIsBag, AgeKept
  <2>2. CASE bag[w] # v
    <3>1. Update(bag')
      BY <2>2 DEF Receive
    <3>2. bag' # bag
      BY <1>1, <2>2 DEF IInv, TypeOK, Listing
    <3> QED BY <1>1, <1>2, <3>1, <3>2, UpdateKeeps
  <2> QED BY <2>1, <2>2
<1>4. TypeOK'
  BY <1>1, <1>2, <1>3 DEF IInv, TypeOK, workerVars
<1>5. Memoryless' /\ BagIsSeen'
  BY <1>1 DEF IInv, TypeOK, Listing, Memoryless, BagIsSeen
<1>6. (AirIsNew /\ SinceBound)'
  BY <1>1 DEF IInv, AirIsNew, SinceBound, workerVars
<1>7. Elapsed'
  BY <1>1 DEF IInv, TypeOK, Listing, Elapsed, workerVars
<1>8. HeardIsHeld'
  BY <1>1 DEF IInv, TypeOK, Listing, HeardIsHeld, Heard, workerVars
<1> QED BY <1>3, <1>4, <1>5, <1>6, <1>7, <1>8 DEF IInv

(* A timeout: no worker that is heard is due.                              *)
LEMMA ExpireInv == ASSUME NEW w \in Worker, IInv, Expire(w) PROVE IInv'
<1> USE ParametersHold DEF Parameters
<1>1. /\ running /\ running' = running /\ hold' = hold /\ crashes' = crashes
      /\ bag[w] # 0 /\ left[w] = 0 /\ bag' = [bag EXCEPT ![w] = 0] /\ Update(bag')
      /\ UNCHANGED <<workerVars, missed, seen, left>>
  BY DEF Expire, Due
<1>2. bag' \in Listing /\ bag' # bag
  BY <1>1 DEF IInv, TypeOK, Listing
<1>3. /\ contents' \in Listing \union {Undefined}
      /\ file' \in Listing /\ age' \in Nat /\ touchIn' \in Nat \union {Off}
      /\ ContentsAreBag' /\ FileIsBag' /\ AgeKept'
  BY <1>1, <1>2, UpdateKeeps
<1>4. TypeOK'
  BY <1>1, <1>2, <1>3 DEF IInv, TypeOK, workerVars
<1>5. Memoryless' /\ BagIsSeen'
  BY <1>1 DEF IInv, TypeOK, Listing, Memoryless, BagIsSeen
<1>6. (AirIsNew /\ SinceBound)'
  BY <1>1 DEF IInv, AirIsNew, SinceBound, workerVars
<1>7. Elapsed'
  BY <1>1 DEF IInv, TypeOK, Listing, Elapsed, workerVars
<1>8. w \in up => ~Heard(w)
  <2> SUFFICES ASSUME w \in up, Heard(w) PROVE FALSE
    OBVIOUS
  <2>1. missed[w] \in 0 .. 3 /\ since[w] \in Nat /\ ver[w] \in Nat
    BY DEF IInv, TypeOK, Listing
  <2>2. since[w] <= Interval
    BY DEF IInv, SinceBound
  <2>3. CASE missed[w] = 2 /\ <<w, ver[w]>> \in air
    BY <1>1, <2>1, <2>3 DEF IInv, AirIsNew, Elapsed
  <2>4. CASE missed[w] <= 1
    BY <1>1, <2>1, <2>2, <2>4 DEF IInv, Elapsed
  <2> QED BY <2>3, <2>4 DEF Heard
<1>9. HeardIsHeld'
  BY <1>1, <1>8 DEF IInv, TypeOK, Listing, HeardIsHeld, Heard, workerVars
<1> QED BY <1>3, <1>4, <1>5, <1>6, <1>7, <1>9 DEF IInv

(* The ten seconds are over.                                               *)
LEMMA HoldOverInv == IInv /\ HoldOver => IInv'
<1> SUFFICES ASSUME IInv, HoldOver PROVE IInv'
  OBVIOUS
<1>1. UNCHANGED <<workerVars, missed, crashes>> /\ running
  BY DEF HoldOver
<1>2. CASE running' = FALSE /\ Forgotten /\ UNCHANGED diskVars
  BY <1>1, <1>2, ForgottenInv DEF IInv, TypeOK
<1>3. CASE /\ hold' = Off
           /\ Write(IF contents = Undefined THEN Nothing ELSE contents)
           /\ UNCHANGED <<running, bagVars, contents>>
  <2> USE <1>1, <1>3, ParametersHold, Limits DEF IInv, workerVars, bagVars, Write, Parameters
  <2>1. file' \in Listing /\ age' \in Nat /\ touchIn' \in Nat \union {Off}
    BY DEF TypeOK, Nothing, Listing
  <2>2. TypeOK'
    BY <2>1 DEF TypeOK
  <2>3. (Memoryless /\ ContentsAreBag /\ FileIsBag /\ BagIsSeen)'
    BY DEF Memoryless, ContentsAreBag, FileIsBag, BagIsSeen
  <2>4. AgeKept'
    BY DEF AgeKept
  <2>5. (AirIsNew /\ SinceBound /\ Elapsed /\ HeardIsHeld)'
    BY DEF AirIsNew, SinceBound, Elapsed, HeardIsHeld, Heard
  <2> QED BY <2>2, <2>3, <2>4, <2>5
<1> QED BY <1>2, <1>3 DEF HoldOver

(* A touch.                                                                *)
LEMMA TouchInv == IInv /\ Touch => IInv'
<1> SUFFICES ASSUME IInv, Touch PROVE IInv'
  OBVIOUS
<1> USE ParametersHold, Limits DEF IInv, Touch, workerVars, bagVars, Parameters
<1>1. TypeOK'
  BY DEF TypeOK
<1>2. (Memoryless /\ ContentsAreBag /\ FileIsBag /\ BagIsSeen)'
  BY DEF Memoryless, ContentsAreBag, FileIsBag, BagIsSeen
<1>3. AgeKept'
  BY DEF AgeKept, TypeOK
<1>4. (AirIsNew /\ SinceBound /\ Elapsed /\ HeardIsHeld)'
  BY DEF AirIsNew, SinceBound, Elapsed, HeardIsHeld, Heard
<1> QED BY <1>1, <1>2, <1>3, <1>4

(* Time passes.                                                            *)
LEMMA TickInv == IInv /\ Tick => IInv'
<1> SUFFICES ASSUME IInv, Tick PROVE IInv'
  OBVIOUS
<1> USE ParametersHold, Limits DEF IInv, Tick, Parameters
<1>1. \A w \in Worker : bag[w] # 0 => left[w] \in Nat \ {0}
  BY DEF Due, TypeOK, Listing
<1>2. since' \in Listing /\ left' \in Listing
  BY <1>1 DEF TypeOK, Listing
<1>3. hold' \in Nat \union {Off} /\ touchIn' \in Nat \union {Off} /\ age' \in Nat
  BY DEF TypeOK, Countdown, Off
<1>4. TypeOK'
  BY <1>2, <1>3 DEF TypeOK
<1>5. Memoryless'
  BY DEF Memoryless, Countdown
<1>6. (ContentsAreBag /\ BagIsSeen /\ AirIsNew)'
  BY DEF ContentsAreBag, BagIsSeen, AirIsNew
<1>7. FileIsBag'
  BY DEF FileIsBag, Countdown, Off, TypeOK
<1>8. AgeKept'
  BY DEF AgeKept, Countdown, Off, TypeOK
<1>9. SinceBound'
  BY DEF SinceBound, TypeOK, Listing
<1>10. Elapsed'
  BY <1>1 DEF Elapsed, TypeOK, Listing
<1>11. HeardIsHeld'
  BY DEF HeardIsHeld, Heard
<1> QED BY <1>4, <1>5, <1>6, <1>7, <1>8, <1>9, <1>10, <1>11

-------------------------------------------------------------------------------
LEMMA Step == IInv /\ [Next]_vars => IInv'
<1> SUFFICES ASSUME IInv, [Next]_vars PROVE IInv'
  OBVIOUS
<1>1. ASSUME NEW w \in Worker, Announce(w) \/ Renew(w) \/ Silence(w) \/ Expire(w) PROVE IInv'
  BY <1>1, AnnounceInv, RenewInv, SilenceInv, ExpireInv
<1>2. ASSUME NEW w \in Worker, NEW v \in 1 .. MaxVersion[w], Receive(w, v) PROVE IInv'
  <2>1. v \in Nat \ {0}
    BY ParametersHold DEF Parameters
  <2> QED BY <1>2, <2>1, ReceiveInv
<1>3. CASE Crash
  <2>1. crashes' \in Nat /\ Forgotten /\ running' = FALSE /\ UNCHANGED <<workerVars, missed, diskVars>>
    BY <1>3 DEF Crash, IInv, TypeOK
  <2> QED BY <2>1, ForgottenInv
<1>4. CASE Start \/ HoldOver \/ Touch \/ Tick
  BY <1>4, StartInv, HoldOverInv, TouchInv, TickInv
<1>5. CASE UNCHANGED vars
  BY <1>5 DEF vars, workerVars, bagVars, timerVars, diskVars, IInv, TypeOK, Memoryless,
       ContentsAreBag, FileIsBag, BagIsSeen, AgeKept, AirIsNew, SinceBound, Elapsed,
       HeardIsHeld, Heard
<1> QED BY <1>1, <1>2, <1>3, <1>4, <1>5 DEF Next

(* The inductive invariant holds of every state.                           *)
THEOREM Invariance == Spec => []IInv
<1>1. Init => IInv
  BY InvInit
<1>2. IInv /\ [Next]_vars => IInv'
  BY Step
<1> QED BY <1>1, <1>2, PTL DEF Spec

(* Every variable keeps its type.                                          *)
THEOREM TypeCorrect == Spec => []TypeOK
<1>1. IInv => TypeOK
  BY DEF IInv
<1> QED BY <1>1, Invariance, PTL

(* Outside the grace the file says what the bag says.                      *)
THEOREM FileAlwaysBag == Spec => []FileIsBag
<1>1. IInv => FileIsBag
  BY DEF IInv
<1> QED BY <1>1, Invariance, PTL

(* A file that a manager looks after never grows too old for its readers.  *)
THEOREM FileAlwaysFresh == Spec => []FileFresh
<1>1. IInv => FileFresh
  <2> SUFFICES ASSUME IInv PROVE FileFresh
    OBVIOUS
  <2>1. age \in Nat /\ hold \in Nat \union {Off} /\ touchIn \in Nat \union {Off}
    BY DEF IInv, TypeOK
  <2>2. hold # Off => age <= MaxAge
    BY <2>1, Limits, ParametersHold DEF IInv, AgeKept, Parameters
  <2>3. touchIn # Off => age <= MaxAge
    BY <2>1, Limits, ParametersHold DEF IInv, AgeKept, Parameters
  <2> QED BY <2>2, <2>3 DEF FileFresh
<1> QED BY <1>1, Invariance, PTL

(* A worker that is heard every second time at least stays listed.         *)
THEOREM HeardStaysListed == Spec => []StaysListed
<1>1. IInv => StaysListed
  <2> SUFFICES ASSUME IInv, running, hold = Off, NEW w \in up, seen[w] # 0, Heard(w)
               PROVE  file[w] # 0
    BY DEF StaysListed
  <2>1. bag[w] # 0
    BY DEF IInv, HeardIsHeld
  <2>2. w \in Worker
    BY DEF IInv, TypeOK
  <2>3. contents # Undefined
    BY <2>1, <2>2 DEF IInv, ContentsAreBag, Nothing
  <2> QED BY <2>1, <2>3 DEF IInv, FileIsBag
<1> QED BY <1>1, Invariance, PTL

(* What a process lists of a worker is replaced by nothing older.          *)
THEOREM NewestAlwaysWins == Spec => NewestWins
<1> DEFINE Kept == running /\ hold = Off /\ contents # Undefined =>
                     \A w \in Worker : file'[w] # file[w] => file'[w] = 0 \/ file'[w] >= seen[w]
<1>1. IInv /\ IInv' /\ [Next]_vars => [Kept]_vars
  <2> SUFFICES ASSUME IInv, IInv', Next, running, hold = Off, contents # Undefined,
                      NEW u \in Worker, file'[u] # file[u]
               PROVE  file'[u] = 0 \/ file'[u] >= seen[u]
    BY DEF vars
  <2>1. file = bag /\ contents \in Listing /\ Nothing \in Listing
    BY DEF IInv, FileIsBag, TypeOK, Nothing, Listing
  <2>2. \/ UNCHANGED file
        \/ \E w \in Worker : Expire(w) \/ \E v \in 1 .. MaxVersion[w] : Receive(w, v)
    <3>1. ~HoldOver
      BY DEF HoldOver, Off
    <3>2. (\E w \in Worker : Announce(w) \/ Renew(w) \/ Silence(w)) => UNCHANGED file
      BY DEF Announce, Renew, Silence, diskVars
    <3>3. Start \/ Crash \/ Touch \/ Tick => UNCHANGED file
      BY DEF Start, Crash, Touch, Tick, diskVars
    <3> QED BY <3>1, <3>2, <3>3 DEF Next
  <2>3. PICK w \in Worker : Expire(w) \/ \E v \in 1 .. MaxVersion[w] : Receive(w, v)
    BY <2>2
  <2>5. CASE Expire(w)
    <3>1. bag' = [bag EXCEPT ![w] = 0] /\ Update(bag')
      BY <2>5 DEF Expire
    <3>2. file' = file \/ file' = bag'
      BY <3>1 DEF Update, Write, diskVars
    <3> QED BY <2>1, <3>1, <3>2 DEF IInv, TypeOK, Listing
  <2>6. ASSUME NEW v \in 1 .. MaxVersion[w], Receive(w, v)
        PROVE  file'[u] = 0 \/ file'[u] >= seen[u]
    <3>1. bag' = [bag EXCEPT ![w] = v] /\ ~(v < seen[w])
      BY <2>6 DEF Receive, Outdated
    <3>2. file' = file \/ file' = bag'
      BY <2>6 DEF Receive, Update, Write, diskVars
    <3>3. v \in Nat /\ seen[w] \in Nat
      BY ParametersHold DEF Parameters, IInv, TypeOK, Listing
    <3> QED BY <2>1, <3>1, <3>2, <3>3 DEF IInv, TypeOK, Listing
  <2> QED BY <2>3, <2>5, <2>6
<1> QED BY <1>1, Invariance, PTL DEF Spec, NewestWins

-------------------------------------------------------------------------------
(***************************************************************************)
(* What Follows needs besides fairness.                                    *)
(***************************************************************************)

(* While the manager runs, the current announcement of a worker is never   *)
(* refused as outdated, and one that is up makes it again within an        *)
(* interval.  The file says what is wanted of a worker, or one of these is *)
(* on its way: the end of the grace, within ten seconds; an announcement   *)
(* that the bag does not have, which is then written; the end of the       *)
(* timeout of one that has gone; or, of a manager that never heard         *)
(* anything, nothing, so that the file grows too old.                      *)
ListingGoesOn ==
    running =>
       \A w \in Worker :
          /\ ~Outdated(w, ver[w])
          /\ w \in up => since[w] \in 0 .. Interval
          /\ \/ file[w] = Wanted(w)
             \/ hold \in 0 .. Grace
             \/ w \in up /\ bag[w] # ver[w]
             \/ w \notin up /\ bag[w] # 0 /\ left[w] \in 0 .. Ttl
             \/ w \notin up /\ contents = Undefined /\ touchIn = Off

(* Nothing newer than the current announcement of a worker was ever made.  *)
NothingNewer ==
    \A w \in Worker : /\ seen[w] <= ver[w]
                      /\ \A v \in Nat : <<w, v>> \in air => v <= ver[w]

UpAnnounced == \A w \in up : ver[w] # 0

TimersEnd == hold <= Grace /\ \A w \in Worker : left[w] <= Ttl

(* A manager that has heard nothing has written only that there is nobody. *)
UnheardEmpty == contents = Undefined /\ touchIn # Off => file = Nothing

Coming == NothingNewer /\ UpAnnounced /\ TimersEnd /\ UnheardEmpty

LEMMA ComingInit == Init => Coming
BY ParametersHold DEF Init, Coming, NothingNewer, UpAnnounced, TimersEnd, UnheardEmpty, Nothing,
                      Off, Parameters

LEMMA ComingNext == IInv /\ Coming /\ [Next]_vars => Coming'
<1> SUFFICES ASSUME IInv, Coming, [Next]_vars PROVE Coming'
  OBVIOUS
<1>0. TypeOK
  BY DEF IInv
<1>1. ASSUME NEW w \in Worker, Announce(w) PROVE Coming'
  <2> USE <1>0, <1>1 DEF Announce, bagVars, timerVars, diskVars
  <2>1. NothingNewer'
    BY DEF Coming, NothingNewer, TypeOK, Listing
  <2>2. (UpAnnounced /\ TimersEnd /\ UnheardEmpty)'
    BY DEF Coming, UpAnnounced, TimersEnd, UnheardEmpty
  <2> QED BY <2>1, <2>2 DEF Coming
<1>2. ASSUME NEW w \in Worker, Renew(w) PROVE Coming'
  <2> USE <1>0, <1>2 DEF Renew, bagVars, timerVars, diskVars
  <2>1. ver' = [ver EXCEPT ![w] = ver[w] + 1] /\ ver'[w] = ver[w] + 1
        /\ ver[w] \in Nat /\ air' = air \union {<<w, ver'[w]>>}
    BY DEF TypeOK, Listing
  <2>2. \A u \in Worker : ver'[u] \in Nat /\ ver[u] \in Nat /\ ver[u] <= ver'[u]
    BY <2>1 DEF TypeOK, Listing
  <2>3. NothingNewer'
    <3> SUFFICES ASSUME NEW u \in Worker
                 PROVE  /\ seen[u] <= ver'[u]
                        /\ \A v \in Nat : <<u, v>> \in air' => v <= ver'[u]
      BY DEF NothingNewer
    <3>1. seen[u] <= ver'[u]
      BY <2>2 DEF Coming, NothingNewer, TypeOK, Listing
    <3>2. ASSUME NEW v \in Nat, <<u, v>> \in air' PROVE v <= ver'[u]
      <4>1. CASE <<u, v>> \in air
        BY <2>2, <4>1 DEF Coming, NothingNewer
      <4>2. CASE <<u, v>> = <<w, ver'[w]>>
        BY <2>2, <4>2
      <4> QED BY <2>1, <3>2, <4>1, <4>2
    <3> QED BY <3>1, <3>2
  <2>4. UpAnnounced'
    BY <2>1, <2>2 DEF Coming, UpAnnounced, TypeOK
  <2>5. (TimersEnd /\ UnheardEmpty)'
    BY DEF Coming, TimersEnd, UnheardEmpty
  <2> QED BY <2>3, <2>4, <2>5 DEF Coming
<1>3. ASSUME NEW w \in Worker, Silence(w) PROVE Coming'
  BY <1>3 DEF Silence, bagVars, timerVars, diskVars, Coming, NothingNewer, UpAnnounced, TimersEnd,
              UnheardEmpty
<1>4. ASSUME NEW w \in Worker, NEW v \in 1 .. MaxVersion[w], Receive(w, v) PROVE Coming'
  <2>1. /\ v \in Nat /\ <<w, v>> \in air
        /\ seen' = [seen EXCEPT ![w] = v] /\ left' = [left EXCEPT ![w] = Ttl]
        /\ bag' = [bag EXCEPT ![w] = v]
        /\ UNCHANGED <<up, ver, air, hold>>
    BY <1>4, ParametersHold DEF Receive, Renewed, workerVars, Parameters
  <2>2. v <= ver[w]
    BY <2>1 DEF Coming, NothingNewer
  <2>3. NothingNewer' /\ UpAnnounced'
    BY <1>0, <2>1, <2>2 DEF Coming, NothingNewer, UpAnnounced, TypeOK, Listing
  <2>4. TimersEnd'
    BY <1>0, <2>1, ParametersHold DEF Coming, TimersEnd, TypeOK, Listing, Parameters
  <2>5. UnheardEmpty'
    <3>1. CASE bag[w] = v
      BY <1>4, <3>1 DEF Receive, diskVars, Coming, UnheardEmpty
    <3>2. CASE bag[w] # v
      <4>1. bag' \in Listing /\ Update(bag')
        BY <1>0, <1>4, <2>1, <3>2 DEF Receive, TypeOK, Listing
      <4>2. Undefined \notin Listing
        BY ParametersHold DEF Parameters
      <4>3. CASE bag' = contents
        BY <4>1, <4>3 DEF Update, Same, diskVars, Coming, UnheardEmpty
      <4>4. CASE bag' # contents
        BY <4>1, <4>2, <4>4 DEF Update, Same, UnheardEmpty
      <4> QED BY <4>3, <4>4
    <3> QED BY <3>1, <3>2
  <2> QED BY <2>3, <2>4, <2>5 DEF Coming
<1>5. ASSUME NEW w \in Worker, Expire(w) PROVE Coming'
  <2>1. /\ bag' = [bag EXCEPT ![w] = 0] /\ Update(bag')
        /\ UNCHANGED <<up, ver, air, hold, seen, left>>
    BY <1>5 DEF Expire, workerVars
  <2>2. (NothingNewer /\ UpAnnounced /\ TimersEnd)'
    BY <2>1 DEF Coming, NothingNewer, UpAnnounced, TimersEnd
  <2>3. bag' \in Listing /\ Undefined \notin Listing
    BY <1>0, <2>1, ParametersHold DEF TypeOK, Listing, Parameters
  <2>4. CASE bag' = contents
    BY <2>1, <2>2, <2>4 DEF Update, Same, diskVars, Coming, UnheardEmpty
  <2>5. CASE bag' # contents
    BY <2>1, <2>2, <2>3, <2>5 DEF Update, Same, Coming, UnheardEmpty
  <2> QED BY <2>4, <2>5
<1>6. CASE Start
  <2>1. hold' <= Grace /\ UNCHANGED <<up, ver, air, seen, bag, left, contents, touchIn, file>>
    BY <1>6, ParametersHold DEF Start, workerVars, bagVars, diskVars, Off, Parameters
  <2> QED BY <2>1 DEF Coming, NothingNewer, UpAnnounced, TimersEnd, UnheardEmpty
<1>7. ASSUME Forgotten, UNCHANGED <<up, ver, air>> PROVE Coming'
  <2>1. NothingNewer' /\ UpAnnounced'
    BY <1>0, <1>7 DEF Forgotten, Coming, NothingNewer, UpAnnounced, Nothing, TypeOK, Listing
  <2>2. TimersEnd'
    BY <1>7, ParametersHold DEF Forgotten, TimersEnd, Nothing, Off, Parameters
  <2>3. UnheardEmpty'
    BY <1>7 DEF Forgotten, UnheardEmpty
  <2> QED BY <2>1, <2>2, <2>3 DEF Coming
<1>8. CASE Crash
  BY <1>7, <1>8 DEF Crash, workerVars
<1>9. CASE HoldOver
  <2>1. UNCHANGED <<up, ver, air>>
    BY <1>9 DEF HoldOver, workerVars
  <2>2. CASE Forgotten
    BY <1>7, <2>1, <2>2
  <2>3. CASE /\ hold' = Off
             /\ Write(IF contents = Undefined THEN Nothing ELSE contents)
             /\ UNCHANGED <<running, bagVars, contents>>
    <3>1. UNCHANGED <<seen, left, contents>> /\ hold' <= Grace
          /\ (contents = Undefined => file' = Nothing)
      BY <2>3, ParametersHold DEF bagVars, Write, Off, Parameters
    <3> QED BY <2>1, <3>1 DEF Coming, NothingNewer, UpAnnounced, TimersEnd, UnheardEmpty
  <2> QED BY <1>9, <2>2, <2>3 DEF HoldOver
<1>10. CASE Touch
  <2>1. UNCHANGED <<up, ver, air, seen, left, contents, hold, file>> /\ touchIn # Off
    BY <1>10 DEF Touch, workerVars, bagVars, Off
  <2> QED BY <2>1 DEF Coming, NothingNewer, UpAnnounced, TimersEnd, UnheardEmpty
<1>11. CASE Tick
  <2> USE <1>0, <1>11, ParametersHold DEF Tick, TypeOK, Listing, Parameters
  <2>1. NothingNewer' /\ UpAnnounced'
    BY DEF Coming, NothingNewer, UpAnnounced
  <2>2. TimersEnd'
    BY DEF Coming, TimersEnd, Countdown, Off
  <2>3. UnheardEmpty'
    BY DEF Coming, UnheardEmpty, Countdown
  <2> QED BY <2>1, <2>2, <2>3 DEF Coming
<1>12. CASE UNCHANGED vars
  BY <1>12 DEF vars, workerVars, bagVars, timerVars, diskVars, Coming, NothingNewer, UpAnnounced,
               TimersEnd, UnheardEmpty
<1> QED BY <1>1, <1>2, <1>3, <1>4, <1>5, <1>6, <1>8, <1>9, <1>10, <1>11, <1>12 DEF Next

(***************************************************************************)
(* A manager that runs is never done with a worker of which it lists       *)
(* something else than it should: what changes that is always under way    *)
(* (cache-manager.js:145-201, 293-325).                                    *)
(***************************************************************************)
THEOREM ListingAlwaysGoesOn == Spec => []ListingGoesOn
<1>1. IInv /\ Coming => ListingGoesOn
  <2> SUFFICES ASSUME IInv, Coming, running, NEW w \in Worker
               PROVE  /\ ~Outdated(w, ver[w])
                      /\ w \in up => since[w] \in 0 .. Interval
                      /\ \/ file[w] = Wanted(w)
                         \/ hold \in 0 .. Grace
                         \/ w \in up /\ bag[w] # ver[w]
                         \/ w \notin up /\ bag[w] # 0 /\ left[w] \in 0 .. Ttl
                         \/ w \notin up /\ contents = Undefined /\ touchIn = Off
    BY DEF ListingGoesOn
  <2>1. /\ seen[w] \in Nat /\ ver[w] \in Nat /\ since[w] \in Nat /\ left[w] \in Nat
        /\ hold \in Nat \union {Off}
    BY DEF IInv, TypeOK, Listing
  <2>2. ~Outdated(w, ver[w])
    BY <2>1 DEF Coming, NothingNewer, Outdated
  <2>3. w \in up => since[w] \in 0 .. Interval
    BY <2>1, ParametersHold DEF IInv, SinceBound, Parameters
  <2>4. CASE hold # Off
    <3>1. hold \in 0 .. Grace
      BY <2>1, <2>4, ParametersHold DEF Coming, TimersEnd, Parameters
    <3> QED BY <2>2, <2>3, <3>1
  <2>5. CASE hold = Off /\ contents = Undefined
    <3>1. bag[w] = 0 /\ (touchIn # Off => file[w] = 0)
      BY <2>5 DEF IInv, ContentsAreBag, Coming, UnheardEmpty, Nothing
    <3> QED BY <2>2, <2>3, <2>5, <3>1 DEF Coming, UpAnnounced, Wanted
  <2>6. CASE hold = Off /\ contents # Undefined
    <3>1. file[w] = bag[w]
      BY <2>6 DEF IInv, FileIsBag
    <3>2. left[w] \in 0 .. Ttl
      BY <2>1, ParametersHold DEF Coming, TimersEnd, Parameters
    <3> QED BY <2>2, <2>3, <3>1, <3>2 DEF Wanted
  <2> QED BY <2>4, <2>5, <2>6
<1> QED BY <1>1, ComingInit, ComingNext, Invariance, PTL DEF Spec
=============================================================================
