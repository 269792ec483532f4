----------------------------- MODULE CacheManager -----------------------------
(***************************************************************************)
(* The cache manager, script/cache-manager.js: one process on a machine    *)
(* that listens to the announcements of all workers and keeps the file     *)
(* from which lib/util/serviceMgr.js takes its directory.                  *)
(*                                                                         *)
(* CacheBag holds the last announcement of every worker until a timeout    *)
(* of 2.1 send intervals; CacheFile replaces the file when that changes    *)
(* and touches it when it does not, for readers refuse a file older than   *)
(* discovery.cache_max_age.  A manager that finds a fresh file when it     *)
(* starts leaves it alone for ten seconds.                                 *)
(*                                                                         *)
(* Time passes in ticks.  What is quicker than a tick (handlers, late      *)
(* timers, compression, the 200 to 500 ms by which peers delay what they   *)
(* relay) takes no time but comes in any order.  Handlers run to their     *)
(* end, and the file is replaced by renaming, so a crash between or inside *)
(* them leaves the file as it was before or after.                         *)
(***************************************************************************)
EXTENDS Integers

CONSTANTS Worker,       \* workerIdents
          Interval,     \* sendInterval, in ticks
          Ttl,          \* the timeout of an announcement: 2.1 intervals
          Grace,        \* the ten seconds for which a fresh file is left alone
          MaxAge,       \* discovery.cache_max_age
          Undefined,    \* no contents: JavaScript's undefined
          MaxVersion,   \* BOUND: how many different announcements a worker makes
          MaxCrash      \* BOUND: how often the manager crashes

ASSUME IntervalAssumption == Interval \in Nat \ {0}
ASSUME TtlAssumption == Ttl \in Nat /\ 2 * Interval < Ttl
ASSUME GraceAssumption == Grace \in Nat \ {0}
ASSUME MaxAgeAssumption == MaxAge \in Nat \ {0}
ASSUME UndefinedAssumption == Undefined \notin [Worker -> Nat]
ASSUME BoundsAssumption == MaxVersion \in [Worker -> Nat] /\ MaxCrash \in Nat

(* A timer that is not set.                                                *)
Off == -1

VARIABLES
    up,         \* EXTERNAL: the workers that announce themselves
    ver,        \* EXTERNAL: the version of a worker's announcement, its timestamp; 0 if none
    since,      \* EXTERNAL: ticks since a worker last announced itself
    air,        \* EXTERNAL: announcements <<w, v>> on their way, any number of copies each
    missed,     \* HISTORY: announcements of w since one was last accepted, at most 3
    running,    \* the manager runs
    seen,       \* seen_timestamps: the newest accepted from w by this process; 0 if none
    bag,        \* _bag: the announcement that is held of w, 0 if none
    left,       \* _timeouts: ticks until it is dropped
    contents,   \* CacheFile._contents: a bag, or Undefined
    hold,       \* ticks until CacheFile._suspended ends, Off if it is not set
    touchIn,    \* CacheFile._timeout: ticks until the next touch, or Off
    file,       \* the cache file: the announcement in it of w, 0 if none
    age,        \* ticks since the file's mtime; MaxAge + 1 stands for longer, or no file
    crashes     \* how often the manager crashed

workerVars == <<up, ver, since, air>>
bagVars    == <<seen, bag, left>>
timerVars  == <<hold, touchIn>>
diskVars   == <<file, age>>
vars == <<workerVars, missed, running, bagVars, contents, timerVars, diskVars, crashes>>

Nothing == [w \in Worker |-> 0]

Init ==
    /\ up = {} /\ ver = Nothing /\ since = Nothing
    /\ air = {}
    /\ missed = Nothing
    /\ running = FALSE
    /\ seen = Nothing /\ bag = Nothing /\ left = Nothing
    /\ contents = Undefined
    /\ hold = Off /\ touchIn = Off
    /\ file = Nothing /\ age = MaxAge + 1
    /\ crashes = 0

-------------------------------------------------------------------------------
(* The workers and the network, EXTERNAL: lib/discovery/announce.js and    *)
(* other hosts.  Definitions named Mutant... are bugs the properties are   *)
(* tested against; nothing uses them.                                      *)

OneMoreMissed(w) == IF w \in up /\ missed[w] < 3 THEN missed[w] + 1 ELSE 3

(* The same announcement again, every interval.                            *)
Announce(w) ==
    /\ w \in up
    /\ since[w] = Interval
    /\ since' = [since EXCEPT ![w] = 0]
    /\ air' = air \union {<<w, ver[w]>>}
    /\ missed' = [missed EXCEPT ![w] = OneMoreMissed(w)]
    /\ UNCHANGED <<up, ver, running, bagVars, contents, timerVars, diskVars, crashes>>

(* A new announcement: the worker starts, or changes what it offers.       *)
Renew(w) ==
    /\ ver[w] < MaxVersion[w]
    /\ ver' = [ver EXCEPT ![w] = @ + 1]
    /\ up' = up \union {w}
    /\ since' = [since EXCEPT ![w] = 0]
    /\ air' = air \union {<<w, ver'[w]>>}
    /\ missed' = [missed EXCEPT ![w] = OneMoreMissed(w)]
    /\ UNCHANGED <<running, bagVars, contents, timerVars, diskVars, crashes>>

(* A worker ends, without a word.                                          *)
Silence(w) ==
    /\ w \in up
    /\ up' = up \ {w}
    /\ since' = [since EXCEPT ![w] = 0]
    /\ UNCHANGED <<ver, air, missed, running, bagVars, contents, timerVars, diskVars, crashes>>

-------------------------------------------------------------------------------
(* CacheFile.                                                              *)

(* How old the file may be when a starting manager leaves it alone: still  *)
(* a tenth of the maximal age from being refused when that time is over.   *)
MutantFreshLimit == MaxAge
FreshLimit == (9 * MaxAge) \div 10 - Grace

(* _touch(false): the next touch comes after half of the maximal age.      *)
Half == MaxAge \div 2

Write(c) ==
    /\ file' = c
    /\ age' = 0
    /\ touchIn' = Half

(* Bug: only who is listed is compared, and not with which announcement.   *)
MutantSame(c) ==
    contents # Undefined /\ \A w \in Worker : (c[w] = 0) <=> (contents[w] = 0)

Same(c) == c = contents

(* update                                                                  *)
Update(c) ==
    IF Same(c) THEN UNCHANGED <<contents, touchIn, diskVars>>
    ELSE /\ contents' = c
         /\ IF hold # Off THEN UNCHANGED <<touchIn, diskVars>> ELSE Write(c)

-------------------------------------------------------------------------------
(* The manager.                                                            *)

(* Its memory at its start.                                                *)
Forgotten ==
    /\ seen' = Nothing /\ bag' = Nothing /\ left' = Nothing
    /\ contents' = Undefined
    /\ hold' = Off /\ touchIn' = Off

Start ==
    /\ ~running
    /\ running' = TRUE
    /\ hold' = IF age <= FreshLimit THEN Grace ELSE Off
    /\ UNCHANGED <<workerVars, missed, bagVars, contents, touchIn, diskVars, crashes>>

Crash ==
    /\ running
    /\ crashes < MaxCrash
    /\ crashes' = crashes + 1
    /\ running' = FALSE
    /\ Forgotten
    /\ UNCHANGED <<workerVars, missed, diskVars>>

(* parseRef throws: not the most recent one.                               *)
MutantOutdated(w, v) == FALSE
MutantRepeated(w, v) == v <= seen[w]
Outdated(w, v) == v < seen[w]

(* Bug: an announcement that is already held does not start its timer anew. *)
MutantRenewed(w, v) == IF bag[w] = v THEN left ELSE [left EXCEPT ![w] = Ttl]

Renewed(w, v) == [left EXCEPT ![w] = Ttl]

(***************************************************************************)
(* A packet, from the network or from a peer: parseText, parseRef and      *)
(* register.  An announcement that is held is found by its text, so that   *)
(* only its timer starts anew.                                             *)
(***************************************************************************)
Receive(w, v) ==
    /\ running
    /\ <<w, v>> \in air
    /\ ~Outdated(w, v)
    /\ seen' = [seen EXCEPT ![w] = v]
    /\ left' = Renewed(w, v)
    /\ bag' = [bag EXCEPT ![w] = v]
    /\ IF bag[w] = v THEN UNCHANGED <<contents, touchIn, diskVars>> ELSE Update(bag')
    /\ missed' = [missed EXCEPT ![w] = 0]
    /\ UNCHANGED <<workerVars, running, hold, crashes>>

(* The timeout of register: the announcement of w is dropped.              *)
Due(w) == bag[w] # 0 /\ left[w] = 0

Expire(w) ==
    /\ running
    /\ Due(w)
    /\ bag' = [bag EXCEPT ![w] = 0]
    /\ Update(bag')
    /\ UNCHANGED <<workerVars, missed, running, seen, left, hold, crashes>>

(***************************************************************************)
(* The ten seconds are over: what is known now is written.  The            *)
(* constructor sets `contents', but it is `_contents' that is written: if  *)
(* nothing was received, that is undefined.  Node writes it as a text,     *)
(* which lists nobody, up to version 13, and throws from 14 on, which ends *)
(* the process.                                                            *)
(***************************************************************************)
HoldOver ==
    /\ running
    /\ hold = 0
    /\ \/ /\ hold' = Off
          /\ Write(IF contents = Undefined THEN Nothing ELSE contents)
          /\ UNCHANGED <<running, bagVars, contents>>
       \/ /\ contents = Undefined
          /\ running' = FALSE
          /\ Forgotten
          /\ UNCHANGED diskVars
    /\ UNCHANGED <<workerVars, missed, crashes>>

(* _touch(true)                                                            *)
Touch ==
    /\ running
    /\ touchIn = 0
    /\ age' = 0
    /\ touchIn' = Half
    /\ UNCHANGED <<workerVars, missed, running, bagVars, contents, hold, file, crashes>>

-------------------------------------------------------------------------------
(***************************************************************************)
(* Time passes once everything that is due was done; what has not arrived  *)
(* by then is lost.                                                        *)
(***************************************************************************)
Countdown(t) == IF t = Off THEN Off ELSE t - 1

Tick ==
    /\ \A w \in up : since[w] < Interval
    /\ hold # 0 /\ touchIn # 0 /\ \A w \in Worker : ~Due(w)
    /\ since' = [w \in Worker |-> IF w \in up THEN since[w] + 1 ELSE since[w]]
    /\ air' = {}
    /\ left' = [w \in Worker |-> IF bag[w] # 0 THEN left[w] - 1 ELSE left[w]]
    /\ hold' = Countdown(hold)
    /\ touchIn' = Countdown(touchIn)
    /\ age' = IF age > MaxAge THEN age ELSE age + 1
    /\ UNCHANGED <<up, ver, missed, running, seen, bag, contents, file, crashes>>

Next ==
    \/ \E w \in Worker : \/ Announce(w) \/ Renew(w) \/ Silence(w)
                         \/ \E v \in 1 .. MaxVersion[w] : Receive(w, v)
                         \/ Expire(w)
    \/ Start \/ Crash \/ HoldOver \/ Touch
    \/ Tick

(***************************************************************************)
(* Time passes, timers fire and workers that are up announce themselves.   *)
(* A network that is given an announcement again and again delivers it     *)
(* again and again.  Nothing makes a manager start.                        *)
(***************************************************************************)
Fairness ==
    /\ WF_vars(Tick) /\ WF_vars(HoldOver) /\ WF_vars(Touch)
    /\ \A w \in Worker :
          /\ WF_vars(Announce(w)) /\ WF_vars(Expire(w))
          /\ SF_vars(Receive(w, ver[w]))

Spec == Init /\ [][Next]_vars

FairSpec == Spec /\ Fairness

-------------------------------------------------------------------------------
(* Properties                                                              *)

Listing == [Worker -> Nat]

(* Every variable keeps its type.                                          *)
TypeOK ==
    /\ up \subseteq Worker /\ ver \in Listing /\ since \in Listing
    /\ air \subseteq Worker \X Nat
    /\ missed \in [Worker -> 0 .. 3]
    /\ running \in BOOLEAN
    /\ seen \in Listing /\ bag \in Listing /\ left \in Listing
    /\ contents \in Listing \union {Undefined}
    /\ hold \in Nat \union {Off} /\ touchIn \in Nat \union {Off}
    /\ file \in Listing /\ age \in Nat
    /\ crashes \in Nat

(***************************************************************************)
(* The file says what the bag says, whatever comes and goes while it must  *)
(* not be written (cache-manager.js:145-150, 179-201): only a manager that *)
(* has received nothing leaves what the one before it wrote.               *)
(***************************************************************************)
FileIsBag == running /\ hold = Off /\ contents # Undefined => file = bag

(***************************************************************************)
(* Readers never refuse the file as too old (serviceMgr.js:78) while a     *)
(* manager looks after it: from its first write on, and from its start if  *)
(* it then found the file fresh (cache-manager.js:135, 156, 164).          *)
(***************************************************************************)
FileFresh == running /\ (hold # Off \/ touchIn # Off) => age <= MaxAge

(***************************************************************************)
(* A worker that the manager has heard stays in the file while it goes on  *)
(* announcing itself, unless two announcements in a row are lost           *)
(* (sendInterval * 2.1, cache-manager.js:307): duplicates, late copies of  *)
(* older announcements, changes and a restart of the manager do not drop   *)
(* it.                                                                     *)
(***************************************************************************)
Heard(w) == missed[w] <= 1 \/ (missed[w] = 2 /\ <<w, ver[w]>> \in air)

StaysListed ==
    running /\ hold = Off =>
       \A w \in up : seen[w] # 0 /\ Heard(w) => file[w] # 0

(***************************************************************************)
(* A process never replaces an announcement it has listed by an older one, *)
(* in whatever order copies of them arrive (cache-manager.js:302).         *)
(***************************************************************************)
NewestWins ==
    [][running /\ hold = Off /\ contents # Undefined =>
          \A w \in Worker : file'[w] # file[w] => file'[w] = 0 \/ file'[w] >= seen[w]]_vars

(***************************************************************************)
(* A manager that goes on running lists, again and again, exactly the      *)
(* current announcement of every worker that is up, and no worker that has *)
(* gone.  If it never hears anything it leaves the file of the manager     *)
(* before it to grow too old for its readers.                              *)
(***************************************************************************)
Wanted(w) == IF w \in up THEN ver[w] ELSE 0

Follows ==
    \A w \in Worker :
       []<>(running => file[w] = Wanted(w) \/ (w \notin up /\ age > MaxAge))
=============================================================================
