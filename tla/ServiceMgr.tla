------------------------------ MODULE ServiceMgr ------------------------------
(***************************************************************************)
(* The directory of services of one process: lib/util/serviceMgr.js, kept  *)
(* up to date by lib/discovery/observe.js from the cache file that another *)
(* process, the cache manager, replaces by renaming and touches.           *)
(*                                                                         *)
(* The registry maps a worker to a Registration object, which outlives the *)
(* announcements it carries and keeps the worker's record of failures; the *)
(* action index maps an action to the workers that offer it.  A reload     *)
(* compares the announcements in the file with the ones it has and touches *)
(* only what changed.                                                      *)
(*                                                                         *)
(* An announcement (blob) is an opaque value: WorkerOf, KeysOf and Usable  *)
(* say what parsing and verifying it yields.  _loadCache is one callback,  *)
(* but it reads the file in steps that interleave with the cache manager,  *)
(* and it tells its listeners after each announcement.                     *)
(***************************************************************************)
EXTENDS Integers, Sequences, SequencesExt, FiniteSets

CONSTANTS Worker,     \* workerIdents: certificate and service identity
          Key,        \* keys of the action index: sector, action, version
          Blob,       \* announcements
          WorkerOf,   \* WorkerOf[b]: the worker that announces b
          KeysOf,     \* KeysOf[b]: the keys of the actions, and their aliases, in b
          Usable,     \* the blobs with a good signature, a known version and a weight
          Files,      \* the contents the cache file may have: sequences of blobs
          None        \* no worker, no registration, no blob

ASSUME NoneAssumption     == None \notin Blob \union Nat \union [reg : Nat, info : Blob]
                                               \union Files
ASSUME WorkerOfAssumption == WorkerOf \in [Blob -> Worker]
ASSUME KeysOfAssumption   == KeysOf \in [Blob -> SUBSET Key]
ASSUME UsableAssumption   == Usable \subseteq Blob
ASSUME WorkersAssumption  == IsFiniteSet(Worker)

(* The cache manager keeps one announcement per worker (CacheBag).         *)
ASSUME FilesAssumption ==
    /\ Files \subseteq Seq(Blob)
    /\ \A f \in Files : \A i, j \in DOMAIN f : WorkerOf[f[i]] = WorkerOf[f[j]] => i = j

(* Registration objects; at most one per worker is in use at a time.       *)
Reg == 1 .. Cardinality(Worker) + 1

VARIABLES
    file,       \* EXTERNAL: the contents of the cache file
    old,        \* EXTERNAL: its mtime is older than discovery.cache_max_age
    notified,   \* EXTERNAL: fs.watch has a change to report
    fresh,      \* the file's mtime differs from `ts', the last one the observer saw
    pc,         \* where the observer's callback is
    todo,       \* chunks that _loadCache has yet to look at
    byBlob,     \* oldRegsByBlob: the registration that had this blob, or None
    oldRegs,    \* oldRegs: registrations not yet found in the new file
    invalid,    \* _invalid
    registry,   \* _registry: the registration of a worker, or None
    service,    \* service[n], blob[n]: the announcement of registration n
    index,      \* _actionIndex: index[k][w] is the block of worker w under k, or None
    failed,     \* the registrations for which isFailed() holds
    before,     \* HISTORY: the directory when the load in progress began,
    read        \* HISTORY: and the contents of the file it has read

fileVars == <<file, old, notified>>
loadVars == <<todo, byBlob, oldRegs, before, read>>
dirVars  == <<registry, service, index>>
vars == <<fileVars, fresh, pc, loadVars, invalid, dirVars, failed>>

Nobody == [w \in Worker |-> None]

Init ==
    /\ file \in Files
    /\ old \in BOOLEAN
    /\ notified = TRUE              \* the observer's first check() needs no event
    /\ fresh = TRUE
    /\ pc = "idle"
    /\ todo = <<>> /\ byBlob = [b \in Blob |-> None] /\ oldRegs = {} /\ before = Nobody
    /\ read = <<>>
    /\ invalid = FALSE
    /\ registry = Nobody
    /\ service = [n \in Reg |-> None]
    /\ index = [k \in Key |-> [w \in Worker |-> None]]
    /\ failed = {}

-------------------------------------------------------------------------------
(***************************************************************************)
(* The cache manager and the clock.  A rename gives the file a new mtime   *)
(* unless it falls in the millisecond of the one before; a touch comes     *)
(* long after (half of cache_max_age).                                     *)
(***************************************************************************)
Replace(f) ==
    /\ f # file
    /\ file' = f
    /\ old' = FALSE
    /\ notified' = TRUE
    /\ fresh' \in {fresh, TRUE}
    /\ UNCHANGED <<pc, loadVars, invalid, dirVars, failed>>

Touch ==
    /\ old' = FALSE
    /\ notified' = TRUE
    /\ fresh' = TRUE
    /\ UNCHANGED <<file, pc, loadVars, invalid, dirVars, failed>>

(* Nobody has touched the file for cache_max_age seconds: every change of  *)
(* it was reported long ago.                                               *)
GrowOld ==
    /\ ~old /\ ~notified /\ pc = "idle"
    /\ old' = TRUE
    /\ UNCHANGED <<file, notified, fresh, pc, loadVars, invalid, dirVars, failed>>

-------------------------------------------------------------------------------
(* The observer's check: is there a new mtime?  It is noted before the     *)
(* load.                                                                   *)
Check ==
    /\ pc = "idle" /\ notified
    /\ notified' = FALSE
    /\ fresh' = FALSE
    /\ pc' = IF fresh THEN "stat" ELSE "idle"
    /\ UNCHANGED <<file, old, loadVars, invalid, dirVars, failed>>

(* _loadCache looks at the file's age, and gives up on an old one: what it *)
(* loaded before stays.                                                    *)
LoadStat ==
    /\ pc = "stat"
    /\ invalid' = IF old THEN TRUE ELSE invalid
    /\ pc' = IF old THEN "idle" ELSE "read"
    /\ UNCHANGED <<fileVars, fresh, loadVars, dirVars, failed>>

Registered == {registry[w] : w \in Worker} \ {None}

Block(n, b) == [reg |-> n, info |-> b]

(* It reads the file, and notes the registrations it has.                  *)
LoadRead ==
    /\ pc = "read"
    /\ todo' = file
    /\ read' = file
    /\ oldRegs' = Registered
    /\ byBlob' = [b \in Blob |->
                    IF \E n \in Registered : service[n] = b
                    THEN CHOOSE n \in Registered : service[n] = b
                    ELSE None]
    /\ before' = [w \in Worker |-> IF registry[w] = None THEN None
                                   ELSE Block(registry[w], service[registry[w]])]
    /\ pc' = "load"
    /\ UNCHANGED <<fileVars, fresh, invalid, dirVars, failed>>

(* Or the file cannot be read, or is gone since the look at its age: the   *)
(* exception ends in the observer, which has noted the mtime already.      *)
LoadFails ==
    /\ pc = "read"
    /\ pc' = "idle"
    /\ UNCHANGED <<fileVars, fresh, loadVars, invalid, dirVars, failed>>

(***************************************************************************)
(* _index: what the index is with or without the block of registration n   *)
(* carrying announcement b.                                                *)
(***************************************************************************)
Indexed(idx, n, b) ==
    [k \in Key |-> IF k \in KeysOf[b]
                   THEN [idx[k] EXCEPT ![WorkerOf[b]] = Block(n, b)] ELSE idx[k]]

Unindexed(idx, b) ==
    [k \in Key |-> IF k \in KeysOf[b]
                   THEN [idx[k] EXCEPT ![WorkerOf[b]] = None] ELSE idx[k]]

(***************************************************************************)
(* registerService: the worker's registration takes over the announcement, *)
(* or a new one does.                                                      *)
(***************************************************************************)
(* Bugs: the old announcement stays in the index; or a changed one gets a   *)
(* new registration.                                                       *)
MutantReplacesOver(n, b) ==
    /\ n = registry[WorkerOf[b]]
    /\ index' = Indexed(index, n, b)
    /\ service' = [service EXCEPT ![n] = b]
    /\ UNCHANGED <<registry, failed>>

MutantReplacesAnew(n, b) ==
    /\ registry[WorkerOf[b]] # None
    /\ n \in Reg \ Registered
    /\ index' = Indexed(Unindexed(index, service[registry[WorkerOf[b]]]), n, b)
    /\ service' = [service EXCEPT ![n] = b]
    /\ registry' = [registry EXCEPT ![WorkerOf[b]] = n]
    /\ UNCHANGED failed

Replaces(n, b) ==
    /\ n = registry[WorkerOf[b]]
    /\ index' = Indexed(Unindexed(index, service[n]), n, b)
    /\ service' = [service EXCEPT ![n] = b]
    /\ UNCHANGED <<registry, failed>>

Creates(n, b) ==
    /\ registry[WorkerOf[b]] = None
    /\ n \in Reg \ Registered
    /\ index' = Indexed(index, n, b)
    /\ service' = [service EXCEPT ![n] = b]
    /\ registry' = [registry EXCEPT ![WorkerOf[b]] = n]
    /\ UNCHANGED failed

Known(b) == byBlob[b] # None

(* Bug: a registration found again is not taken off the list.              *)
MutantFound(b) == oldRegs
Found(b) == oldRegs \ {byBlob[b]}

(* An announcement that has not changed: its registration is kept.         *)
KeepChunk ==
    /\ pc = "load" /\ todo # <<>> /\ Known(Head(todo))
    /\ oldRegs' = Found(Head(todo))
    /\ todo' = Tail(todo)
    /\ UNCHANGED <<fileVars, fresh, pc, byBlob, before, read, invalid, dirVars, failed>>

RegisterChunk ==
    /\ pc = "load" /\ todo # <<>> /\ ~Known(Head(todo)) /\ Head(todo) \in Usable
    /\ \E n \in Reg : /\ Replaces(n, Head(todo)) \/ Creates(n, Head(todo))
                      /\ oldRegs' = oldRegs \ {n}
    /\ todo' = Tail(todo)
    /\ UNCHANGED <<fileVars, fresh, pc, byBlob, before, read, invalid>>

(* Not signed, not understood, or weight 0 (a worker that is suspended).   *)
SkipChunk ==
    /\ pc = "load" /\ todo # <<>> /\ ~Known(Head(todo)) /\ Head(todo) \notin Usable
    /\ todo' = Tail(todo)
    /\ UNCHANGED <<fileVars, fresh, pc, byBlob, oldRegs, before, read, invalid, dirVars, failed>>

(* The registrations that the file no longer backs are deactivated, one by *)
(* one.  Nothing leads to such an object any more, and its number is free. *)
Deactivate(n) ==
    /\ pc = "load" /\ todo = <<>> /\ n \in oldRegs
    /\ oldRegs' = oldRegs \ {n}
    /\ IF registry[WorkerOf[service[n]]] = n
       THEN /\ index' = Unindexed(index, service[n])
            /\ registry' = [registry EXCEPT ![WorkerOf[service[n]]] = None]
       ELSE UNCHANGED <<index, registry>>
    /\ service' = [service EXCEPT ![n] = None]
    /\ failed' = failed \ {n}
    /\ UNCHANGED <<fileVars, fresh, pc, todo, byBlob, before, read, invalid>>

LoadFinish ==
    /\ pc = "load" /\ todo = <<>> /\ oldRegs = {}
    /\ invalid' = FALSE
    /\ pc' = "idle"
    /\ before' = Nobody
    /\ read' = <<>>
    /\ byBlob' = [b \in Blob |-> None]
    /\ UNCHANGED <<fileVars, fresh, todo, oldRegs, dirVars, failed>>

-------------------------------------------------------------------------------
(* connectFailed, from a request whose connection could not be made; and   *)
(* the time it costs the worker is over.                                   *)
ConnectFailed(n) ==
    /\ n \in Registered \ failed
    /\ failed' = failed \union {n}
    /\ UNCHANGED <<fileVars, fresh, pc, loadVars, invalid, dirVars>>

Reactivate(n) ==
    /\ n \in failed
    /\ failed' = failed \ {n}
    /\ UNCHANGED <<fileVars, fresh, pc, loadVars, invalid, dirVars>>

(***************************************************************************)
(* findAction changes nothing: one of the workers under the key, of those  *)
(* that have not failed if there are such.                                 *)
(***************************************************************************)
Candidates(k) == {w \in Worker : index[k][w] # None}

Healthy(k) == {w \in Candidates(k) : index[k][w].reg \notin failed}

FindAction(k) == IF Healthy(k) # {} THEN Healthy(k) ELSE Candidates(k)

-------------------------------------------------------------------------------
Load ==
    \/ Check \/ LoadStat \/ LoadRead
    \/ KeepChunk \/ RegisterChunk \/ SkipChunk
    \/ \E n \in Reg : Deactivate(n)
    \/ LoadFinish

Next ==
    \/ Load
    \/ LoadFails
    \/ \E f \in Files : Replace(f)
    \/ Touch
    \/ GrowOld
    \/ \E n \in Reg : ConnectFailed(n) \/ Reactivate(n)

(* The event loop reports changes and runs the callback to its end; the    *)
(* cache manager touches the file (CacheFile._touch); and a file that is   *)
(* read again and again can be read some time.                             *)
Fairness == WF_vars(Load) /\ WF_vars(Touch) /\ SF_vars(LoadRead)

Spec == Init /\ [][Next]_vars

FairSpec == Spec /\ Fairness

-------------------------------------------------------------------------------
(* Properties                                                              *)

Maybe(S) == S \union {None}

(* Every variable keeps its type.                                          *)
TypeOK ==
    /\ file \in Files /\ old \in BOOLEAN /\ notified \in BOOLEAN /\ fresh \in BOOLEAN
    /\ pc \in {"idle", "stat", "read", "load"}
    /\ todo \in Seq(Blob) /\ read \in Seq(Blob)
    /\ byBlob \in [Blob -> Maybe(Reg)]
    /\ oldRegs \subseteq Reg
    /\ before \in [Worker -> Maybe([reg : Reg, info : Blob])]
    /\ invalid \in BOOLEAN
    /\ registry \in [Worker -> Maybe(Reg)]
    /\ service \in [Reg -> Maybe(Blob)]
    /\ index \in [Key -> [Worker -> Maybe([reg : Reg, info : Blob])]]
    /\ failed \subseteq Reg

(***************************************************************************)
(* The action index always says exactly what the registry says: under each *)
(* key the workers whose current announcement has it, with that            *)
(* announcement's details, and nobody else (_index, _baseIndex:            *)
(* serviceMgr.js:182-229), so findAction never returns a service that has  *)
(* gone or has dropped the action.                                         *)
(***************************************************************************)
IndexConsistent ==
    \A k \in Key, w \in Worker :
       index[k][w] = IF registry[w] # None /\ k \in KeysOf[service[registry[w]]]
                     THEN Block(registry[w], service[registry[w]])
                     ELSE None

(***************************************************************************)
(* A worker that a load leaves registered keeps its Registration object,   *)
(* and with it the record of its failures (serviceMgr.js:97-116, 157-169). *)
(***************************************************************************)
LoadKeepsRegistrations ==
    pc = "load" /\ todo = <<>> /\ oldRegs = {} =>
       \A w \in Worker : before[w] # None /\ registry[w] # None => before[w].reg = registry[w]

(***************************************************************************)
(* While a load is under way its caller sees the directory as it was.      *)
(***************************************************************************)
Shown ==
    [w \in Worker |->
       IF pc = "load" THEN IF before[w] = None THEN None ELSE before[w].info
       ELSE IF registry[w] = None THEN None ELSE service[registry[w]]]

(* What a version of the file amounts to, worker by worker.                *)
ViewOf(f) ==
    [w \in Worker |->
       IF \E b \in ToSet(f) \intersect Usable : WorkerOf[b] = w
       THEN CHOOSE b \in ToSet(f) \intersect Usable : WorkerOf[b] = w
       ELSE None]

(***************************************************************************)
(* Whatever was registered before, a load makes the directory the usable   *)
(* announcements of the contents it has read, also of a file that was      *)
(* replaced meanwhile: the comparison of old and new blobs and the         *)
(* deactivation of the rest never leave or lose one (serviceMgr.js:89-118).*)
(***************************************************************************)
Dir == INSTANCE Directory WITH
          Empty <- Nobody,
          taken <- IF pc = "load" THEN read ELSE None, view <- Shown

ImplementsDirectory == Dir!Spec

(***************************************************************************)
(* When the cache file stays as it is, the directory becomes what it says  *)
(* and stays so, although a replacement within one millisecond goes        *)
(* unnoticed, an old file is not read, and a load that failed is not tried *)
(* again by itself: the touches see to it (observe.js:22-42).              *)
(***************************************************************************)
Converges == \A f \in Files : <>[](file = f) => <>[](Shown = ViewOf(f))
=============================================================================
