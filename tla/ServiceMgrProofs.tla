--------------------------- MODULE ServiceMgrProofs ---------------------------
(***************************************************************************)
(* Proofs about ServiceMgr, for any workers, announcements and cache files.*)
(*                                                                         *)
(* The index follows the registry because a registration is filed under    *)
(* the worker of the announcement it carries (Owned), and registrations    *)
(* are kept because nothing leaves the registry before the whole file was  *)
(* looked at (KeptSoFar) and only what was in it is put on the list of old *)
(* registrations (OldRegistered).                                          *)
(*                                                                         *)
(* That ServiceMgr implements Directory needs to know, in the middle of a  *)
(* load, what the part of the file already looked at has done (LoadInv);   *)
(* that its directory is up to date, whether the contents it read are      *)
(* still those of the file (Following).                                    *)
(***************************************************************************)
EXTENDS ServiceMgr, FiniteSetTheorems, SequenceTheorems, TLAPS

Owned ==
    \A w \in Worker :
       registry[w] # None => /\ service[registry[w]] \in Blob
                             /\ WorkerOf[service[registry[w]]] = w

OldRegistered ==
    \A n \in oldRegs : \E w \in Worker : registry[w] = n

KeptSoFar ==
    pc = "load" =>
       \A w \in Worker :
          before[w] # None => \/ registry[w] = before[w].reg
                              \/ registry[w] = None /\ todo = <<>>

IInv == TypeOK /\ IndexConsistent /\ Owned /\ OldRegistered /\ KeptSoFar

(* Numbers and blocks are not None.                                        *)
LEMMA NoneFacts ==
    /\ Reg \subseteq Nat
    /\ None \notin Reg
    /\ None \notin Blob
    /\ None \notin Files
    /\ \A n \in Reg, b \in Blob : Block(n, b) # None /\ Block(n, b) \in [reg : Reg, info : Blob]
<1>1. Reg \subseteq Nat
  BY WorkersAssumption, FS_CardinalityType DEF Reg
<1>2. \A n \in Reg, b \in Blob : Block(n, b) \in [reg : Nat, info : Blob]
  BY <1>1 DEF Block
<1> QED BY <1>1, <1>2, NoneAssumption DEF Block

(* The initial states satisfy the invariant.                               *)
LEMMA InvInit == Init => IInv
<1> SUFFICES ASSUME Init PROVE IInv
  OBVIOUS
<1> USE NoneFacts DEF Init, Nobody
<1>1. TypeOK
  <2>1. file \in Files /\ old \in BOOLEAN /\ notified \in BOOLEAN /\ fresh \in BOOLEAN
    OBVIOUS
  <2>2. todo \in Seq(Blob) /\ pc \in {"idle", "stat", "read", "load"} /\ invalid \in BOOLEAN
    BY EmptySeq
  <2>3. /\ byBlob \in [Blob -> Maybe(Reg)] /\ oldRegs \subseteq Reg /\ failed \subseteq Reg
        /\ before \in [Worker -> Maybe([reg : Reg, info : Blob])]
    BY DEF Maybe
  <2>4. registry \in [Worker -> Maybe(Reg)] /\ service \in [Reg -> Maybe(Blob)]
    BY DEF Maybe
  <2>5. index \in [Key -> [Worker -> Maybe([reg : Reg, info : Blob])]]
    BY DEF Maybe
  <2> QED BY <2>1, <2>2, <2>3, <2>4, <2>5 DEF TypeOK
<1>2. IndexConsistent
  BY DEF IndexConsistent
<1>3. Owned /\ OldRegistered /\ KeptSoFar
  BY DEF Owned, OldRegistered, KeptSoFar
<1> QED BY <1>1, <1>2, <1>3 DEF IInv

-------------------------------------------------------------------------------
(* Steps that leave the directory alone: the file, the observer's check,   *)
(* an unchanged or useless announcement, the failures.                     *)
LEMMA QuietKeeps ==
    ASSUME IInv, UNCHANGED dirVars, TypeOK', oldRegs' \subseteq oldRegs,
           pc' = "load" => UNCHANGED <<pc, before>> /\ (todo = <<>> => todo' = <<>>)
    PROVE  IInv'
<1> USE DEF IInv, dirVars
<1>1. IndexConsistent' /\ Owned'
  BY DEF IndexConsistent, Owned
<1>2. OldRegistered'
  BY DEF OldRegistered
<1>3. KeptSoFar'
  BY DEF KeptSoFar
<1> QED BY <1>1, <1>2, <1>3

IndexType == [Key -> [Worker -> Maybe([reg : Reg, info : Blob])]]

(* An announcement enters the index under the keys it has.                 *)
LEMMA IndexedAt ==
    ASSUME NEW n \in Reg, NEW b \in Blob,
           NEW idx \in IndexType
    PROVE  /\ Indexed(idx, n, b) \in IndexType
           /\ \A k \in Key, w \in Worker :
                 Indexed(idx, n, b)[k][w] =
                    IF k \in KeysOf[b] /\ w = WorkerOf[b] THEN Block(n, b) ELSE idx[k][w]
BY NoneFacts, WorkerOfAssumption DEF Indexed, Maybe, IndexType

(* And leaves it.                                                          *)
LEMMA UnindexedAt ==
    ASSUME NEW b \in Blob,
           NEW idx \in IndexType
    PROVE  /\ Unindexed(idx, b) \in IndexType
           /\ \A k \in Key, w \in Worker :
                 Unindexed(idx, b)[k][w] =
                    IF k \in KeysOf[b] /\ w = WorkerOf[b] THEN None ELSE idx[k][w]
BY WorkerOfAssumption DEF Unindexed, Maybe, IndexType

(* An announcement enters the index for registration n and the worker of   *)
(* the announcement; whatever that worker had in it before must be gone.   *)
LEMMA FiledUnder ==
    ASSUME IInv, NEW n \in Reg, NEW b \in Blob,
           NEW idx \in IndexType,
           \A k \in Key, w \in Worker :
              idx[k][w] = IF w = WorkerOf[b] THEN None ELSE index[k][w],
           index' = Indexed(idx, n, b),
           service' = [service EXCEPT ![n] = b],
           registry' = [registry EXCEPT ![WorkerOf[b]] = n],
           \A w \in Worker : registry[w] = n => w = WorkerOf[b]
    PROVE  /\ index' \in IndexType
           /\ service' \in [Reg -> Maybe(Blob)]
           /\ registry' \in [Worker -> Maybe(Reg)]
           /\ IndexConsistent' /\ Owned'
<1> DEFINE v == WorkerOf[b]
<1>1. v \in Worker
  BY WorkerOfAssumption
<1>2. /\ registry \in [Worker -> Maybe(Reg)]
      /\ service \in [Reg -> Maybe(Blob)]
  BY DEF IInv, TypeOK
<1>3. /\ index' \in IndexType
      /\ \A k \in Key, w \in Worker :
            index'[k][w] = IF k \in KeysOf[b] /\ w = v THEN Block(n, b) ELSE idx[k][w]
  <2>1. /\ Indexed(idx, n, b) \in IndexType
        /\ \A k \in Key, w \in Worker :
              Indexed(idx, n, b)[k][w] =
                 IF k \in KeysOf[b] /\ w = WorkerOf[b] THEN Block(n, b) ELSE idx[k][w]
    BY IndexedAt
  <2> QED BY <2>1
<1>4. /\ registry' \in [Worker -> Maybe(Reg)]
      /\ service' \in [Reg -> Maybe(Blob)]
      /\ registry'[v] = n /\ service'[n] = b
  BY <1>1, <1>2 DEF Maybe
<1>5. ASSUME NEW w \in Worker, w # v
      PROVE  /\ registry'[w] = registry[w]
             /\ registry[w] # None => service'[registry[w]] = service[registry[w]]
  <2>1. registry'[w] = registry[w]
    BY <1>2, <1>5
  <2>2. registry[w] # None => registry[w] \in Reg /\ registry[w] # n
    BY <1>2, <1>5 DEF Maybe
  <2> QED BY <1>2, <2>1, <2>2
<1>6. Owned'
  <2> SUFFICES ASSUME NEW w \in Worker, registry'[w] # None
               PROVE  /\ service'[registry'[w]] \in Blob
                      /\ WorkerOf[service'[registry'[w]]] = w
    BY DEF Owned
  <2>1. CASE w = v
    BY <1>4, <2>1
  <2>2. CASE w # v
    BY <1>5, <2>2 DEF IInv, Owned
  <2> QED BY <2>1, <2>2
<1>7. IndexConsistent'
  <2> SUFFICES ASSUME NEW k \in Key, NEW w \in Worker
               PROVE  index'[k][w] =
                         IF registry'[w] # None /\ k \in KeysOf[service'[registry'[w]]]
                         THEN Block(registry'[w], service'[registry'[w]]) ELSE None
    BY DEF IndexConsistent
  <2>1. CASE w = v
    <3>1. registry'[w] = n /\ n # None /\ service'[n] = b
      BY <1>4, <2>1, NoneFacts
    <3>2. index'[k][w] = IF k \in KeysOf[b] THEN Block(n, b) ELSE None
      BY <1>3, <2>1
    <3> QED BY <3>1, <3>2
  <2>2. CASE w # v
    <3>1. index'[k][w] = index[k][w]
      BY <1>3, <2>2
    <3> QED BY <1>5, <2>2, <3>1 DEF IInv, IndexConsistent
  <2> QED BY <2>1, <2>2
<1> QED BY <1>3, <1>4, <1>6, <1>7

-------------------------------------------------------------------------------
(* registerService on a worker that is registered.                         *)
LEMMA ReplacesKeeps ==
    ASSUME IInv, NEW n \in Reg, NEW b \in Blob, Replaces(n, b)
    PROVE  /\ index' \in IndexType
           /\ service' \in [Reg -> Maybe(Blob)]
           /\ registry' \in [Worker -> Maybe(Reg)]
           /\ IndexConsistent' /\ Owned'
<1> DEFINE idx == Unindexed(index, service[n])
<1>1. /\ n = registry[WorkerOf[b]]
      /\ index' = Indexed(idx, n, b)
      /\ service' = [service EXCEPT ![n] = b]
      /\ registry' = registry
  BY DEF Replaces
<1>2. /\ WorkerOf[b] \in Worker
      /\ registry \in [Worker -> Maybe(Reg)]
      /\ index \in IndexType
  BY WorkerOfAssumption DEF IInv, TypeOK, IndexType
<1>3. registry' = [registry EXCEPT ![WorkerOf[b]] = n]
  BY <1>1, <1>2
<1>4. service[n] \in Blob /\ WorkerOf[service[n]] = WorkerOf[b]
  BY <1>1, <1>2, NoneFacts DEF IInv, Owned
<1>5. \A w \in Worker : registry[w] = n => w = WorkerOf[b]
  BY <1>4, NoneFacts DEF IInv, Owned
<1>6. /\ idx \in IndexType
      /\ \A k \in Key, w \in Worker :
            idx[k][w] = IF k \in KeysOf[service[n]] /\ w = WorkerOf[b]
                        THEN None ELSE index[k][w]
  BY <1>2, <1>4, UnindexedAt
<1>7. ASSUME NEW k \in Key, k \notin KeysOf[service[n]]
      PROVE  index[k][WorkerOf[b]] = None
  BY <1>1, <1>2, <1>7 DEF IInv, IndexConsistent
<1>8. \A k \in Key, w \in Worker :
         idx[k][w] = IF w = WorkerOf[b] THEN None ELSE index[k][w]
  BY <1>6, <1>7
<1>9. idx \in IndexType /\ index' = Indexed(idx, n, b) /\ service' = [service EXCEPT ![n] = b]
  BY <1>1, <1>6
<1> HIDE DEF idx
<1> QED BY <1>3, <1>5, <1>8, <1>9, FiledUnder

(* registerService on a worker that is not.                                *)
LEMMA CreatesKeeps ==
    ASSUME IInv, NEW n \in Reg, NEW b \in Blob, Creates(n, b)
    PROVE  /\ index' \in IndexType
           /\ service' \in [Reg -> Maybe(Blob)]
           /\ registry' \in [Worker -> Maybe(Reg)]
           /\ IndexConsistent' /\ Owned'
<1>1. /\ registry[WorkerOf[b]] = None /\ n \notin Registered
      /\ index' = Indexed(index, n, b)
      /\ service' = [service EXCEPT ![n] = b]
      /\ registry' = [registry EXCEPT ![WorkerOf[b]] = n]
  BY DEF Creates
<1>2. /\ WorkerOf[b] \in Worker
      /\ index \in IndexType
  BY WorkerOfAssumption DEF IInv, TypeOK, IndexType
<1>3. \A w \in Worker : registry[w] = n => w = WorkerOf[b]
  BY <1>1, NoneFacts DEF Registered
<1>4. \A k \in Key, w \in Worker :
         index[k][w] = IF w = WorkerOf[b] THEN None ELSE index[k][w]
  BY <1>1, <1>2 DEF IInv, IndexConsistent
<1> QED BY <1>1, <1>2, <1>3, <1>4, FiledUnder

(* Any announcement that is registered.                                    *)
LEMMA RegisterKeeps == ASSUME IInv, RegisterChunk PROVE IInv'
<1>1. /\ pc = "load" /\ todo # <<>> /\ Head(todo) \in Usable
      /\ todo' = Tail(todo)
      /\ UNCHANGED <<file, old, notified, fresh, pc, byBlob, before, read, invalid>>
  BY DEF RegisterChunk, fileVars
<1> DEFINE b == Head(todo)
<1>2. b \in Blob
  BY <1>1, UsableAssumption
<1>3. PICK n \in Reg : /\ Replaces(n, b) \/ Creates(n, b)
                       /\ oldRegs' = oldRegs \ {n}
  BY DEF RegisterChunk
<1> HIDE DEF b
<1>4. failed' = failed
  BY <1>3 DEF Replaces, Creates
<1>5. /\ index' \in IndexType
      /\ service' \in [Reg -> Maybe(Blob)]
      /\ registry' \in [Worker -> Maybe(Reg)]
      /\ IndexConsistent' /\ Owned'
  <2>1. CASE Replaces(n, b)
    BY <1>2, <2>1, ReplacesKeeps
  <2>2. CASE Creates(n, b)
    BY <1>2, <2>2, CreatesKeeps
  <2> QED BY <1>3, <2>1, <2>2
<1>6. todo' \in Seq(Blob)
  BY <1>1, HeadTailProperties DEF IInv, TypeOK
<1>7. TypeOK'
  BY <1>1, <1>3, <1>4, <1>5, <1>6 DEF IInv, TypeOK, IndexType
<1>8. \A w \in Worker : registry[w] # None => registry'[w] = registry[w]
  <2>1. registry \in [Worker -> Maybe(Reg)]
    BY DEF IInv, TypeOK
  <2> QED BY <1>3, <2>1 DEF Replaces, Creates
<1>9. OldRegistered'
  <2> SUFFICES ASSUME NEW o \in oldRegs
               PROVE  \E w \in Worker : registry'[w] = o
    BY <1>3 DEF OldRegistered
  <2>1. o \in Reg
    BY DEF IInv, TypeOK
  <2> QED BY <1>8, <2>1, NoneFacts DEF IInv, OldRegistered
<1>10. KeptSoFar'
  <2> SUFFICES ASSUME NEW w \in Worker, before[w] # None
               PROVE  registry'[w] = before[w].reg
    BY <1>1 DEF KeptSoFar
  <2>1. registry[w] = before[w].reg
    BY <1>1 DEF IInv, KeptSoFar
  <2>2. before[w].reg \in Reg
    BY DEF IInv, TypeOK, Maybe
  <2> QED BY <1>8, <2>1, <2>2, NoneFacts
<1> QED BY <1>5, <1>7, <1>9, <1>10 DEF IInv

-------------------------------------------------------------------------------
(* Deactivating a registration takes its worker out of both.               *)
LEMMA DeactivateKeeps == ASSUME IInv, NEW n \in Reg, Deactivate(n) PROVE IInv'
<1>1. /\ pc = "load" /\ todo = <<>> /\ n \in oldRegs
      /\ oldRegs' = oldRegs \ {n}
      /\ service' = [service EXCEPT ![n] = None]
      /\ failed' = failed \ {n}
      /\ UNCHANGED <<file, old, notified, fresh, pc, todo, byBlob, before, read, invalid>>
  BY DEF Deactivate, fileVars
<1>2. PICK v \in Worker : registry[v] = n
  BY <1>1 DEF IInv, OldRegistered
<1>3. service[n] \in Blob /\ WorkerOf[service[n]] = v
  BY <1>2, NoneFacts DEF IInv, Owned
<1>4. /\ index' = Unindexed(index, service[n])
      /\ registry' = [registry EXCEPT ![v] = None]
  BY <1>2, <1>3 DEF Deactivate
<1>5. /\ registry \in [Worker -> Maybe(Reg)]
      /\ service \in [Reg -> Maybe(Blob)]
      /\ index \in IndexType
  BY DEF IInv, TypeOK, IndexType
<1>6. /\ Unindexed(index, service[n]) \in IndexType
      /\ \A k \in Key, w \in Worker :
            Unindexed(index, service[n])[k][w] =
               IF k \in KeysOf[service[n]] /\ w = v THEN None ELSE index[k][w]
  BY <1>3, <1>5, UnindexedAt
<1>7. /\ registry' \in [Worker -> Maybe(Reg)] /\ registry'[v] = None
      /\ service' \in [Reg -> Maybe(Blob)]
  BY <1>1, <1>4, <1>5 DEF Maybe
<1>8. ASSUME NEW w \in Worker, w # v
      PROVE  /\ registry'[w] = registry[w]
             /\ registry[w] # None => service'[registry[w]] = service[registry[w]]
  <2>1. registry'[w] = registry[w]
    BY <1>4, <1>5, <1>8
  <2>2. registry[w] # None => registry[w] \in Reg /\ registry[w] # n
    BY <1>3, <1>5, <1>8 DEF Maybe, IInv, Owned
  <2> QED BY <1>1, <1>5, <2>1, <2>2
<1>9. TypeOK'
  BY <1>1, <1>4, <1>6, <1>7 DEF IInv, TypeOK, IndexType
<1>10. Owned'
  BY <1>7, <1>8 DEF IInv, Owned
<1>11. IndexConsistent'
  <2> SUFFICES ASSUME NEW k \in Key, NEW w \in Worker
               PROVE  index'[k][w] =
                         IF registry'[w] # None /\ k \in KeysOf[service'[registry'[w]]]
                         THEN Block(registry'[w], service'[registry'[w]]) ELSE None
    BY DEF IndexConsistent
  <2>1. index'[k][w] = IF k \in KeysOf[service[n]] /\ w = v THEN None ELSE index[k][w]
    BY <1>4, <1>6
  <2>2. CASE w = v
    BY <1>2, <1>7, <2>1, <2>2 DEF IInv, IndexConsistent
  <2>3. CASE w # v
    BY <1>8, <2>1, <2>3 DEF IInv, IndexConsistent
  <2> QED BY <2>2, <2>3
<1>12. OldRegistered'
  <2> SUFFICES ASSUME NEW o \in oldRegs, o # n
               PROVE  \E w \in Worker : registry'[w] = o
    BY <1>1 DEF OldRegistered
  <2>1. PICK w \in Worker : registry[w] = o
    BY DEF IInv, OldRegistered
  <2>2. w # v
    BY <1>2, <2>1
  <2> QED BY <1>8, <2>1, <2>2
<1>13. KeptSoFar'
  <2> SUFFICES ASSUME NEW w \in Worker, before[w] # None
               PROVE  registry'[w] = before[w].reg \/ registry'[w] = None
    BY <1>1 DEF KeptSoFar
  <2>1. registry[w] = before[w].reg \/ registry[w] = None
    BY <1>1 DEF IInv, KeptSoFar
  <2> QED BY <1>7, <1>8, <2>1
<1> QED BY <1>9, <1>10, <1>11, <1>12, <1>13 DEF IInv

-------------------------------------------------------------------------------
(* The observer reads the file and notes what is registered.               *)
LEMMA LoadReadKeeps == ASSUME IInv, LoadRead PROVE IInv'
<1> USE DEF LoadRead, fileVars, dirVars
<1>1. Registered \subseteq Reg
  BY NoneFacts DEF IInv, TypeOK, Registered, Maybe
<1>2. before' \in [Worker -> Maybe([reg : Reg, info : Blob])]
  <2> SUFFICES ASSUME NEW w \in Worker, registry[w] # None
               PROVE  Block(registry[w], service[registry[w]]) \in [reg : Reg, info : Blob]
    BY DEF Maybe
  <2>1. registry[w] \in Reg /\ service[registry[w]] \in Blob
    BY DEF IInv, TypeOK, Owned, Maybe
  <2> QED BY <2>1, NoneFacts
<1>3. byBlob' \in [Blob -> Maybe(Reg)]
  <2> SUFFICES ASSUME NEW b \in Blob, \E n \in Registered : service[n] = b
               PROVE  (CHOOSE n \in Registered : service[n] = b) \in Reg
    BY DEF Maybe
  <2> QED BY <1>1
<1>4. todo' \in Seq(Blob)
  BY FilesAssumption DEF IInv, TypeOK
<1>5. TypeOK'
  BY <1>1, <1>2, <1>3, <1>4 DEF IInv, TypeOK
<1>6. IndexConsistent' /\ Owned'
  BY DEF IInv, IndexConsistent, Owned
<1>7. OldRegistered'
  BY DEF OldRegistered, Registered
<1>8. KeptSoFar'
  <2> SUFFICES ASSUME NEW w \in Worker, before'[w] # None
               PROVE  registry[w] = before'[w].reg
    BY DEF KeptSoFar
  <2>1. before'[w] = Block(registry[w], service[registry[w]])
    OBVIOUS
  <2>2. before'[w].reg = registry[w]
    BY <2>1 DEF Block
  <2> QED BY <2>2
<1> QED BY <1>5, <1>6, <1>7, <1>8 DEF IInv

(* The other steps of the observer.                                        *)
LEMMA CheckKeeps ==
    ASSUME IInv, Check \/ LoadStat \/ LoadFails \/ LoadFinish PROVE IInv'
<1>1. pc' # "load" /\ UNCHANGED dirVars /\ oldRegs' \subseteq oldRegs
  BY DEF Check, LoadStat, LoadFails, LoadFinish, loadVars, dirVars
<1>2. TypeOK'
  <2> USE DEF fileVars, loadVars, dirVars
  <2>1. CASE Check
    BY <2>1 DEF IInv, TypeOK, Check
  <2>2. CASE LoadStat
    BY <2>2 DEF IInv, TypeOK, LoadStat
  <2>3. CASE LoadFinish
    BY <2>3 DEF IInv, TypeOK, LoadFinish, Nobody, Maybe
  <2>4. CASE LoadFails
    BY <2>4 DEF IInv, TypeOK, LoadFails
  <2> QED BY <2>1, <2>2, <2>3, <2>4
<1> QED BY <1>1, <1>2, QuietKeeps

LEMMA ChunkKeeps == ASSUME IInv, KeepChunk \/ SkipChunk PROVE IInv'
<1>1. /\ todo # <<>> /\ todo' = Tail(todo)
      /\ oldRegs' \subseteq oldRegs
      /\ UNCHANGED <<pc, before>> /\ UNCHANGED dirVars
      /\ (todo = <<>> => todo' = <<>>)
      /\ UNCHANGED <<file, old, notified, fresh, byBlob, read, invalid, failed>>
  BY DEF KeepChunk, SkipChunk, Found, fileVars, dirVars
<1>2. todo' \in Seq(Blob)
  BY <1>1, HeadTailProperties DEF IInv, TypeOK
<1>3. TypeOK'
  BY <1>1, <1>2 DEF IInv, TypeOK, dirVars
<1> QED BY <1>1, <1>3, QuietKeeps

(* The cache manager, the clock, and the requests that fail.               *)
LEMMA OthersKeep ==
    ASSUME IInv,
           \/ \E f \in Files : Replace(f)
           \/ Touch \/ GrowOld
           \/ \E n \in Reg : ConnectFailed(n) \/ Reactivate(n)
    PROVE  IInv'
<1>1. /\ UNCHANGED dirVars /\ oldRegs' \subseteq oldRegs
      /\ UNCHANGED <<pc, before>> /\ (todo = <<>> => todo' = <<>>)
  BY DEF Replace, Touch, GrowOld, ConnectFailed, Reactivate, loadVars, dirVars
<1>2. TypeOK'
  <2> USE DEF fileVars, loadVars, dirVars
  <2>1. CASE \E f \in Files : Replace(f)
    BY <2>1 DEF IInv, TypeOK, Replace
  <2>2. CASE Touch \/ GrowOld
    BY <2>2 DEF IInv, TypeOK, Touch, GrowOld
  <2>3. CASE \E n \in Reg : ConnectFailed(n) \/ Reactivate(n)
    BY <2>3 DEF IInv, TypeOK, ConnectFailed, Reactivate
  <2> QED BY <2>1, <2>2, <2>3
<1> QED BY <1>1, <1>2, QuietKeeps

(* Every step preserves the invariant.                                     *)
LEMMA InvNext == IInv /\ [Next]_vars => IInv'
<1> SUFFICES ASSUME IInv, [Next]_vars PROVE IInv'
  OBVIOUS
<1>1. CASE Check \/ LoadStat \/ LoadFails \/ LoadFinish
  BY <1>1, CheckKeeps
<1>2. CASE LoadRead
  BY <1>2, LoadReadKeeps
<1>3. CASE KeepChunk \/ SkipChunk
  BY <1>3, ChunkKeeps
<1>4. CASE RegisterChunk
  BY <1>4, RegisterKeeps
<1>5. CASE \E n \in Reg : Deactivate(n)
  BY <1>5, DeactivateKeeps
<1>6. CASE \/ \E f \in Files : Replace(f)
           \/ Touch \/ GrowOld
           \/ \E n \in Reg : ConnectFailed(n) \/ Reactivate(n)
  BY <1>6, OthersKeep
<1>7. CASE UNCHANGED vars
  <2>1. UNCHANGED <<file, old, notified, fresh, pc, todo, byBlob, oldRegs, before, read,
                    invalid, registry, service, index, failed>>
    BY <1>7 DEF vars, fileVars, loadVars, dirVars
  <2>2. TypeOK'
    BY <2>1 DEF IInv, TypeOK
  <2>3. /\ UNCHANGED dirVars /\ oldRegs' \subseteq oldRegs
        /\ UNCHANGED <<pc, before>> /\ (todo = <<>> => todo' = <<>>)
    BY <2>1 DEF dirVars
  <2> QED BY <2>2, <2>3, QuietKeeps
<1> QED BY <1>1, <1>2, <1>3, <1>4, <1>5, <1>6, <1>7 DEF Next, Load

-------------------------------------------------------------------------------
(* The strengthened invariant holds in every state the program reaches.    *)
THEOREM Invariance == Spec => []IInv
BY InvInit, InvNext, PTL DEF Spec

(* Type correctness of the registry, the index and the load in progress.   *)
THEOREM TypeCorrect == Spec => []TypeOK
<1>1. IInv => TypeOK
  BY DEF IInv
<1> QED BY <1>1, Invariance, PTL

(* The action index always says what the registry says, in the middle of a *)
(* load too.                                                               *)
THEOREM IndexAlwaysConsistent == Spec => []IndexConsistent
<1>1. IInv => IndexConsistent
  BY DEF IInv
<1> QED BY <1>1, Invariance, PTL

(* A worker that a load leaves registered keeps its Registration object.   *)
THEOREM RegistrationsKept == Spec => []LoadKeepsRegistrations
<1>1. IInv => LoadKeepsRegistrations
  BY DEF IInv, KeptSoFar, LoadKeepsRegistrations
<1> QED BY <1>1, Invariance, PTL

-------------------------------------------------------------------------------
(***************************************************************************)
(* The refinement.  What a load amounts to at its end needs an invariant   *)
(* of the load in progress.  The chunks still to do are the end of the     *)
(* contents read (Remaining); a registration is either still on the list   *)
(* of old ones or carries an announcement already looked at (Accounted);   *)
(* a usable announcement already looked at is registered, and safe from    *)
(* the deactivation (Settled); and the note which registration had a blob  *)
(* is right for every chunk to come (Noted).                               *)
(***************************************************************************)
Processed == {read[i] : i \in 1 .. Len(read) - Len(todo)}

Remaining ==
    /\ Len(todo) <= Len(read)
    /\ \A i \in 1 .. Len(todo) : todo[i] = read[Len(read) - Len(todo) + i]

Backed(n) == n \in oldRegs \/ service[n] \in Processed

Accounted == \A w \in Worker : registry[w] # None => Backed(registry[w])

Carries(w, b) == registry[w] # None /\ service[registry[w]] = b

Settled ==
    \A b \in Processed \intersect Usable :
       Carries(WorkerOf[b], b) /\ registry[WorkerOf[b]] \notin oldRegs

Noted ==
    \A i \in 1 .. Len(todo) :
       Known(todo[i]) => /\ registry[WorkerOf[todo[i]]] = byBlob[todo[i]]
                         /\ Carries(WorkerOf[todo[i]], todo[i])

OnlyUsable == \A w \in Worker : registry[w] # None => service[registry[w]] \in Usable

LoadInv ==
    /\ OnlyUsable
    /\ pc = "load" => read \in Files /\ Remaining /\ Accounted /\ Settled /\ Noted

(* Nothing is registered at first.                                         *)
LEMMA LoadInit == Init => LoadInv
BY DEF Init, Nobody, LoadInv, OnlyUsable

(* Only the observer's own steps, once the file is read, concern LoadInv.  *)
LEMMA LoadQuiet ==
    ASSUME IInv, LoadInv, UNCHANGED dirVars,
           pc' = "load" => UNCHANGED <<pc, todo, byBlob, oldRegs, read>>
    PROVE  LoadInv'
<1> USE DEF dirVars
<1>1. OnlyUsable'
  BY DEF LoadInv, OnlyUsable
<1>2. CASE pc' # "load"
  BY <1>1, <1>2 DEF LoadInv
<1>3. CASE pc' = "load"
  <2>1. pc = "load" /\ UNCHANGED <<todo, byBlob, oldRegs, read, registry, service>>
    BY <1>3
  <2>2. read' \in Files /\ Processed' = Processed /\ Remaining'
    BY <2>1 DEF LoadInv, Remaining, Processed
  <2>3. Accounted'
    BY <2>1, <2>2 DEF LoadInv, Accounted, Backed
  <2>4. Settled'
    BY <2>1, <2>2 DEF LoadInv, Settled, Carries
  <2>5. Noted'
    BY <2>1, <2>2 DEF LoadInv, Noted, Known, Carries
  <2> QED BY <1>1, <2>2, <2>3, <2>4, <2>5 DEF LoadInv
<1> QED BY <1>2, <1>3

(* Two registered workers have registrations of their own.                 *)
LEMMA Distinct ==
    ASSUME IInv, NEW v \in Worker, NEW w \in Worker, v # w, registry[w] # None
    PROVE  registry[v] # registry[w]
BY DEF IInv, Owned

(* The file is read: everything is still to do.                            *)
LEMMA LoadReadBegins == ASSUME IInv, LoadInv, LoadRead PROVE LoadInv'
<1>1. /\ todo' = file /\ read' = file /\ oldRegs' = Registered
      /\ byBlob' = [b \in Blob |-> IF \E n \in Registered : service[n] = b
                                   THEN CHOOSE n \in Registered : service[n] = b
                                   ELSE None]
      /\ UNCHANGED <<registry, service>>
  BY DEF LoadRead, dirVars
<1>2. file \in Files /\ file \in Seq(Blob) /\ Len(file) \in Nat
  BY FilesAssumption, LenProperties DEF IInv, TypeOK
<1>3. Remaining'
  BY <1>1, <1>2 DEF Remaining
<1>4. Processed' = {}
  BY <1>1, <1>2 DEF Processed
<1>5. OnlyUsable' /\ Accounted' /\ Settled'
  BY <1>1, <1>4 DEF LoadInv, OnlyUsable, Accounted, Backed, Settled, Registered
<1>6. Noted'
  <2> SUFFICES ASSUME NEW i \in 1 .. Len(file), byBlob'[file[i]] # None
               PROVE  /\ registry[WorkerOf[file[i]]] = byBlob'[file[i]]
                      /\ Carries(WorkerOf[file[i]], file[i])
    BY <1>1 DEF Noted, Known, Carries
  <2> DEFINE b == file[i]
  <2>1. b \in Blob
    BY <1>2, ElementOfSeq
  <2>2. byBlob'[b] \in Registered /\ service[byBlob'[b]] = b
    BY <1>1, <2>1
  <2>3. PICK w \in Worker : registry[w] = byBlob'[b] /\ registry[w] # None
    BY <2>2 DEF Registered
  <2>4. WorkerOf[b] = w
    BY <2>2, <2>3 DEF IInv, Owned
  <2> QED BY <2>2, <2>3, <2>4 DEF Carries
<1> QED BY <1>1, <1>2, <1>3, <1>5, <1>6 DEF LoadInv

-------------------------------------------------------------------------------
(* What is left to do and what was looked at, when a chunk is taken off.   *)
LEMMA NextChunk ==
    ASSUME IInv, LoadInv, pc = "load", todo # <<>>, todo' = Tail(todo), read' = read
    PROVE  /\ Remaining'
           /\ Processed' = Processed \union {Head(todo)}
           /\ \A i \in 1 .. Len(todo') : i + 1 \in 2 .. Len(todo) /\ todo'[i] = todo[i + 1]
           /\ Head(todo) \in Blob /\ Head(todo) = todo[1] /\ 1 \in 1 .. Len(todo)
<1>1. todo \in Seq(Blob) /\ read \in Seq(Blob) /\ Remaining
  BY DEF IInv, TypeOK, LoadInv
<1>2. /\ Len(todo) \in Nat \ {0} /\ Len(read) \in Nat
      /\ Head(todo) = todo[1] /\ Head(todo) \in Blob
      /\ Len(todo') = Len(todo) - 1
      /\ \A i \in 1 .. Len(todo') : todo'[i] = todo[i + 1]
  BY <1>1, HeadTailProperties, LenProperties, EmptySeq
<1>3. \A i \in 1 .. Len(todo') : i + 1 \in 2 .. Len(todo) /\ todo'[i] = todo[i + 1]
  BY <1>2
<1>4. Remaining'
  <2>1. Len(todo') <= Len(read)
    BY <1>1, <1>2 DEF Remaining
  <2>2. ASSUME NEW i \in 1 .. Len(todo')
        PROVE  todo'[i] = read[Len(read) - Len(todo') + i]
    <3>1. todo[i + 1] = read[Len(read) - Len(todo) + (i + 1)]
      BY <1>1, <1>2 DEF Remaining
    <3>2. Len(read) - Len(todo) + (i + 1) = Len(read) - Len(todo') + i
      BY <1>2
    <3> QED BY <1>2, <3>1, <3>2
  <2> QED BY <2>1, <2>2 DEF Remaining
<1>5. Processed' = Processed \union {Head(todo)}
  <2> DEFINE k == Len(read) - Len(todo)
  <2>1. k \in Nat /\ Len(read) - Len(todo') = k + 1
    BY <1>1, <1>2 DEF Remaining
  <2>2. Head(todo) = read[k + 1]
    BY <1>1, <1>2 DEF Remaining
  <2>3. 1 .. k + 1 = (1 .. k) \union {k + 1}
    BY <2>1
  <2>4. Processed' = {read[i] : i \in 1 .. k + 1}
    BY <2>1 DEF Processed
  <2> HIDE DEF k
  <2> QED BY <2>2, <2>3, <2>4 DEF Processed, k
<1> QED BY <1>2, <1>3, <1>4, <1>5

(* A file has one announcement of a worker: the others, looked at or to    *)
(* come, are of other workers.                                             *)
LEMMA OneChunkEach ==
    ASSUME IInv, LoadInv, pc = "load", todo # <<>>
    PROVE  /\ \A b \in Processed : b \in Blob /\ WorkerOf[b] # WorkerOf[Head(todo)]
           /\ \A i \in 2 .. Len(todo) :
                 todo[i] \in Blob /\ WorkerOf[todo[i]] # WorkerOf[Head(todo)]
<1>1. todo \in Seq(Blob) /\ read \in Seq(Blob) /\ Remaining /\ read \in Files
  BY DEF IInv, TypeOK, LoadInv
<1>2. /\ Len(todo) \in Nat \ {0} /\ Len(read) \in Nat
      /\ Head(todo) = todo[1] /\ DOMAIN read = 1 .. Len(read)
  BY <1>1, HeadTailProperties, LenProperties, EmptySeq
<1> DEFINE k == Len(read) - Len(todo)
<1>3. k \in Nat /\ k + 1 \in 1 .. Len(read) /\ Head(todo) = read[k + 1]
  BY <1>1, <1>2 DEF Remaining
<1>4. \A i, j \in 1 .. Len(read) : WorkerOf[read[i]] = WorkerOf[read[j]] => i = j
  BY <1>1, <1>2, FilesAssumption
<1>5. ASSUME NEW i \in 1 .. k
      PROVE  read[i] \in Blob /\ WorkerOf[read[i]] # WorkerOf[Head(todo)]
  <2>1. i \in 1 .. Len(read) /\ i # k + 1
    BY <1>2, <1>3
  <2> QED BY <1>1, <1>3, <1>4, <2>1, ElementOfSeq
<1>6. ASSUME NEW i \in 2 .. Len(todo)
      PROVE  todo[i] \in Blob /\ WorkerOf[todo[i]] # WorkerOf[Head(todo)]
  <2>1. todo[i] = read[k + i] /\ k + i \in 1 .. Len(read) /\ k + i # k + 1
    BY <1>1, <1>2, <1>3 DEF Remaining
  <2> HIDE DEF k
  <2> QED BY <1>1, <1>3, <1>4, <2>1, ElementOfSeq
<1> QED BY <1>5, <1>6 DEF Processed

-------------------------------------------------------------------------------
(***************************************************************************)
(* Registration n now carries the chunk b of worker v and is off the list  *)
(* of old ones; the other workers' registrations are as they were.         *)
(***************************************************************************)
Settles(n, b) ==
    /\ b \in Usable
    /\ n # None
    /\ registry'[WorkerOf[b]] = n /\ service'[n] = b
    /\ oldRegs' = oldRegs \ {n}
    /\ \A w \in Worker \ {WorkerOf[b]} :
          /\ registry'[w] = registry[w]
          /\ registry[w] # None => registry[w] # n /\ service'[registry[w]] = service[registry[w]]

(* An announcement that was registered, as it was or anew.                 *)
LEMMA SettlesKeeps ==
    ASSUME IInv, LoadInv, pc = "load", todo # <<>>, todo' = Tail(todo),
           UNCHANGED <<pc, byBlob, read>>,
           NEW n, Settles(n, Head(todo))
    PROVE  LoadInv'
<1> DEFINE b == Head(todo)
<1>1. /\ Remaining'
      /\ Processed' = Processed \union {b}
      /\ \A i \in 1 .. Len(todo') : i + 1 \in 2 .. Len(todo) /\ todo'[i] = todo[i + 1]
      /\ b \in Blob
  BY NextChunk
<1>2. /\ \A c \in Processed : c \in Blob /\ WorkerOf[c] # WorkerOf[b]
      /\ \A i \in 2 .. Len(todo) : todo[i] \in Blob /\ WorkerOf[todo[i]] # WorkerOf[b]
  BY OneChunkEach
<1>3. Settles(n, b)
  OBVIOUS
<1> HIDE DEF b
<1>4. WorkerOf[b] \in Worker /\ \A c \in Blob : WorkerOf[c] \in Worker
  BY <1>1, WorkerOfAssumption
<1>5. ASSUME NEW c \in Blob, WorkerOf[c] # WorkerOf[b], Carries(WorkerOf[c], c)
      PROVE  /\ Carries(WorkerOf[c], c)' /\ registry[WorkerOf[c]] # n
             /\ registry'[WorkerOf[c]] = registry[WorkerOf[c]]
  BY <1>3, <1>4, <1>5 DEF Settles, Carries
<1>6. OnlyUsable'
  <2> SUFFICES ASSUME NEW w \in Worker, registry'[w] # None
               PROVE  service'[registry'[w]] \in Usable
    BY DEF OnlyUsable
  <2> QED BY <1>3, <1>4 DEF Settles, LoadInv, OnlyUsable
<1>7. Accounted'
  <2> SUFFICES ASSUME NEW w \in Worker, registry'[w] # None
               PROVE  Backed(registry[w])'
    BY DEF Accounted
  <2>1. CASE w = WorkerOf[b]
    BY <1>1, <1>3, <2>1 DEF Settles, Backed
  <2>2. CASE w # WorkerOf[b]
    <3>1. registry'[w] = registry[w] /\ registry[w] # n /\ service'[registry[w]] = service[registry[w]]
      BY <1>3, <2>2 DEF Settles
    <3>2. Backed(registry[w])
      BY <3>1 DEF LoadInv, Accounted
    <3> QED BY <1>1, <1>3, <3>1, <3>2 DEF Backed, Settles
  <2> QED BY <2>1, <2>2
<1>8. Settled'
  <2> SUFFICES ASSUME NEW c \in Processed' \intersect Usable
               PROVE  Carries(WorkerOf[c], c)' /\ registry'[WorkerOf[c]] \notin oldRegs'
    BY DEF Settled
  <2>1. CASE c = b
    BY <1>3, <2>1 DEF Settles, Carries
  <2>2. CASE c \in Processed
    <3>1. Carries(WorkerOf[c], c) /\ registry[WorkerOf[c]] \notin oldRegs
      BY <2>2 DEF LoadInv, Settled
    <3> QED BY <1>2, <1>3, <1>5, <2>2, <3>1 DEF Settles
  <2> QED BY <1>1, <2>1, <2>2
<1>9. Noted'
  <2> SUFFICES ASSUME NEW i \in 1 .. Len(todo'), NEW c, c = todo[i + 1], byBlob[c] # None
               PROVE  /\ registry'[WorkerOf[c]] = byBlob[c]
                      /\ Carries(WorkerOf[c], c)'
    BY <1>1 DEF Noted, Known, Carries
  <2>1. i + 1 \in 1 .. Len(todo) /\ i + 1 \in 2 .. Len(todo)
    BY <1>1
  <2>2. registry[WorkerOf[c]] = byBlob[c] /\ Carries(WorkerOf[c], c)
    BY <2>1 DEF LoadInv, Noted, Known
  <2>3. c \in Blob /\ WorkerOf[c] # WorkerOf[b]
    BY <1>2, <2>1
  <2> QED BY <1>5, <2>2, <2>3
<1> QED BY <1>1, <1>6, <1>7, <1>8, <1>9 DEF LoadInv

(* An unchanged announcement.                                              *)
LEMMA KeepSettles == ASSUME IInv, LoadInv, KeepChunk PROVE LoadInv'
<1>1. /\ pc = "load" /\ todo # <<>> /\ Known(Head(todo))
      /\ oldRegs' = oldRegs \ {byBlob[Head(todo)]}
      /\ todo' = Tail(todo)
      /\ UNCHANGED <<pc, byBlob, read>>
      /\ UNCHANGED <<registry, service>>
  BY DEF KeepChunk, Found, dirVars
<1>2. 1 \in 1 .. Len(todo) /\ Head(todo) = todo[1] /\ Head(todo) \in Blob
  BY <1>1, NextChunk
<1>3. /\ registry[WorkerOf[Head(todo)]] = byBlob[Head(todo)]
      /\ Carries(WorkerOf[Head(todo)], Head(todo))
  BY <1>1, <1>2 DEF LoadInv, Noted
<1>4. WorkerOf[Head(todo)] \in Worker
  BY <1>2, WorkerOfAssumption
<1>5. Settles(byBlob[Head(todo)], Head(todo))
  BY <1>1, <1>3, <1>4, Distinct DEF Settles, Carries, LoadInv, OnlyUsable
<1> QED BY <1>1, <1>5, SettlesKeeps

(* A new or changed one.                                                   *)
LEMMA RegisterSettles == ASSUME IInv, LoadInv, RegisterChunk PROVE LoadInv'
<1>1. /\ pc = "load" /\ todo # <<>> /\ Head(todo) \in Usable
      /\ todo' = Tail(todo)
      /\ UNCHANGED <<pc, byBlob, read>>
  BY DEF RegisterChunk
<1>2. PICK n \in Reg : /\ Replaces(n, Head(todo)) \/ Creates(n, Head(todo))
                       /\ oldRegs' = oldRegs \ {n}
  BY DEF RegisterChunk
<1> DEFINE b == Head(todo)
<1>3. WorkerOf[b] \in Worker /\ b \in Blob
  BY <1>1, UsableAssumption, WorkerOfAssumption
<1>4. /\ registry \in [Worker -> Maybe(Reg)] /\ service \in [Reg -> Maybe(Blob)]
  BY DEF IInv, TypeOK
<1>5. b \in Usable /\ n # None
  BY <1>1, NoneFacts
<1>6. Replaces(n, b) \/ Creates(n, b)
  BY <1>2
<1> HIDE DEF b
<1>7. registry'[WorkerOf[b]] = n /\ service'[n] = b
  BY <1>3, <1>4, <1>6 DEF Replaces, Creates
<1>8. ASSUME NEW w \in Worker \ {WorkerOf[b]}
      PROVE  /\ registry'[w] = registry[w]
             /\ registry[w] # None => registry[w] # n /\ service'[registry[w]] = service[registry[w]]
  <2>1. registry'[w] = registry[w]
    BY <1>3, <1>4, <1>6 DEF Replaces, Creates
  <2>2. registry[w] # None => registry[w] # n
    BY <1>3, <1>5, <1>6, Distinct DEF Replaces, Creates, Registered
  <2>3. registry[w] # None => registry[w] \in Reg
    BY <1>4 DEF Maybe
  <2>4. service' = [service EXCEPT ![n] = b]
    BY <1>6 DEF Replaces, Creates
  <2> QED BY <1>4, <2>1, <2>2, <2>3, <2>4
<1>9. Settles(n, b)
  BY <1>2, <1>5, <1>7, <1>8 DEF Settles
<1> QED BY <1>1, <1>9, SettlesKeeps DEF b

(* A useless one.                                                          *)
LEMMA SkipSettles == ASSUME IInv, LoadInv, SkipChunk PROVE LoadInv'
<1>1. /\ pc = "load" /\ todo # <<>> /\ Head(todo) \notin Usable
      /\ todo' = Tail(todo)
      /\ UNCHANGED <<pc, byBlob, oldRegs, read, registry, service>>
  BY DEF SkipChunk, dirVars
<1>2. /\ Remaining'
      /\ Processed' = Processed \union {Head(todo)}
      /\ \A i \in 1 .. Len(todo') : i + 1 \in 2 .. Len(todo) /\ todo'[i] = todo[i + 1]
  BY <1>1, NextChunk
<1>3. Accounted' /\ OnlyUsable'
  BY <1>1, <1>2 DEF LoadInv, Accounted, Backed, OnlyUsable
<1>4. Settled'
  BY <1>1, <1>2 DEF LoadInv, Settled, Carries
<1>5. Noted'
  <2> SUFFICES ASSUME NEW i \in 1 .. Len(todo'), NEW c, c = todo[i + 1], byBlob[c] # None
               PROVE  registry[WorkerOf[c]] = byBlob[c] /\ Carries(WorkerOf[c], c)
    BY <1>1, <1>2 DEF Noted, Known, Carries
  <2>1. i + 1 \in 1 .. Len(todo)
    BY <1>2
  <2> QED BY <1>1, <2>1 DEF LoadInv, Noted, Known
<1> QED BY <1>1, <1>2, <1>3, <1>4, <1>5 DEF LoadInv

(* The deactivation hits only what the file does not back.                 *)
LEMMA DeactivateSettles == ASSUME IInv, LoadInv, NEW n \in Reg, Deactivate(n) PROVE LoadInv'
<1>1. /\ pc = "load" /\ todo = <<>> /\ n \in oldRegs
      /\ oldRegs' = oldRegs \ {n}
      /\ service' = [service EXCEPT ![n] = None]
      /\ UNCHANGED <<pc, todo, byBlob, read>>
  BY DEF Deactivate
<1>2. PICK v \in Worker : registry[v] = n
  BY <1>1 DEF IInv, OldRegistered
<1>3. registry' = [registry EXCEPT ![v] = None]
  BY <1>2, NoneFacts DEF Deactivate, IInv, Owned
<1>4. registry \in [Worker -> Maybe(Reg)] /\ service \in [Reg -> Maybe(Blob)]
  BY DEF IInv, TypeOK
<1>5. ASSUME NEW w \in Worker, w # v
      PROVE  /\ registry'[w] = registry[w]
             /\ registry[w] # None => registry[w] # n /\ service'[registry[w]] = service[registry[w]]
  <2>1. registry'[w] = registry[w]
    BY <1>3, <1>4, <1>5
  <2>2. registry[w] # None => registry[w] \in Reg /\ registry[w] # n
    BY <1>2, <1>4, <1>5, Distinct DEF Maybe
  <2> QED BY <1>1, <1>4, <2>1, <2>2
<1>6. registry'[v] = None
  BY <1>3, <1>4
<1>7. Processed' = Processed /\ Remaining' /\ read' \in Files
  BY <1>1 DEF LoadInv, Processed, Remaining
<1>8. OnlyUsable'
  BY <1>5, <1>6 DEF LoadInv, OnlyUsable
<1>9. Accounted'
  <2> SUFFICES ASSUME NEW w \in Worker, registry'[w] # None
               PROVE  Backed(registry[w])'
    BY DEF Accounted
  <2>1. /\ registry'[w] = registry[w] /\ registry[w] # n
        /\ service'[registry[w]] = service[registry[w]]
    BY <1>5, <1>6
  <2> QED BY <1>1, <1>7, <2>1 DEF LoadInv, Accounted, Backed
<1>10. Settled'
  <2> SUFFICES ASSUME NEW c \in Processed \intersect Usable
               PROVE  Carries(WorkerOf[c], c)' /\ registry'[WorkerOf[c]] \notin oldRegs'
    BY <1>7 DEF Settled
  <2>1. Carries(WorkerOf[c], c) /\ registry[WorkerOf[c]] \notin oldRegs
    BY <1>1 DEF LoadInv, Settled
  <2>2. WorkerOf[c] \in Worker /\ WorkerOf[c] # v
    BY <1>1, <1>2, <2>1, UsableAssumption, WorkerOfAssumption
  <2> QED BY <1>1, <1>5, <2>1, <2>2 DEF Carries
<1>11. Noted'
  <2>1. Len(todo') = 0
    BY <1>1, EmptySeq
  <2> QED BY <2>1 DEF Noted
<1> QED BY <1>1, <1>7, <1>8, <1>9, <1>10, <1>11 DEF LoadInv

(* Every step preserves it.                                                *)
LEMMA LoadNext == IInv /\ LoadInv /\ [Next]_vars => LoadInv'
<1> SUFFICES ASSUME IInv, LoadInv, [Next]_vars PROVE LoadInv'
  OBVIOUS
<1>1. CASE Check \/ LoadStat \/ LoadFails \/ LoadFinish
  <2>1. pc' # "load" /\ UNCHANGED dirVars
    BY <1>1 DEF Check, LoadStat, LoadFails, LoadFinish
  <2> QED BY <2>1, LoadQuiet
<1>2. CASE LoadRead
  BY <1>2, LoadReadBegins
<1>3. CASE KeepChunk
  BY <1>3, KeepSettles
<1>4. CASE SkipChunk
  BY <1>4, SkipSettles
<1>5. CASE RegisterChunk
  BY <1>5, RegisterSettles
<1>6. CASE \E n \in Reg : Deactivate(n)
  BY <1>6, DeactivateSettles
<1>7. CASE \/ \E f \in Files : Replace(f)
           \/ Touch \/ GrowOld
           \/ \E n \in Reg : ConnectFailed(n) \/ Reactivate(n)
           \/ UNCHANGED vars
  <2>1. UNCHANGED dirVars /\ UNCHANGED <<pc, todo, byBlob, oldRegs, read>>
    BY <1>7 DEF Replace, Touch, GrowOld, ConnectFailed, Reactivate, vars, loadVars
  <2> QED BY <2>1, LoadQuiet
<1> QED BY <1>1, <1>2, <1>3, <1>4, <1>5, <1>6, <1>7 DEF Next, Load

-------------------------------------------------------------------------------
(* The contents of the file, all looked at, are what the directory shows.  *)
LEMMA FinishShows == ASSUME IInv, LoadInv, LoadFinish PROVE Shown' = ViewOf(read)
<1>1. /\ pc = "load" /\ todo = <<>> /\ oldRegs = {} /\ pc' = "idle"
      /\ UNCHANGED <<registry, service>>
  BY DEF LoadFinish, dirVars
<1>2. Processed = ToSet(read)
  <2>1. read \in Seq(Blob) /\ Len(todo) = 0
    BY <1>1, EmptySeq DEF IInv, TypeOK
  <2>2. DOMAIN read = 1 .. Len(read) - Len(todo)
    BY <2>1, LenProperties
  <2> QED BY <2>2 DEF Processed, ToSet
<1> DEFINE shown(w) == IF registry[w] = None THEN None ELSE service[registry[w]]
           now      == ToSet(read) \intersect Usable
           says(w)  == IF \E b \in now : WorkerOf[b] = w
                       THEN CHOOSE b \in now : WorkerOf[b] = w ELSE None
<1>3. Shown' = [w \in Worker |-> shown(w)]
  BY <1>1 DEF Shown
<1>4. ViewOf(read) = [w \in Worker |-> says(w)]
  BY DEF ViewOf
<1>5. ASSUME NEW w \in Worker
      PROVE  shown(w) = says(w)
  <2>1. CASE registry[w] = None
    <3>1. ~ \E b \in now : WorkerOf[b] = w
      BY <1>1, <1>2, <2>1 DEF LoadInv, Settled, Carries
    <3> QED BY <2>1, <3>1
  <2>2. CASE registry[w] # None
    <3>1. service[registry[w]] \in now /\ WorkerOf[service[registry[w]]] = w
      BY <1>1, <1>2, <2>2 DEF IInv, Owned, LoadInv, OnlyUsable, Accounted, Backed
    <3>2. \A b \in now : WorkerOf[b] = w => b = service[registry[w]]
      BY <1>1, <1>2 DEF LoadInv, Settled, Carries
    <3> QED BY <2>2, <3>1, <3>2
  <2> QED BY <2>1, <2>2
<1> HIDE DEF shown, says
<1> QED BY <1>3, <1>4, <1>5

(* A step of the service manager is a step of the directory, or none.      *)
LEMMA DirectoryStep == IInv /\ LoadInv /\ [Next]_vars => [Dir!Next]_(Dir!vars)
<1> SUFFICES ASSUME IInv, LoadInv, [Next]_vars PROVE [Dir!Next]_(Dir!vars)
  OBVIOUS
<1> DEFINE taking == IF pc = "load" THEN read ELSE None
<1>1. ASSUME pc = "load" <=> pc' = "load", pc = "load" => UNCHANGED <<before, read>>,
             pc # "load" => UNCHANGED <<registry, service>>
      PROVE  taking' = taking /\ Shown' = Shown
  BY <1>1 DEF Shown
<1>2. CASE \/ Check \/ LoadStat \/ LoadFails \/ KeepChunk \/ RegisterChunk \/ SkipChunk
           \/ \E n \in Reg : Deactivate(n)
  <2>1. /\ pc = "load" <=> pc' = "load"
        /\ pc = "load" => UNCHANGED <<before, read>>
        /\ pc # "load" => UNCHANGED <<registry, service>>
        /\ UNCHANGED file
    BY <1>2 DEF Check, LoadStat, LoadFails, KeepChunk, RegisterChunk, SkipChunk, Deactivate,
                fileVars, loadVars, dirVars
  <2> QED BY <1>1, <2>1 DEF Dir!vars
<1>3. CASE \/ \E f \in Files : Replace(f)
           \/ Touch \/ GrowOld
           \/ \E n \in Reg : ConnectFailed(n) \/ Reactivate(n)
           \/ UNCHANGED vars
  <2>1. UNCHANGED <<pc, before, read, registry, service>> /\ file' \in Files
    BY <1>3 DEF Replace, Touch, GrowOld, ConnectFailed, Reactivate, vars, fileVars,
                loadVars, dirVars, IInv, TypeOK
  <2> QED BY <1>1, <2>1 DEF Dir!Next, Dir!Change
<1>4. CASE LoadRead
  <2>1. /\ pc = "read" /\ pc' = "load" /\ read' = file /\ UNCHANGED <<file, registry, service>>
        /\ before' = [w \in Worker |-> IF registry[w] = None THEN None
                                       ELSE Block(registry[w], service[registry[w]])]
    BY <1>4 DEF LoadRead, fileVars, dirVars
  <2>2. ASSUME NEW w \in Worker
        PROVE  (IF before'[w] = None THEN None ELSE before'[w].info)
                  = IF registry[w] = None THEN None ELSE service[registry[w]]
    <3>1. CASE registry[w] = None
      BY <2>1, <3>1
    <3>2. CASE registry[w] # None
      <4>1. registry[w] \in Reg /\ service[registry[w]] \in Blob
        BY <3>2 DEF IInv, TypeOK, Owned, Maybe
      <4>2. before'[w] = Block(registry[w], service[registry[w]]) /\ before'[w] # None
        BY <2>1, <3>2, <4>1, NoneFacts
      <4> QED BY <3>2, <4>2 DEF Block
    <3> QED BY <3>1, <3>2
  <2>3. Shown' = Shown
    BY <2>1, <2>2 DEF Shown
  <2> QED BY <2>1, <2>3 DEF Dir!Next, Dir!Take
<1>5. CASE LoadFinish
  <2>1. pc = "load" /\ pc' = "idle" /\ UNCHANGED file
    BY <1>5 DEF LoadFinish, fileVars
  <2>2. read # None
    BY <2>1, NoneFacts DEF LoadInv
  <2>3. Shown' = ViewOf(read)
    BY <1>5, FinishShows
  <2> QED BY <2>1, <2>2, <2>3 DEF Dir!Next, Dir!Show
<1> QED BY <1>2, <1>3, <1>4, <1>5 DEF Next, Load

(* At first nothing was read and nothing is shown.                         *)
LEMMA DirectoryInit == Init => Dir!Init
BY DEF Init, Dir!Init, Shown, Nobody

(* Whatever was registered before and whatever happens to the file during  *)
(* a load, the directory goes from one version of the file's contents to   *)
(* the next (_loadCache: serviceMgr.js:73-130).                            *)
THEOREM DirectoryImplemented == Spec => ImplementsDirectory
<1>1. Spec => []LoadInv
  BY LoadInit, LoadNext, Invariance, PTL DEF Spec
<1> QED BY <1>1, DirectoryInit, DirectoryStep, Invariance, PTL DEF Spec, ImplementsDirectory, Dir!Spec

-------------------------------------------------------------------------------
(***************************************************************************)
(* What Converges needs besides fairness.                                  *)
(***************************************************************************)

(* Whenever the observer is idle, the directory shows what the file says,  *)
(* or the file's mtime is new to the observer and a change of it is to be  *)
(* reported, or the file is too old to be read (a touch is due).           *)
UpToDate == pc = "idle" => Shown = ViewOf(file) \/ (fresh /\ notified) \/ old

(* A replacement that is noticed: it is not in the millisecond of the one  *)
(* before; and a file that can be read.                                    *)
Noticed == file' # file => fresh'

Readable == pc = "read" => pc' # "idle"

(* While there is no new mtime: a load has read the file as it is, and an  *)
(* idle observer has loaded it, or has given up on it because it is old.   *)
Following ==
    ~fresh => /\ pc = "load" => read = file
              /\ pc = "idle" => Shown = ViewOf(file) \/ old

LEMMA FreshNotified == Spec => [](fresh => notified)
<1>1. Init => (fresh => notified)
  BY DEF Init
<1>2. (fresh => notified) /\ [Next]_vars => (fresh => notified)'
  <2> SUFFICES ASSUME fresh => notified, [Next]_vars PROVE (fresh => notified)'
    OBVIOUS
  <2>1. CASE Load \/ LoadFails
    BY <2>1 DEF Load, LoadFails, Check, LoadStat, LoadRead, KeepChunk, RegisterChunk, SkipChunk,
                Deactivate, LoadFinish, fileVars
  <2>2. CASE Touch \/ GrowOld \/ (\E f \in Files : Replace(f)) \/ UNCHANGED vars
    BY <2>2 DEF Touch, GrowOld, Replace, vars, fileVars
  <2>3. CASE \E n \in Reg : ConnectFailed(n) \/ Reactivate(n)
    <3>1. UNCHANGED <<fresh, notified>>
      BY <2>3 DEF ConnectFailed, Reactivate, fileVars
    <3> QED BY <3>1
  <2> QED BY <2>1, <2>2, <2>3 DEF Next
<1> QED BY <1>1, <1>2, PTL DEF Spec

LEMMA FollowingNext ==
    IInv /\ LoadInv /\ Following /\ [Next]_vars /\ [Noticed /\ Readable]_vars => Following'
<1> SUFFICES ASSUME IInv, LoadInv, Following, [Next]_vars, [Noticed /\ Readable]_vars, ~fresh'
             PROVE  /\ pc' = "load" => read' = file'
                    /\ pc' = "idle" => Shown' = ViewOf(file)' \/ old'
  BY DEF Following
<1>1. file' = file
  BY DEF Noticed, vars, fileVars
<1>2. ViewOf(file)' = ViewOf(file)
  BY <1>1 DEF ViewOf
<1>3. CASE Check
  BY <1>1, <1>2, <1>3 DEF Check, Following, Shown, dirVars, loadVars
<1>4. CASE LoadStat
  BY <1>4 DEF LoadStat, fileVars
<1>5. CASE LoadRead
  BY <1>1, <1>5 DEF LoadRead
<1>6. CASE KeepChunk \/ SkipChunk \/ RegisterChunk \/ \E n \in Reg : Deactivate(n)
  <2>1. pc = "load" /\ UNCHANGED <<pc, read, fresh>>
    BY <1>6 DEF KeepChunk, SkipChunk, RegisterChunk, Deactivate
  <2> QED BY <1>1, <2>1 DEF Following
<1>7. CASE LoadFinish
  <2>1. pc = "load" /\ pc' = "idle" /\ fresh' = fresh
    BY <1>7 DEF LoadFinish
  <2>2. read = file
    BY <2>1 DEF Following
  <2> QED BY <1>2, <1>7, <2>1, <2>2, FinishShows
<1>8. CASE \E f \in Files : Replace(f)
  BY <1>1, <1>8 DEF Replace
<1>9. CASE Touch
  BY <1>9 DEF Touch
<1>10. CASE GrowOld
  BY <1>10 DEF GrowOld
<1>11. CASE (\E n \in Reg : ConnectFailed(n) \/ Reactivate(n)) \/ UNCHANGED vars
  <2>1. UNCHANGED <<fileVars, fresh, pc, loadVars, dirVars>>
    BY <1>11 DEF ConnectFailed, Reactivate, vars
  <2> QED BY <1>2, <2>1 DEF Following, Shown, fileVars, loadVars, dirVars
<1>12. CASE LoadFails
  <2>1. pc = "read" /\ pc' = "idle"
    BY <1>12 DEF LoadFails
  <2> QED BY <2>1 DEF Readable, vars
<1> QED BY <1>3, <1>4, <1>5, <1>6, <1>7, <1>8, <1>9, <1>10, <1>11, <1>12 DEF Next, Load

(***************************************************************************)
(* What Converges needs besides fairness.  From any moment at which the    *)
(* file has an mtime that is new to the observer (a touch is enough), and  *)
(* as long as every replacement is noticed and every read succeeds, an     *)
(* observer that is idle shows what the file says, or has an event to come *)
(* that makes it load the file (observe.js:22-42, serviceMgr.js:73-118).   *)
(***************************************************************************)
THEOREM AlwaysUpToDate == Spec => [](fresh /\ [][Noticed /\ Readable]_vars => []UpToDate)
<1>1. fresh => Following
  BY DEF Following
<1>2. Following /\ (fresh => notified) => UpToDate
  BY DEF Following, UpToDate
<1>3. Spec => []LoadInv
  BY LoadInit, LoadNext, Invariance, PTL DEF Spec
<1>4. IInv /\ LoadInv /\ Following /\ [Next]_vars /\ [Noticed /\ Readable]_vars => Following'
  BY FollowingNext
<1> QED BY <1>1, <1>2, <1>3, <1>4, FreshNotified, Invariance, PTL DEF Spec

(***************************************************************************)
(* A worker that is new always finds a number for its registration, so     *)
(* that no load stops half way: Reg bounds nothing that the code does not. *)
(***************************************************************************)
THEOREM NumberAlwaysFree == Spec => [](Reg \ Registered # {})
<1>1. ASSUME IInv PROVE Reg \ Registered # {}
  <2>1. Cardinality(Worker) \in Nat
    BY WorkersAssumption, FS_CardinalityType
  <2>2. IsFiniteSet(Reg) /\ Cardinality(Reg) = Cardinality(Worker) + 1
    BY <2>1, FS_Interval DEF Reg
  <2> DEFINE All == {registry[w] : w \in Worker}
  <2>3. IsFiniteSet(All) /\ Cardinality(All) <= Cardinality(Worker)
    <3>1. registry \in Surjection(Worker, All)
      <4>1. registry \in [Worker -> All]
        <5>1. registry = [w \in Worker |-> registry[w]]
          BY <1>1 DEF IInv, TypeOK
        <5>2. \A w \in Worker : registry[w] \in All
          OBVIOUS
        <5> QED BY <5>1, <5>2
      <4>2. \A n \in All : \E w \in Worker : registry[w] = n
        OBVIOUS
      <4> HIDE DEF All
      <4> QED BY <4>1, <4>2 DEF Surjection
    <3> HIDE DEF All
    <3> QED BY <3>1, WorkersAssumption, FS_Surjection
  <2>4. ASSUME Reg \subseteq All PROVE FALSE
    <3>1. Cardinality(Reg) <= Cardinality(All)
      BY <2>3, <2>4, FS_Subset
    <3>2. Cardinality(All) \in Nat
      BY <2>3, FS_CardinalityType
    <3> HIDE DEF All
    <3> QED BY <2>1, <2>2, <2>3, <3>1, <3>2
  <2> QED BY <2>4 DEF Registered
<1> QED BY <1>1, Invariance, PTL
=============================================================================
