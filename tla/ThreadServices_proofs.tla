----------------------- MODULE ThreadServices_proofs -----------------------
(***************************************************************************)
(* Theorems about the services that pthread calls of the guest rest on:    *)
(* keys of thread-local storage, host objects behind bionic storage,       *)
(* semaphores and futexes, and about the references of the JNI, which each *)
(* thread has a table of, for any threads, objects, slots and addresses.   *)
(***************************************************************************)
EXTENDS ThreadKeys, PthreadStorage, Semaphores, Futex, JniReferences, FiniteSetTheorems,
        TLAPS

(***************************************************************************)
(* 1. Keys.  A slot's generation is the number of keys that it has had, as *)
(* long as it cannot wrap; what a thread stores carries the generation of  *)
(* the key that it was stored for.                                         *)
(***************************************************************************)

KeysTyped ==
  /\ slotUsed \subseteq Slots
  /\ generation \in [Slots -> Nat] /\ births \in [Slots -> 0 .. MaxBirths]
  /\ value \in [KeyThreads -> [Slots -> Nat]]
  /\ setUnder \in [KeyThreads -> [Slots -> Nat]]
  /\ setting \in [KeyThreads -> [slot : Slots \union {0}, generation : Nat, key : Nat]]
  /\ ending \in [KeyThreads -> [pass : Int, slot : Nat, again : BOOLEAN]]
  /\ \A t \in KeyThreads : ending[t].pass > 0 => ending[t].slot \in Slots

\* A set that has read its slot stores the pair that it read.
Stores(t) ==
  /\ setting[t] # NotSetting => setting[t].slot \in Slots
  /\ setting[t].generation = setting[t].key

KeysIInv ==
  /\ KeysTyped
  /\ generation = births
  /\ \A t \in KeyThreads : Stores(t)
  /\ \A t \in KeyThreads, i \in Slots : value[t][i] \in {0, setUnder[t][i]}

LEMMA KeysInitial == KeysInit => KeysIInv
BY KeyAssumption DEF KeysInit, KeysIInv, KeysTyped, Stores, NotSetting, NotEnding

\* Short of the limit the counter does not wrap.
LEMMA NoWrap ==
  ASSUME NEW g \in Nat, g + 1 < Generations
  PROVE  NextGeneration(g) = g + 1
<1>1. Generations \in Nat
  BY KeyAssumption
<1>2. (g + 1) % Generations = g + 1
  BY <1>1
<1> QED
  BY <1>2 DEF NextGeneration

LEMMA CreateKeeps ==
  ASSUME KeysIInv, NEW dtor \in BOOLEAN, KeyCreate(dtor)
  PROVE  KeysIInv'
<1>1. PICK i \in Slots \ slotUsed :
        /\ births[i] < MaxBirths
        /\ births' = [births EXCEPT ![i] = @ + 1]
        /\ generation' = [generation EXCEPT ![i] = NextGeneration(@)]
        /\ slotUsed' = slotUsed \union {i}
        /\ UNCHANGED <<value, setUnder, setting, ending>>
  BY DEF KeyCreate
<1>2. births[i] \in Nat /\ generation[i] = births[i] /\ MaxBirths \in Nat
  BY KeyAssumption DEF KeysIInv, KeysTyped
<1>3. generation[i] + 1 < Generations
  BY <1>1, <1>2, KeyAssumption
<1>4. NextGeneration(generation[i]) = births[i] + 1
  BY <1>2, <1>3, NoWrap
<1>5. generation' = births' /\ births' \in [Slots -> 0 .. MaxBirths]
      /\ generation' \in [Slots -> Nat]
  BY <1>1, <1>2, <1>4 DEF KeysIInv, KeysTyped
<1> QED
  BY <1>1, <1>5 DEF KeysIInv, KeysTyped, Stores

\* The examination of a slot goes on to a slot, or the thread is gone.
LEMMA AdvanceTyped ==
  ASSUME NEW e \in [pass : Int, slot : Nat, again : BOOLEAN], NEW called \in BOOLEAN,
         e.slot \in Slots
  PROVE  /\ Advance(e, called) \in [pass : Int, slot : Nat, again : BOOLEAN]
         /\ Advance(e, called).pass > 0 => Advance(e, called).slot \in Slots
<1> DEFINE n == Cardinality(Slots)
<1>1. Slots = 1 .. n /\ Slots # {}
  BY KeyAssumption
<1>2. n \in Nat
  BY KeyAssumption, FS_CardinalityType
<1>3. e.pass \in Int /\ e.slot \in Nat /\ e.again \in BOOLEAN /\ 1 \in Slots
  BY <1>1, <1>2
<1>4. CASE ~LastSlot(e)
  <2>1. e.slot + 1 \in Slots
    BY <1>1, <1>2, <1>3, <1>4 DEF LastSlot
  <2> DEFINE again == e.again \/ called
  <2>2. Advance(e, called) = [e EXCEPT !.slot = e.slot + 1, !.again = again]
    BY <1>4 DEF Advance
  <2>3. again \in BOOLEAN /\ e.slot + 1 \in Nat
    BY <1>3
  <2> HIDE DEF again
  <2> QED
    BY <1>3, <2>1, <2>2, <2>3
<1>5. CASE LastSlot(e)
  BY <1>3, <1>5 DEF Advance, Gone
<1> QED
  BY <1>4, <1>5

LEMMA EndKeeps ==
  ASSUME KeysIInv, NEW t \in KeyThreads, EndSlot(t)
  PROVE  KeysIInv'
<1> DEFINE i == ending[t].slot
           called == Destructible(t, i)
<1>1. i \in Slots /\ ending[t] \in [pass : Int, slot : Nat, again : BOOLEAN]
  BY DEF EndSlot, KeysIInv, KeysTyped
<1>2. called \in BOOLEAN
  BY DEF Destructible
<1>3. /\ Advance(ending[t], called) \in [pass : Int, slot : Nat, again : BOOLEAN]
      /\ Advance(ending[t], called).pass > 0 => Advance(ending[t], called).slot \in Slots
  BY <1>1, <1>2, AdvanceTyped
<1>4. /\ ending' = [ending EXCEPT ![t] = Advance(ending[t], called)]
      /\ value' = [value EXCEPT ![t][i] = 0] \/ value' = value
      /\ UNCHANGED <<slotUsed, generation, hasDtor, births, setUnder, setting>>
  BY DEF EndSlot
<1> HIDE DEF called, i
<1>5. /\ value' \in [KeyThreads -> [Slots -> Nat]]
      /\ \A u \in KeyThreads, j \in Slots : value'[u][j] \in {0, setUnder[u][j]}
  <2>1. CASE value' = value
    BY <2>1 DEF KeysIInv, KeysTyped
  <2>2. CASE value' = [value EXCEPT ![t][i] = 0]
    <3>1. \A u \in KeyThreads, j \in Slots : value'[u][j] \in {0, value[u][j]}
      BY <1>1, <2>2 DEF KeysIInv, KeysTyped
    <3>2. value' \in [KeyThreads -> [Slots -> Nat]]
      BY <1>1, <2>2 DEF KeysIInv, KeysTyped
    <3> QED
      BY <3>1, <3>2 DEF KeysIInv, KeysTyped
  <2> QED
    BY <1>4, <2>1, <2>2
<1>6. /\ ending' \in [KeyThreads -> [pass : Int, slot : Nat, again : BOOLEAN]]
      /\ \A u \in KeyThreads : ending'[u].pass > 0 => ending'[u].slot \in Slots
  BY <1>3, <1>4 DEF KeysIInv, KeysTyped
<1> QED
  BY <1>4, <1>5, <1>6 DEF KeysIInv, KeysTyped, Stores

LEMMA KeysStep ==
  ASSUME KeysIInv, [KeysNext]_keyVars
  PROVE  KeysIInv'
<1>1. ASSUME NEW dtor \in BOOLEAN, KeyCreate(dtor) PROVE KeysIInv'
  BY <1>1, CreateKeeps
<1>2. ASSUME NEW i \in Slots, KeyDelete(i) PROVE KeysIInv'
  BY <1>2 DEF KeyDelete, KeysIInv, KeysTyped, Stores
<1>3. ASSUME NEW t \in KeyThreads, NEW i \in Slots, SetBegin(t, i) PROVE KeysIInv'
  BY <1>3 DEF SetBegin, KeysIInv, KeysTyped, Stores
<1>4. ASSUME NEW t \in KeyThreads, SetStore(t) PROVE KeysIInv'
  BY <1>4 DEF SetStore, KeysIInv, KeysTyped, Stores, NotSetting
<1>5. ASSUME NEW t \in KeyThreads, EndBegin(t) PROVE KeysIInv'
  <2>1. 1 \in Slots
    BY KeyAssumption, FS_CardinalityType
  <2> QED
    BY <1>5, <2>1 DEF EndBegin, KeysIInv, KeysTyped, Stores
<1>6. ASSUME NEW t \in KeyThreads, EndSlot(t) PROVE KeysIInv'
  BY <1>6, EndKeeps
<1>7. CASE UNCHANGED keyVars
  BY <1>7 DEF keyVars, KeysIInv, KeysTyped, Stores
<1> QED
  BY <1>1, <1>2, <1>3, <1>4, <1>5, <1>6, <1>7 DEF KeysNext

(* A get returns, and a destructor at the end of a thread receives, only a  *)
(* value that was stored for the key now in the slot: deleting a key leaves *)
(* the values of all threads behind, and creating another in its slot       *)
(* outdates them, until a slot has had as many keys as the counter has      *)
(* values (pthread_key_create_fake, pthread_getspecific_fake).              *)
THEOREM KeySafety == KeysSpec => []ValuesBelongToTheirKey
<1>1. KeysIInv => ValuesBelongToTheirKey
  BY DEF KeysIInv, KeysTyped, ValuesBelongToTheirKey, Got, Destructible
<1>2. KeysIInv /\ [KeysNext]_keyVars => KeysIInv'
  BY KeysStep
<1> QED
  BY <1>1, <1>2, KeysInitial, PTL DEF KeysSpec

-----------------------------------------------------------------------------
(***************************************************************************)
(* 2. Host objects of pthread storage.  An allocated host object has one   *)
(* holder: the storage of one guest object or one init under way, which    *)
(* nobody else touches.                                                    *)
(***************************************************************************)

Uses == [at : {"idle", "init", "ensured", "using"}, object : Objects \union {NoHost},
         host : Hosts \union {NoHost}]

StorageTyped ==
  /\ raw \in [Objects -> Hosts \union Initialisers \union {"junk"}]
  /\ bound \in [Objects -> Hosts \union {NoHost}]
  /\ heap \in [Hosts -> HostKinds \union {"free"}]
  /\ wantedKind \in [Objects -> HostKinds \union {"dead"}]
  /\ user \in [Users -> Uses]

\* What a thread is doing with an object; only an init is exclusive.
UseSound(t) ==
  /\ user[t].at = "idle" <=> user[t] = NoUse
  /\ user[t].at # "idle" => user[t].object \in Objects
  /\ user[t].at = "init" =>
       /\ user[t].host \in Hosts /\ heap[user[t].host] \in HostKinds
       /\ \A u \in Users \ {t} : user[u].object # user[t].object
       /\ user[t].object \in RwLocks =>
            wantedKind[user[t].object] = "dead" /\ heap[user[t].host] = "plain"
  /\ user[t].at \in {"ensured", "using"} =>
       raw[user[t].object] \in Hosts /\ wantedKind[user[t].object] # "dead"
  /\ user[t].at = "using" => user[t].host = raw[user[t].object]

\* The registry and the storage agree, and a live object is what was asked for.
ObjectSound(o) ==
  /\ o \in RwLocks => bound[o] = NoHost
  /\ o \notin RwLocks /\ raw[o] \in Hosts => bound[o] = raw[o]
  /\ bound[o] # NoHost => bound[o] = raw[o]
  /\ raw[o] \in Hosts => wantedKind[o] # "dead" /\ heap[raw[o]] = wantedKind[o]
  /\ wantedKind[o] # "dead" /\ raw[o] \notin Hosts =>
       raw[o] \in Initialisers /\ wantedKind[o] = KindOf(raw[o])

Making(t, h) == user[t].at = "init" /\ user[t].host = h

HostSound(h) ==
  /\ heap[h] # "free" => (\E o \in Objects : raw[o] = h) \/ (\E t \in Users : Making(t, h))
  /\ \A o, p \in Objects : raw[o] = h /\ raw[p] = h => o = p
  /\ \A t, u \in Users : Making(t, h) /\ Making(u, h) => t = u
  /\ \A o \in Objects, t \in Users : ~(raw[o] = h /\ Making(t, h))

StorageIInv ==
  /\ StorageTyped
  /\ \A t \in Users : UseSound(t)
  /\ \A o \in Objects : ObjectSound(o)
  /\ \A h \in Hosts : HostSound(h)

LEMMA StorageInitial == StorageInit => StorageIInv
<1> SUFFICES ASSUME StorageInit PROVE StorageIInv
  OBVIOUS
<1>1. StorageTyped
  BY StorageAssumption DEF StorageInit, StorageTyped, Uses, NoUse, Initialisers, HostKinds,
     KindOf
<1>2. \A t \in Users : UseSound(t)
  BY <1>1, StorageAssumption DEF StorageInit, UseSound, NoUse, StorageTyped
<1>3. \A o \in Objects : raw[o] \in Initialisers
  BY DEF StorageInit, Initialisers
<1>4. \A o \in Objects : ObjectSound(o)
  BY <1>1, <1>3, StorageAssumption DEF StorageInit, ObjectSound
<1>5. \A h \in Hosts : HostSound(h)
  BY <1>3, StorageAssumption DEF StorageInit, HostSound, Making, NoUse
<1> QED
  BY <1>1, <1>2, <1>4, <1>5 DEF StorageIInv

LEMMA InitCreateKeeps ==
  ASSUME StorageIInv, NEW t \in Users, NEW o \in Objects, NEW kind \in HostKinds,
         InitCreate(t, o, kind)
  PROVE  StorageIInv'
<1>1. PICK h \in Hosts :
        /\ heap[h] = "free"
        /\ heap' = [heap EXCEPT ![h] = kind]
        /\ user' = [user EXCEPT ![t] = [at |-> "init", object |-> o, host |-> h]]
        /\ UNCHANGED <<raw, bound, wantedKind>>
        /\ \A u \in Users : user[u].object # o
        /\ o \in RwLocks => wantedKind[o] = "dead" /\ kind = "plain"
        /\ user[t] = NoUse
  BY DEF InitCreate, InUse
<1>2. /\ \A p \in Objects : raw[p] # h
      /\ \A u \in Users : ~Making(u, h)
  BY <1>1 DEF StorageIInv, ObjectSound, UseSound, Making, StorageTyped, HostKinds
<1>3. StorageTyped'
  BY <1>1 DEF StorageIInv, StorageTyped, Uses
<1>4. \A u \in Users : UseSound(u)'
  BY <1>1, <1>2 DEF StorageIInv, StorageTyped, UseSound, NoUse, Uses, HostKinds
<1>5. \A p \in Objects : ObjectSound(p)'
  BY <1>1, <1>2 DEF StorageIInv, StorageTyped, ObjectSound
<1>6. \A g \in Hosts : HostSound(g)'
  BY <1>1, <1>2 DEF StorageIInv, StorageTyped, HostSound, Making, NoUse, HostKinds
<1> QED
  BY <1>3, <1>4, <1>5, <1>6 DEF StorageIInv

LEMMA InitBindKeeps ==
  ASSUME StorageIInv, NEW t \in Users, NEW ok \in BOOLEAN, InitBind(t, ok)
  PROVE  StorageIInv'
<1> DEFINE o == user[t].object
           h == user[t].host
           accepted == o \in RwLocks \/ (ok /\ bound[o] = NoHost)
<1>1. /\ Making(t, h) /\ o \in Objects /\ h \in Hosts /\ heap[h] \in HostKinds
      /\ \A u \in Users \ {t} : user[u].object # o
      /\ \A p \in Objects : raw[p] # h
      /\ \A u \in Users \ {t} : ~Making(u, h)
  BY DEF InitBind, StorageIInv, UseSound, HostSound, Making
<1>2. /\ raw' = [raw EXCEPT ![o] = IF accepted THEN h ELSE @]
      /\ bound' = [bound EXCEPT ![o] = IF accepted /\ o \notin RwLocks THEN h ELSE @]
      /\ heap' = [heap EXCEPT ![h] = IF accepted THEN @ ELSE "free"]
      /\ wantedKind' = [wantedKind EXCEPT ![o] = IF accepted THEN heap[h] ELSE @]
      /\ user' = [user EXCEPT ![t] = NoUse]
  BY DEF InitBind
<1>3. accepted => raw[o] \notin Hosts
  BY <1>1, StorageAssumption DEF StorageIInv, ObjectSound, UseSound, Making
<1> HIDE DEF o, h
<1>4. CASE accepted
  <2>1. /\ raw' = [raw EXCEPT ![o] = h] /\ heap' = heap
        /\ bound' = [bound EXCEPT ![o] = IF o \notin RwLocks THEN h ELSE @]
        /\ wantedKind' = [wantedKind EXCEPT ![o] = heap[h]]
    BY <1>1, <1>2, <1>4 DEF StorageIInv, StorageTyped
  <2> HIDE DEF accepted
  <2>2. StorageTyped'
    BY <1>1, <1>2, <2>1 DEF StorageIInv, StorageTyped, Uses, NoUse
  <2>3. \A u \in Users : UseSound(u)'
    BY <1>1, <1>2, <2>1, StorageAssumption
    DEF StorageIInv, StorageTyped, UseSound, NoUse, Uses
  <2>4. \A p \in Objects : ObjectSound(p)'
    BY <1>1, <1>2, <2>1, StorageAssumption
    DEF StorageIInv, StorageTyped, ObjectSound, HostKinds
  <2>5. \A g \in Hosts : HostSound(g)'
    BY <1>1, <1>2, <1>3, <1>4, <2>1 DEF StorageIInv, StorageTyped, HostSound, Making, NoUse
  <2> QED
    BY <2>2, <2>3, <2>4, <2>5 DEF StorageIInv
<1>5. CASE ~accepted
  <2>1. raw' = raw /\ bound' = bound /\ wantedKind' = wantedKind
        /\ heap' = [heap EXCEPT ![h] = "free"]
    BY <1>1, <1>2, <1>5 DEF StorageIInv, StorageTyped
  <2> HIDE DEF accepted
  <2>2. StorageTyped'
    BY <1>1, <1>2, <2>1 DEF StorageIInv, StorageTyped, Uses, NoUse
  <2>3. \A u \in Users : UseSound(u)'
    BY <1>1, <1>2, <2>1, StorageAssumption
    DEF StorageIInv, StorageTyped, UseSound, NoUse, Uses, Making
  <2>4. \A p \in Objects : ObjectSound(p)'
    BY <1>1, <1>2, <2>1 DEF StorageIInv, StorageTyped, ObjectSound
  <2>5. \A g \in Hosts : HostSound(g)'
    BY <1>1, <1>2, <2>1 DEF StorageIInv, StorageTyped, HostSound, Making, NoUse
  <2> QED
    BY <2>2, <2>3, <2>4, <2>5 DEF StorageIInv
<1> QED
  BY <1>4, <1>5

LEMMA EnsureKeeps ==
  ASSUME StorageIInv, NEW t \in Users, NEW o \in Objects, Ensure(t, o)
  PROVE  StorageIInv'
<1>1. /\ user[t] = NoUse /\ wantedKind[o] # "dead"
      /\ \A u \in Users : user[u].object = o => user[u].at # "init"
      /\ user' = [user EXCEPT ![t] = [at |-> "ensured", object |-> o, host |-> NoHost]]
      /\ wantedKind' = wantedKind
  BY DEF Ensure
<1>2. CASE raw[o] \in Initialisers /\ bound[o] = NoHost
  <2>1. PICK h \in Hosts :
          /\ heap[h] = "free"
          /\ heap' = [heap EXCEPT ![h] = KindOf(raw[o])]
          /\ raw' = [raw EXCEPT ![o] = h]
          /\ bound' = [bound EXCEPT ![o] = IF o \in RwLocks THEN @ ELSE h]
    BY <1>2 DEF Ensure
  <2>2. /\ raw[o] \notin Hosts /\ wantedKind[o] = KindOf(raw[o])
        /\ wantedKind[o] \in HostKinds
        /\ \A p \in Objects : raw[p] # h
        /\ \A u \in Users : ~Making(u, h)
    BY <1>1, <1>2, <2>1, StorageAssumption
    DEF StorageIInv, StorageTyped, ObjectSound, UseSound, Making, HostKinds
  <2>3. StorageTyped'
    BY <1>1, <2>1, <2>2 DEF StorageIInv, StorageTyped, Uses
  <2>4. \A u \in Users : UseSound(u)'
    BY <1>1, <2>1, <2>2 DEF StorageIInv, StorageTyped, UseSound, NoUse, Uses, Making
  <2>5. \A p \in Objects : ObjectSound(p)'
    BY <1>1, <2>1, <2>2, StorageAssumption DEF StorageIInv, StorageTyped, ObjectSound
  <2>6. \A g \in Hosts : HostSound(g)'
    BY <1>1, <2>1, <2>2 DEF StorageIInv, StorageTyped, HostSound, Making, NoUse
  <2> QED
    BY <2>3, <2>4, <2>5, <2>6 DEF StorageIInv
<1>3. CASE ~(raw[o] \in Initialisers /\ bound[o] = NoHost)
  <2>1. raw[o] \in Hosts /\ UNCHANGED <<raw, bound, heap>>
    BY <1>3 DEF Ensure
  <2>2. StorageTyped'
    BY <1>1, <2>1 DEF StorageIInv, StorageTyped, Uses
  <2>3. \A u \in Users : UseSound(u)'
    BY <1>1, <2>1 DEF StorageIInv, StorageTyped, UseSound, NoUse, Uses
  <2>4. \A p \in Objects : ObjectSound(p)'
    BY <1>1, <2>1 DEF StorageIInv, ObjectSound
  <2>5. \A g \in Hosts : HostSound(g)'
    BY <1>1, <2>1 DEF StorageIInv, StorageTyped, HostSound, Making, NoUse
  <2> QED
    BY <2>2, <2>3, <2>4, <2>5 DEF StorageIInv
<1> QED
  BY <1>2, <1>3

LEMMA DestroyKeeps ==
  ASSUME StorageIInv, NEW t \in Users, NEW o \in Objects, DestroyObject(t, o)
  PROVE  StorageIInv'
<1>1. /\ \A u \in Users : user[u].object # o
      /\ raw' = [raw EXCEPT ![o] = "zero"] /\ bound' = [bound EXCEPT ![o] = NoHost]
      /\ heap' = IF raw[o] \in Hosts THEN [heap EXCEPT ![raw[o]] = "free"] ELSE heap
      /\ wantedKind' = [wantedKind EXCEPT ![o] = "dead"] /\ user' = user
  BY DEF DestroyObject, InUse
<1>2. /\ \A p \in Objects : raw[p] = raw[o] /\ raw[o] \in Hosts => p = o
      /\ \A u \in Users : ~(raw[o] \in Hosts /\ Making(u, raw[o]))
  BY DEF StorageIInv, HostSound
<1>3. "zero" \notin Hosts
  BY StorageAssumption DEF Initialisers
<1>4. StorageTyped'
  BY <1>1 DEF StorageIInv, StorageTyped, Initialisers
<1>5. \A u \in Users : UseSound(u)'
  BY <1>1, <1>2 DEF StorageIInv, StorageTyped, UseSound, NoUse, Making
<1>6. \A p \in Objects : ObjectSound(p)'
  BY <1>1, <1>2, <1>3 DEF StorageIInv, StorageTyped, ObjectSound
<1>7. \A g \in Hosts : HostSound(g)'
  BY <1>1, <1>2, <1>3 DEF StorageIInv, StorageTyped, HostSound, Making
<1> QED
  BY <1>4, <1>5, <1>6, <1>7 DEF StorageIInv

LEMMA RecycleKeeps ==
  ASSUME StorageIInv, NEW o \in Objects, NEW bytes \in Initialisers \union {"junk"},
         Recycle(o, bytes)
  PROVE  StorageIInv'
<1> DEFINE kind == IF bytes = "junk" THEN "dead" ELSE KindOf(bytes)
<1>1. /\ \A u \in Users : user[u].object # o
      /\ raw' = [raw EXCEPT ![o] = bytes] /\ wantedKind' = [wantedKind EXCEPT ![o] = kind]
      /\ UNCHANGED <<bound, heap, user>>
      /\ wantedKind[o] = "dead"
  BY DEF Recycle, InUse
<1>2. /\ bytes \notin Hosts /\ kind \in HostKinds \union {"dead"}
      /\ kind # "dead" => bytes \in Initialisers /\ kind = KindOf(bytes)
  BY StorageAssumption DEF HostKinds, KindOf
<1>3. bound[o] = NoHost /\ raw[o] \notin Hosts
  BY <1>1 DEF StorageIInv, StorageTyped, ObjectSound
<1> HIDE DEF kind
<1>4. StorageTyped'
  BY <1>1, <1>2 DEF StorageIInv, StorageTyped
<1>5. \A u \in Users : UseSound(u)'
  BY <1>1 DEF StorageIInv, StorageTyped, UseSound, NoUse
<1>6. \A p \in Objects : ObjectSound(p)'
  BY <1>1, <1>2, <1>3 DEF StorageIInv, StorageTyped, ObjectSound
<1>7. \A g \in Hosts : HostSound(g)'
  BY <1>1, <1>2, <1>3 DEF StorageIInv, StorageTyped, HostSound, Making
<1> QED
  BY <1>4, <1>5, <1>6, <1>7 DEF StorageIInv

LEMMA StorageStep ==
  ASSUME StorageIInv, [StorageNext]_storageVars
  PROVE  StorageIInv'
<1>1. ASSUME NEW t \in Users, LoadHost(t) PROVE StorageIInv'
  <2>1. /\ user' = [user EXCEPT ![t].at = "using", ![t].host = raw[user[t].object]]
        /\ UNCHANGED <<raw, bound, heap, wantedKind>> /\ user[t].at = "ensured"
        /\ raw[user[t].object] \in Hosts
    BY <1>1 DEF LoadHost, StorageIInv, UseSound
  <2> PICK k, h : k = user[t] /\ h = raw[user[t].object]
    OBVIOUS
  <2> PICK n : n = [k EXCEPT !.at = "using", !.host = h]
    OBVIOUS
  <2>a. user \in [Users -> Uses] /\ k \in Uses /\ h \in Hosts /\ user' = [user EXCEPT ![t] = n]
    BY <2>1 DEF StorageIInv, StorageTyped
  <2>b. n \in Uses /\ n.object = k.object
    BY <2>a DEF Uses
  <2>c. user' \in [Users -> Uses]
    BY <2>a, <2>b
  <2>2. StorageTyped'
    BY <2>1, <2>c DEF StorageIInv, StorageTyped
  <2>3. \A u \in Users : user'[u].object = user[u].object
    BY <2>a, <2>b
  <2>4. UseSound(t)'
    <3>1. /\ user'[t].at = "using" /\ user'[t].object = user[t].object
          /\ user'[t].host = raw[user[t].object]
      BY <2>1 DEF StorageIInv, StorageTyped, Uses
    <3>2. UseSound(t) /\ raw' = raw /\ heap' = heap /\ wantedKind' = wantedKind
      BY <2>1 DEF StorageIInv
    <3>3. user'[t] # NoUse
      BY <3>1 DEF NoUse
    <3>4. /\ user[t].object \in Objects /\ raw[user[t].object] \in Hosts
          /\ wantedKind[user[t].object] # "dead"
      BY <2>1, <3>2 DEF UseSound
    <3> QED
      BY <3>1, <3>2, <3>3, <3>4 DEF UseSound
  <2>5. ASSUME NEW u \in Users \ {t} PROVE UseSound(u)'
    <3>1. user'[u] = user[u]
      BY <2>1 DEF StorageIInv, StorageTyped
    <3>2. UseSound(u) /\ raw' = raw /\ heap' = heap /\ wantedKind' = wantedKind
      BY <2>1 DEF StorageIInv
    <3> QED
      BY <2>3, <3>1, <3>2 DEF UseSound
  <2>6. \A g \in Hosts : HostSound(g)'
    <3>1. user[t].at # "init" /\ user'[t].at # "init"
      BY <2>1, <2>a DEF Uses
    <3>2. \A u \in Users, g \in Hosts : Making(u, g)' <=> Making(u, g)
      <4>1. \A u \in Users : u # t => user'[u] = user[u]
        BY <2>a
      <4> QED BY <3>1, <4>1 DEF Making
    <3>3. UNCHANGED <<raw, heap>> /\ \A g \in Hosts : HostSound(g)
      BY <2>1 DEF StorageIInv
    <3> QED BY <3>2, <3>3 DEF HostSound
  <2> QED
    BY <2>1, <2>2, <2>4, <2>5, <2>6 DEF StorageIInv, ObjectSound
<1>2. ASSUME NEW t \in Users, FinishUse(t) PROVE StorageIInv'
  <2>1. /\ user' = [user EXCEPT ![t] = NoUse] /\ user[t].at = "using"
        /\ UNCHANGED <<raw, bound, heap, wantedKind>>
    BY <1>2 DEF FinishUse
  <2>2. StorageTyped'
    BY <2>1 DEF StorageIInv, StorageTyped, Uses, NoUse
  <2>3. \A u \in Users : UseSound(u)'
    BY <2>1, StorageAssumption DEF StorageIInv, StorageTyped, UseSound, NoUse, Uses
  <2>4. \A g \in Hosts : HostSound(g)'
    BY <2>1 DEF StorageIInv, StorageTyped, HostSound, Making, NoUse
  <2> QED
    BY <2>1, <2>2, <2>3, <2>4 DEF StorageIInv, ObjectSound
<1>3. CASE UNCHANGED storageVars
  BY <1>3 DEF storageVars, StorageIInv, StorageTyped, UseSound, ObjectSound, HostSound, Making
<1>4. CASE \E t \in Users, o \in Objects : \E kind \in HostKinds : InitCreate(t, o, kind)
  BY <1>4, InitCreateKeeps
<1>5. CASE \E t \in Users, o \in Objects : Ensure(t, o) \/ DestroyObject(t, o)
  BY <1>5, EnsureKeeps, DestroyKeeps
<1>6. CASE \E t \in Users : \E ok \in BOOLEAN : InitBind(t, ok)
  BY <1>6, InitBindKeeps
<1>7. CASE \E o \in Objects, bytes \in Initialisers \union {"junk"} : Recycle(o, bytes)
  BY <1>7, RecycleKeeps
<1> QED
  BY <1>1, <1>2, <1>3, <1>4, <1>5, <1>6, <1>7 DEF StorageNext

(* However first uses, inits and destroys of the guest's threads interleave  *)
(* and whatever bytes recycled memory holds, all users of a guest object use *)
(* one allocated host object of the right kind, and every host object has    *)
(* exactly one holder until it is freed (pthread_binding_add_locked,         *)
(* ensure_mutex, materialize_rwlock and the destroy functions of imports.c). *)
THEOREM StorageSafety == StorageSpec => []OneHostPerObject
<1>1. ASSUME StorageIInv, NEW h \in Hosts
      PROVE  LET holders == {o \in Objects : raw[o] = h}
                              \cup {t \in Users : user[t].at = "init" /\ user[t].host = h}
             IN  Cardinality(holders) = IF heap[h] = "free" THEN 0 ELSE 1
  <2> DEFINE holders == {o \in Objects : raw[o] = h}
                          \cup {t \in Users : user[t].at = "init" /\ user[t].host = h}
  <2>1. CASE heap[h] = "free"
    <3>1. holders = {}
      BY <1>1, <2>1 DEF StorageIInv, StorageTyped, ObjectSound, UseSound, HostKinds
    <3> QED
      BY <2>1, <3>1, FS_EmptySet
  <2>2. CASE heap[h] # "free"
    <3>1. PICK x : holders = {x}
      <4>1. CASE \E o \in Objects : raw[o] = h
        <5>1. PICK o \in Objects : raw[o] = h
          BY <4>1
        <5>2. holders = {o}
          BY <1>1, <5>1 DEF StorageIInv, HostSound, Making
        <5> QED
          BY <5>2
      <4>2. CASE \E t \in Users : Making(t, h)
        <5>1. PICK t \in Users : Making(t, h)
          BY <4>2
        <5>2. holders = {t}
          BY <1>1, <5>1 DEF StorageIInv, HostSound, Making
        <5> QED
          BY <5>2
      <4> QED
        BY <1>1, <2>2, <4>1, <4>2 DEF StorageIInv, HostSound
    <3> QED
      BY <2>2, <3>1, FS_Singleton
  <2> QED
    BY <2>1, <2>2
<1>2. StorageIInv => OneHostPerObject
  <2> SUFFICES ASSUME StorageIInv PROVE OneHostPerObject
    OBVIOUS
  <2>1. \A t \in Users : user[t].at = "using" =>
          LET o == user[t].object
          IN  /\ user[t].host = raw[o] /\ raw[o] \in Hosts
              /\ heap[raw[o]] = wantedKind[o]
              /\ o \notin RwLocks => bound[o] = raw[o]
    BY DEF StorageIInv, StorageTyped, UseSound, ObjectSound
  <2>2. \A o \in Objects : bound[o] # NoHost => bound[o] = raw[o]
    BY DEF StorageIInv, ObjectSound
  <2> QED
    BY <1>1, <2>1, <2>2 DEF OneHostPerObject
<1>3. StorageIInv /\ [StorageNext]_storageVars => StorageIInv'
  BY StorageStep
<1> QED
  BY <1>2, <1>3, StorageInitial, PTL DEF StorageSpec

-----------------------------------------------------------------------------
(***************************************************************************)
(* 3. Semaphores.  A post never leaves a sleeper behind.                   *)
(***************************************************************************)

\* Besides the property: only a thread that waits sleeps or has a deadline.
SemIInv ==
  /\ count \in [Sems -> Int]
  /\ waiting \in [SemThreads -> Sems \union {0}]
  /\ asleepOn \subseteq SemThreads
  /\ \A t \in asleepOn \union timed : t \in SemThreads /\ waiting[t] \in Sems
  /\ SleeperIsMarked

LEMMA SemInitial == SemInit => SemIInv
BY DEF SemInit, SemIInv, SleeperIsMarked

\* A turn of the loop on s marks s before it sleeps; to take a token it needs a
\* count above 0, which no sleeper of s has left.
LEMMA TurnKeeps ==
  ASSUME SemIInv, NEW t \in SemThreads, NEW s \in Sems, NEW d \in BOOLEAN,
         Turn(t, s, d), t \notin asleepOn
  PROVE  SemIInv'
<1>1. CASE count[s] > 0
  <2>1. \A u \in asleepOn : waiting[u] # s
    BY <1>1 DEF SemIInv, SleeperIsMarked
  <2> QED
    BY <1>1, <2>1 DEF Turn, Leaves, SemIInv, SleeperIsMarked
<1>2. CASE ~(count[s] > 0)
  BY <1>2 DEF Turn, SemIInv, SleeperIsMarked
<1> QED
  BY <1>1, <1>2

LEMMA SemStep ==
  ASSUME SemIInv, [SemNext]_semVars
  PROVE  SemIInv'
<1> USE SemAssumption
<1>1. ASSUME NEW t \in SemThreads, SemRetry(t) PROVE SemIInv'
  <2>1. waiting[t] \in Sems /\ (t \in timed) \in BOOLEAN
    BY <1>1 DEF SemRetry, SemIInv
  <2> QED
    BY <1>1, <2>1, TurnKeeps DEF SemRetry
<1>2. ASSUME NEW t \in SemThreads, NEW s \in Sems, NEW d \in BOOLEAN, SemWait(t, s, d)
      PROVE SemIInv'
  <2>1. t \notin asleepOn
    BY <1>2 DEF SemWait, SemIInv
  <2> QED
    BY <1>2, <2>1, TurnKeeps DEF SemWait
<1>3. ASSUME NEW t \in SemThreads, SliceOver(t) PROVE SemIInv'
  BY <1>3 DEF SliceOver, SemIInv, SleeperIsMarked
<1>4. ASSUME NEW t \in SemThreads, SemTimedOut(t) PROVE SemIInv'
  BY <1>4 DEF SemTimedOut, Leaves, SemIInv, SleeperIsMarked
<1>5. ASSUME NEW t \in SemThreads, NEW s \in Sems, SemTryWait(t, s) PROVE SemIInv'
  BY <1>5 DEF SemTryWait, SemIInv, SleeperIsMarked
<1>6. ASSUME NEW s \in Sems, SemPost(s) PROVE SemIInv'
  BY <1>6 DEF SemPost, SemIInv, SleeperIsMarked
<1>7. CASE UNCHANGED semVars
  BY <1>7 DEF semVars, SemIInv, SleeperIsMarked
<1> QED
  BY <1>1, <1>2, <1>3, <1>4, <1>5, <1>6, <1>7 DEF SemNext

(* Whoever sleeps on a semaphore has left the mark that makes the next post *)
(* wake everybody, whatever timed waits and other semaphores share the      *)
(* condition variable (sem_wait_fake, sem_timedwait_fake, sem_post_fake).   *)
THEOREM SleeperSafety == SemSpec => []SleeperIsMarked
<1>1. SemIInv => SleeperIsMarked
  BY DEF SemIInv
<1>2. SemIInv /\ [SemNext]_semVars => SemIInv'
  BY SemStep
<1> QED
  BY <1>1, <1>2, SemInitial, PTL DEF SemSpec

-----------------------------------------------------------------------------
(***************************************************************************)
(* 4. Futexes.  A waiter that nobody has woken stands in the queue of its  *)
(* bucket, and a queue is a list: that the promise is kept needs both, and *)
(* that only those who wait have been woken.                               *)
(***************************************************************************)

FutexIInv ==
  /\ QueueIntegrity
  /\ \A t \in awoken : Waiting(t)
  /\ \A t \in due : Waiting(t) /\ waiter[t].deadline

LEMMA BucketOf == ASSUME NEW w \in Waiter PROVE Bucket(w.address) \in Buckets
BY DEF Waiter, Buckets

LEMMA FutexInitial == Init => FutexIInv
<1> SUFFICES ASSUME Init PROVE FutexIInv
  OBVIOUS
<1>1. TypeOK
  BY FutexAssumption DEF Init, TypeOK, Word
<1>2. QueuesHoldLiveWaiters
  BY DEF Init, QueuesHoldLiveWaiters, Waiting
<1>3. QueuesAreLists
  BY DEF Init, QueuesAreLists
<1> QED
  BY <1>1, <1>2, <1>3 DEF Init, FutexIInv, QueueIntegrity

\* Buckets have no waiter in common.
LEMMA QueueFacts ==
  ASSUME FutexIInv
  PROVE  /\ TypeOK
         /\ \A b \in Buckets : \A c \in Buckets : b # c => bucket[b] \intersect bucket[c] = {}
         /\ \A t \in Thread : ahead[t] # {} => Waiting(t) /\ t \notin awoken
         /\ \A t \in Thread : \A u \in ahead[t] : Waiting(u) /\ u \notin awoken
         /\ \A t \in Thread : Waiting(t) => waiter[t] \in Waiter /\ Bucket(waiter[t].address) \in Buckets
         /\ \A t \in Thread : Waiting(t) /\ t \notin awoken => t \in bucket[Bucket(waiter[t].address)]
<1>1. TypeOK /\ QueuesHoldLiveWaiters /\ QueuesAreLists
  BY DEF FutexIInv, QueueIntegrity
<1>2. \A b \in Buckets : bucket[b] \subseteq Thread
  BY <1>1 DEF TypeOK
<1>3. \A b \in Buckets : \A c \in Buckets : b # c => bucket[b] \intersect bucket[c] = {}
  BY <1>1, <1>2 DEF QueuesHoldLiveWaiters
<1>4. \A t \in Thread : ahead[t] \subseteq Thread
  BY <1>1 DEF TypeOK
<1>5. \A t \in Thread : \A u \in ahead[t] :
        Waiting(t) /\ t \notin awoken /\ Waiting(u) /\ u \notin awoken
  BY <1>1, <1>4 DEF QueuesHoldLiveWaiters, QueuesAreLists
<1>6. \A t \in Thread : Waiting(t) => waiter[t] \in Waiter /\ Bucket(waiter[t].address) \in Buckets
  BY <1>1, BucketOf DEF TypeOK, Waiting
<1>7. \A t \in Thread : Waiting(t) /\ t \notin awoken => t \in bucket[Bucket(waiter[t].address)]
  BY <1>1, <1>6 DEF QueuesHoldLiveWaiters
<1> QED
  BY <1>1, <1>3, <1>5, <1>6, <1>7

\* What is left of a list when some of its records are unlinked is a list.
LEMMA UnlinkKeeps ==
  ASSUME FutexIInv, NEW b \in Buckets, NEW S \in SUBSET Thread, Unlink(b, S),
         \A c \in Buckets : c # b => S \intersect bucket[c] = {}
  PROVE  /\ QueuesAreLists'
         /\ bucket' \in [Buckets -> SUBSET Thread] /\ ahead' \in [Thread -> SUBSET Thread]
         /\ \A c \in Buckets : bucket'[c] = bucket[c] \ S
<1>1. TypeOK /\ QueuesAreLists
  BY DEF FutexIInv, QueueIntegrity
<1>2. /\ bucket \in [Buckets -> SUBSET Thread] /\ ahead \in [Thread -> SUBSET Thread]
  BY <1>1 DEF TypeOK
<1>3. \A c \in Buckets : bucket'[c] = bucket[c] \ S
  BY <1>2 DEF Unlink
<1>4. \A t \in Thread : ahead'[t] = IF t \in S THEN {} ELSE ahead[t] \ S
  BY DEF Unlink
<1>5. bucket' \in [Buckets -> SUBSET Thread] /\ ahead' \in [Thread -> SUBSET Thread]
  BY <1>2 DEF Unlink
<1>6. ASSUME NEW c \in Buckets, NEW t \in bucket'[c], NEW u \in bucket'[c]
      PROVE  /\ t # u => (t \in ahead'[u] <=> u \notin ahead'[t])
             /\ t \in ahead'[u] => ahead'[t] \subseteq ahead'[u]
  <2>1. /\ t \in bucket[c] /\ u \in bucket[c] /\ t \notin S /\ u \notin S
        /\ t \in Thread /\ u \in Thread
    BY <1>2, <1>3, <1>6
  <2>2. ahead'[t] = ahead[t] \ S /\ ahead'[u] = ahead[u] \ S
    BY <1>4, <2>1
  <2>3. /\ t # u => (t \in ahead[u] <=> u \notin ahead[t])
        /\ t \in ahead[u] => ahead[t] \subseteq ahead[u]
    BY <1>1, <2>1 DEF QueuesAreLists
  <2> QED
    BY <2>1, <2>2, <2>3
<1>7. ASSUME NEW t \in Thread
      PROVE  /\ t \notin ahead'[t]
             /\ \A u \in ahead'[t] : \E c \in Buckets : {t, u} \subseteq bucket'[c]
  <2>1. t \notin ahead[t] /\ \A u \in ahead[t] : \E c \in Buckets : {t, u} \subseteq bucket[c]
    BY <1>1 DEF QueuesAreLists
  <2>2. \A u \in ahead'[t] : u \in ahead[t] /\ u \notin S /\ t \notin S
    BY <1>4
  <2> QED
    BY <1>3, <2>1, <2>2
<1>8. QueuesAreLists'
  BY <1>6, <1>7 DEF QueuesAreLists
<1> QED
  BY <1>3, <1>5, <1>8

LEMMA EnqueueKeeps ==
  ASSUME FutexIInv, NEW t \in Thread, NEW w \in Waiter, Enqueue(t, w) PROVE FutexIInv'
<1>1. TypeOK /\ QueuesHoldLiveWaiters /\ QueuesAreLists /\ \A u \in awoken : Waiting(u)
  BY DEF FutexIInv, QueueIntegrity
<1>2. PICK b : b = Bucket(w.address)
  OBVIOUS
<1>3. b \in Buckets /\ w # None
  BY <1>2, BucketOf, FutexAssumption
<1>4. /\ ~Waiting(t) /\ t \notin awoken /\ ahead[t] = {}
      /\ \A u \in Thread : t \notin ahead[u]
      /\ \A c \in Buckets : t \notin bucket[c]
  BY <1>1, QueueFacts DEF Enqueue, QueuesHoldLiveWaiters
<1>5. /\ waiter' = [waiter EXCEPT ![t] = w]
      /\ bucket' = [bucket EXCEPT ![b] = @ \union {t}]
      /\ ahead' = [ahead EXCEPT ![t] = bucket[b]]
      /\ result' = [result EXCEPT ![t] = "none"] /\ UNCHANGED <<word, awoken, due>>
  BY <1>2 DEF Enqueue
<1>6. TypeOK'
  BY <1>1, <1>3, <1>5 DEF TypeOK
<1>7. /\ \A u \in Thread : waiter'[u] = IF u = t THEN w ELSE waiter[u]
      /\ \A c \in Buckets : bucket'[c] = IF c = b THEN bucket[b] \union {t} ELSE bucket[c]
      /\ \A u \in Thread : ahead'[u] = IF u = t THEN bucket[b] ELSE ahead[u]
      /\ \A u \in Thread : Waiting(u)' <=> u = t \/ Waiting(u)
      /\ \A c \in Buckets : bucket[c] \subseteq Thread
  BY <1>1, <1>3, <1>5 DEF TypeOK, Waiting
<1>8. ASSUME NEW c \in Buckets, NEW u \in Thread
      PROVE  u \in bucket'[c] <=> Waiting(u)' /\ u \notin awoken' /\ Bucket(waiter'[u].address) = c
  <2>1. CASE u = t
    BY <1>2, <1>4, <1>5, <1>7, <2>1
  <2>2. CASE u # t
    BY <1>1, <1>5, <1>7, <2>2 DEF QueuesHoldLiveWaiters
  <2> QED
    BY <2>1, <2>2
<1>9. QueuesAreLists'
  <2>1. ASSUME NEW c \in Buckets, NEW u \in bucket'[c], NEW v \in bucket'[c]
        PROVE  /\ u # v => (u \in ahead'[v] <=> v \notin ahead'[u])
               /\ u \in ahead'[v] => ahead'[u] \subseteq ahead'[v]
    <3>1. u \in Thread /\ v \in Thread
      BY <1>7, <2>1
    <3>2. CASE u # t /\ v # t
      BY <1>1, <1>7, <2>1, <3>1, <3>2 DEF QueuesAreLists
    <3>3. CASE v = t
      <4>1. c = b
        BY <1>4, <1>7, <2>1, <3>3
      <4>2. CASE u = t
        BY <1>4, <1>3, <1>7, <3>3, <4>2
      <4>3. CASE u # t
        <5>1. u \in bucket[b] /\ ahead'[u] = ahead[u] /\ ahead'[v] = bucket[b]
          BY <1>3, <1>7, <2>1, <3>1, <3>3, <4>1, <4>3
        <5>2. ahead[u] \subseteq bucket[b]
          <6>1. \A x \in ahead[u] : \E d \in Buckets : {u, x} \subseteq bucket[d]
            BY <1>1, <3>1 DEF QueuesAreLists
          <6> QED
            BY <1>3, <5>1, <6>1, QueueFacts
        <5> QED
          BY <1>4, <3>1, <3>3, <5>1, <5>2
      <4> QED
        BY <4>2, <4>3
    <3>4. CASE u = t /\ v # t
      <4>1. c = b /\ v \in bucket[b]
        BY <1>4, <1>7, <2>1, <3>4
      <4> QED
        BY <1>4, <1>7, <3>1, <3>4, <4>1
    <3> QED
      BY <3>2, <3>3, <3>4
  <2>2. ASSUME NEW u \in Thread
        PROVE  /\ u \notin ahead'[u]
               /\ \A x \in ahead'[u] : \E d \in Buckets : {u, x} \subseteq bucket'[d]
    <3>1. CASE u = t
      <4>1. ahead'[t] = bucket[b] /\ bucket'[b] = bucket[b] \union {t}
        BY <1>3, <1>7
      <4> QED
        BY <1>3, <1>4, <3>1, <4>1
    <3>2. CASE u # t
      BY <1>1, <1>7, <3>2 DEF QueuesAreLists
    <3> QED
      BY <3>1, <3>2
  <2> QED
    BY <2>1, <2>2 DEF QueuesAreLists
<1>10. (\A u \in awoken : Waiting(u))'
  BY <1>1, <1>5, <1>7 DEF TypeOK
<1>11. QueuesHoldLiveWaiters'
  BY <1>8 DEF QueuesHoldLiveWaiters
<1>12. (\A u \in due : Waiting(u) /\ waiter[u].deadline)'
  <2>1. t \notin due /\ due \subseteq Thread /\ \A u \in due : Waiting(u) /\ waiter[u].deadline
    BY <1>1, <1>4 DEF FutexIInv, TypeOK
  <2> QED
    BY <1>5, <1>7, <2>1
<1> QED
  BY <1>6, <1>9, <1>10, <1>11, <1>12 DEF FutexIInv, QueueIntegrity

Results == {"none", "0", "EAGAIN", "ETIMEDOUT", "EINVAL", "EINTR"}

LEMMA LeaveKeeps ==
  ASSUME FutexIInv, NEW t \in Thread, Waiting(t), NEW why \in Results, Leave(t, why)
  PROVE  FutexIInv'
<1>1. TypeOK /\ QueuesHoldLiveWaiters /\ \A u \in awoken : Waiting(u)
  BY DEF FutexIInv, QueueIntegrity
<1>2. PICK b : b = Bucket(waiter[t].address)
  OBVIOUS
<1>3. b \in Buckets /\ \A c \in Buckets : c # b => {t} \intersect bucket[c] = {}
  BY <1>1, <1>2, QueueFacts DEF QueuesHoldLiveWaiters
<1>4. Unlink(b, {t})
  BY <1>2 DEF Leave
<1>5. /\ QueuesAreLists'
      /\ bucket' \in [Buckets -> SUBSET Thread] /\ ahead' \in [Thread -> SUBSET Thread]
      /\ \A c \in Buckets : bucket'[c] = bucket[c] \ {t}
  BY <1>3, <1>4, UnlinkKeeps
<1>6. /\ waiter' = [waiter EXCEPT ![t] = None] /\ awoken' = awoken \ {t}
      /\ due' = due \ {t} /\ result' = [result EXCEPT ![t] = why] /\ word' = word
  BY DEF Leave
<1>7. TypeOK'
  BY <1>1, <1>5, <1>6 DEF TypeOK, Results
<1>8. \A u \in Thread : waiter'[u] = IF u = t THEN None ELSE waiter[u]
  BY <1>1, <1>6 DEF TypeOK
<1>9. QueuesHoldLiveWaiters'
  <2>1. ASSUME NEW c \in Buckets, NEW u \in Thread
        PROVE  u \in bucket'[c] <=> Waiting(u)' /\ u \notin awoken' /\ Bucket(waiter'[u].address) = c
    <3>1. CASE u = t
      BY <1>5, <1>8, <3>1 DEF Waiting
    <3>2. CASE u # t
      BY <1>1, <1>5, <1>6, <1>8, <3>2 DEF QueuesHoldLiveWaiters, Waiting
    <3> QED
      BY <3>1, <3>2
  <2> QED
    BY <2>1 DEF QueuesHoldLiveWaiters
<1>10. (\A u \in awoken : Waiting(u))'
  BY <1>1, <1>6, <1>8 DEF Waiting, TypeOK
<1>11. (\A u \in due : Waiting(u) /\ waiter[u].deadline)'
  <2>1. due \subseteq Thread /\ \A u \in due : Waiting(u) /\ waiter[u].deadline
    BY <1>1 DEF FutexIInv, TypeOK
  <2> QED
    BY <1>6, <1>8, <2>1 DEF Waiting
<1> QED
  BY <1>5, <1>7, <1>9, <1>10, <1>11 DEF FutexIInv, QueueIntegrity

\* The waiters that a wake takes are in its bucket, and in no other.
LEMMA TakenFacts ==
  ASSUME FutexIInv, NEW a \in Address, NEW max, NEW bits
  PROVE  /\ Bucket(a) \in Buckets /\ Taken(a, max, bits) \in SUBSET Thread
         /\ Taken(a, max, bits) \subseteq bucket[Bucket(a)]
         /\ \A c \in Buckets : c # Bucket(a) => Taken(a, max, bits) \intersect bucket[c] = {}
<1>1. Bucket(a) \in Buckets
  BY DEF Buckets
<1>2. Taken(a, max, bits) \subseteq bucket[Bucket(a)]
  BY DEF Taken
<1>3. bucket[Bucket(a)] \subseteq Thread
  BY <1>1, QueueFacts DEF TypeOK
<1> QED
  BY <1>1, <1>2, <1>3, QueueFacts

LEMMA WakeKeeps ==
  ASSUME FutexIInv, NEW a \in Address, NEW max, NEW bits, Wake(a, max, bits) PROVE FutexIInv'
<1>1. TypeOK /\ QueuesHoldLiveWaiters /\ \A u \in awoken : Waiting(u)
  BY DEF FutexIInv, QueueIntegrity
<1>2. PICK S, b : S = Taken(a, max, bits) /\ b = Bucket(a)
  OBVIOUS
<1>3. /\ b \in Buckets /\ S \in SUBSET Thread /\ S \subseteq bucket[b]
      /\ \A c \in Buckets : c # b => S \intersect bucket[c] = {}
  BY <1>2, TakenFacts
<1>4. Unlink(b, S) /\ awoken' = awoken \union S /\ UNCHANGED <<word, waiter, due, result>>
  BY <1>2 DEF Wake
<1>5. /\ QueuesAreLists'
      /\ bucket' \in [Buckets -> SUBSET Thread] /\ ahead' \in [Thread -> SUBSET Thread]
      /\ \A c \in Buckets : bucket'[c] = bucket[c] \ S
  BY <1>3, <1>4, UnlinkKeeps
<1>6. TypeOK'
  BY <1>1, <1>3, <1>4, <1>5 DEF TypeOK
<1>7. QueuesHoldLiveWaiters'
  BY <1>1, <1>4, <1>5 DEF QueuesHoldLiveWaiters, Waiting
<1>8. (\A u \in awoken : Waiting(u))'
  BY <1>1, <1>3, <1>4 DEF QueuesHoldLiveWaiters, Waiting
<1>9. (\A u \in due : Waiting(u) /\ waiter[u].deadline)'
  BY <1>4 DEF FutexIInv, Waiting
<1> QED
  BY <1>5, <1>6, <1>7, <1>8, <1>9 DEF FutexIInv, QueueIntegrity

LEMMA FutexNextKeeps == FutexIInv /\ [Next]_vars => FutexIInv'
<1> SUFFICES ASSUME FutexIInv, [Next]_vars PROVE FutexIInv'
  OBVIOUS
<1>1. ASSUME UNCHANGED <<bucket, ahead, waiter, awoken>>, word' \in [Address -> Word],
             due' \subseteq Thread, result' \in [Thread -> Results],
             \A t \in due' : Waiting(t) /\ waiter[t].deadline
      PROVE  FutexIInv'
  <2>1. TypeOK'
    BY <1>1, QueueFacts DEF TypeOK, Results
  <2>2. QueuesHoldLiveWaiters' /\ QueuesAreLists' /\ (\A t \in awoken : Waiting(t))'
    BY <1>1 DEF FutexIInv, QueueIntegrity, QueuesHoldLiveWaiters, QueuesAreLists, Waiting
  <2>3. (\A t \in due : Waiting(t) /\ waiter[t].deadline)'
    BY <1>1 DEF Waiting
  <2> QED
    BY <2>1, <2>2, <2>3 DEF FutexIInv, QueueIntegrity
<1>2. /\ word \in [Address -> Word] /\ due \subseteq Thread /\ result \in [Thread -> Results]
      /\ \A t \in due : Waiting(t) /\ waiter[t].deadline
  BY QueueFacts DEF TypeOK, Results, FutexIInv
<1>3. CASE UNCHANGED vars
  BY <1>1, <1>2, <1>3 DEF vars
<1>4. ASSUME NEW a \in Address, NEW v \in Word, Store(a, v) PROVE FutexIInv'
  BY <1>1, <1>2, <1>4 DEF Store
<1>5. ASSUME NEW t \in Thread, DeadlinePasses(t) PROVE FutexIInv'
  BY <1>1, <1>2, <1>5 DEF DeadlinePasses
<1>6. ASSUME NEW t \in Thread, NEW w \in Waiter, NEW why \in {"EAGAIN", "ETIMEDOUT", "EINVAL"},
             Refuse(t, w, why)
      PROVE  FutexIInv'
  BY <1>1, <1>2, <1>6 DEF Refuse, Results
<1>7. ASSUME NEW t \in Thread, SleepEnds(t) \/ ReturnInterrupted(t) PROVE FutexIInv'
  BY <1>7, LeaveKeeps DEF SleepEnds, ReturnAwoken, ReturnChanged, ReturnTimedOut,
       ReturnClockError, ReturnInterrupted, Results
<1>8. ASSUME NEW a \in Address, NEW max \in 1 .. Cardinality(Thread), NEW bits \in NonEmpty(Bit),
             Wake(a, max, bits)
      PROVE  FutexIInv'
  BY <1>8, WakeKeeps
<1> QED
  BY <1>3, <1>4, <1>5, <1>6, <1>7, <1>8, EnqueueKeeps DEF Next

LEMMA FutexInvariance == Spec => []FutexIInv
BY FutexInitial, FutexNextKeeps, PTL DEF Spec

(* A record is linked into the queue of its address's bucket exactly while  *)
(* its thread is in futex_wait_impl and nobody has woken it, and each queue *)
(* is a list of such records, however waits, wakes, deadlines and changes   *)
(* of words interleave (futex_enqueue_locked, futex_remove_locked).         *)
THEOREM QueueSafety == Spec => []QueueIntegrity
<1>1. FutexIInv => QueueIntegrity
  BY DEF FutexIInv
<1> QED
  BY <1>1, FutexInvariance, PTL

-----------------------------------------------------------------------------
\* What callers see: the line at an address, and who came before whom.
LineOf(a) == {t \in bucket[Bucket(a)] : waiter[t].address = a}
Lines     == [a \in Address |-> LineOf(a)]
Befores   == [t \in Thread |-> SameAddress(t)]

LinesSound ==
  /\ \A t \in Thread : Waiting(t) => waiter[t].address \in Address
  /\ \A a \in Address, t \in Thread :
       t \in LineOf(a) <=> Waiting(t) /\ t \notin awoken /\ waiter[t].address = a
  /\ \A a \in Address : LineOf(a) \subseteq Thread

LEMMA LineFacts == FutexIInv => LinesSound
<1> SUFFICES ASSUME FutexIInv PROVE LinesSound
  OBVIOUS
<1>1. \A t \in Thread : Waiting(t) => waiter[t].address \in Address
  BY QueueFacts DEF Waiter
<1>2. ASSUME NEW a \in Address
      PROVE  /\ LineOf(a) \subseteq Thread
             /\ \A t \in Thread :
                  t \in LineOf(a) <=> Waiting(t) /\ t \notin awoken /\ waiter[t].address = a
  <2>1. Bucket(a) \in Buckets /\ QueuesHoldLiveWaiters
    BY DEF Buckets, FutexIInv, QueueIntegrity
  <2>2. bucket[Bucket(a)] \subseteq Thread
    BY <2>1, QueueFacts DEF TypeOK
  <2> QED
    BY <2>1, <2>2 DEF LineOf, QueuesHoldLiveWaiters
<1> QED
  BY <1>1, <1>2 DEF LinesSound

LEMMA NextLines == FutexIInv' => LinesSound'
BY LineFacts, PTL

LEMMA LinesTaken ==
  ASSUME FutexIInv, FutexIInv', NEW a \in Address, NEW S \in SUBSET Thread,
         Unlink(Bucket(a), S), \A t \in S : Waiting(t) /\ waiter[t].address = a,
         \A t \in Thread \ S : waiter'[t] = waiter[t],
         \A t \in Thread \ S : t \in awoken' <=> t \in awoken,
         \A t \in S : t \in awoken' \/ ~Waiting(t)'
  PROVE  /\ Lines' = [Lines EXCEPT ![a] = @ \ S]
         /\ Befores' = [t \in Thread |-> IF t \in S THEN {} ELSE Befores[t] \ S]
<1>1. ASSUME NEW c \in Address PROVE LineOf(c)' = IF c = a THEN LineOf(c) \ S ELSE LineOf(c)
  <2>1. LineOf(c) \subseteq Thread /\ LineOf(c)' \subseteq Thread
    BY LineFacts, NextLines DEF LinesSound
  <2>2. ASSUME NEW t \in Thread
        PROVE  /\ t \in LineOf(c) <=> Waiting(t) /\ t \notin awoken /\ waiter[t].address = c
               /\ t \in LineOf(c)' <=> Waiting(t)' /\ t \notin awoken' /\ waiter'[t].address = c
    BY LineFacts, NextLines DEF LinesSound
  <2>3. ASSUME NEW t \in Thread
        PROVE  t \in LineOf(c)' <=> t \in LineOf(c) /\ (c = a => t \notin S)
    <3>1. CASE t \in S
      BY <2>2, <3>1
    <3>2. CASE t \notin S
      BY <2>2, <3>2 DEF Waiting
    <3> QED
      BY <3>1, <3>2
  <2> QED
    BY <2>1, <2>3
<1>2. Lines' = [Lines EXCEPT ![a] = @ \ S]
  BY <1>1 DEF Lines
<1>3. ASSUME NEW t \in Thread
      PROVE  SameAddress(t)' = IF t \in S THEN {} ELSE SameAddress(t) \ S
  <2>1. ahead'[t] = IF t \in S THEN {} ELSE ahead[t] \ S
    BY DEF Unlink
  <2>2. ahead[t] \subseteq Thread
    BY QueueFacts DEF TypeOK
  <2> QED
    BY <2>1, <2>2 DEF SameAddress
<1>4. Befores' = [t \in Thread |-> IF t \in S THEN {} ELSE Befores[t] \ S]
  BY <1>3 DEF Befores
<1> QED
  BY <1>2, <1>4

\* A step that is none of a queue: its callers see the lines as they were.
LEMMA LinesKept ==
  ASSUME UNCHANGED <<bucket, ahead, waiter>> PROVE Lines' = Lines /\ Befores' = Befores
BY DEF Lines, LineOf, Befores, SameAddress

LEMMA EnqueueIsWait ==
  ASSUME FutexIInv, FutexIInv', NEW t \in Thread, NEW w \in Waiter, Enqueue(t, w)
  PROVE  Promise!Wait(t, w)
<1>1. PICK a : a = w.address
  OBVIOUS
<1>2. a \in Address /\ w # None /\ Bucket(a) \in Buckets
  BY <1>1, FutexAssumption, BucketOf DEF Waiter
<1>3. /\ waiter[t] = None /\ ~Waiting(t) /\ waiter' = [waiter EXCEPT ![t] = w]
      /\ ahead' = [ahead EXCEPT ![t] = bucket[Bucket(a)]]
      /\ word[w.address] = w.expected /\ result' = [result EXCEPT ![t] = "none"]
      /\ UNCHANGED <<word, awoken>>
  BY <1>1 DEF Enqueue, Waiting
<1>4. /\ \A u \in Thread : waiter'[u] = IF u = t THEN w ELSE waiter[u]
      /\ \A u \in Thread : ahead'[u] = IF u = t THEN bucket[Bucket(a)] ELSE ahead[u]
      /\ \A u \in Thread : ahead[u] \subseteq Thread
  BY <1>3, QueueFacts DEF TypeOK
<1>5. t \notin awoken /\ \A u \in Thread : t \notin ahead[u]
  BY <1>3, QueueFacts DEF FutexIInv
<1>6. ASSUME NEW c \in Address
      PROVE  LineOf(c)' = IF c = a THEN LineOf(c) \union {t} ELSE LineOf(c)
  <2>1. LineOf(c) \subseteq Thread /\ LineOf(c)' \subseteq Thread
    BY LineFacts, NextLines DEF LinesSound
  <2>2. ASSUME NEW u \in Thread
        PROVE  /\ u \in LineOf(c) <=> Waiting(u) /\ u \notin awoken /\ waiter[u].address = c
               /\ u \in LineOf(c)' <=> Waiting(u)' /\ u \notin awoken' /\ waiter'[u].address = c
    BY LineFacts, NextLines DEF LinesSound
  <2>3. ASSUME NEW u \in Thread
        PROVE  u \in LineOf(c)' <=> u \in LineOf(c) \/ (c = a /\ u = t)
    <3>1. CASE u = t
      BY <1>1, <1>2, <1>3, <1>4, <1>5, <2>2, <3>1 DEF Waiting
    <3>2. CASE u # t
      BY <1>3, <1>4, <2>2, <3>2 DEF Waiting
    <3> QED
      BY <3>1, <3>2
  <2> QED
    BY <2>1, <2>3
<1>7. Lines' = [Lines EXCEPT ![a] = @ \union {t}]
  BY <1>6 DEF Lines
<1>8. ASSUME NEW u \in Thread PROVE SameAddress(u)' = IF u = t THEN LineOf(a) ELSE SameAddress(u)
  <2>1. CASE u = t
    <3>1. \A v \in bucket[Bucket(a)] : waiter'[v] = waiter[v]
      <4>1. bucket[Bucket(a)] \subseteq Thread /\ t \notin bucket[Bucket(a)]
        BY <1>2, <1>3, QueueFacts DEF TypeOK, FutexIInv, QueueIntegrity, QueuesHoldLiveWaiters
      <4> QED
        BY <1>4, <4>1
    <3> QED
      BY <1>1, <1>4, <2>1, <3>1 DEF SameAddress, LineOf
  <2>2. CASE u # t
    <3>1. \A v \in ahead[u] : waiter'[v] = waiter[v]
      BY <1>4, <1>5
    <3> QED
      BY <1>4, <2>2, <3>1 DEF SameAddress
  <2> QED
    BY <2>1, <2>2
<1>9. Befores' = [Befores EXCEPT ![t] = Lines[a]]
  BY <1>2, <1>8 DEF Befores, Lines
<1> QED
  BY <1>1, <1>3, <1>7, <1>9 DEF Promise!Wait, Lines, Befores, LineOf

LEMMA LeaveIsReturn ==
  ASSUME FutexIInv, FutexIInv', NEW t \in Thread, Waiting(t), NEW why, Leave(t, why),
         IF t \in awoken THEN why = "0"
         ELSE \/ why = "0" /\ Changed(t)
              \/ why \in {"ETIMEDOUT", "EINVAL"} /\ waiter[t].deadline
              \/ why = "EINTR"
  PROVE  Promise!Return(t, why)
<1>1. PICK a : a = waiter[t].address
  OBVIOUS
<1>2. a \in Address /\ Unlink(Bucket(a), {t})
  BY <1>1, LineFacts DEF Leave, LinesSound
<1>3. /\ waiter' = [waiter EXCEPT ![t] = None] /\ awoken' = awoken \ {t}
      /\ result' = [result EXCEPT ![t] = why] /\ word' = word
  BY DEF Leave
<1>4. \A u \in Thread : waiter'[u] = IF u = t THEN None ELSE waiter[u]
  BY <1>3, QueueFacts DEF TypeOK
<1>5. /\ \A u \in {t} : Waiting(u) /\ waiter[u].address = a
      /\ \A u \in Thread \ {t} : waiter'[u] = waiter[u]
      /\ \A u \in Thread \ {t} : u \in awoken' <=> u \in awoken
      /\ \A u \in {t} : u \in awoken' \/ ~Waiting(u)'
  BY <1>1, <1>3, <1>4 DEF Waiting
<1>6. /\ Lines' = [Lines EXCEPT ![a] = @ \ {t}]
      /\ Befores' = [u \in Thread |-> IF u \in {t} THEN {} ELSE Befores[u] \ {t}]
  <2>1. {t} \in SUBSET Thread
    OBVIOUS
  <2> QED
    BY <1>2, <1>5, <2>1, LinesTaken
<1> QED
  BY <1>1, <1>3, <1>6 DEF Promise!Return, Promise!Gone, Lines, Befores, LineOf, Waiting, Changed

LEMMA SameCardinality == ASSUME NEW S PROVE Promise!Cardinality(S) = Cardinality(S)
BY DEF Promise!Cardinality, Cardinality, Promise!IsFiniteSet, IsFiniteSet

LEMMA WakeIsWake ==
  ASSUME FutexIInv, FutexIInv', NEW a \in Address, NEW max, NEW bits, Wake(a, max, bits)
  PROVE  Promise!Wake(a, max, bits)
<1>1. PICK S : S = Taken(a, max, bits)
  OBVIOUS
<1>2. PICK M : M = {t \in bucket[Bucket(a)] : Matches(t, a, bits)}
  OBVIOUS
<1>3. S \in SUBSET Thread /\ S \subseteq bucket[Bucket(a)] /\ Bucket(a) \in Buckets
  BY <1>1, TakenFacts
<1>4. M = {t \in LineOf(a) : waiter[t].bits \intersect bits # {}}
  BY <1>2 DEF LineOf, Matches
<1>5. \A t \in M : ahead[t] \intersect M = SameAddress(t) \intersect M
  BY <1>2 DEF Matches, SameAddress
<1>6. S = {t \in M : Cardinality(SameAddress(t) \intersect M) < max}
  BY <1>1, <1>2, <1>5 DEF Taken
<1>7. M \subseteq Thread
  BY <1>2, <1>3, QueueFacts DEF TypeOK
<1>8. Unlink(Bucket(a), S) /\ awoken' = awoken \union S /\ UNCHANGED <<word, waiter, result>>
  BY <1>1 DEF Wake
<1>9. /\ Lines' = [Lines EXCEPT ![a] = @ \ S]
      /\ Befores' = [t \in Thread |-> IF t \in S THEN {} ELSE Befores[t] \ S]
  <2>1. \A t \in S : Waiting(t) /\ waiter[t].address = a
    BY <1>3, <1>4, <1>6, LineFacts DEF LinesSound
  <2>2. /\ \A t \in Thread \ S : waiter'[t] = waiter[t]
        /\ \A t \in Thread \ S : t \in awoken' <=> t \in awoken
        /\ \A t \in S : t \in awoken' \/ ~Waiting(t)'
    BY <1>8
  <2> QED
    BY <1>3, <1>8, <2>1, <2>2, LinesTaken
<1>10. M = {t \in Lines[a] : waiter[t].bits \intersect bits # {}}
  BY <1>4 DEF Lines
<1>11. S = {t \in M : Cardinality(Befores[t] \intersect M) < max}
  <2>1. \A t \in M : Befores[t] = SameAddress(t)
    BY <1>7 DEF Befores
  <2> QED
    BY <1>6, <2>1
<1>12. S = Promise!First(a, max, bits)
  BY <1>10, <1>11, SameCardinality DEF Promise!First, Lines, Befores, LineOf
<1>13. Promise!Gone(a, Promise!First(a, max, bits))
  BY <1>9, <1>12 DEF Promise!Gone, Lines, Befores, LineOf
<1> QED
  BY <1>8, <1>12, <1>13 DEF Promise!Wake

LEMMA FutexStepMaps == FutexIInv /\ FutexIInv' /\ [Next]_vars => [Promise!Next]_Promise!vars
<1> SUFFICES ASSUME FutexIInv, FutexIInv', [Next]_vars PROVE [Promise!Next]_Promise!vars
  OBVIOUS
<1>1. ASSUME UNCHANGED <<word, bucket, ahead, waiter, awoken, result>>
      PROVE  UNCHANGED Promise!vars
  BY <1>1, LinesKept DEF Promise!vars, Lines, Befores, LineOf
<1>2. CASE UNCHANGED vars
  BY <1>1, <1>2 DEF vars
<1>3. ASSUME NEW a \in Address, NEW v \in Word, Store(a, v) PROVE Promise!Next
  <2>1. Promise!Store(a, v)
    BY <1>3, LinesKept DEF Store, Promise!Store, Lines, Befores, LineOf
  <2> QED
    BY <2>1 DEF Promise!Next, Promise!Word, Word
<1>4. ASSUME NEW t \in Thread, DeadlinePasses(t) PROVE UNCHANGED Promise!vars
  BY <1>1, <1>4 DEF DeadlinePasses
<1>5. ASSUME NEW t \in Thread, NEW w \in Waiter, Enqueue(t, w) PROVE Promise!Next
  <2>1. Promise!Wait(t, w) /\ w \in Promise!Call
    BY <1>5, EnqueueIsWait DEF Promise!Call, Waiter, Promise!Word, Word, Promise!NonEmpty, NonEmpty
  <2> QED
    BY <2>1 DEF Promise!Next
<1>6. ASSUME NEW t \in Thread, NEW w \in Waiter, NEW why \in {"EAGAIN", "ETIMEDOUT", "EINVAL"},
             Refuse(t, w, why)
      PROVE  Promise!Next
  <2>1. w \in Promise!Call /\ why \in Promise!Error
    BY DEF Promise!Call, Waiter, Promise!Word, Word, Promise!NonEmpty, NonEmpty, Promise!Error
  <2>2. Promise!WaitRefused(t, w, why)
    BY <1>6, LinesKept DEF Refuse, Waiting, Promise!WaitRefused, Lines, Befores, LineOf
  <2> QED
    BY <2>1, <2>2 DEF Promise!Next
<1>7. ASSUME NEW t \in Thread, SleepEnds(t) \/ ReturnInterrupted(t) PROVE Promise!Next
  <2>1. PICK why \in {"0", "ETIMEDOUT", "EINVAL", "EINTR"} :
          /\ Waiting(t) /\ Leave(t, why)
          /\ IF t \in awoken THEN why = "0"
             ELSE \/ why = "0" /\ Changed(t)
                  \/ why \in {"ETIMEDOUT", "EINVAL"} /\ waiter[t].deadline
                  \/ why = "EINTR"
    <3>1. ASSUME t \in due, Waiting(t) PROVE waiter[t].deadline
      BY <3>1 DEF FutexIInv
    <3> QED
      BY <1>7, <3>1 DEF SleepEnds, ReturnAwoken, ReturnChanged, ReturnTimedOut, ReturnClockError,
           ReturnInterrupted
  <2>2. Promise!Return(t, why)
    BY <2>1, LeaveIsReturn
  <2>3. why \in Promise!Error \union {"0"}
    BY DEF Promise!Error
  <2> QED
    BY <2>2, <2>3 DEF Promise!Next
<1>8. ASSUME NEW a \in Address, NEW max \in 1 .. Cardinality(Thread), NEW bits \in NonEmpty(Bit),
             Wake(a, max, bits)
      PROVE  Promise!Next
  <2>1. Promise!Wake(a, max, bits)
    BY <1>8, WakeIsWake
  <2>2. bits \in Promise!NonEmpty(Bit)
    BY DEF Promise!NonEmpty, NonEmpty
  <2>3. max \in 1 .. Promise!Cardinality(Thread)
    BY SameCardinality
  <2> QED
    BY <2>1, <2>2, <2>3 DEF Promise!Next
<1> QED
  BY <1>2, <1>3, <1>4, <1>5, <1>6, <1>7, <1>8 DEF Next

(* Hashed buckets that addresses share, records on the stacks of their      *)
(* threads and sleeps in slices implement what the system call promises:    *)
(* one queue per address, a wake of its first matching waiters, and a       *)
(* reason for every return (futex_wait_impl, futex_wake_impl).              *)
THEOREM FutexRefinement == Spec => ImplementsPromise
<1>1. Init => Promise!Init
  <2> SUFFICES ASSUME Init PROVE Promise!Init
    OBVIOUS
  <2>1. Lines = [a \in Address |-> {}] /\ Befores = [t \in Thread |-> {}]
    BY DEF Init, Lines, LineOf, Befores, SameAddress, Buckets
  <2>2. word \in [Address -> Promise!Word]
    BY FutexAssumption DEF Init, Promise!Word
  <2> QED
    BY <2>1, <2>2 DEF Init, Promise!Init, Lines, Befores, LineOf
<1> QED
  BY <1>1, FutexInvariance, FutexStepMaps, PTL DEF Spec, ImplementsPromise, Promise!Spec

(***************************************************************************)
(* 5. References.  A value has as many owners as the tables, the fields    *)
(* and the releases on their way say, whichever values a release takes     *)
(* along; the marks of a thread's frames cut its table where the guest was *)
(* promised.                                                               *)
(***************************************************************************)
\* The function g is f but for what it has at t.
ButAt(S, t, f, g) == \A u \in S : u # t => g[u] = f[u]

\* How many members of S have v in f.
With(S, f, v) == Cardinality({u \in S : f[u] = v})

\* One more holder of x, one less of the value that it held.
LEMMA HoldersChange ==
  ASSUME NEW S, IsFiniteSet(S), NEW f, NEW g, NEW t \in S, ButAt(S, t, f, g), NEW v
  PROVE  /\ With(S, f, v) \in Nat /\ With(S, g, v) \in Nat
         /\ With(S, g, v) = With(S, f, v) - Same(f[t], v) + Same(g[t], v)
<1> DEFINE A == {u \in S : f[u] = v}
           B == {u \in S : g[u] = v}
<1>1. IsFiniteSet(A) /\ Cardinality(A) \in Nat
  BY FS_Subset, FS_CardinalityType
<1>2. A \ {t} = B \ {t}
  BY DEF ButAt
<1>3. IsFiniteSet(B) /\ Cardinality(B) \in Nat
  BY FS_Subset, FS_CardinalityType
<1>4. (t \in A <=> f[t] = v) /\ (t \in B <=> g[t] = v)
  OBVIOUS
<1> HIDE DEF A, B
<1>5. Cardinality(A \ {t}) = Cardinality(A) - Same(f[t], v)
  <2>1. Cardinality(A \ {t}) = IF t \in A THEN Cardinality(A) - 1 ELSE Cardinality(A)
    BY <1>1, FS_RemoveElement
  <2> QED
    BY <1>1, <1>4, <2>1 DEF Same
<1>6. Cardinality(B \ {t}) = Cardinality(B) - Same(g[t], v)
  <2>1. Cardinality(B \ {t}) = IF t \in B THEN Cardinality(B) - 1 ELSE Cardinality(B)
    BY <1>3, FS_RemoveElement
  <2> QED
    BY <1>3, <1>4, <2>1 DEF Same
<1>7. Cardinality(B) = Cardinality(A) - Same(f[t], v) + Same(g[t], v)
  <2>1. Same(f[t], v) \in Nat /\ Same(g[t], v) \in Nat
    BY DEF Same
  <2> QED
    BY <1>1, <1>2, <1>3, <1>5, <1>6, <2>1
<1> QED
  BY <1>1, <1>3, <1>7 DEF A, B, With

-----------------------------------------------------------------------------
\* What Among counts: it grows from place to place with what it meets there.
LEMMA AmongType ==
  ASSUME NEW s, NEW n \in Int, NEW v
  PROVE  /\ IsFiniteSet({k \in 1 .. n : s[k] = v}) /\ Among(s, n, v) \in Nat
         /\ Among(s, n, v) = 0 <=> \A k \in 1 .. n : s[k] # v
<1>1. IsFiniteSet(1 .. n)
  BY FS_Interval
<1>2. IsFiniteSet({k \in 1 .. n : s[k] = v})
  BY <1>1, FS_Subset
<1>3. {k \in 1 .. n : s[k] = v} = {} <=> \A k \in 1 .. n : s[k] # v
  OBVIOUS
<1> QED
  BY <1>2, <1>3, FS_CardinalityType, FS_EmptySet DEF Among

LEMMA AmongStep ==
  ASSUME NEW s, NEW n \in Nat, NEW v
  PROVE  Among(s, n + 1, v) = Among(s, n, v) + Same(s[n + 1], v)
<1> DEFINE A == {k \in 1 .. n : s[k] = v}
           B == {k \in 1 .. n + 1 : s[k] = v}
<1>1. IsFiniteSet(A) /\ Cardinality(A) \in Nat
  <2>1. n \in Int
    OBVIOUS
  <2>2. IsFiniteSet(A) /\ Among(s, n, v) \in Nat
    BY <2>1, AmongType
  <2> QED
    BY <2>2 DEF Among
<1>2. n + 1 \notin A
  OBVIOUS
<1>3. CASE s[n + 1] = v
  <2>1. B = A \union {n + 1}
    BY <1>3
  <2>2. Cardinality(B) = Cardinality(A) + 1
    BY <1>1, <1>2, <2>1, FS_AddElement
  <2> QED
    BY <1>3, <2>2 DEF Among, Same
<1>4. CASE s[n + 1] # v
  <2>1. B = A
    BY <1>4
  <2> QED
    BY <1>1, <1>4, <2>1 DEF Among, Same
<1> QED
  BY <1>3, <1>4

LEMMA AmongMono ==
  ASSUME NEW s, NEW m \in Int, NEW n \in Int, m <= n, NEW v
  PROVE  Among(s, m, v) <= Among(s, n, v)
<1>1. {k \in 1 .. m : s[k] = v} \subseteq {k \in 1 .. n : s[k] = v}
  OBVIOUS
<1> QED
  BY <1>1, AmongType, FS_Subset DEF Among

\* Two sequences that agree up to n.
Agree(s, r, n) == \A k \in 1 .. n : s[k] = r[k]

LEMMA AmongAgree ==
  ASSUME NEW s, NEW r, NEW n \in Int, Agree(s, r, n), NEW v
  PROVE  Among(s, n, v) = Among(r, n, v)
<1>1. {k \in 1 .. n : s[k] = v} = {k \in 1 .. n : r[k] = v}
  BY DEF Agree
<1> QED
  BY <1>1 DEF Among

LEMMA AmongMore ==
  ASSUME NEW s, NEW m \in Nat, NEW n \in Nat, NEW v, NEW k \in m + 1 .. n, s[k] = v
  PROVE  Among(s, m, v) + 1 <= Among(s, n, v)
<1>1. Among(s, m, v) <= Among(s, k - 1, v)
  BY AmongMono
<1>2. Among(s, (k - 1) + 1, v) = Among(s, k - 1, v) + Same(s[(k - 1) + 1], v)
  BY AmongStep
<1>3. (k - 1) + 1 = k
  OBVIOUS
<1>4. Among(s, k, v) = Among(s, k - 1, v) + 1
  BY <1>2, <1>3 DEF Same
<1>5. Among(s, k, v) <= Among(s, n, v)
  BY AmongMono
<1>6. m \in Int /\ k - 1 \in Int /\ k \in Int /\ n \in Int
  OBVIOUS
<1>7. Among(s, m, v) \in Nat /\ Among(s, k - 1, v) \in Nat /\ Among(s, k, v) \in Nat
      /\ Among(s, n, v) \in Nat
  BY <1>6, AmongType
<1> QED
  BY <1>1, <1>4, <1>5, <1>7

LEMMA CountAppend ==
  ASSUME NEW S, NEW s \in Seq(S), NEW x \in S, NEW v
  PROVE  /\ CountIn(Append(s, x), v) = CountIn(s, v) + Same(x, v)
         /\ \A n \in Int : n <= Len(s) => Among(Append(s, x), n, v) = Among(s, n, v)
<1>1. /\ Len(Append(s, x)) = Len(s) + 1 /\ Append(s, x)[Len(s) + 1] = x
      /\ \A k \in 1 .. Len(s) : Append(s, x)[k] = s[k]
  OBVIOUS
<1>2. ASSUME NEW n \in Int, n <= Len(s)
      PROVE  Among(Append(s, x), n, v) = Among(s, n, v)
  <2>1. Agree(Append(s, x), s, n)
    BY <1>1, <1>2 DEF Agree
  <2> QED
    BY <2>1, AmongAgree
<1>3. Among(Append(s, x), Len(s) + 1, v)
        = Among(Append(s, x), Len(s), v) + Same(Append(s, x)[Len(s) + 1], v)
  <2>1. Len(s) \in Nat
    OBVIOUS
  <2> QED
    BY <2>1, AmongStep
<1>4. Among(Append(s, x), Len(s), v) = Among(s, Len(s), v)
  BY <1>2
<1> QED
  BY <1>1, <1>2, <1>3, <1>4 DEF CountIn

LEMMA CountSub ==
  ASSUME NEW S, NEW s \in Seq(S), NEW m \in 0 .. Len(s), NEW v
  PROVE  /\ SubSeq(s, 1, m) \in Seq(S) /\ Len(SubSeq(s, 1, m)) = m
         /\ \A n \in Int : n <= m => Among(SubSeq(s, 1, m), n, v) = Among(s, n, v)
<1>1. /\ SubSeq(s, 1, m) \in Seq(S) /\ Len(SubSeq(s, 1, m)) = m
      /\ \A k \in 1 .. m : SubSeq(s, 1, m)[k] = s[k]
  OBVIOUS
<1>2. ASSUME NEW n \in Int, n <= m
      PROVE  Among(SubSeq(s, 1, m), n, v) = Among(s, n, v)
  <2>1. Agree(SubSeq(s, 1, m), s, n)
    BY <1>1, <1>2 DEF Agree
  <2> QED
    BY <2>1, AmongAgree
<1> QED
  BY <1>1, <1>2

\* The place i is left out of s.
LEMMA AmongSkip ==
  ASSUME NEW s, NEW r, NEW n \in Nat, NEW i \in 1 .. n + 1, NEW v,
         \A k \in 1 .. n : r[k] = IF k < i THEN s[k] ELSE s[k + 1]
  PROVE  Among(s, n + 1, v) = Among(r, n, v) + Same(s[i], v)
<1> DEFINE A == {k \in 1 .. n : r[k] = v}
           B == {k \in 1 .. n + 1 : s[k] = v}
           C == B \ {i}
           f == [k \in A |-> IF k < i THEN k ELSE k + 1]
<1>1. n \in Int /\ n + 1 \in Int
  OBVIOUS
<1>2. IsFiniteSet(A) /\ IsFiniteSet(B) /\ Cardinality(A) \in Nat /\ Cardinality(B) \in Nat
  <2>1. IsFiniteSet(A) /\ Among(r, n, v) \in Nat
    BY <1>1, AmongType
  <2>2. IsFiniteSet(B) /\ Among(s, n + 1, v) \in Nat
    BY <1>1, AmongType
  <2> QED
    BY <2>1, <2>2 DEF Among
<1>3. f \in [A -> C]
  OBVIOUS
<1>4. \A a, b \in A : f[a] = f[b] => a = b
  OBVIOUS
<1>5. ASSUME NEW c \in C
      PROVE  \E a \in A : f[a] = c
  <2>1. CASE c < i
    <3>1. c \in A /\ f[c] = c
      BY <2>1
    <3> QED
      BY <3>1
  <2>2. CASE c > i
    <3>1. c - 1 \in A /\ f[c - 1] = c
      BY <2>2
    <3> QED
      BY <3>1
  <2> QED
    BY <2>1, <2>2
<1>6. Cardinality(C) = Cardinality(A)
  <2> HIDE DEF A, C, f
  <2>1. f \in Bijection(A, C)
    BY <1>3, <1>4, <1>5 DEF Bijection, Injection, Surjection, IsInjective
  <2>2. ExistsBijection(A, C)
    BY <2>1 DEF ExistsBijection
  <2> QED
    BY <1>2, <2>2, FS_Bijection
<1>7. Cardinality(C) = IF i \in B THEN Cardinality(B) - 1 ELSE Cardinality(B)
  BY <1>2, FS_RemoveElement
<1>8. i \in B <=> s[i] = v
  OBVIOUS
<1> HIDE DEF A, B, C
<1>9. Cardinality(B) = Cardinality(A) + Same(s[i], v)
  BY <1>2, <1>6, <1>7, <1>8 DEF Same
<1> QED
  BY <1>9 DEF A, B, Among

LEMMA CountRemove ==
  ASSUME NEW S, NEW s \in Seq(S), NEW i \in 1 .. Len(s), NEW v
  PROVE  /\ RemoveAt(s, i) \in Seq(S) /\ Len(RemoveAt(s, i)) = Len(s) - 1
         /\ \A n \in 0 .. i - 1 : Among(RemoveAt(s, i), n, v) = Among(s, n, v)
         /\ \A n \in i .. Len(s) :
              Among(RemoveAt(s, i), n - 1, v) = Among(s, n, v) - Same(s[i], v)
<1> DEFINE r == RemoveAt(s, i)
<1>1. /\ r \in Seq(S) /\ Len(r) = Len(s) - 1
      /\ \A k \in 1 .. Len(s) - 1 : r[k] = IF k < i THEN s[k] ELSE s[k + 1]
  <2>1. PICK p : p = SubSeq(s, 1, i - 1)
    OBVIOUS
  <2>2. p \in Seq(S) /\ Len(p) = i - 1 /\ \A k \in 1 .. i - 1 : p[k] = s[k]
    BY <2>1
  <2>3. PICK q : q = SubSeq(s, i + 1, Len(s))
    OBVIOUS
  <2>4. q \in Seq(S) /\ Len(q) = Len(s) - i /\ \A k \in 1 .. Len(s) - i : q[k] = s[k + i]
    BY <2>3
  <2>5. r = p \o q
    BY <2>1, <2>3 DEF RemoveAt
  <2>6. r \in Seq(S) /\ Len(r) = Len(s) - 1
    <3>0. p \in Seq(S) /\ q \in Seq(S)
      BY <2>2, <2>4
    <3>1. p \o q \in Seq(S) /\ Len(p \o q) = Len(p) + Len(q)
      BY <3>0
    <3>2. (i - 1) + (Len(s) - i) = Len(s) - 1
      OBVIOUS
    <3> QED
      BY <2>2, <2>4, <2>5, <3>1, <3>2
  <2>7. ASSUME NEW k \in 1 .. Len(s) - 1
        PROVE  r[k] = IF k < i THEN s[k] ELSE s[k + 1]
    <3>1. CASE k < i
      <4>1. (p \o q)[k] = p[k]
        BY <2>2, <2>4, <3>1
      <4> QED
        BY <2>2, <2>5, <3>1, <4>1
    <3>2. CASE k >= i
      <4>1. (p \o q)[k] = q[k - (i - 1)]
        BY <2>2, <2>4, <3>2
      <4>2. k - (i - 1) \in 1 .. Len(s) - i /\ (k - (i - 1)) + i = k + 1
        BY <3>2
      <4> QED
        BY <2>4, <2>5, <3>2, <4>1, <4>2
    <3> QED
      BY <3>1, <3>2
  <2> QED
    BY <2>6, <2>7
<1> HIDE DEF r
<1>2. ASSUME NEW n \in 0 .. i - 1
      PROVE  Among(r, n, v) = Among(s, n, v)
  <2>1. ASSUME NEW k \in 1 .. n
        PROVE  r[k] = s[k]
    <3>1. k \in 1 .. Len(s) - 1 /\ k < i
      OBVIOUS
    <3> QED
      BY <1>1, <3>1
  <2>2. Agree(r, s, n)
    BY <2>1 DEF Agree
  <2> QED
    BY <2>2, AmongAgree
<1>3. ASSUME NEW n \in i .. Len(s)
      PROVE  Among(r, n - 1, v) = Among(s, n, v) - Same(s[i], v)
  <2>1. PICK m \in Nat : n = m + 1 /\ m = n - 1
    OBVIOUS
  <2>2. \A k \in 1 .. m : r[k] = IF k < i THEN s[k] ELSE s[k + 1]
    BY <1>1, <2>1
  <2>3. i \in 1 .. m + 1
    BY <2>1
  <2>4. Among(s, m + 1, v) = Among(r, m, v) + Same(s[i], v)
    BY <2>2, <2>3, AmongSkip
  <2>5. Among(r, m, v) \in Nat /\ Among(s, m + 1, v) \in Nat
    <3>1. m \in Int /\ m + 1 \in Int
      OBVIOUS
    <3> QED
      BY <3>1, AmongType
  <2> QED
    BY <2>1, <2>4, <2>5 DEF Same
<1> QED
  BY <1>1, <1>2, <1>3 DEF r

LEMMA CountTail ==
  ASSUME NEW S, NEW s \in Seq(S), s # <<>>, NEW v
  PROVE  CountIn(s, v) = CountIn(Tail(s), v) + Same(Head(s), v)
<1>1. Len(s) \in Nat \ {0} /\ Head(s) = s[1]
  OBVIOUS
<1>2. PICK m \in Nat : Len(s) = m + 1
  <2>1. Len(s) - 1 \in Nat /\ Len(s) = (Len(s) - 1) + 1
    BY <1>1
  <2> QED
    BY <2>1
<1>3. PICK r : r = Tail(s)
  OBVIOUS
<1>4. Len(r) = m /\ \A k \in 1 .. m : r[k] = s[k + 1]
  BY <1>2, <1>3
<1>5. \A k \in 1 .. m : r[k] = IF k < 1 THEN s[k] ELSE s[k + 1]
  BY <1>4
<1>6. 1 \in 1 .. m + 1
  OBVIOUS
<1>7. Among(s, m + 1, v) = Among(r, m, v) + Same(s[1], v)
  BY <1>5, <1>6, AmongSkip
<1> QED
  BY <1>1, <1>2, <1>3, <1>4, <1>7 DEF CountIn

-----------------------------------------------------------------------------
\* The entries for v in tables l.
Held(l, v) ==
  {e \in JniThreads \X (1 .. MaxLocals) : e[2] <= Len(l[e[1]]) /\ l[e[1]][e[2]] = v}

\* A thread's table becomes another.
LEMMA HeldChange ==
  ASSUME NEW l, NEW m, NEW t \in JniThreads, NEW v,
         l[t] \in Seq(Values), m[t] \in Seq(Values), Len(l[t]) <= MaxLocals,
         Len(m[t]) <= MaxLocals, ButAt(JniThreads, t, l, m)
  PROVE  Cardinality(Held(m, v)) = Cardinality(Held(l, v)) - CountIn(l[t], v) + CountIn(m[t], v)
<1> DEFINE Places == JniThreads \X (1 .. MaxLocals)
           Rest == {e \in Held(l, v) : e[1] # t}
           In(r)  == {k \in 1 .. Len(r) : r[k] = v}
<1>1. IsFiniteSet(Places)
  <2>1. IsFiniteSet(JniThreads) /\ MaxLocals \in Nat
    BY JniAssumption
  <2>2. IsFiniteSet(1 .. MaxLocals)
    BY <2>1, FS_Interval
  <2> QED
    BY <2>1, <2>2, FS_Product
<1>2. ASSUME NEW r \in Seq(Values), Len(r) <= MaxLocals
      PROVE  /\ IsFiniteSet(In(r)) /\ Cardinality(In(r)) = CountIn(r, v)
             /\ CountIn(r, v) \in Nat
             /\ IsFiniteSet({t} \X In(r)) /\ Cardinality({t} \X In(r)) = CountIn(r, v)
             /\ Rest \intersect ({t} \X In(r)) = {}
  <2>1. PICK n \in Int : n = Len(r)
    OBVIOUS
  <2>2. IsFiniteSet(In(r)) /\ Among(r, Len(r), v) \in Nat
    <3>1. IsFiniteSet({k \in 1 .. n : r[k] = v}) /\ Among(r, n, v) \in Nat
      BY AmongType
    <3> QED
      BY <2>1, <3>1
  <2>3. Cardinality(In(r)) = CountIn(r, v) /\ CountIn(r, v) \in Nat
    BY <2>2 DEF CountIn, Among
  <2>4. IsFiniteSet({t}) /\ Cardinality({t}) = 1
    BY FS_Singleton
  <2>5. Rest \intersect ({t} \X In(r)) = {}
    OBVIOUS
  <2> HIDE DEF In
  <2>6. IsFiniteSet({t} \X In(r)) /\ Cardinality({t} \X In(r)) = 1 * Cardinality(In(r))
    BY <2>2, <2>4, FS_Product
  <2> QED
    BY <2>2, <2>3, <2>5, <2>6
<1>3. IsFiniteSet(Rest) /\ Cardinality(Rest) \in Nat
  <2>1. Rest \in SUBSET Places
    BY DEF Held
  <2> QED
    BY <1>1, <2>1, FS_Subset, FS_CardinalityType
<1>4. ASSUME NEW n, n[t] \in Seq(Values), Len(n[t]) <= MaxLocals, ButAt(JniThreads, t, l, n)
      PROVE  Cardinality(Held(n, v)) = Cardinality(Rest) + CountIn(n[t], v)
  <2>1. Held(n, v) = Rest \union ({t} \X In(n[t]))
    <3>1. \A e \in Held(n, v) : e \in Rest \union ({t} \X In(n[t]))
      BY <1>4 DEF Held, ButAt
    <3>2. \A e \in Rest : e \in Held(n, v)
      BY <1>4 DEF Held, ButAt
    <3>3. ASSUME NEW k \in In(n[t])
          PROVE  <<t, k>> \in Held(n, v)
      <4>1. k \in 1 .. Len(n[t]) /\ n[t][k] = v
        OBVIOUS
      <4>2. Len(n[t]) \in Nat /\ MaxLocals \in Nat
        BY <1>4, JniAssumption
      <4>3. k \in 1 .. MaxLocals /\ k <= Len(n[t])
        BY <1>4, <4>1, <4>2
      <4> QED
        BY <4>1, <4>3 DEF Held
    <3> QED
      BY <3>1, <3>2, <3>3
  <2>2. /\ IsFiniteSet({t} \X In(n[t])) /\ Cardinality({t} \X In(n[t])) = CountIn(n[t], v)
        /\ CountIn(n[t], v) \in Nat /\ Rest \intersect ({t} \X In(n[t])) = {}
    BY <1>2, <1>4
  <2>3. Cardinality(Held(n, v)) = Cardinality(Rest) + CountIn(n[t], v) - Cardinality({})
    <3> DEFINE H == {t} \X In(n[t])
    <3>1. IsFiniteSet(H) /\ Cardinality(H) = CountIn(n[t], v) /\ Rest \intersect H = {}
      BY <2>2
    <3>2. Held(n, v) = Rest \union H
      BY <2>1
    <3> HIDE DEF H, Rest
    <3> QED
      BY <1>3, <3>1, <3>2, FS_Union
  <2>4. Cardinality({}) = 0
    BY FS_EmptySet
  <2> QED
    BY <1>3, <2>2, <2>3, <2>4
<1>5. Cardinality(Held(l, v)) = Cardinality(Rest) + CountIn(l[t], v)
  <2>1. ButAt(JniThreads, t, l, l)
    BY DEF ButAt
  <2> QED
    BY <1>4, <2>1
<1>6. Cardinality(Held(m, v)) = Cardinality(Rest) + CountIn(m[t], v)
  BY <1>4
<1>7. CountIn(l[t], v) \in Nat /\ CountIn(m[t], v) \in Nat
  BY <1>2
<1> QED
  BY <1>3, <1>5, <1>6, <1>7

-----------------------------------------------------------------------------
Fields(i, v) == With(Values, i, v)
MaybeValue == Values \union {Null}

\* Every owner is in a field, is one of the others, or is about to go.
Balanced(o, i, lost, other) ==
  /\ o \in [Values -> Nat] /\ i \in [Values -> MaybeValue]
  /\ lost \in [Values -> Nat] /\ other \in [Values -> Nat]
  /\ \A v \in Values : o[v] = other[v] + Fields(i, v) + lost[v]
  /\ \A v \in Values : o[v] = 0 => i[v] = Null

\* What is freed when the values in G already are.
FreedBy(o, i, lost, G) == {v \in Values : o[v] \in 1 .. Lose(lost, i, G)[v]}

LEMMA FreedGrows ==
  ASSUME NEW o, NEW i, NEW lost \in [Values -> Nat], NEW G \in SUBSET Values,
         NEW H \in SUBSET Values, G \subseteq H
  PROVE  FreedBy(o, i, lost, G) \subseteq FreedBy(o, i, lost, H)
<1>1. SUFFICES ASSUME NEW v \in Values, o[v] \in 1 .. Lose(lost, i, G)[v]
               PROVE  o[v] \in 1 .. Lose(lost, i, H)[v]
  BY DEF FreedBy
<1>2. PICK A, B : A = {w \in G : i[w] = v} /\ B = {w \in H : i[w] = v}
  OBVIOUS
<1>3. IsFiniteSet(B)
  <2>1. B \in SUBSET Values
    BY <1>2
  <2> QED
    BY <2>1, JniAssumption, FS_Subset
<1>4. A \subseteq B
  BY <1>2
<1>5. IsFiniteSet(A) /\ Cardinality(A) <= Cardinality(B)
  BY <1>3, <1>4, FS_Subset
<1>6. PICK a \in Nat, b \in Nat, c \in Nat :
        a = Cardinality(A) /\ b = Cardinality(B) /\ c = lost[v]
  BY <1>3, <1>5, FS_CardinalityType
<1>7. Lose(lost, i, G)[v] = c + a /\ Lose(lost, i, H)[v] = c + b
  BY <1>2, <1>6 DEF Lose
<1>8. c + a <= c + b
  BY <1>5, <1>6
<1>9. o[v] \in 1 .. c + a
  BY <1>1, <1>7
<1>10. o[v] \in 1 .. c + b
  BY <1>8, <1>9
<1> QED
  BY <1>7, <1>10

\* free_ref (jni_fake.c:252-312): whatever the counts and fields are, cycles among the
\* fields included, a release frees a least set of values and has one outcome.
THEOREM ReleaseDetermined ==
  ASSUME NEW o, NEW i, NEW lost \in [Values -> Nat]
  PROVE  \E r : Released(o, i, lost) = {r}
<1> DEFINE Prefixed(G) == FreedBy(o, i, lost, G) \subseteq G
           L == {v \in Values : \A G \in SUBSET Values : Prefixed(G) => v \in G}
           Least == {G \in SUBSET Values :
                       /\ IsFreed(o, i, lost, G)
                       /\ \A H \in SUBSET Values : IsFreed(o, i, lost, H) => G \subseteq H}
<1>1. L \in SUBSET Values
  OBVIOUS
<1>2. \A G \in SUBSET Values : Prefixed(G) => L \subseteq G
  OBVIOUS
<1>3. \A G : FreedBy(o, i, lost, G) \in SUBSET Values
  BY DEF FreedBy
<1>4. \A G \in SUBSET Values : IsFreed(o, i, lost, G) <=> G = FreedBy(o, i, lost, G)
  BY DEF IsFreed, FreedBy
<1> HIDE DEF Prefixed
<1>5. FreedBy(o, i, lost, L) \subseteq L
  <2>1. ASSUME NEW v \in FreedBy(o, i, lost, L), NEW G \in SUBSET Values, Prefixed(G)
        PROVE  v \in G
    <3>1. L \subseteq G
      BY <1>2, <2>1
    <3> HIDE DEF L
    <3>2. FreedBy(o, i, lost, L) \subseteq FreedBy(o, i, lost, G)
      BY <1>1, <3>1, FreedGrows
    <3>3. FreedBy(o, i, lost, G) \subseteq G
      BY <2>1 DEF Prefixed
    <3> QED
      BY <2>1, <3>2, <3>3
  <2>2. \A v \in FreedBy(o, i, lost, L) : v \in Values
    BY <1>3
  <2> QED
    BY <2>1, <2>2
<1> HIDE DEF L
<1>6. L \subseteq FreedBy(o, i, lost, L)
  <2>1. PICK P \in SUBSET Values : P = FreedBy(o, i, lost, L)
    BY <1>3
  <2>2. P \subseteq L
    BY <1>5, <2>1
  <2>3. FreedBy(o, i, lost, P) \subseteq FreedBy(o, i, lost, L)
    BY <1>1, <2>2, FreedGrows
  <2>4. Prefixed(P)
    BY <2>1, <2>3 DEF Prefixed
  <2> QED
    BY <1>2, <2>1, <2>4
<1>7. L = FreedBy(o, i, lost, L)
  BY <1>5, <1>6
<1>8. IsFreed(o, i, lost, L)
  BY <1>1, <1>4, <1>7
<1>9. ASSUME NEW H \in SUBSET Values, IsFreed(o, i, lost, H)
      PROVE  L \subseteq H
  <2>1. Prefixed(H)
    BY <1>4, <1>9 DEF Prefixed
  <2> QED
    BY <1>2, <2>1
<1>10. Least = {L}
  <2>1. L \in Least
    BY <1>1, <1>8, <1>9
  <2>2. ASSUME NEW G \in Least
        PROVE  G = L
    <3>1. G \subseteq L
      BY <1>1, <1>8
    <3>2. L \subseteq G
      BY <1>9
    <3> QED
      BY <3>1, <3>2
  <2> QED
    BY <2>1, <2>2
<1> DEFINE Outcome(F) ==
             [owners |-> [v \in Values |->
                            IF v \in F \/ o[v] = 0 THEN 0 ELSE o[v] - Lose(lost, i, F)[v]],
              item   |-> [v \in Values |-> IF v \in F THEN Null ELSE i[v]]]
<1>11. Released(o, i, lost) = {Outcome(F) : F \in Least}
  BY DEF Released
<1> HIDE DEF Least, Outcome
<1>12. Released(o, i, lost) = {Outcome(L)}
  BY <1>10, <1>11
<1> QED
  BY <1>12

\* What a release leaves: when each value had other[v] owners, those in fields and those
\* that go, it is left with other[v] and those in the fields that are left.
LEMMA ReleaseExact ==
  ASSUME NEW o, NEW i, NEW lost, NEW other, Balanced(o, i, lost, other),
         NEW r \in Released(o, i, lost)
  PROVE  /\ r.owners \in [Values -> Nat] /\ r.item \in [Values -> MaybeValue]
         /\ \A v \in Values : r.owners[v] = other[v] + Fields(r.item, v)
         /\ \A v \in Values : r.owners[v] = 0 => r.item[v] = Null
<1>0. IsFiniteSet(Values) /\ Null \notin Values
  BY JniAssumption DEF Null
<1>b. /\ o \in [Values -> Nat] /\ i \in [Values -> MaybeValue]
      /\ lost \in [Values -> Nat] /\ other \in [Values -> Nat]
      /\ \A v \in Values : o[v] = other[v] + Fields(i, v) + lost[v]
      /\ \A v \in Values : o[v] = 0 => i[v] = Null
  BY DEF Balanced
<1>1. PICK F \in SUBSET Values :
        /\ IsFreed(o, i, lost, F)
        /\ r.owners = [v \in Values |->
                        IF v \in F \/ o[v] = 0 THEN 0 ELSE o[v] - Lose(lost, i, F)[v]]
        /\ r.item = [v \in Values |-> IF v \in F THEN Null ELSE i[v]]
  BY DEF Released
<1> DEFINE inF(v)   == Cardinality({w \in F : i[w] = v})
           left(v)  == Cardinality({w \in Values \ F : i[w] = v})
<1>2. ASSUME NEW v \in Values
      PROVE  /\ inF(v) \in Nat /\ left(v) \in Nat /\ Fields(i, v) = inF(v) + left(v)
             /\ Fields(r.item, v) = left(v)
  <2> DEFINE A == {w \in F : i[w] = v}
             B == {w \in Values \ F : i[w] = v}
             C == {w \in Values : i[w] = v}
  <2>1. IsFiniteSet(A) /\ IsFiniteSet(B)
    BY <1>0, FS_Subset
  <2>2. C = A \union B /\ A \intersect B = {} /\ Fields(i, v) = Cardinality(C)
    BY DEF Fields, With
  <2>3. {w \in Values : r.item[w] = v} = B
    BY <1>0, <1>1
  <2>4. Cardinality(A) \in Nat /\ Cardinality(B) \in Nat
    BY <2>1, FS_CardinalityType
  <2>5. Cardinality({}) = 0
    BY FS_EmptySet
  <2> HIDE DEF A, B, C
  <2>6. Cardinality(A \union B) = Cardinality(A) + Cardinality(B) - Cardinality({})
    BY <2>1, <2>2, FS_Union
  <2>7. Fields(i, v) = Cardinality(A) + Cardinality(B)
    BY <2>2, <2>4, <2>5, <2>6
  <2> QED
    BY <2>3, <2>4, <2>7 DEF Fields, With, A, B
<1>3. \A v \in Values : Lose(lost, i, F)[v] = lost[v] + inF(v)
  BY DEF Lose
<1>4. \A v \in Values : v \in F <=> (1 <= o[v] /\ o[v] <= lost[v] + inF(v))
  <2> TAKE v \in Values
  <2>1. v \in F <=> o[v] \in 1 .. Lose(lost, i, F)[v]
    BY <1>1 DEF IsFreed
  <2>2. Lose(lost, i, F)[v] = lost[v] + inF(v) /\ o[v] \in Nat /\ lost[v] \in Nat
        /\ inF(v) \in Nat
    BY <1>b, <1>2, <1>3
  <2> HIDE DEF inF
  <2> QED
    BY <2>1, <2>2
<1>5. ASSUME NEW v \in Values
      PROVE  /\ r.owners[v] \in Nat /\ r.item[v] \in MaybeValue
             /\ r.owners[v] = other[v] + Fields(r.item, v)
             /\ r.owners[v] = 0 => r.item[v] = Null
  <2>1. /\ inF(v) \in Nat /\ left(v) \in Nat /\ o[v] \in Nat /\ other[v] \in Nat
        /\ lost[v] \in Nat
        /\ o[v] = other[v] + (inF(v) + left(v)) + lost[v] /\ Fields(r.item, v) = left(v)
    BY <1>b, <1>2
  <2>2. r.item[v] = (IF v \in F THEN Null ELSE i[v]) /\ i[v] \in MaybeValue
    BY <1>b, <1>1
  <2>3. r.owners[v] = IF v \in F \/ o[v] = 0 THEN 0 ELSE o[v] - (lost[v] + inF(v))
    BY <1>1, <1>3
  <2>4. v \in F <=> (1 <= o[v] /\ o[v] <= lost[v] + inF(v))
    BY <1>4
  <2>5. o[v] = 0 => i[v] = Null
    BY <1>b
  <2> HIDE DEF inF, left
  <2>6. r.owners[v] \in Nat /\ r.owners[v] = other[v] + left(v)
    BY <2>1, <2>3, <2>4
  <2>7. r.owners[v] = 0 => v \in F \/ o[v] = 0
    <3> SUFFICES ASSUME v \notin F, o[v] # 0 PROVE r.owners[v] > 0
      BY <2>6
    <3>1. r.owners[v] = o[v] - (lost[v] + inF(v))
      BY <2>3
    <3>2. o[v] >= 1 /\ ~(o[v] <= lost[v] + inF(v))
      BY <2>1, <2>4
    <3> QED
      BY <2>1, <3>1, <3>2
  <2>8. r.item[v] \in MaybeValue
    BY <2>2 DEF MaybeValue
  <2> QED
    BY <2>1, <2>2, <2>5, <2>6, <2>7, <2>8
<1>6. DOMAIN r.owners = Values /\ DOMAIN r.item = Values
  BY <1>1
<1>7. r.owners \in [Values -> Nat] /\ r.item \in [Values -> MaybeValue]
  <2>1. /\ r.owners = [v \in Values |-> r.owners[v]]
        /\ r.item = [v \in Values |-> r.item[v]]
    BY <1>1
  <2> QED
    BY <1>5, <2>1
<1> QED
  BY <1>5, <1>7
-----------------------------------------------------------------------------
\* The owners of v that are no fields, in given tables.
Holders(f, v) == With(JniThreads, f, v)
Others(l, th, ow, g, ms, h, v) ==
  Cardinality(Held(l, v)) + Holders(th, v) + Holders(ow, v) + Kept(g[v])
    + CountIn(ms, v) + Same(h, v)
OthersNow(v) == Others(locals, thrown, owedRef, globals, messages, handled, v)

\* The marks m and promises p of a thread whose table is s.
FramesFit(s, m, p) ==
  /\ Len(p) = Len(m) + 1
  /\ \A k \in 1 .. Len(m) : m[k] <= Len(s)
  /\ \A j, k \in 1 .. Len(m) : j <= k => m[j] <= m[k]
  /\ \A d, e \in 1 .. Len(p) : d <= e => \A v \in Values : p[d][v] <= p[e][v]
  /\ \A d \in 1 .. Len(p), v \in Values :
       p[d][v] <= Among(s, IF d > Len(m) THEN Len(s) ELSE m[d], v)

HoldersTyped ==
  /\ locals \in [JniThreads -> Seq(Values)]
  /\ \A t \in JniThreads : Len(locals[t]) <= MaxLocals
  /\ globals \in [Values -> Nat]
  /\ thrown \in [JniThreads -> MaybeValue] /\ owedRef \in [JniThreads -> MaybeValue]
  /\ messages \in Seq(Values) /\ handled \in MaybeValue
\* The owners o and fields i go with given tables, when loose[v] owners of each v are in
\* no table or field.
Counted(o, i, loose, l, th, ow, g, ms, h) ==
  /\ o \in [Values -> Nat] /\ i \in [Values -> MaybeValue] /\ loose \in [Values -> Nat]
  /\ ms \in Seq(Values)
  /\ \A v \in Values : o[v] = Others(l, th, ow, g, ms, h, v) + Fields(i, v) + loose[v]
  /\ \A v \in Values : o[v] = 0 => i[v] = Null
OwnersExact == Counted(owners, item, NoneOf, locals, thrown, owedRef, globals, messages, handled)
FramesKept ==
  /\ marks \in [JniThreads -> Seq(Nat)] /\ promised \in [JniThreads -> Seq([Values -> Nat])]
  /\ \A t \in JniThreads : FramesFit(locals[t], marks[t], promised[t])

JniIInv == HoldersTyped /\ OwnersExact /\ FramesKept

LEMMA HoldersMove ==
  ASSUME NEW f, NEW g, NEW t \in JniThreads, ButAt(JniThreads, t, f, g), NEW v
  PROVE  Holders(g, v) = Holders(f, v) - Same(f[t], v) + Same(g[t], v)
<1>1. IsFiniteSet(JniThreads)
  BY JniAssumption
<1>2. With(JniThreads, g, v) = With(JniThreads, f, v) - Same(f[t], v) + Same(g[t], v)
  BY <1>1, HoldersChange
<1> QED
  BY <1>2 DEF Holders

LEMMA HoldersNat ==
  ASSUME NEW f, NEW v
  PROVE  Holders(f, v) \in Nat
<1>1. IsFiniteSet({u \in JniThreads : f[u] = v})
  BY JniAssumption, FS_Subset
<1> QED
  BY <1>1, FS_CardinalityType DEF Holders, With

LEMMA FieldsNat ==
  ASSUME NEW i, NEW v
  PROVE  Fields(i, v) \in Nat
<1>1. IsFiniteSet({u \in Values : i[u] = v})
  BY JniAssumption, FS_Subset
<1> QED
  BY <1>1, FS_CardinalityType DEF Fields, With

LEMMA FieldsMove ==
  ASSUME NEW i, NEW j, NEW w \in Values, ButAt(Values, w, i, j), NEW v
  PROVE  Fields(j, v) = Fields(i, v) - Same(i[w], v) + Same(j[w], v)
<1>1. IsFiniteSet(Values)
  BY JniAssumption
<1>2. With(Values, j, v) = With(Values, i, v) - Same(i[w], v) + Same(j[w], v)
  BY <1>1, HoldersChange
<1> QED
  BY <1>2 DEF Fields

LEMMA HeldNat ==
  ASSUME NEW l, NEW v
  PROVE  IsFiniteSet(Held(l, v)) /\ Cardinality(Held(l, v)) \in Nat
<1>1. IsFiniteSet(JniThreads) /\ MaxLocals \in Nat
  BY JniAssumption
<1>2. IsFiniteSet(1 .. MaxLocals)
  BY <1>1, FS_Interval
<1>3. IsFiniteSet(JniThreads \X (1 .. MaxLocals))
  BY <1>1, <1>2, FS_Product
<1>4. IsFiniteSet(Held(l, v))
  BY <1>3, FS_Subset DEF Held
<1> QED
  BY <1>4, FS_CardinalityType

LEMMA CountNat ==
  ASSUME NEW S, NEW s \in Seq(S), NEW v
  PROVE  CountIn(s, v) \in Nat /\ (CountIn(s, v) = 0 <=> \A k \in 1 .. Len(s) : s[k] # v)
<1>1. Len(s) \in Int
  OBVIOUS
<1> QED
  BY <1>1, AmongType DEF CountIn

LEMMA EmptyCount ==
  ASSUME NEW s, Len(s) = 0, NEW v
  PROVE  CountIn(s, v) = 0
<1>1. PICK n \in Int : n = 0
  OBVIOUS
<1>2. \A k \in 1 .. n : s[k] # v
  BY <1>1
<1>3. Among(s, n, v) = 0
  BY <1>2, AmongType
<1> QED
  BY <1>1, <1>3 DEF CountIn

LEMMA OthersNat ==
  ASSUME NEW l, NEW th, NEW ow, NEW g, NEW ms \in Seq(Values), NEW h, NEW v
  PROVE  Others(l, th, ow, g, ms, h, v) \in Nat
<1>1. Cardinality(Held(l, v)) \in Nat /\ Holders(th, v) \in Nat /\ Holders(ow, v) \in Nat
  BY HeldNat, HoldersNat
<1>2. CountIn(ms, v) \in Nat
  BY CountNat
<1> QED
  BY <1>1, <1>2 DEF Others, Same, Kept

LEMMA RetainedAt ==
  ASSUME NEW o \in [Values -> Nat], NEW v \in MaybeValue
  PROVE  /\ RetainedRef(o, v) \in [Values -> Nat]
         /\ \A u \in Values : RetainedRef(o, v)[u] = o[u] + Same(u, v)
<1>1. Null \notin Values
  BY JniAssumption DEF Null
<1>2. CASE v = Null
  <2>1. RetainedRef(o, v) = o
    BY <1>2 DEF RetainedRef
  <2> QED
    BY <1>1, <1>2, <2>1 DEF Same
<1>3. CASE v # Null
  <2>1. RetainedRef(o, v) = [o EXCEPT ![v] = o[v] + 1] /\ v \in Values
    BY <1>3 DEF RetainedRef, MaybeValue
  <2> QED
    BY <2>1 DEF Same
<1> QED
  BY <1>2, <1>3

LEMMA OwnersNow ==
  ASSUME OwnersExact, NEW v \in Values
  PROVE  /\ owners \in [Values -> Nat] /\ item \in [Values -> MaybeValue]
         /\ owners[v] = OthersNow(v) + Fields(item, v)
         /\ OthersNow(v) \in Nat /\ Fields(item, v) \in Nat /\ (owners[v] = 0 => item[v] = Null)
<1>1. /\ owners \in [Values -> Nat] /\ item \in [Values -> MaybeValue]
      /\ messages \in Seq(Values)
      /\ owners[v] = OthersNow(v) + Fields(item, v) + NoneOf[v]
      /\ owners[v] = 0 => item[v] = Null
  BY DEF OwnersExact, Counted, OthersNow
<1>2. OthersNow(v) \in Nat /\ Fields(item, v) \in Nat
  BY <1>1, OthersNat, FieldsNat DEF OthersNow
<1>3. NoneOf[v] = 0
  BY DEF NoneOf
<1> QED
  BY <1>1, <1>2, <1>3

\* A value that has a reference is owned.
LEMMA KnownIsOwned ==
  ASSUME JniIInv, NEW t \in JniThreads, NEW v \in Known(t)
  PROVE  v \in Values /\ owners[v] > 0
<1>1. v \in Values /\ (Last(promised[t])[v] > 0 \/ globals[v] > 0)
  BY DEF Known
<1>2. owners[v] = OthersNow(v) + Fields(item, v) /\ Fields(item, v) \in Nat
  BY <1>1, OwnersNow DEF JniIInv
<1>3. PICK a \in Nat, b \in Nat, c \in Nat, d \in Nat :
        /\ a = Cardinality(Held(locals, v)) /\ b = Holders(thrown, v)
        /\ c = Holders(owedRef, v) /\ d = CountIn(messages, v)
  BY HeldNat, HoldersNat, CountNat DEF JniIInv, HoldersTyped
<1>4. OthersNow(v) = a + b + c + Kept(globals[v]) + d + Same(handled, v)
  BY <1>3 DEF OthersNow, Others
<1>5. CASE globals[v] > 0
  <2>1. Kept(globals[v]) = 1 /\ Same(handled, v) \in Nat
    BY <1>5 DEF Same, Kept
  <2> QED
    BY <1>1, <1>2, <1>4, <2>1
<1>6. CASE Last(promised[t])[v] > 0
  <2>1. FramesFit(locals[t], marks[t], promised[t])
    BY DEF JniIInv, FramesKept
  <2>2. /\ promised[t] \in Seq([Values -> Nat]) /\ marks[t] \in Seq(Nat)
        /\ locals[t] \in Seq(Values)
    BY DEF JniIInv, FramesKept, HoldersTyped
  <2>3. Len(promised[t]) = Len(marks[t]) + 1 /\ Len(marks[t]) \in Nat
    BY <2>1, <2>2 DEF FramesFit
  <2>4. promised[t][Len(promised[t])][v] <= CountIn(locals[t], v)
    <3>1. PICK n \in Nat : n = Len(promised[t]) /\ n \in 1 .. Len(promised[t]) /\ n > Len(marks[t])
      BY <2>3
    <3>2. promised[t][n][v] <= Among(locals[t], IF n > Len(marks[t]) THEN Len(locals[t])
                                                                    ELSE marks[t][n], v)
      BY <1>1, <2>1, <3>1 DEF FramesFit
    <3> QED
      BY <3>1, <3>2 DEF CountIn
  <2>5. CountIn(locals[t], v) > 0 /\ CountIn(locals[t], v) \in Nat
    <3>1. promised[t][Len(promised[t])] \in [Values -> Nat]
      BY <2>2, <2>3
    <3>2. CountIn(locals[t], v) \in Nat
      BY <2>2, CountNat
    <3> QED
      BY <1>1, <1>6, <2>4, <3>1, <3>2 DEF Last
  <2>6. PICK k \in 1 .. Len(locals[t]) : locals[t][k] = v
    <3>1. CountIn(locals[t], v) = 0 <=> \A k \in 1 .. Len(locals[t]) : locals[t][k] # v
      BY <2>2, CountNat
    <3> QED
      BY <2>5, <3>1
  <2>7. <<t, k>> \in Held(locals, v)
    <3>1. Len(locals[t]) <= MaxLocals /\ MaxLocals \in Nat /\ Len(locals[t]) \in Nat
      BY <2>2, JniAssumption DEF JniIInv, HoldersTyped
    <3> QED
      BY <2>6, <3>1 DEF Held
  <2>8. a # 0
    <3>1. IsFiniteSet(Held(locals, v))
      BY HeldNat
    <3> QED
      BY <1>3, <2>7, <3>1, FS_EmptySet
  <2>9. Kept(globals[v]) \in Nat /\ Same(handled, v) \in Nat
    BY DEF Same, Kept
  <2> QED
    BY <1>1, <1>2, <1>4, <2>8, <2>9
<1> QED
  BY <1>1, <1>5, <1>6

-----------------------------------------------------------------------------
\* What the owners become when one of the tables changes.
LEMMA OthersLocals ==
  ASSUME NEW l, NEW m, NEW t \in JniThreads,
         l[t] \in Seq(Values), m[t] \in Seq(Values), Len(l[t]) <= MaxLocals,
         Len(m[t]) <= MaxLocals, ButAt(JniThreads, t, l, m),
         NEW th, NEW ow, NEW g, NEW ms \in Seq(Values), NEW h, NEW v
  PROVE  Others(m, th, ow, g, ms, h, v)
           = Others(l, th, ow, g, ms, h, v) - CountIn(l[t], v) + CountIn(m[t], v)
<1>1. Cardinality(Held(m, v)) = Cardinality(Held(l, v)) - CountIn(l[t], v) + CountIn(m[t], v)
  BY HeldChange
<1>2. PICK b \in Nat, c \in Nat, d \in Nat, e \in Nat, f \in Nat :
        /\ b = Holders(th, v) /\ c = Holders(ow, v) /\ d = Kept(g[v]) /\ e = CountIn(ms, v)
        /\ f = Same(h, v)
  <2>1. Kept(g[v]) \in Nat /\ Same(h, v) \in Nat
    BY DEF Kept, Same
  <2>2. Holders(th, v) \in Nat /\ Holders(ow, v) \in Nat
    BY HoldersNat
  <2>3. CountIn(ms, v) \in Nat
    BY CountNat
  <2> QED
    BY <2>1, <2>2, <2>3
<1>3. PICK a \in Nat, p \in Nat, q \in Nat :
        a = Cardinality(Held(l, v)) /\ p = CountIn(l[t], v) /\ q = CountIn(m[t], v)
  <2>1. CountIn(l[t], v) \in Nat /\ CountIn(m[t], v) \in Nat
    BY CountNat
  <2>2. Cardinality(Held(l, v)) \in Nat
    BY HeldNat
  <2> QED
    BY <2>1, <2>2
<1>4. Others(m, th, ow, g, ms, h, v) = (a - p + q) + b + c + d + e + f
  BY <1>1, <1>2, <1>3 DEF Others
<1>5. Others(l, th, ow, g, ms, h, v) = a + b + c + d + e + f
  BY <1>2, <1>3 DEF Others
<1>6. (a - p + q) + b + c + d + e + f = (a + b + c + d + e + f) - p + q
  OBVIOUS
<1> QED
  BY <1>3, <1>4, <1>5, <1>6

LEMMA OthersHolders ==
  ASSUME NEW f, NEW g, NEW t \in JniThreads, ButAt(JniThreads, t, f, g),
         NEW l, NEW k, NEW gl, NEW ms \in Seq(Values), NEW h, NEW v
  PROVE  /\ Others(l, g, k, gl, ms, h, v)
              = Others(l, f, k, gl, ms, h, v) - Same(f[t], v) + Same(g[t], v)
         /\ Others(l, k, g, gl, ms, h, v)
              = Others(l, k, f, gl, ms, h, v) - Same(f[t], v) + Same(g[t], v)
<1>1. Holders(g, v) = Holders(f, v) - Same(f[t], v) + Same(g[t], v)
  BY HoldersMove
<1>2. PICK a \in Nat, c \in Nat, d \in Nat, e \in Nat, j \in Nat :
        /\ a = Cardinality(Held(l, v)) /\ c = Holders(k, v) /\ d = Kept(gl[v])
        /\ e = CountIn(ms, v) /\ j = Same(h, v)
  <2>1. Kept(gl[v]) \in Nat /\ Same(h, v) \in Nat
    BY DEF Kept, Same
  <2>2. Holders(k, v) \in Nat /\ Cardinality(Held(l, v)) \in Nat
    BY HoldersNat, HeldNat
  <2>3. CountIn(ms, v) \in Nat
    BY CountNat
  <2> QED
    BY <2>1, <2>2, <2>3
<1>3. PICK b \in Nat, p \in Nat, q \in Nat :
        b = Holders(f, v) /\ p = Same(f[t], v) /\ q = Same(g[t], v)
  <2>1. Same(f[t], v) \in Nat /\ Same(g[t], v) \in Nat
    BY DEF Same
  <2> QED
    BY <2>1, HoldersNat
<1>4. /\ Others(l, g, k, gl, ms, h, v) = a + (b - p + q) + c + d + e + j
      /\ Others(l, f, k, gl, ms, h, v) = a + b + c + d + e + j
  BY <1>1, <1>2, <1>3 DEF Others
<1>5. /\ Others(l, k, g, gl, ms, h, v) = a + c + (b - p + q) + d + e + j
      /\ Others(l, k, f, gl, ms, h, v) = a + c + b + d + e + j
  BY <1>1, <1>2, <1>3 DEF Others
<1>6. /\ a + (b - p + q) + c + d + e + j = (a + b + c + d + e + j) - p + q
      /\ a + c + (b - p + q) + d + e + j = (a + c + b + d + e + j) - p + q
  OBVIOUS
<1> QED
  BY <1>3, <1>4, <1>5, <1>6

LEMMA OthersGlobals ==
  ASSUME NEW f, NEW g, NEW w, NEW l, NEW th, NEW ow, NEW ms \in Seq(Values), NEW h, NEW v
  PROVE  Others(l, th, ow, g, ms, h, v)
           = Others(l, th, ow, f, ms, h, v) - Kept(f[v]) + Kept(g[v])
<1>1. PICK a \in Nat, b \in Nat, c \in Nat, e \in Nat, j \in Nat :
        /\ a = Cardinality(Held(l, v)) /\ b = Holders(th, v) /\ c = Holders(ow, v)
        /\ e = CountIn(ms, v) /\ j = Same(h, v)
  <2>1. Same(h, v) \in Nat
    BY DEF Same
  <2>2. Holders(th, v) \in Nat /\ Holders(ow, v) \in Nat /\ Cardinality(Held(l, v)) \in Nat
    BY HoldersNat, HeldNat
  <2>3. CountIn(ms, v) \in Nat
    BY CountNat
  <2> QED
    BY <2>1, <2>2, <2>3
<1>2. PICK p \in Nat, q \in Nat : p = Kept(f[v]) /\ q = Kept(g[v])
  <2>1. Kept(f[v]) \in Nat /\ Kept(g[v]) \in Nat
    BY DEF Kept
  <2> QED
    BY <2>1
<1>3. /\ Others(l, th, ow, g, ms, h, v) = a + b + c + q + e + j
      /\ Others(l, th, ow, f, ms, h, v) = a + b + c + p + e + j
  BY <1>1, <1>2 DEF Others
<1>4. a + b + c + q + e + j = (a + b + c + p + e + j) - p + q
  OBVIOUS
<1> QED
  BY <1>2, <1>3, <1>4

LEMMA OthersMessages ==
  ASSUME NEW l, NEW th, NEW ow, NEW g, NEW ms \in Seq(Values), NEW ns \in Seq(Values),
         NEW h, NEW k, NEW v
  PROVE  Others(l, th, ow, g, ns, k, v)
           = Others(l, th, ow, g, ms, h, v) - CountIn(ms, v) + CountIn(ns, v)
               - Same(h, v) + Same(k, v)
<1>1. PICK a \in Nat, b \in Nat, c \in Nat, d \in Nat :
        /\ a = Cardinality(Held(l, v)) /\ b = Holders(th, v) /\ c = Holders(ow, v)
        /\ d = Kept(g[v])
  <2>1. Kept(g[v]) \in Nat
    BY DEF Kept
  <2>2. Holders(th, v) \in Nat /\ Holders(ow, v) \in Nat /\ Cardinality(Held(l, v)) \in Nat
    BY HoldersNat, HeldNat
  <2> QED
    BY <2>1, <2>2
<1>2. PICK p \in Nat, q \in Nat, x \in Nat, y \in Nat :
        p = CountIn(ms, v) /\ q = CountIn(ns, v) /\ x = Same(h, v) /\ y = Same(k, v)
  <2>1. CountIn(ms, v) \in Nat /\ CountIn(ns, v) \in Nat
    BY CountNat
  <2>2. Same(h, v) \in Nat /\ Same(k, v) \in Nat
    BY DEF Same
  <2> QED
    BY <2>1, <2>2
<1>3. /\ Others(l, th, ow, g, ns, k, v) = a + b + c + d + q + y
      /\ Others(l, th, ow, g, ms, h, v) = a + b + c + d + p + x
  BY <1>1, <1>2 DEF Others
<1>4. a + b + c + d + q + y = (a + b + c + d + p + x) - p + q - x + y
  OBVIOUS
<1> QED
  BY <1>2, <1>3, <1>4

-----------------------------------------------------------------------------
\* The frames of a thread when its table changes.

\* Up to where the frames below d reach.
Reach(s, m, d) == IF d > Len(m) THEN Len(s) ELSE m[d]

LEMMA ReachOf ==
  ASSUME NEW s \in Seq(Values), NEW m \in Seq(Nat), NEW p \in Seq([Values -> Nat]),
         FramesFit(s, m, p)
  PROVE  /\ \A d \in 1 .. Len(p) : Reach(s, m, d) \in 0 .. Len(s)
         /\ \A d, e \in 1 .. Len(p) : d <= e => Reach(s, m, d) <= Reach(s, m, e)
         /\ \A d \in 1 .. Len(p), v \in Values : p[d][v] <= Among(s, Reach(s, m, d), v)
         /\ Len(p) = Len(m) + 1 /\ Len(m) \in Nat /\ Len(s) \in Nat
<1>1. /\ Len(m) \in Nat /\ Len(s) \in Nat /\ Len(p) = Len(m) + 1
      /\ \A k \in 1 .. Len(m) : m[k] \in Nat /\ m[k] <= Len(s)
  BY DEF FramesFit
<1>2. ASSUME NEW d \in 1 .. Len(p)
      PROVE  Reach(s, m, d) \in 0 .. Len(s)
  <2>1. d > Len(m) \/ d \in 1 .. Len(m)
    BY <1>1
  <2> QED
    BY <1>1, <2>1 DEF Reach
<1>3. ASSUME NEW d \in 1 .. Len(p), NEW e \in 1 .. Len(p), d <= e
      PROVE  Reach(s, m, d) <= Reach(s, m, e)
  <2>1. CASE e > Len(m)
    <3>1. Reach(s, m, e) = Len(s)
      BY <2>1 DEF Reach
    <3> QED
      BY <1>1, <1>2, <3>1
  <2>2. CASE ~(e > Len(m))
    <3>1. d \in 1 .. Len(m) /\ e \in 1 .. Len(m) /\ ~(d > Len(m))
      BY <1>1, <1>3, <2>2
    <3>2. m[d] <= m[e]
      BY <1>3, <3>1 DEF FramesFit
    <3> QED
      BY <2>2, <3>1, <3>2 DEF Reach
  <2> QED
    BY <2>1, <2>2
<1>4. \A d \in 1 .. Len(p), v \in Values : p[d][v] <= Among(s, Reach(s, m, d), v)
  BY DEF FramesFit, Reach
<1> QED
  BY <1>1, <1>2, <1>3, <1>4

\* One more entry in the frame on top.
LEMMA NewFrames ==
  ASSUME NEW s \in Seq(Values), Len(s) = 0, NEW m, m = <<>>, NEW p, p = <<NoneOf>>
  PROVE  FramesFit(s, m, p)
<1>1. Len(m) = 0 /\ Len(p) = 1 /\ p[1] = NoneOf
  OBVIOUS
<1>2. \A d \in 1 .. Len(p), v \in Values : p[d][v] = 0
  BY <1>1 DEF NoneOf
<1>3. \A v \in Values : Among(s, Len(s), v) \in Nat
  <2>1. Len(s) \in Int
    OBVIOUS
  <2> QED
    BY <2>1, AmongType
<1> QED
  BY <1>1, <1>2, <1>3 DEF FramesFit

LEMMA FramesAppend ==
  ASSUME NEW s \in Seq(Values), NEW m \in Seq(Nat), NEW p \in Seq([Values -> Nat]),
         FramesFit(s, m, p), NEW v \in Values, NEW q \in Seq([Values -> Nat]),
         Len(q) = Len(p), \A d \in 1 .. Len(p) : d # Len(p) => q[d] = p[d],
         \A u \in Values : q[Len(p)][u] = p[Len(p)][u] + Same(v, u)
  PROVE  FramesFit(Append(s, v), m, q)
<1>1. /\ \A d \in 1 .. Len(p) : Reach(s, m, d) \in 0 .. Len(s)
      /\ \A d \in 1 .. Len(p), u \in Values : p[d][u] <= Among(s, Reach(s, m, d), u)
      /\ Len(p) = Len(m) + 1 /\ Len(m) \in Nat /\ Len(s) \in Nat
  BY ReachOf
<1>2. PICK n \in Nat : n = Len(p)
  BY <1>1
<1>3. p[n] \in [Values -> Nat] /\ n \in 1 .. n
  BY <1>1, <1>2
<1>6. /\ Len(q) = n /\ \A u \in Values : q[n][u] = p[n][u] + Same(v, u)
      /\ \A d \in 1 .. n : d # n => q[d] = p[d]
  BY <1>2
<1>7. PICK r : r \in Seq(Values) /\ r = Append(s, v)
  <2>1. Append(s, v) \in Seq(Values)
    OBVIOUS
  <2> QED
    BY <2>1
<1>8. Len(r) = Len(s) + 1
  BY <1>7
<1>9. ASSUME NEW d \in 1 .. n, NEW u \in Values
      PROVE  q[d][u] <= Among(r, Reach(r, m, d), u)
  <2>1. CASE d = n
    <3>1. Reach(r, m, d) = Len(r) /\ Reach(s, m, d) = Len(s)
      BY <1>1, <1>2, <2>1 DEF Reach
    <3>2. CountIn(r, u) = CountIn(s, u) + Same(v, u)
      BY <1>7, CountAppend
    <3>3. p[n][u] <= CountIn(s, u) /\ CountIn(s, u) \in Nat
      <4>1. p[n][u] <= Among(s, Reach(s, m, n), u)
        BY <1>1, <1>2, <1>3
      <4> QED
        BY <2>1, <3>1, <4>1, CountNat DEF CountIn
    <3>4. q[d][u] = p[n][u] + Same(v, u) /\ p[n][u] \in Nat
      BY <1>3, <1>6, <2>1
    <3>5. Among(r, Reach(r, m, d), u) = CountIn(r, u)
      BY <3>1 DEF CountIn
    <3>6. PICK a \in Nat, b \in Nat, c \in Nat :
            a = p[n][u] /\ b = CountIn(s, u) /\ c = Same(v, u)
      BY <3>3, <3>4 DEF Same
    <3>7. a + c <= b + c
      BY <3>3, <3>6
    <3> QED
      BY <3>2, <3>4, <3>5, <3>6, <3>7
  <2>2. CASE d # n
    <3>1. Reach(r, m, d) = Reach(s, m, d)
      BY <1>1, <1>2, <2>2 DEF Reach
    <3>2. Reach(s, m, d) \in Int /\ Reach(s, m, d) <= Len(s)
      BY <1>1, <1>2
    <3>3. Among(r, Reach(s, m, d), u) = Among(s, Reach(s, m, d), u)
      BY <1>7, <3>2, CountAppend
    <3>4. p[d][u] <= Among(s, Reach(s, m, d), u)
      BY <1>1, <1>2
    <3> QED
      BY <1>6, <2>2, <3>1, <3>3, <3>4
  <2> QED
    BY <2>1, <2>2
<1>10. ASSUME NEW d \in 1 .. n, NEW e \in 1 .. n, d <= e, NEW u \in Values
       PROVE  q[d][u] <= q[e][u]
  <2>1. p[d][u] <= p[e][u]
    BY <1>2, <1>10 DEF FramesFit
  <2>2. p[d][u] \in Nat /\ p[e][u] \in Nat
    <3>1. d \in 1 .. Len(p) /\ e \in 1 .. Len(p)
      BY <1>2
    <3>a. p \in [1 .. Len(p) -> [Values -> Nat]]
      OBVIOUS
    <3>2. p[d] \in [Values -> Nat] /\ p[e] \in [Values -> Nat]
      BY <3>1, <3>a
    <3> QED
      BY <3>2
  <2>3. Same(v, u) \in Nat
    BY DEF Same
  <2>4. CASE e = n
    <3>1. PICK x \in Nat, y \in Nat, z \in Nat :
            x = p[d][u] /\ y = p[e][u] /\ z = Same(v, u)
      BY <2>2, <2>3
    <3>2. q[e][u] = y + z
      BY <1>6, <2>4, <3>1
    <3>3. q[d][u] = x \/ q[d][u] = x + z
      BY <1>6, <3>1
    <3>4. x <= y
      BY <2>1, <3>1
    <3> QED
      BY <3>2, <3>3, <3>4
  <2>5. CASE e # n
    <3>1. d # n
      BY <1>10, <2>5
    <3> QED
      BY <1>6, <2>1, <2>5, <3>1
  <2> QED
    BY <2>4, <2>5
<1>11. \A k \in 1 .. Len(m) : m[k] <= Len(r)
  <2> TAKE k \in 1 .. Len(m)
  <2>0. m[k] <= Len(s)
    BY DEF FramesFit
  <2>1. m[k] <= Len(s) /\ m[k] \in Nat
    BY <2>0
  <2>2. Len(r) = Len(s) + 1 /\ Len(s) \in Nat
    BY <1>1, <1>8
  <2> QED
    BY <2>1, <2>2
<1>12. \A j, k \in 1 .. Len(m) : j <= k => m[j] <= m[k]
  BY DEF FramesFit
<1> QED
  BY <1>1, <1>2, <1>6, <1>7, <1>9, <1>10, <1>11, <1>12 DEF FramesFit, Reach

\* Another frame.
LEMMA FramesPush ==
  ASSUME NEW s \in Seq(Values), NEW m \in Seq(Nat), NEW p \in Seq([Values -> Nat]),
         FramesFit(s, m, p)
  PROVE  /\ Append(m, Len(s)) \in Seq(Nat) /\ Append(p, Last(p)) \in Seq([Values -> Nat])
         /\ FramesFit(s, Append(m, Len(s)), Append(p, Last(p)))
<1>1. /\ \A d \in 1 .. Len(p) : Reach(s, m, d) \in 0 .. Len(s)
      /\ \A d \in 1 .. Len(p), u \in Values : p[d][u] <= Among(s, Reach(s, m, d), u)
      /\ Len(p) = Len(m) + 1 /\ Len(m) \in Nat /\ Len(s) \in Nat
  BY ReachOf
<1>0. PICK n \in Nat : n = Len(p) /\ n = Len(m) + 1
  BY <1>1
<1>2. PICK m2, p2 : m2 = Append(m, Len(s)) /\ p2 = Append(p, Last(p))
  OBVIOUS
<1>3. p[n] \in [Values -> Nat] /\ Last(p) = p[n] /\ n \in 1 .. n
  BY <1>0, <1>1 DEF Last
<1>4. /\ m2 \in Seq(Nat) /\ Len(m2) = n /\ m2[n] = Len(s)
      /\ \A k \in 1 .. Len(m) : m2[k] = m[k]
  BY <1>0, <1>1, <1>2
<1>5. /\ p2 \in Seq([Values -> Nat]) /\ Len(p2) = n + 1 /\ p2[n + 1] = p[n]
      /\ \A k \in 1 .. n : p2[k] = p[k]
  BY <1>0, <1>1, <1>2, <1>3
<1>6. ASSUME NEW d \in 1 .. n + 1, NEW u \in Values
      PROVE  p2[d][u] <= Among(s, Reach(s, m2, d), u)
  <2>1. CASE d >= n
    <3>1. Reach(s, m2, d) = Len(s) /\ Reach(s, m, n) = Len(s)
      BY <1>0, <1>1, <1>4, <2>1 DEF Reach
    <3>2. p2[d] = p[n]
      <4>1. d = n \/ d = n + 1
        BY <2>1
      <4> QED
        BY <1>3, <1>5, <4>1
    <3>3. p[n][u] <= Among(s, Reach(s, m, n), u)
      BY <1>0, <1>1, <1>3
    <3> QED
      BY <3>1, <3>2, <3>3
  <2>2. CASE d < n
    <3>1. Reach(s, m2, d) = Reach(s, m, d)
      <4>0. Len(m) \in Nat /\ n = Len(m) + 1 /\ Len(m2) = n /\ d \in Nat
        BY <1>0, <1>1, <1>4
      <4>1. d \in 1 .. Len(m) /\ ~(d > Len(m)) /\ ~(d > Len(m2))
        BY <2>2, <4>0
      <4> QED
        BY <1>4, <4>1 DEF Reach
    <3>a. d \in 1 .. n
      BY <2>2
    <3>2. p2[d] = p[d] /\ d \in 1 .. Len(p)
      BY <1>0, <1>5, <3>a
    <3>3. p[d][u] <= Among(s, Reach(s, m, d), u)
      BY <1>1, <3>2
    <3> QED
      BY <3>1, <3>2, <3>3
  <2> QED
    BY <2>1, <2>2
<1>7. ASSUME NEW d \in 1 .. n + 1, NEW e \in 1 .. n + 1, d <= e, NEW u \in Values
      PROVE  p2[d][u] <= p2[e][u]
  <2>1. \A a, b \in 1 .. n : a <= b => p[a][u] <= p[b][u]
    BY <1>0 DEF FramesFit
  <2>2. CASE e = n + 1
    <3>1. CASE d = n + 1
      <4>1. p[n][u] <= p[n][u]
        BY <1>3, <2>1
      <4> QED
        BY <1>5, <2>2, <3>1, <4>1
    <3>2. CASE d # n + 1
      <4>1. d \in 1 .. n /\ d <= n
        BY <3>2
      <4>2. p[d][u] <= p[n][u]
        BY <1>3, <2>1, <4>1
      <4> QED
        BY <1>5, <2>2, <4>1, <4>2
    <3> QED
      BY <3>1, <3>2
  <2>3. CASE e # n + 1
    <3>1. d \in 1 .. n /\ e \in 1 .. n
      BY <1>7, <2>3
    <3>2. p[d][u] <= p[e][u]
      BY <1>7, <2>1, <3>1
    <3> QED
      BY <1>5, <3>1, <3>2
  <2> QED
    BY <2>2, <2>3
<1>8. ASSUME NEW k \in 1 .. Len(m2)
      PROVE  m2[k] <= Len(s)
  <2>1. CASE k = n
    BY <1>1, <1>4, <2>1
  <2>2. CASE k # n
    <3>1. k \in 1 .. Len(m)
      BY <1>0, <1>1, <1>4, <2>2
    <3>2. m[k] <= Len(s)
      BY <3>1 DEF FramesFit
    <3> QED
      BY <1>4, <3>1, <3>2
  <2> QED
    BY <2>1, <2>2
<1>9. ASSUME NEW j \in 1 .. Len(m2), NEW k \in 1 .. Len(m2), j <= k
      PROVE  m2[j] <= m2[k]
  <2>1. CASE k = n
    <3>1. m2[j] <= Len(s)
      BY <1>8
    <3> QED
      BY <1>4, <2>1, <3>1
  <2>2. CASE k # n
    <3>0. Len(m) \in Nat /\ n = Len(m) + 1 /\ j \in 1 .. n /\ k \in 1 .. n
      BY <1>0, <1>1, <1>4
    <3>1. j \in 1 .. Len(m) /\ k \in 1 .. Len(m)
      BY <1>9, <2>2, <3>0
    <3>2. m[j] <= m[k]
      BY <1>9, <3>1 DEF FramesFit
    <3> QED
      BY <1>4, <3>1, <3>2
  <2> QED
    BY <2>1, <2>2
<1>10. FramesFit(s, m2, p2)
  BY <1>4, <1>5, <1>6, <1>7, <1>8, <1>9 DEF FramesFit, Reach
<1> QED
  BY <1>2, <1>4, <1>5, <1>10

\* The frame on top and its entries go.
LEMMA FramesPop ==
  ASSUME NEW s \in Seq(Values), NEW m \in Seq(Nat), NEW p \in Seq([Values -> Nat]),
         FramesFit(s, m, p), m # <<>>
  PROVE  /\ Last(m) \in 0 .. Len(s)
         /\ Front(m) \in Seq(Nat) /\ Front(p) \in Seq([Values -> Nat])
         /\ FramesFit(SubSeq(s, 1, Last(m)), Front(m), Front(p))
<1>1. /\ \A d \in 1 .. Len(p) : Reach(s, m, d) \in 0 .. Len(s)
      /\ \A d, e \in 1 .. Len(p) : d <= e => Reach(s, m, d) <= Reach(s, m, e)
      /\ \A d \in 1 .. Len(p), u \in Values : p[d][u] <= Among(s, Reach(s, m, d), u)
      /\ Len(p) = Len(m) + 1 /\ Len(m) \in Nat /\ Len(s) \in Nat
  BY ReachOf
<1>0. PICK n \in Nat : n = Len(m)
  BY <1>1
<1>2. n > 0 /\ Last(m) = m[n] /\ Reach(s, m, n) = m[n] /\ m[n] \in 0 .. Len(s)
  <2>1. n > 0
    BY <1>0, <1>1
  <2>2. ~(n > Len(m)) /\ n \in 1 .. Len(p)
    BY <1>0, <1>1, <2>1
  <2>3. Last(m) = m[n] /\ Reach(s, m, n) = m[n]
    BY <1>0, <2>2 DEF Last, Reach
  <2>4. Reach(s, m, n) \in 0 .. Len(s)
    BY <1>1, <2>2
  <2> QED
    BY <2>1, <2>3, <2>4
<1>a. PICK m2, p2, r : m2 = Front(m) /\ p2 = Front(p) /\ r = SubSeq(s, 1, m[n])
  OBVIOUS
<1>3. m2 \in Seq(Nat) /\ Len(m2) = n - 1 /\ \A k \in 1 .. n - 1 : m2[k] = m[k]
  <2>1. m2 = SubSeq(m, 1, n - 1)
    BY <1>0, <1>a DEF Front
  <2>2. n - 1 \in 0 .. Len(m)
    BY <1>0, <1>2
  <2> QED
    BY <2>1, <2>2
<1>4. p2 \in Seq([Values -> Nat]) /\ Len(p2) = n /\ \A k \in 1 .. n : p2[k] = p[k]
  <2>1. Len(p) = n + 1 /\ Len(p) - 1 = n
    BY <1>0, <1>1
  <2>2. p2 = SubSeq(p, 1, n)
    BY <1>a, <2>1 DEF Front
  <2>3. n \in 0 .. Len(p)
    BY <2>1
  <2> QED
    BY <2>2, <2>3
<1>5. r \in Seq(Values) /\ Len(r) = m[n]
  BY <1>a, <1>2, CountSub
<1>6. ASSUME NEW d \in 1 .. n, NEW u \in Values
      PROVE  p2[d][u] <= Among(r, Reach(r, m2, d), u)
  <2>1. Reach(r, m2, d) = Reach(s, m, d)
    <3>1. CASE d = n
      BY <1>2, <1>3, <1>5, <3>1 DEF Reach
    <3>2. CASE d # n
      <4>1. d \in 1 .. n - 1 /\ ~(d > Len(m2)) /\ ~(d > Len(m))
        BY <1>0, <1>3, <3>2
      <4> QED
        BY <1>3, <4>1 DEF Reach
    <3> QED
      BY <3>1, <3>2
  <2>2. Reach(s, m, d) \in Int /\ Reach(s, m, d) <= m[n]
    <3>1. d \in 1 .. Len(p) /\ n \in 1 .. Len(p) /\ d <= n
      BY <1>0, <1>1, <1>2
    <3> QED
      BY <1>1, <1>2, <3>1
  <2>3. Among(r, Reach(s, m, d), u) = Among(s, Reach(s, m, d), u)
    BY <1>a, <1>2, <2>2, CountSub
  <2>4. p[d][u] <= Among(s, Reach(s, m, d), u)
    <3>1. d \in 1 .. Len(p)
      BY <1>0, <1>1
    <3> QED
      BY <1>1, <3>1
  <2> QED
    BY <1>4, <2>1, <2>3, <2>4
<1>7. ASSUME NEW d \in 1 .. n, NEW e \in 1 .. n, d <= e, NEW u \in Values
      PROVE  p2[d][u] <= p2[e][u]
  <2>1. d \in 1 .. Len(p) /\ e \in 1 .. Len(p)
    BY <1>0, <1>1
  <2>2. p[d][u] <= p[e][u]
    BY <1>7, <2>1 DEF FramesFit
  <2> QED
    BY <1>4, <2>2
<1>8. ASSUME NEW j \in 1 .. n - 1, NEW k \in 1 .. n - 1
      PROVE  /\ m2[k] <= Len(r)
             /\ j <= k => m2[j] <= m2[k]
  <2>1. j \in 1 .. Len(m) /\ k \in 1 .. Len(m) /\ n \in 1 .. Len(m) /\ k <= n
    BY <1>0, <1>2
  <2>2. m[k] <= m[n] /\ (j <= k => m[j] <= m[k])
    BY <2>1 DEF FramesFit
  <2> QED
    BY <1>3, <1>5, <2>2
<1>9. FramesFit(r, m2, p2)
  <2>1. Len(p2) = Len(m2) + 1
    BY <1>2, <1>3, <1>4
  <2>2. /\ \A k \in 1 .. Len(m2) : m2[k] <= Len(r)
        /\ \A j, k \in 1 .. Len(m2) : j <= k => m2[j] <= m2[k]
    BY <1>3, <1>8
  <2>3. /\ \A d, e \in 1 .. Len(p2) : d <= e => \A u \in Values : p2[d][u] <= p2[e][u]
        /\ \A d \in 1 .. Len(p2), u \in Values : p2[d][u] <= Among(r, Reach(r, m2, d), u)
    BY <1>4, <1>6, <1>7
  <2> QED
    BY <2>1, <2>2, <2>3 DEF FramesFit, Reach
<1> QED
  BY <1>a, <1>2, <1>3, <1>4, <1>9

\* The youngest entry for v goes, as the guest deletes the reference to v of the frame d.
LEMMA MarksMove ==
  ASSUME NEW m \in Seq(Nat), NEW i \in Nat \ {0}, NEW m2,
         m2 = [k \in DOMAIN m |-> IF m[k] >= i THEN m[k] - 1 ELSE m[k]]
  PROVE  /\ m2 \in Seq(Nat) /\ Len(m2) = Len(m)
         /\ \A k \in 1 .. Len(m) : m2[k] = IF m[k] >= i THEN m[k] - 1 ELSE m[k]
<1>1. PICK n \in Nat : n = Len(m) /\ DOMAIN m = 1 .. n
  OBVIOUS
<1>2. ASSUME NEW k \in 1 .. n
      PROVE  m2[k] = (IF m[k] >= i THEN m[k] - 1 ELSE m[k]) /\ m2[k] \in Nat
  <2>1. m[k] \in Nat
    BY <1>1
  <2>2. m2[k] = IF m[k] >= i THEN m[k] - 1 ELSE m[k]
    BY <1>1
  <2>3. CASE m[k] >= i
    BY <2>1, <2>2, <2>3
  <2>4. CASE ~(m[k] >= i)
    BY <2>1, <2>2, <2>4
  <2> QED
    BY <2>2, <2>3, <2>4
<1>3. m2 = [k \in 1 .. n |-> m2[k]]
  BY <1>1
<1>4. m2 \in [1 .. n -> Nat]
  BY <1>2, <1>3
<1>5. m2 \in Seq(Nat) /\ Len(m2) = n
  BY <1>4
<1> QED
  BY <1>1, <1>2, <1>5

\* There is a reference to v to take from every frame from d on.
HoldsFrom(p, d, v) == \A e \in 1 .. Len(p) : e >= d => p[e][v] >= 1

PromiseMoved(p, p2, d, v) ==
  /\ Len(p2) = Len(p)
  /\ \A e \in 1 .. Len(p), u \in Values :
       p2[e][u] = IF u = v /\ e >= d THEN p[e][u] - 1 ELSE p[e][u]

LEMMA PromiseMoves ==
  ASSUME NEW p \in Seq([Values -> Nat]), NEW v \in Values, NEW d \in Nat, NEW p2,
         p2 = OneLess(p, d, v), HoldsFrom(p, d, v)
  PROVE  p2 \in Seq([Values -> Nat]) /\ PromiseMoved(p, p2, d, v)
<1>1. PICK n \in Nat : n = Len(p) /\ DOMAIN p = 1 .. n
  OBVIOUS
<1>2. ASSUME NEW e \in 1 .. n
      PROVE  /\ p2[e] \in [Values -> Nat]
             /\ \A u \in Values : p2[e][u] = IF u = v /\ e >= d THEN p[e][u] - 1 ELSE p[e][u]
  <2>1. PICK x \in [Values -> Nat] : x = p[e]
    BY <1>1
  <2>2. p2[e] = IF e < d THEN x ELSE [x EXCEPT ![v] = x[v] - 1]
    BY <1>1, <2>1 DEF OneLess
  <2>3. CASE e < d
    BY <2>1, <2>2, <2>3
  <2>4. CASE e >= d
    <3>1. x[v] >= 1
      BY <1>1, <2>1, <2>4 DEF HoldsFrom
    <3>2. PICK y \in Nat : y = x[v] - 1
      <4>1. x[v] \in Nat
        OBVIOUS
      <4>2. x[v] - 1 \in Nat
        BY <3>1, <4>1
      <4> QED
        BY <4>2
    <3>3. ~(e < d)
      BY <2>4
    <3>4. p2[e] = [x EXCEPT ![v] = y]
      BY <2>2, <3>2, <3>3
    <3>5. p2[e] \in [Values -> Nat] /\ \A u \in Values : p2[e][u] = IF u = v THEN y ELSE x[u]
      BY <3>4
    <3> QED
      BY <2>1, <2>4, <3>2, <3>5
  <2>5. e < d \/ e >= d
    OBVIOUS
  <2> QED
    BY <2>3, <2>4, <2>5
<1>3. p2 = [e \in 1 .. n |-> p2[e]]
  BY <1>1 DEF OneLess
<1>4. p2 \in [1 .. n -> [Values -> Nat]]
  BY <1>2, <1>3
<1>5. p2 \in Seq([Values -> Nat]) /\ Len(p2) = n
  BY <1>4
<1> QED
  BY <1>1, <1>2, <1>5 DEF PromiseMoved

LEMMA PromiseHolds ==
  ASSUME NEW s \in Seq(Values), NEW m \in Seq(Nat), NEW p \in Seq([Values -> Nat]),
         FramesFit(s, m, p), NEW v \in Values, NEW d \in 1 .. Len(p),
         p[d][v] > (IF d = 1 THEN 0 ELSE p[d - 1][v])
  PROVE  /\ \A e \in 1 .. Len(p) : e >= d => p[e][v] >= 1
         /\ \E k \in 1 .. Len(s) : s[k] = v
<1>1. \A e \in 1 .. Len(p) : p[e][v] \in Nat
  OBVIOUS
<1>2. p[d][v] >= 1 /\ p[d][v] \in Nat
  <2>1. CASE d = 1
    BY <1>1, <2>1
  <2>2. CASE d # 1
    <3>1. d - 1 \in 1 .. Len(p)
      BY <2>2
    <3>2. p[d - 1][v] \in Nat
      BY <1>1, <3>1
    <3> QED
      BY <1>1, <2>2, <3>2
  <2> QED
    BY <2>1, <2>2
<1>3. ASSUME NEW e \in 1 .. Len(p), e >= d
      PROVE  p[e][v] >= 1
  <2>1. p[d][v] <= p[e][v]
    BY <1>3 DEF FramesFit
  <2>2. p[e][v] \in Nat
    BY <1>1
  <2> QED
    BY <1>2, <2>1, <2>2
<1>4. PICK n \in 0 .. Len(s) : n = Reach(s, m, d)
  BY ReachOf
<1>5. p[d][v] <= Among(s, n, v)
  BY <1>4, ReachOf
<1>6. \E k \in 1 .. n : s[k] = v
  <2>1. n \in Int
    OBVIOUS
  <2>2. Among(s, n, v) \in Nat /\ (Among(s, n, v) = 0 <=> \A k \in 1 .. n : s[k] # v)
    BY <2>1, AmongType
  <2>3. Among(s, n, v) # 0
    BY <1>2, <1>5, <2>2
  <2> QED
    BY <2>2, <2>3
<1>7. \A k \in 1 .. n : k \in 1 .. Len(s)
  OBVIOUS
<1> QED
  BY <1>3, <1>6, <1>7

\* The youngest place of v, and a frame that has a reference to v.
Youngest(s, i, v) == s[i] = v /\ \A q \in 1 .. Len(s) : s[q] = v => q <= i
HasOwn(p, d, v) == d # 1 => p[d][v] > p[d - 1][v]
MarksMoved(m, m2, i) ==
  /\ Len(m2) = Len(m)
  /\ \A k \in 1 .. Len(m) : m2[k] = IF m[k] >= i THEN m[k] - 1 ELSE m[k]

Deletion(s, m, p, i, v, d, m2, p2) ==
  /\ s \in Seq(Values) /\ m \in Seq(Nat) /\ p \in Seq([Values -> Nat])
  /\ i \in 1 .. Len(s) /\ v \in Values /\ d \in 1 .. Len(p)
  /\ FramesFit(s, m, p) /\ Youngest(s, i, v) /\ HasOwn(p, d, v)
  /\ m2 \in Seq(Nat) /\ MarksMoved(m, m2, i)
  /\ p2 \in Seq([Values -> Nat]) /\ PromiseMoved(p, p2, d, v)

LEMMA DeletionFacts ==
  ASSUME NEW s, NEW m, NEW p, NEW i, NEW v, NEW d, NEW m2, NEW p2,
         Deletion(s, m, p, i, v, d, m2, p2)
  PROVE  /\ \A e \in 1 .. Len(p) : Reach(s, m, e) \in 0 .. Len(s)
         /\ \A a, e \in 1 .. Len(p) : a <= e => Reach(s, m, a) <= Reach(s, m, e)
         /\ \A e \in 1 .. Len(p), u \in Values : p[e][u] <= Among(s, Reach(s, m, e), u)
         /\ Len(p) = Len(m) + 1 /\ Len(m) \in Nat /\ Len(s) \in Nat /\ Len(p) \in Nat
         /\ \A a, e \in 1 .. Len(p), u \in Values : a <= e => p[a][u] <= p[e][u]
         /\ \A e \in 1 .. Len(p), u \in Values : p[e][u] \in Nat
         /\ \A k \in 1 .. Len(m) : m[k] \in Nat /\ m[k] <= Len(s)
         /\ \A j, k \in 1 .. Len(m) : j <= k => m[j] <= m[k]
<1>1. /\ s \in Seq(Values) /\ m \in Seq(Nat) /\ p \in Seq([Values -> Nat])
      /\ FramesFit(s, m, p)
  BY DEF Deletion
<1>2. /\ \A e \in 1 .. Len(p) : Reach(s, m, e) \in 0 .. Len(s)
      /\ \A a, e \in 1 .. Len(p) : a <= e => Reach(s, m, a) <= Reach(s, m, e)
      /\ \A e \in 1 .. Len(p), u \in Values : p[e][u] <= Among(s, Reach(s, m, e), u)
      /\ Len(p) = Len(m) + 1 /\ Len(m) \in Nat /\ Len(s) \in Nat
  BY <1>1, ReachOf
<1>3. \A a, e \in 1 .. Len(p), u \in Values : a <= e => p[a][u] <= p[e][u]
  BY <1>1 DEF FramesFit
<1>4. \A e \in 1 .. Len(p), u \in Values : p[e][u] \in Nat
  <2>1. \A e \in 1 .. Len(p) : p[e] \in [Values -> Nat]
    BY <1>1
  <2> QED
    BY <2>1
<1>5. /\ \A k \in 1 .. Len(m) : m[k] \in Nat /\ m[k] <= Len(s)
      /\ \A j, k \in 1 .. Len(m) : j <= k => m[j] <= m[k]
  BY <1>1 DEF FramesFit
<1>6. Len(p) \in Nat
  BY <1>2
<1> QED
  BY <1>2, <1>3, <1>4, <1>5, <1>6

LEMMA FramesDelete ==
  ASSUME NEW s, NEW m, NEW p, NEW i, NEW v, NEW d, NEW m2, NEW p2,
         Deletion(s, m, p, i, v, d, m2, p2)
  PROVE  FramesFit(RemoveAt(s, i), m2, p2)
<1>0. PICK n \in Nat, z \in Nat : n = Len(p) /\ z = Len(s) /\ n = Len(m) + 1
  BY DeletionFacts
<1>1. /\ \A e \in 1 .. n : Reach(s, m, e) \in 0 .. z
      /\ \A a, e \in 1 .. n : a <= e => Reach(s, m, a) <= Reach(s, m, e)
      /\ \A e \in 1 .. n, u \in Values : p[e][u] <= Among(s, Reach(s, m, e), u)
      /\ Len(m) \in Nat
  BY <1>0, DeletionFacts
<1>2. /\ \A a, e \in 1 .. n, u \in Values : a <= e => p[a][u] <= p[e][u]
      /\ \A e \in 1 .. n, u \in Values : p[e][u] \in Nat
  BY <1>0, DeletionFacts
<1>6. /\ \A k \in 1 .. Len(m) : m[k] \in Nat /\ m[k] <= z
      /\ \A j, k \in 1 .. Len(m) : j <= k => m[j] <= m[k]
  BY <1>0, DeletionFacts
<1>5. \A e \in 1 .. n, u \in Values :
        p2[e][u] = IF u = v /\ e >= d THEN p[e][u] - 1 ELSE p[e][u]
  BY <1>0 DEF Deletion, PromiseMoved
<1>3. /\ Len(m2) = Len(m) /\ Len(p2) = n
      /\ \A k \in 1 .. Len(m) : m2[k] = IF m[k] >= i THEN m[k] - 1 ELSE m[k]
  BY <1>0 DEF Deletion, MarksMoved, PromiseMoved
<1>4. /\ d \in 1 .. n /\ i \in 1 .. z /\ v \in Values /\ s[i] = v
      /\ d # 1 => p[d][v] > p[d - 1][v]
  BY <1>0 DEF Deletion, HasOwn, Youngest
<1>s. s \in Seq(Values) /\ i \in 1 .. Len(s)
  BY DEF Deletion
<1>r. PICK r : r = RemoveAt(s, i)
  OBVIOUS
<1>7. Len(r) = z - 1
  BY <1>0, <1>r, <1>s, CountRemove
<1>8. ASSUME NEW e \in 1 .. n
      PROVE  Reach(r, m2, e) = IF Reach(s, m, e) >= i THEN Reach(s, m, e) - 1
                                                       ELSE Reach(s, m, e)
  <2>1. CASE e > Len(m)
    <3>1. Reach(r, m2, e) = Len(r) /\ Reach(s, m, e) = z
      BY <1>0, <1>3, <2>1 DEF Reach
    <3> QED
      BY <1>4, <1>7, <3>1
  <2>2. CASE ~(e > Len(m))
    <3>1. e \in 1 .. Len(m)
      BY <1>0, <2>2
    <3>2. Reach(r, m2, e) = m2[e] /\ Reach(s, m, e) = m[e]
      BY <1>3, <2>2 DEF Reach
    <3> QED
      BY <1>3, <3>1, <3>2
  <2> QED
    BY <2>1, <2>2
<1>9. ASSUME NEW e \in 1 .. n, NEW u \in Values
      PROVE  p2[e][u] <= Among(r, Reach(r, m2, e), u)
  <2>0. PICK x \in 0 .. z : x = Reach(s, m, e)
    BY <1>0, <1>1
  <2>1. PICK y \in Nat, w \in Nat : y = p[e][u] /\ w = Among(s, x, u) /\ y <= w
    <3>1. Among(s, x, u) \in Nat
      <4>1. x \in Int
        OBVIOUS
      <4> QED
        BY <4>1, AmongType
    <3>2. p[e][u] \in Nat /\ p[e][u] <= Among(s, x, u)
      BY <1>1, <1>2, <2>0
    <3> QED
      BY <3>1, <3>2
  <2>5. u = v => Same(s[i], u) = 1
    BY <1>4 DEF Same
  <2>6. u # v => Same(s[i], u) = 0
    BY <1>4 DEF Same
  <2>2. p2[e][u] = IF u = v /\ e >= d THEN y - 1 ELSE y
    BY <1>5, <2>1
  <2>3. CASE x < i
    <3>1. Among(r, x, u) = w
      <4>1. x \in 0 .. i - 1
        BY <1>4, <2>3
      <4>2. Among(r, x, u) = Among(s, x, u)
        BY <1>r, <1>s, <4>1, CountRemove
      <4> QED
        BY <2>1, <4>2
    <3>2. Reach(r, m2, e) = x
      BY <1>4, <1>8, <2>0, <2>3
    <3>3. p2[e][u] <= w
      BY <2>1, <2>2
    <3> QED
      BY <3>1, <3>2, <3>3
  <2>4. CASE x >= i
    <3>1. Among(r, x - 1, u) = w - Same(s[i], u)
      <4>1. x \in i .. Len(s)
        BY <1>0, <1>4, <2>4
      <4>2. Among(r, x - 1, u) = Among(s, x, u) - Same(s[i], u)
        BY <1>r, <1>s, <4>1, CountRemove
      <4> QED
        BY <2>1, <4>2
    <3>2. Reach(r, m2, e) = x - 1
      BY <1>4, <1>8, <2>0, <2>4
    <3>3. CASE u # v
      <4>1. p2[e][u] = y /\ Among(r, x - 1, u) = w
        BY <2>2, <2>6, <3>1, <3>3
      <4> QED
        BY <2>1, <3>2, <4>1
    <3>4. CASE u = v /\ e >= d
      <4>1. p2[e][u] = y - 1 /\ Among(r, x - 1, u) = w - 1
        BY <2>2, <2>5, <3>1, <3>4
      <4> QED
        BY <2>1, <3>2, <4>1
    <3>5. CASE u = v /\ ~(e >= d)
      <4>1. PICK g \in 0 .. z : g = Reach(s, m, d) /\ x <= g
        <5>1. d \in 1 .. n /\ e <= d
          BY <1>4, <3>5
        <5> QED
          BY <1>1, <2>0, <5>1
      <4>2. PICK c \in Nat : c = p[d][v] /\ c <= Among(s, g, v)
        <5>1. p[d][v] \in Nat /\ p[d][v] <= Among(s, g, v)
          BY <1>1, <1>2, <1>4, <4>1
        <5> QED
          BY <5>1
      <4>3. Among(s, g, v) = Among(s, x, v)
        <5>1. \A k \in 1 .. g : s[k] = v => k <= x
          <6> SUFFICES ASSUME NEW k \in 1 .. g, s[k] = v
                       PROVE  k <= x
            OBVIOUS
          <6>1. k \in 1 .. Len(s)
            BY <1>0, <4>1
          <6>2. k <= i
            BY <6>1 DEF Deletion, Youngest
          <6> QED
            BY <1>4, <2>4, <6>2
        <5>2. \A k : (k \in 1 .. g /\ s[k] = v) <=> (k \in 1 .. x /\ s[k] = v)
          BY <4>1, <5>1
        <5>3. {k \in 1 .. g : s[k] = v} = {k \in 1 .. x : s[k] = v}
          BY <5>2
        <5> QED
          BY <5>3 DEF Among
      <4>4. y < c
        <5>1. d # 1 /\ d - 1 \in 1 .. n /\ e <= d - 1
          BY <1>4, <3>5
        <5>2. PICK b \in Nat : b = p[d - 1][v]
          BY <1>2, <1>4, <5>1
        <5>3. p[e][v] <= b /\ c > b
          BY <1>2, <1>4, <4>2, <5>1, <5>2
        <5>4. y <= b
          BY <2>1, <3>5, <5>3
        <5> QED
          BY <5>3, <5>4
      <4>5. y <= w - 1
        <5>1. c <= w
          BY <2>1, <3>5, <4>2, <4>3
        <5> QED
          BY <4>4, <5>1
      <4>6. p2[e][u] = y /\ Among(r, x - 1, u) = w - 1
        BY <2>2, <2>5, <3>1, <3>5
      <4> QED
        BY <3>2, <4>5, <4>6
    <3> QED
      BY <3>3, <3>4, <3>5
  <2>7. x < i \/ x >= i
    BY <1>4
  <2> QED
    BY <2>3, <2>4, <2>7
<1>10. ASSUME NEW a \in 1 .. n, NEW e \in 1 .. n, a <= e, NEW u \in Values
       PROVE  p2[a][u] <= p2[e][u]
  <2>1. PICK x \in Nat, y \in Nat : x = p[a][u] /\ y = p[e][u] /\ x <= y
    BY <1>2, <1>10
  <2>2. /\ p2[a][u] = IF u = v /\ a >= d THEN x - 1 ELSE x
        /\ p2[e][u] = IF u = v /\ e >= d THEN y - 1 ELSE y
    BY <1>5, <2>1
  <2>3. CASE u = v /\ ~(a >= d) /\ e >= d
    <3>1. d - 1 \in 1 .. n /\ d \in 1 .. n /\ d # 1 /\ a <= d - 1 /\ d <= e
      BY <1>4, <2>3
    <3>2. PICK b \in Nat, c \in Nat : b = p[d - 1][v] /\ c = p[d][v]
      BY <1>2, <1>4, <3>1
    <3>3. p[a][v] <= b /\ b < c /\ c <= p[e][v]
      BY <1>2, <1>4, <3>1, <3>2
    <3>4. x <= b /\ b < c /\ c <= y
      BY <2>1, <2>3, <3>3
    <3>5. p2[a][u] = x /\ p2[e][u] = y - 1
      BY <2>2, <2>3
    <3> QED
      BY <3>4, <3>5
  <2>4. CASE ~(u = v /\ ~(a >= d) /\ e >= d)
    <3>1. a >= d => e >= d
      BY <1>4, <1>10
    <3>2. \/ p2[a][u] = x /\ p2[e][u] = y
          \/ p2[a][u] = x - 1 /\ p2[e][u] = y - 1
      BY <2>2, <2>4, <3>1
    <3> QED
      BY <2>1, <3>2
  <2> QED
    BY <2>3, <2>4
<1>11. ASSUME NEW j \in 1 .. Len(m), NEW k \in 1 .. Len(m)
       PROVE  /\ m2[k] <= Len(r)
              /\ j <= k => m2[j] <= m2[k]
  <2>1. PICK x \in Nat, y \in Nat : x = m[j] /\ y = m[k] /\ y <= z /\ (j <= k => x <= y)
    BY <1>6
  <2>2. m2[k] = (IF y >= i THEN y - 1 ELSE y) /\ m2[j] = (IF x >= i THEN x - 1 ELSE x)
    BY <1>3, <2>1
  <2>3. i \in 1 .. z
    BY <1>4
  <2>4. (IF y >= i THEN y - 1 ELSE y) <= z - 1
    BY <2>1, <2>3
  <2>5. x <= y => (IF x >= i THEN x - 1 ELSE x) <= (IF y >= i THEN y - 1 ELSE y)
    BY <2>1, <2>3
  <2> QED
    BY <1>7, <2>1, <2>2, <2>4, <2>5
<1>12. FramesFit(r, m2, p2)
  <2>1. Len(p2) = n /\ Len(p2) = Len(m2) + 1
    BY <1>0, <1>1, <1>3
  <2>2. /\ \A k \in 1 .. Len(m2) : m2[k] <= Len(r)
        /\ \A j, k \in 1 .. Len(m2) : j <= k => m2[j] <= m2[k]
    BY <1>3, <1>11
  <2>3. /\ \A a, e \in 1 .. Len(p2) : a <= e => \A u \in Values : p2[a][u] <= p2[e][u]
        /\ \A e \in 1 .. Len(p2), u \in Values : p2[e][u] <= Among(r, Reach(r, m2, e), u)
    BY <1>9, <1>10, <2>1
  <2> QED
    BY <2>1, <2>2, <2>3 DEF FramesFit, Reach
<1> QED
  BY <1>r, <1>12

-----------------------------------------------------------------------------
\* The steps that the code takes with an owner: it is counted, it goes from a table or a
\* field to another place, and it is released.
LEMMA NullIsNoValue == Null \notin Values
BY JniAssumption DEF Null

LEMMA Only1At ==
  ASSUME NEW v
  PROVE  Only1(v) \in [Values -> Nat] /\ \A u \in Values : Only1(v)[u] = Same(u, v)
<1>1. \A u : Same(u, v) \in Nat
  BY DEF Same
<1> QED
  BY <1>1 DEF Only1

LEMMA NoneAt == NoneOf \in [Values -> Nat] /\ \A u \in Values : NoneOf[u] = 0
BY DEF NoneOf

LEMMA RetainCounts ==
  ASSUME NEW o, NEW i, NEW l, NEW th, NEW ow, NEW g, NEW ms, NEW h, NEW v \in MaybeValue,
         Counted(o, i, NoneOf, l, th, ow, g, ms, h)
  PROVE  Counted(RetainedRef(o, v), i, Only1(v), l, th, ow, g, ms, h)
<1>1. /\ o \in [Values -> Nat] /\ i \in [Values -> MaybeValue] /\ ms \in Seq(Values)
      /\ \A u \in Values : o[u] = Others(l, th, ow, g, ms, h, u) + Fields(i, u) + NoneOf[u]
      /\ \A u \in Values : o[u] = 0 => i[u] = Null
  BY DEF Counted
<1>2. PICK q \in [Values -> Nat] :
        q = RetainedRef(o, v) /\ \A u \in Values : q[u] = o[u] + Same(u, v)
  BY <1>1, RetainedAt
<1>3. PICK y \in [Values -> Nat] : y = Only1(v) /\ \A u \in Values : y[u] = Same(u, v)
  BY Only1At
<1>4. ASSUME NEW u \in Values
      PROVE  /\ q[u] = Others(l, th, ow, g, ms, h, u) + Fields(i, u) + y[u]
             /\ q[u] = 0 => i[u] = Null
  <2>1. PICK a \in Nat, b \in Nat, c \in Nat :
          a = Others(l, th, ow, g, ms, h, u) /\ b = Fields(i, u) /\ c = Same(u, v)
    <3>1. Same(u, v) \in Nat /\ Others(l, th, ow, g, ms, h, u) \in Nat /\ Fields(i, u) \in Nat
      BY <1>1, OthersNat, FieldsNat DEF Same
    <3> QED
      BY <3>1
  <2>2. o[u] = a + b
    <3>1. o[u] = a + b + 0
      BY <1>1, <2>1, NoneAt
    <3> QED
      BY <3>1
  <2>3. q[u] = a + b + c /\ y[u] = c
    BY <1>2, <1>3, <2>1, <2>2
  <2>4. q[u] = 0 => o[u] = 0
    BY <2>2, <2>3
  <2> QED
    BY <1>1, <2>1, <2>3, <2>4
<1> QED
  BY <1>1, <1>2, <1>3, <1>4 DEF Counted

LEMMA OwnersMove ==
  ASSUME NEW o, NEW i, NEW x, NEW l, NEW th, NEW ow, NEW g, NEW ms, NEW h,
         Counted(o, i, x, l, th, ow, g, ms, h),
         NEW j \in [Values -> MaybeValue], NEW y \in [Values -> Nat], NEW l2, NEW th2, NEW ow2,
         NEW g2, NEW ms2 \in Seq(Values), NEW h2,
         \A v \in Values : Others(l2, th2, ow2, g2, ms2, h2, v) + Fields(j, v) + y[v]
                             = Others(l, th, ow, g, ms, h, v) + Fields(i, v) + x[v],
         \A v \in Values : o[v] = 0 => j[v] = Null
  PROVE  Counted(o, j, y, l2, th2, ow2, g2, ms2, h2)
BY DEF Counted

LEMMA ReleaseLeaves ==
  ASSUME NEW o, NEW i, NEW x, NEW l, NEW th, NEW ow, NEW g, NEW ms, NEW h,
         Counted(o, i, x, l, th, ow, g, ms, h), NEW r \in Released(o, i, x)
  PROVE  Counted(r.owners, r.item, NoneOf, l, th, ow, g, ms, h)
<1>1. /\ o \in [Values -> Nat] /\ i \in [Values -> MaybeValue] /\ x \in [Values -> Nat]
      /\ ms \in Seq(Values)
      /\ \A v \in Values : o[v] = Others(l, th, ow, g, ms, h, v) + Fields(i, v) + x[v]
      /\ \A v \in Values : o[v] = 0 => i[v] = Null
  BY DEF Counted
<1>2. PICK other : other = [v \in Values |-> Others(l, th, ow, g, ms, h, v)]
  OBVIOUS
<1>3. other \in [Values -> Nat] /\ \A v \in Values : other[v] = Others(l, th, ow, g, ms, h, v)
  BY <1>1, <1>2, OthersNat
<1>4. \A v \in Values : o[v] = other[v] + Fields(i, v) + x[v]
  BY <1>1, <1>3
<1>5. /\ r.owners \in [Values -> Nat] /\ r.item \in [Values -> MaybeValue]
      /\ \A v \in Values : r.owners[v] = other[v] + Fields(r.item, v)
      /\ \A v \in Values : r.owners[v] = 0 => r.item[v] = Null
  <2>1. Balanced(o, i, x, other)
    BY <1>1, <1>3, <1>4 DEF Balanced
  <2> QED
    BY <2>1, ReleaseExact
<1>6. ASSUME NEW v \in Values
      PROVE  r.owners[v] = Others(l, th, ow, g, ms, h, v) + Fields(r.item, v) + NoneOf[v]
  <2>1. PICK a \in Nat, b \in Nat : a = Others(l, th, ow, g, ms, h, v) /\ b = Fields(r.item, v)
    BY <1>1, OthersNat, FieldsNat
  <2>2. r.owners[v] = a + b
    BY <1>3, <1>5, <2>1
  <2>3. a + b = a + b + 0
    OBVIOUS
  <2> QED
    BY <2>1, <2>2, <2>3, NoneAt
<1> QED
  BY <1>1, <1>5, <1>6, NoneAt DEF Counted

\* Another table for a thread.
IsTable(l, t, s) ==
  /\ l \in [JniThreads -> Seq(Values)] /\ \A u \in JniThreads : Len(l[u]) <= MaxLocals
  /\ l[t] = s /\ ButAt(JniThreads, t, locals, l)

LEMMA TableBecomes ==
  ASSUME HoldersTyped, NEW t \in JniThreads, NEW s \in Seq(Values), Len(s) <= MaxLocals
  PROVE  IsTable([locals EXCEPT ![t] = s], t, s)
<1> DEFINE l == [locals EXCEPT ![t] = s]
<1>1. locals \in [JniThreads -> Seq(Values)] /\ \A u \in JniThreads : Len(locals[u]) <= MaxLocals
  BY DEF HoldersTyped
<1>2. /\ l \in [JniThreads -> Seq(Values)] /\ l[t] = s
      /\ \A u \in JniThreads : u # t => l[u] = locals[u]
  BY <1>1
<1> HIDE DEF l
<1>3. \A u \in JniThreads : Len(l[u]) <= MaxLocals
  BY <1>1, <1>2
<1>4. IsTable(l, t, s)
  BY <1>2, <1>3 DEF ButAt, IsTable
<1> QED
  BY <1>4 DEF l

LEMMA TableOwners ==
  ASSUME HoldersTyped, NEW t \in JniThreads, NEW s, NEW l, IsTable(l, t, s),
         NEW th, NEW ow, NEW g, NEW ms \in Seq(Values), NEW h, NEW v
  PROVE  /\ Others(l, th, ow, g, ms, h, v)
              = Others(locals, th, ow, g, ms, h, v) - CountIn(locals[t], v) + CountIn(s, v)
         /\ CountIn(locals[t], v) \in Nat /\ CountIn(s, v) \in Nat
<1>1. /\ ButAt(JniThreads, t, locals, l) /\ locals[t] \in Seq(Values) /\ l[t] \in Seq(Values)
      /\ Len(locals[t]) <= MaxLocals /\ Len(l[t]) <= MaxLocals /\ l[t] = s
  BY DEF HoldersTyped, IsTable
<1>2. Others(l, th, ow, g, ms, h, v)
        = Others(locals, th, ow, g, ms, h, v) - CountIn(locals[t], v) + CountIn(l[t], v)
  BY <1>1, OthersLocals
<1>3. CountIn(locals[t], v) \in Nat /\ CountIn(l[t], v) \in Nat
  BY <1>1, CountNat
<1> QED
  BY <1>1, <1>2, <1>3

LEMMA FramesBecome ==
  ASSUME JniIInv, NEW t \in JniThreads, NEW s, NEW m \in Seq(Nat),
         NEW p \in Seq([Values -> Nat]), FramesFit(s, m, p),
         locals' = [locals EXCEPT ![t] = s], marks' = [marks EXCEPT ![t] = m],
         promised' = [promised EXCEPT ![t] = p]
  PROVE  FramesKept'
<1>1. /\ marks \in [JniThreads -> Seq(Nat)]
      /\ promised \in [JniThreads -> Seq([Values -> Nat])]
      /\ \A u \in JniThreads : FramesFit(locals[u], marks[u], promised[u])
      /\ locals \in [JniThreads -> Seq(Values)]
  BY DEF JniIInv, FramesKept, HoldersTyped
<1>2. marks' \in [JniThreads -> Seq(Nat)] /\ promised' \in [JniThreads -> Seq([Values -> Nat])]
  BY <1>1
<1>3. ASSUME NEW u \in JniThreads
      PROVE  FramesFit(locals'[u], marks'[u], promised'[u])
  <2>1. CASE u = t
    <3>1. locals'[u] = s /\ marks'[u] = m /\ promised'[u] = p
      BY <1>1, <2>1
    <3> QED
      BY <3>1
  <2>2. CASE u # t
    <3>1. locals'[u] = locals[u] /\ marks'[u] = marks[u] /\ promised'[u] = promised[u]
      BY <1>1, <2>2
    <3> QED
      BY <1>1, <3>1
  <2> QED
    BY <2>1, <2>2
<1> QED
  BY <1>2, <1>3 DEF FramesKept

\* The guest is promised one more reference to v in the frame on top.
LEMMA Relies ==
  ASSUME NEW p \in Seq([Values -> Nat]), Len(p) > 0, NEW v \in Values
  PROVE  /\ Relied(p, v) \in Seq([Values -> Nat]) /\ Len(Relied(p, v)) = Len(p)
         /\ \A d \in 1 .. Len(p) : d # Len(p) => Relied(p, v)[d] = p[d]
         /\ \A u \in Values : Relied(p, v)[Len(p)][u] = p[Len(p)][u] + Same(v, u)
<1> PICK n \in Nat : n = Len(p)
  OBVIOUS
<1> PICK q : q = Relied(p, v)
  OBVIOUS
<1>1. PICK x \in [Values -> Nat] : x = p[n]
  OBVIOUS
<1>2. PICK c \in Nat : c = x[v] + 1
  OBVIOUS
<1>3. PICK y : y = [x EXCEPT ![v] = c]
  OBVIOUS
<1>4. y \in [Values -> Nat] /\ \A u \in Values : y[u] = x[u] + Same(v, u)
  <2>1. y \in [Values -> Nat] /\ y[v] = c /\ \A u \in Values : u # v => y[u] = x[u]
    BY <1>3
  <2>2. \A u \in Values : x[u] \in Nat
    OBVIOUS
  <2>3. \A u \in Values : y[u] = x[u] + Same(v, u)
    BY <1>2, <2>1, <2>2 DEF Same
  <2> QED
    BY <2>1, <2>3
<1>5. q = [p EXCEPT ![n] = y]
  BY <1>1, <1>2, <1>3 DEF Relied
<1>6. /\ q \in Seq([Values -> Nat]) /\ Len(q) = n /\ q[n] = y
      /\ \A d \in 1 .. n : d # n => q[d] = p[d]
  BY <1>4, <1>5
<1> QED
  BY <1>1, <1>4, <1>6

LEMMA RegLocalKeeps ==
  ASSUME JniIInv, NEW t \in JniThreads, NEW v \in Values, NEW o, NEW i, RegLocal(t, o, i, v),
         UNCHANGED <<marks, sharedRefs, thrown, owedRef>>,
         Counted(o, i, Only1(v), locals, thrown, owedRef, globals, messages, handled)
  PROVE  JniIInv'
<1>1. HoldersTyped /\ OwnersExact /\ FramesKept
  BY DEF JniIInv
<1>2. /\ marks' = marks /\ globals' = globals /\ messages' = messages /\ handled' = handled
      /\ thrown' = thrown /\ owedRef' = owedRef
  BY DEF sharedRefs
<1>3. CASE Len(locals[t]) < MaxLocals
  <2>1. PICK s : s = Append(locals[t], v)
    OBVIOUS
  <2>2. /\ owners' = o /\ item' = i /\ locals' = [locals EXCEPT ![t] = s] /\ Rely(t, v)
    BY <1>3, <2>1 DEF RegLocal
  <2>3. locals[t] \in Seq(Values) /\ messages \in Seq(Values)
    BY <1>1 DEF HoldersTyped
  <2>4. s \in Seq(Values) /\ Len(s) <= MaxLocals
    <3>1. Len(locals[t]) \in Nat /\ MaxLocals \in Nat
      BY <2>3, JniAssumption
    <3>2. s \in Seq(Values) /\ Len(s) = Len(locals[t]) + 1
      BY <2>1, <2>3
    <3> QED
      BY <1>3, <3>1, <3>2
  <2>5. \A u : CountIn(s, u) = CountIn(locals[t], u) + Same(v, u)
    BY <2>1, <2>3, CountAppend
  <2>6. IsTable(locals', t, s)
    BY <1>1, <2>2, <2>4, TableBecomes
  <2>7. HoldersTyped'
    BY <1>1, <1>2, <2>6 DEF HoldersTyped, IsTable
  <2>8. Counted(o, i, NoneOf, locals', thrown, owedRef, globals, messages, handled)
    <3>1. \A u \in Values :
            Others(locals', thrown, owedRef, globals, messages, handled, u) + Fields(i, u) + NoneOf[u]
              = Others(locals, thrown, owedRef, globals, messages, handled, u) + Fields(i, u)
                  + Only1(v)[u]
      <4> TAKE u \in Values
      <4>1. PICK a \in Nat, b \in Nat, c \in Nat, d \in Nat, e \in Nat :
              /\ a = Others(locals, thrown, owedRef, globals, messages, handled, u)
              /\ b = Fields(i, u) /\ c = CountIn(locals[t], u) /\ d = CountIn(s, u)
              /\ e = Same(v, u)
        <5>1. Same(v, u) \in Nat
          BY DEF Same
        <5>2. CountIn(locals[t], u) \in Nat /\ CountIn(s, u) \in Nat
          BY <2>3, <2>4, CountNat
        <5> QED
          BY <2>3, <5>1, <5>2, OthersNat, FieldsNat
      <4>2. Others(locals', thrown, owedRef, globals, messages, handled, u) = a - c + d
        BY <1>1, <2>3, <2>6, <4>1, TableOwners
      <4>3. d = c + e
        BY <2>5, <4>1
      <4>4. Only1(v)[u] = e /\ NoneOf[u] = 0
        <5>1. Same(u, v) = Same(v, u)
          BY DEF Same
        <5> QED
          BY <4>1, <5>1, Only1At, NoneAt
      <4>5. (a - c + d) + b + 0 = a + b + e
        BY <4>3
      <4> QED
        BY <4>1, <4>2, <4>4, <4>5
    <3>2. i \in [Values -> MaybeValue] /\ \A u \in Values : o[u] = 0 => i[u] = Null
      BY DEF Counted
    <3> QED
      BY <2>3, <3>1, <3>2, NoneAt, OwnersMove
  <2>9. FramesKept'
    <3>1. /\ promised \in [JniThreads -> Seq([Values -> Nat])] /\ marks[t] \in Seq(Nat)
          /\ FramesFit(locals[t], marks[t], promised[t])
          /\ marks \in [JniThreads -> Seq(Nat)]
      BY <1>1 DEF FramesKept
    <3>2. PICK n \in Nat : n = Len(promised[t]) /\ n > 0
      <4>1. Len(promised[t]) = Len(marks[t]) + 1 /\ Len(marks[t]) \in Nat
        BY <3>1 DEF FramesFit
      <4> QED
        BY <4>1
    <3>0. PICK p \in Seq([Values -> Nat]) : p = promised[t]
      BY <3>1
    <3>3. PICK q : q = Relied(p, v)
      OBVIOUS
    <3>4. promised' = [promised EXCEPT ![t] = q]
      BY <2>2, <3>0, <3>3 DEF Rely, Relied
    <3>a. Len(p) > 0
      BY <3>0, <3>2
    <3>5. /\ q \in Seq([Values -> Nat]) /\ Len(q) = Len(p)
          /\ \A d \in 1 .. Len(p) : d # Len(p) => q[d] = p[d]
          /\ \A u \in Values : q[Len(p)][u] = p[Len(p)][u] + Same(v, u)
      BY <3>3, <3>a, Relies
    <3>b. FramesFit(locals[t], marks[t], p)
      BY <3>0, <3>1
    <3>6. FramesFit(s, marks[t], q)
      BY <2>1, <2>3, <3>1, <3>5, <3>b, FramesAppend
    <3>7. marks' = [marks EXCEPT ![t] = marks[t]]
      BY <1>2, <3>1
    <3> QED
      BY <2>2, <3>1, <3>4, <3>5, <3>6, <3>7, FramesBecome
  <2>10. OwnersExact'
    BY <1>2, <2>2, <2>8 DEF OwnersExact, NoneOf
  <2> QED
    BY <2>7, <2>9, <2>10 DEF JniIInv
<1>4. CASE ~(Len(locals[t]) < MaxLocals)
  <2>1. PICK r \in Released(o, i, Only1(v)) : owners' = r.owners /\ item' = r.item
    BY <1>4 DEF RegLocal, ReleasedOne, RefsBecome
  <2>2. locals' = locals /\ promised' = promised
    BY <1>4 DEF RegLocal
  <2>3. Counted(r.owners, r.item, NoneOf, locals, thrown, owedRef, globals, messages, handled)
    BY ReleaseLeaves
  <2>4. OwnersExact'
    BY <1>2, <2>1, <2>2, <2>3 DEF OwnersExact, NoneOf
  <2>5. HoldersTyped' /\ FramesKept'
    BY <1>1, <1>2, <2>2 DEF HoldersTyped, FramesKept
  <2> QED
    BY <2>4, <2>5 DEF JniIInv
<1> QED
  BY <1>3, <1>4

LEMMA NewLocalRefKeeps ==
  ASSUME JniIInv, NEW t \in JniThreads, NEW v \in Values, NewLocalRef(t, v)
  PROVE  JniIInv'
<1>1. Counted(RetainedRef(owners, v), item, Only1(v), locals, thrown, owedRef, globals, messages,
              handled)
  BY RetainCounts DEF JniIInv, OwnersExact, MaybeValue
<1> QED
  BY <1>1, RegLocalKeeps DEF NewLocalRef

LEMMA GetObjectArrayElementKeeps ==
  ASSUME JniIInv, NEW t \in JniThreads, NEW a \in Values, GetObjectArrayElement(t, a)
  PROVE  JniIInv'
<1>1. item[a] \in Values
  <2>1. item \in [Values -> MaybeValue]
    BY DEF JniIInv, OwnersExact, Counted
  <2> QED
    BY <2>1 DEF GetObjectArrayElement, MaybeValue
<1>2. Counted(RetainedRef(owners, item[a]), item, Only1(item[a]), locals, thrown, owedRef, globals,
              messages, handled)
  BY <1>1, RetainCounts DEF JniIInv, OwnersExact, MaybeValue
<1> QED
  BY <1>1, <1>2, RegLocalKeeps DEF GetObjectArrayElement

LEMMA ExceptionOccurredKeeps ==
  ASSUME JniIInv, NEW t \in JniThreads, ExceptionOccurred(t)
  PROVE  JniIInv'
<1>1. thrown[t] \in Values
  BY DEF ExceptionOccurred, JniIInv, HoldersTyped, MaybeValue
<1>2. Counted(RetainedRef(owners, thrown[t]), item, Only1(thrown[t]), locals, thrown, owedRef,
              globals, messages, handled)
  BY <1>1, RetainCounts DEF JniIInv, OwnersExact, MaybeValue
<1> QED
  BY <1>1, <1>2, RegLocalKeeps DEF ExceptionOccurred

LEMMA NewValueKeeps ==
  ASSUME JniIInv, NEW t \in JniThreads, NEW inner \in Known(t) \union {Null}, NewValue(t, inner)
  PROVE  JniIInv'
<1>1. PICK v \in FreeValues :
        RegLocal(t, RetainedRef([owners EXCEPT ![v] = 1], inner), [item EXCEPT ![v] = inner], v)
  BY DEF NewValue
<1>2. v \in Values /\ owners[v] = 0
  BY DEF FreeValues
<1>3. inner \in MaybeValue /\ inner # v
  <2>1. inner \in Known(t) => inner \in Values /\ owners[inner] > 0
    BY KnownIsOwned
  <2> QED
    BY <1>2, <2>1, NullIsNoValue DEF MaybeValue
<1>4. /\ owners \in [Values -> Nat] /\ item \in [Values -> MaybeValue]
      /\ messages \in Seq(Values) /\ item[v] = Null
      /\ \A u \in Values :
           /\ owners[u] = OthersNow(u) + Fields(item, u) /\ OthersNow(u) \in Nat
           /\ owners[u] = 0 => item[u] = Null
  <2>1. OwnersExact /\ messages \in Seq(Values)
    BY DEF JniIInv, HoldersTyped
  <2> QED
    BY <1>2, <2>1, OwnersNow
<1>5. PICK o, i : o = [owners EXCEPT ![v] = 1] /\ i = [item EXCEPT ![v] = inner]
  OBVIOUS
<1>6. /\ o \in [Values -> Nat] /\ o[v] = 1 /\ \A u \in Values : u # v => o[u] = owners[u]
      /\ i \in [Values -> MaybeValue] /\ i[v] = inner /\ ButAt(Values, v, item, i)
  BY <1>2, <1>3, <1>4, <1>5 DEF ButAt
<1>7. PICK q \in [Values -> Nat] :
        q = RetainedRef(o, inner) /\ \A u \in Values : q[u] = o[u] + Same(u, inner)
  BY <1>3, <1>6, RetainedAt
<1>8. Counted(q, i, Only1(v), locals, thrown, owedRef, globals, messages, handled)
  <2>1. ASSUME NEW u \in Values
        PROVE  /\ q[u] = OthersNow(u) + Fields(i, u) + Only1(v)[u]
               /\ q[u] = 0 => i[u] = Null
    <3>1. Fields(i, u) = Fields(item, u) - Same(item[v], u) + Same(i[v], u)
      BY <1>2, <1>6, FieldsMove
    <3>2. Same(item[v], u) = 0 /\ Same(i[v], u) = Same(u, inner)
      BY <1>4, <1>6, NullIsNoValue DEF Same
    <3>3. PICK a \in Nat, b \in Nat, c \in Nat :
            a = OthersNow(u) /\ b = Fields(item, u) /\ c = Same(u, inner)
      <4>1. Same(u, inner) \in Nat
        BY DEF Same
      <4> QED
        BY <1>4, <4>1, FieldsNat
    <3>4. Fields(i, u) = b + c
      BY <3>1, <3>2, <3>3
    <3>5. owners[u] = a + b
      BY <1>4, <3>3
    <3>6. CASE u = v
      <4>1. a + b = 0 /\ Only1(v)[u] = 1 /\ q[u] = 1 + c
        BY <1>2, <1>6, <1>7, <3>3, <3>5, <3>6, Only1At DEF Same
      <4>2. 1 + c = a + (b + c) + 1 /\ 1 + c # 0
        BY <4>1
      <4> QED
        BY <3>3, <3>4, <4>1, <4>2
    <3>7. CASE u # v
      <4>1. q[u] = a + b + c /\ Only1(v)[u] = 0
        BY <1>6, <1>7, <3>3, <3>5, <3>7, Only1At DEF Same
      <4>2. a + b + c = a + (b + c) + 0
        OBVIOUS
      <4>3. q[u] = 0 => owners[u] = 0
        BY <3>5, <4>1
      <4>4. i[u] = item[u]
        BY <1>6, <3>7 DEF ButAt
      <4> QED
        BY <1>4, <3>3, <3>4, <4>1, <4>2, <4>3, <4>4
    <3> QED
      BY <3>6, <3>7
  <2> QED
    BY <1>4, <1>6, <1>7, <2>1, Only1At DEF Counted, OthersNow
<1>9. RegLocal(t, q, i, v)
  BY <1>1, <1>5, <1>7
<1> QED
  BY <1>2, <1>8, <1>9, RegLocalKeeps DEF NewValue

\* A table of one value for each thread changes at one thread.
LEMMA OneHolder ==
  ASSUME NEW f \in [JniThreads -> MaybeValue], NEW t \in JniThreads, NEW v \in MaybeValue
  PROVE  /\ [f EXCEPT ![t] = v] \in [JniThreads -> MaybeValue]
         /\ [f EXCEPT ![t] = v][t] = v /\ ButAt(JniThreads, t, f, [f EXCEPT ![t] = v])
BY DEF ButAt

LEMMA FreeRefKeeps ==
  ASSUME JniIInv, NEW t \in JniThreads, FreeRef(t)
  PROVE  JniIInv'
<1>1. PICK v, r, w :
        /\ v = owedRef[t] /\ r \in Released(owners, item, Only1(v))
        /\ owners' = r.owners /\ item' = r.item /\ w = [owedRef EXCEPT ![t] = Null] /\ owedRef' = w
  BY DEF FreeRef, ReleasedOne, RefsBecome
<1>2. /\ locals' = locals /\ marks' = marks /\ promised' = promised /\ globals' = globals
      /\ messages' = messages /\ handled' = handled /\ thrown' = thrown
  BY DEF FreeRef, ownRefs, sharedRefs
<1>3. /\ HoldersTyped /\ owedRef \in [JniThreads -> MaybeValue] /\ messages \in Seq(Values)
      /\ Counted(owners, item, NoneOf, locals, thrown, owedRef, globals, messages, handled)
  BY DEF JniIInv, HoldersTyped, OwnersExact
<1>4. /\ w \in [JniThreads -> MaybeValue] /\ w[t] = Null /\ ButAt(JniThreads, t, owedRef, w)
  BY <1>1, <1>3, OneHolder DEF MaybeValue
<1>5. Counted(owners, item, Only1(v), locals, thrown, w, globals, messages, handled)
  <2>1. \A u \in Values :
          Others(locals, thrown, w, globals, messages, handled, u) + Fields(item, u) + Only1(v)[u]
            = Others(locals, thrown, owedRef, globals, messages, handled, u) + Fields(item, u)
                + NoneOf[u]
    <3> TAKE u \in Values
    <3>1. PICK a \in Nat, b \in Nat, c \in Nat :
            /\ a = Others(locals, thrown, w, globals, messages, handled, u)
            /\ b = Fields(item, u) /\ c = Same(v, u)
      <4>1. Same(v, u) \in Nat
        BY DEF Same
      <4> QED
        BY <1>3, <4>1, OthersNat, FieldsNat
    <3>2. PICK d \in Nat : d = Others(locals, thrown, owedRef, globals, messages, handled, u)
      BY <1>3, OthersNat
    <3>3. a = d - c
      <4>1. Others(locals, thrown, w, globals, messages, handled, u)
              = Others(locals, thrown, owedRef, globals, messages, handled, u)
                  - Same(owedRef[t], u) + Same(w[t], u)
        BY <1>3, <1>4, OthersHolders
      <4>2. Same(owedRef[t], u) = c /\ Same(w[t], u) = 0
        BY <1>1, <1>4, <3>1, NullIsNoValue DEF Same
      <4> QED
        BY <3>1, <3>2, <4>1, <4>2
    <3>4. Only1(v)[u] = c /\ NoneOf[u] = 0
      <4>1. Same(u, v) = Same(v, u)
        BY DEF Same
      <4> QED
        BY <3>1, <4>1, Only1At, NoneAt
    <3>5. a + b + c = d + b + 0
      BY <3>3
    <3> QED
      BY <3>1, <3>2, <3>4, <3>5
  <2>2. item \in [Values -> MaybeValue] /\ \A u \in Values : owners[u] = 0 => item[u] = Null
    BY <1>3 DEF Counted
  <2> QED
    BY <1>3, <2>1, <2>2, Only1At, OwnersMove
<1>6. Counted(r.owners, r.item, NoneOf, locals, thrown, w, globals, messages, handled)
  BY <1>1, <1>5, ReleaseLeaves
<1>7. OwnersExact'
  BY <1>1, <1>2, <1>6 DEF OwnersExact, NoneOf
<1>8. HoldersTyped' /\ FramesKept'
  BY <1>1, <1>2, <1>3, <1>4 DEF HoldersTyped, FramesKept, JniIInv
<1> QED
  BY <1>7, <1>8 DEF JniIInv

LEMMA SetObjectArrayElementKeeps ==
  ASSUME JniIInv, NEW t \in JniThreads, NEW x \in Values, NEW v \in Values \union {Null},
         SetObjectArrayElement(t, x, v)
  PROVE  JniIInv'
<1>1. PICK old, w, j :
        /\ old = item[x] /\ w = [owedRef EXCEPT ![t] = old] /\ owedRef' = w
        /\ j = [item EXCEPT ![x] = v] /\ item' = j /\ owners' = RetainedRef(owners, v)
  BY DEF SetObjectArrayElement
<1>2. /\ locals' = locals /\ marks' = marks /\ promised' = promised /\ globals' = globals
      /\ messages' = messages /\ handled' = handled /\ thrown' = thrown /\ owedRef[t] = Null
      /\ x \in Known(t)
  BY DEF SetObjectArrayElement, ownRefs, sharedRefs, Calls
<1>3. /\ HoldersTyped /\ owedRef \in [JniThreads -> MaybeValue] /\ messages \in Seq(Values)
      /\ Counted(owners, item, NoneOf, locals, thrown, owedRef, globals, messages, handled)
      /\ v \in MaybeValue
  BY DEF JniIInv, HoldersTyped, OwnersExact, MaybeValue
<1>4. /\ owners \in [Values -> Nat] /\ item \in [Values -> MaybeValue] /\ old \in MaybeValue
      /\ \A u \in Values : owners[u] = 0 => item[u] = Null
  BY <1>1, <1>3 DEF Counted
<1>5. owners[x] > 0
  BY <1>2, KnownIsOwned
<1>6. /\ w \in [JniThreads -> MaybeValue] /\ w[t] = old /\ ButAt(JniThreads, t, owedRef, w)
  BY <1>1, <1>3, <1>4, OneHolder
<1>7. /\ j \in [Values -> MaybeValue] /\ j[x] = v /\ ButAt(Values, x, item, j)
  BY <1>1, <1>3, <1>4 DEF ButAt
<1>8. PICK o : /\ o = RetainedRef(owners, v) /\ \A u \in Values : o[u] = owners[u] + Same(u, v)
               /\ Counted(o, item, Only1(v), locals, thrown, owedRef, globals, messages, handled)
  BY <1>3, <1>4, RetainCounts, RetainedAt
<1>9. Counted(o, j, NoneOf, locals, thrown, w, globals, messages, handled)
  <2>1. \A u \in Values :
          Others(locals, thrown, w, globals, messages, handled, u) + Fields(j, u) + NoneOf[u]
            = Others(locals, thrown, owedRef, globals, messages, handled, u) + Fields(item, u)
                + Only1(v)[u]
    <3> TAKE u \in Values
    <3>1. PICK a \in Nat, b \in Nat, c \in Nat, d \in Nat :
            /\ a = Others(locals, thrown, owedRef, globals, messages, handled, u)
            /\ b = Fields(item, u) /\ c = Same(v, u) /\ d = Same(old, u)
      <4>1. Same(v, u) \in Nat /\ Same(old, u) \in Nat
        BY DEF Same
      <4> QED
        BY <1>3, <4>1, OthersNat, FieldsNat
    <3>2. Others(locals, thrown, w, globals, messages, handled, u) = a + d
      <4>1. Others(locals, thrown, w, globals, messages, handled, u)
              = Others(locals, thrown, owedRef, globals, messages, handled, u)
                  - Same(owedRef[t], u) + Same(w[t], u)
        BY <1>3, <1>6, OthersHolders
      <4>2. Same(owedRef[t], u) = 0 /\ Same(w[t], u) = d
        BY <1>2, <1>6, <3>1, NullIsNoValue DEF Same
      <4> QED
        BY <3>1, <4>1, <4>2
    <3>3. Fields(j, u) = b - d + c
      <4>1. Fields(j, u) = Fields(item, u) - Same(item[x], u) + Same(j[x], u)
        BY <1>7, FieldsMove
      <4>2. item[x] = old /\ j[x] = v
        BY <1>1, <1>7
      <4> QED
        BY <3>1, <4>1, <4>2
    <3>4. Only1(v)[u] = c /\ NoneOf[u] = 0
      <4>1. Same(u, v) = Same(v, u)
        BY DEF Same
      <4> QED
        BY <3>1, <4>1, Only1At, NoneAt
    <3>5. (a + d) + (b - d + c) + 0 = a + b + c
      OBVIOUS
    <3> QED
      BY <3>1, <3>2, <3>3, <3>4, <3>5
  <2>2. \A u \in Values : o[u] = 0 => j[u] = Null
    <3> TAKE u \in Values
    <3>1. owners[u] \in Nat /\ Same(u, v) \in Nat /\ o[u] = owners[u] + Same(u, v)
      BY <1>4, <1>8 DEF Same
    <3>2. o[u] = 0 => owners[u] = 0
      BY <3>1
    <3>3. u # x => j[u] = item[u]
      BY <1>7 DEF ButAt
    <3> QED
      BY <1>4, <1>5, <3>2, <3>3
  <2> QED
    BY <1>3, <1>7, <1>8, <2>1, <2>2, NoneAt, OwnersMove
<1>10. OwnersExact'
  BY <1>1, <1>2, <1>8, <1>9 DEF OwnersExact, NoneOf
<1>11. HoldersTyped' /\ FramesKept'
  BY <1>1, <1>2, <1>3, <1>6 DEF HoldersTyped, FramesKept, JniIInv
<1> QED
  BY <1>10, <1>11 DEF JniIInv

LEMMA SetPendingExceptionKeeps ==
  ASSUME JniIInv, NEW t \in JniThreads, NEW v \in Values \union {Null}, SetPendingException(t, v)
  PROVE  JniIInv'
<1>1. PICK o, old, r, w :
        /\ old = thrown[t] /\ o = RetainedRef(owners, v) /\ r \in Released(o, item, Only1(old))
        /\ owners' = r.owners /\ item' = r.item /\ w = [thrown EXCEPT ![t] = v] /\ thrown' = w
  BY DEF SetPendingException, ReleasedOne, RefsBecome
<1>2. /\ locals' = locals /\ marks' = marks /\ promised' = promised /\ globals' = globals
      /\ messages' = messages /\ handled' = handled /\ owedRef' = owedRef
  BY DEF SetPendingException, ownRefs, sharedRefs
<1>3. /\ HoldersTyped /\ thrown \in [JniThreads -> MaybeValue] /\ messages \in Seq(Values)
      /\ Counted(owners, item, NoneOf, locals, thrown, owedRef, globals, messages, handled)
      /\ v \in MaybeValue
  BY DEF JniIInv, HoldersTyped, OwnersExact, MaybeValue
<1>4. Counted(o, item, Only1(v), locals, thrown, owedRef, globals, messages, handled)
  BY <1>1, <1>3, RetainCounts
<1>5. /\ w \in [JniThreads -> MaybeValue] /\ w[t] = v /\ ButAt(JniThreads, t, thrown, w)
  BY <1>1, <1>3, OneHolder
<1>6. Counted(o, item, Only1(old), locals, w, owedRef, globals, messages, handled)
  <2>1. \A u \in Values :
          Others(locals, w, owedRef, globals, messages, handled, u) + Fields(item, u) + Only1(old)[u]
            = Others(locals, thrown, owedRef, globals, messages, handled, u) + Fields(item, u)
                + Only1(v)[u]
    <3> TAKE u \in Values
    <3>1. PICK a \in Nat, b \in Nat, c \in Nat, d \in Nat, e \in Nat :
            /\ a = Others(locals, thrown, owedRef, globals, messages, handled, u)
            /\ b = Fields(item, u) /\ c = Same(v, u) /\ d = Same(old, u)
            /\ e = Others(locals, w, owedRef, globals, messages, handled, u)
      <4>1. Same(v, u) \in Nat /\ Same(old, u) \in Nat
        BY DEF Same
      <4> QED
        BY <1>3, <4>1, OthersNat, FieldsNat
    <3>2. e = a - d + c
      <4>1. Others(locals, w, owedRef, globals, messages, handled, u)
              = Others(locals, thrown, owedRef, globals, messages, handled, u)
                  - Same(thrown[t], u) + Same(w[t], u)
        BY <1>3, <1>5, OthersHolders
      <4> QED
        BY <1>1, <1>5, <3>1, <4>1
    <3>3. Only1(v)[u] = c /\ Only1(old)[u] = d
      <4>1. Same(u, v) = Same(v, u) /\ Same(u, old) = Same(old, u)
        BY DEF Same
      <4> QED
        BY <3>1, <4>1, Only1At
    <3>4. e + b + d = a + b + c
      BY <3>2
    <3> QED
      BY <3>1, <3>3, <3>4
  <2>2. item \in [Values -> MaybeValue] /\ \A u \in Values : o[u] = 0 => item[u] = Null
    BY <1>4 DEF Counted
  <2>3. Only1(old) \in [Values -> Nat] /\ messages \in Seq(Values)
    BY <1>3, Only1At
  <2> QED
    BY <1>4, <2>1, <2>2, <2>3, OwnersMove
<1>7. Counted(r.owners, r.item, NoneOf, locals, w, owedRef, globals, messages, handled)
  BY <1>1, <1>6, ReleaseLeaves
<1>8. OwnersExact'
  BY <1>1, <1>2, <1>7 DEF OwnersExact, NoneOf
<1>9. HoldersTyped' /\ FramesKept'
  BY <1>1, <1>2, <1>3, <1>5 DEF HoldersTyped, FramesKept, JniIInv
<1> QED
  BY <1>8, <1>9 DEF JniIInv

\* The queue and the message that is handled become others.
LEMMA MessagesMove ==
  ASSUME HoldersTyped, NEW o, NEW x, NEW y \in [Values -> Nat], NEW ns \in Seq(Values), NEW k,
         Counted(o, item, x, locals, thrown, owedRef, globals, messages, handled),
         \A u \in Values : CountIn(ns, u) + Same(k, u) + y[u]
                             = CountIn(messages, u) + Same(handled, u) + x[u]
  PROVE  Counted(o, item, y, locals, thrown, owedRef, globals, ns, k)
<1>1. messages \in Seq(Values) /\ x \in [Values -> Nat]
  BY DEF Counted
<1>2. ASSUME NEW u \in Values
      PROVE  Others(locals, thrown, owedRef, globals, ns, k, u) + Fields(item, u) + y[u]
               = Others(locals, thrown, owedRef, globals, messages, handled, u) + Fields(item, u)
                   + x[u]
  <2>1. PICK a \in Nat, b \in Nat, c \in Nat, d \in Nat, e \in Nat, f \in Nat :
          /\ a = Others(locals, thrown, owedRef, globals, messages, handled, u)
          /\ b = Fields(item, u) /\ c = CountIn(messages, u) /\ d = CountIn(ns, u)
          /\ e = Same(handled, u) /\ f = Same(k, u)
    <3>1. Same(handled, u) \in Nat /\ Same(k, u) \in Nat
      BY DEF Same
    <3>2. CountIn(messages, u) \in Nat /\ CountIn(ns, u) \in Nat
      BY <1>1, CountNat
    <3> QED
      BY <1>1, <3>1, <3>2, OthersNat, FieldsNat
  <2>2. PICK p \in Nat, q \in Nat : p = x[u] /\ q = y[u]
    BY <1>1
  <2>3. Others(locals, thrown, owedRef, globals, ns, k, u) = a - c + d - e + f
    BY <1>1, <2>1, OthersMessages
  <2>4. d + f + q = c + e + p
    BY <2>1, <2>2
  <2>5. (a - c + d - e + f) + b + q = a + b + p
    BY <2>4
  <2> QED
    BY <2>1, <2>2, <2>3, <2>5
<1>3. item \in [Values -> MaybeValue] /\ \A u \in Values : o[u] = 0 => item[u] = Null
  BY DEF Counted
<1> QED
  BY <1>2, <1>3, OwnersMove

LEMMA EnqueueHandlerMessageKeeps ==
  ASSUME JniIInv, NEW t \in JniThreads, NEW m \in Values, EnqueueHandlerMessage(t, m)
  PROVE  JniIInv'
<1>1. PICK o, ns : /\ o = RetainedRef(owners, m) /\ owners' = o
                   /\ ns = Append(messages, m) /\ messages' = ns
  BY DEF EnqueueHandlerMessage
<1>2. /\ locals' = locals /\ marks' = marks /\ promised' = promised /\ globals' = globals
      /\ item' = item /\ handled' = handled /\ owedRef' = owedRef /\ thrown' = thrown
  BY DEF EnqueueHandlerMessage, ownRefs
<1>3. /\ HoldersTyped /\ messages \in Seq(Values) /\ m \in MaybeValue
      /\ Counted(owners, item, NoneOf, locals, thrown, owedRef, globals, messages, handled)
  BY DEF JniIInv, HoldersTyped, OwnersExact, MaybeValue
<1>4. Counted(o, item, Only1(m), locals, thrown, owedRef, globals, messages, handled)
  BY <1>1, <1>3, RetainCounts
<1>5. ns \in Seq(Values) /\ \A u : CountIn(ns, u) = CountIn(messages, u) + Same(m, u)
  BY <1>1, <1>3, CountAppend
<1>6. \A u \in Values : CountIn(ns, u) + Same(handled, u) + NoneOf[u]
                          = CountIn(messages, u) + Same(handled, u) + Only1(m)[u]
  <2> TAKE u \in Values
  <2>1. PICK a \in Nat, b \in Nat, c \in Nat :
          a = CountIn(messages, u) /\ b = Same(m, u) /\ c = Same(handled, u)
    <3>1. Same(m, u) \in Nat /\ Same(handled, u) \in Nat
      BY DEF Same
    <3>2. CountIn(messages, u) \in Nat
      BY <1>3, CountNat
    <3> QED
      BY <3>1, <3>2
  <2>2. Only1(m)[u] = b /\ NoneOf[u] = 0
    <3>1. Same(u, m) = Same(m, u)
      BY DEF Same
    <3> QED
      BY <2>1, <3>1, Only1At, NoneAt
  <2>3. CountIn(ns, u) = a + b
    BY <1>5, <2>1
  <2>4. (a + b) + c + 0 = a + c + b
    OBVIOUS
  <2> QED
    BY <2>1, <2>2, <2>3, <2>4
<1>7. Counted(o, item, NoneOf, locals, thrown, owedRef, globals, ns, handled)
  BY <1>3, <1>4, <1>5, <1>6, NoneAt, MessagesMove
<1>8. OwnersExact'
  BY <1>1, <1>2, <1>7 DEF OwnersExact, NoneOf
<1>9. HoldersTyped' /\ FramesKept'
  BY <1>1, <1>2, <1>3, <1>5 DEF HoldersTyped, FramesKept, JniIInv
<1> QED
  BY <1>8, <1>9 DEF JniIInv

LEMMA TakeMessageKeeps ==
  ASSUME JniIInv, TakeMessage
  PROVE  JniIInv'
<1>1. PICK ns, k : /\ ns = Tail(messages) /\ k = Head(messages) /\ messages' = ns
                   /\ handled' = k /\ handled = Null /\ messages # <<>>
  BY DEF TakeMessage
<1>2. /\ locals' = locals /\ marks' = marks /\ promised' = promised /\ globals' = globals
      /\ item' = item /\ owners' = owners /\ owedRef' = owedRef /\ thrown' = thrown
  BY DEF TakeMessage, ownRefs
<1>3. /\ HoldersTyped /\ messages \in Seq(Values)
      /\ Counted(owners, item, NoneOf, locals, thrown, owedRef, globals, messages, handled)
  BY DEF JniIInv, HoldersTyped, OwnersExact
<1>4. ns \in Seq(Values) /\ k \in Values
  BY <1>1, <1>3
<1>5. \A u \in Values : CountIn(ns, u) + Same(k, u) + NoneOf[u]
                          = CountIn(messages, u) + Same(handled, u) + NoneOf[u]
  <2> TAKE u \in Values
  <2>1. CountIn(messages, u) = CountIn(ns, u) + Same(k, u)
    BY <1>1, <1>3, CountTail
  <2>2. Same(handled, u) = 0 /\ NoneOf[u] = 0
    BY <1>1, NullIsNoValue, NoneAt DEF Same
  <2>3. CountIn(ns, u) \in Nat /\ Same(k, u) \in Nat
    BY <1>4, CountNat DEF Same
  <2> QED
    BY <2>1, <2>2, <2>3
<1>6. Counted(owners, item, NoneOf, locals, thrown, owedRef, globals, ns, k)
  BY <1>3, <1>4, <1>5, NoneAt, MessagesMove
<1>7. OwnersExact'
  BY <1>1, <1>2, <1>6 DEF OwnersExact, NoneOf
<1>8. HoldersTyped' /\ FramesKept'
  BY <1>1, <1>2, <1>3, <1>4 DEF HoldersTyped, FramesKept, JniIInv, MaybeValue
<1> QED
  BY <1>7, <1>8 DEF JniIInv

LEMMA DispatchHandlerMessageKeeps ==
  ASSUME JniIInv, DispatchHandlerMessage
  PROVE  JniIInv'
<1>1. PICK r : /\ r \in Released(owners, item, Only1(handled))
               /\ owners' = r.owners /\ item' = r.item /\ handled' = Null
  BY DEF DispatchHandlerMessage, ReleasedOne, RefsBecome
<1>2. /\ locals' = locals /\ marks' = marks /\ promised' = promised /\ globals' = globals
      /\ messages' = messages /\ owedRef' = owedRef /\ thrown' = thrown
  BY DEF DispatchHandlerMessage, ownRefs
<1>3. /\ HoldersTyped /\ messages \in Seq(Values)
      /\ Counted(owners, item, NoneOf, locals, thrown, owedRef, globals, messages, handled)
  BY DEF JniIInv, HoldersTyped, OwnersExact
<1>4. \A u \in Values : CountIn(messages, u) + Same(Null, u) + Only1(handled)[u]
                          = CountIn(messages, u) + Same(handled, u) + NoneOf[u]
  <2> TAKE u \in Values
  <2>1. Same(Null, u) = 0 /\ NoneOf[u] = 0 /\ Only1(handled)[u] = Same(handled, u)
    <3>1. Same(u, handled) = Same(handled, u)
      BY DEF Same
    <3>2. Same(Null, u) = 0
      BY NullIsNoValue DEF Same
    <3> QED
      BY <3>1, <3>2, NoneAt, Only1At
  <2>2. CountIn(messages, u) \in Nat /\ Same(handled, u) \in Nat
    BY <1>3, CountNat DEF Same
  <2> QED
    BY <2>1, <2>2
<1>5. Counted(owners, item, Only1(handled), locals, thrown, owedRef, globals, messages, Null)
  BY <1>3, <1>4, Only1At, MessagesMove
<1>6. Counted(r.owners, r.item, NoneOf, locals, thrown, owedRef, globals, messages, Null)
  BY <1>1, <1>5, ReleaseLeaves
<1>7. OwnersExact'
  BY <1>1, <1>2, <1>6 DEF OwnersExact, NoneOf
<1>8. HoldersTyped' /\ FramesKept'
  BY <1>1, <1>2, <1>3 DEF HoldersTyped, FramesKept, JniIInv, MaybeValue
<1> QED
  BY <1>7, <1>8 DEF JniIInv

\* The table of global references and the owedRef values become others.
LEMMA GlobalsMove ==
  ASSUME HoldersTyped, NEW o, NEW x, NEW gs, NEW w,
         Counted(o, item, x, locals, thrown, owedRef, globals, messages, handled),
         NEW t \in JniThreads, ButAt(JniThreads, t, owedRef, w),
         \A u \in Values : Kept(gs[u]) + Same(w[t], u)
                             = Kept(globals[u]) + Same(owedRef[t], u) + x[u]
  PROVE  Counted(o, item, NoneOf, locals, thrown, w, gs, messages, handled)
<1>1. messages \in Seq(Values) /\ x \in [Values -> Nat]
  BY DEF Counted
<1>2. ASSUME NEW u \in Values
      PROVE  Others(locals, thrown, w, gs, messages, handled, u) + Fields(item, u) + NoneOf[u]
               = Others(locals, thrown, owedRef, globals, messages, handled, u) + Fields(item, u)
                   + x[u]
  <2>1. PICK a \in Nat, b \in Nat, c \in Nat, d \in Nat, e \in Nat, f \in Nat :
          /\ a = Others(locals, thrown, owedRef, globals, messages, handled, u)
          /\ b = Fields(item, u) /\ c = Kept(globals[u]) /\ d = Kept(gs[u])
          /\ e = Same(owedRef[t], u) /\ f = Same(w[t], u)
    <3>1. Same(owedRef[t], u) \in Nat /\ Same(w[t], u) \in Nat
      BY DEF Same
    <3>2. Kept(globals[u]) \in Nat /\ Kept(gs[u]) \in Nat
      BY DEF Kept
    <3> QED
      BY <1>1, <3>1, <3>2, OthersNat, FieldsNat
  <2>2. PICK p \in Nat : p = x[u]
    BY <1>1
  <2>3. Others(locals, thrown, w, globals, messages, handled, u) = a - e + f
    <3>1. Others(locals, thrown, w, globals, messages, handled, u)
            = Others(locals, thrown, owedRef, globals, messages, handled, u)
                - Same(owedRef[t], u) + Same(w[t], u)
      BY <1>1, OthersHolders
    <3> QED
      BY <2>1, <3>1
  <2>4. Others(locals, thrown, w, gs, messages, handled, u) = a - e + f - c + d
    <3>1. Others(locals, thrown, w, gs, messages, handled, u)
            = Others(locals, thrown, w, globals, messages, handled, u)
                - Kept(globals[u]) + Kept(gs[u])
      BY <1>1, OthersGlobals
    <3> QED
      BY <2>1, <2>3, <3>1
  <2>5. d + f = c + e + p
    BY <2>1, <2>2
  <2>6. (a - e + f - c + d) + b + 0 = a + b + p
    BY <2>5
  <2> QED
    BY <2>1, <2>2, <2>4, <2>6, NoneAt
<1>3. item \in [Values -> MaybeValue] /\ \A u \in Values : o[u] = 0 => item[u] = Null
  BY DEF Counted
<1>4. /\ o \in [Values -> Nat]
      /\ \A u \in Values :
           o[u] = Others(locals, thrown, owedRef, globals, messages, handled, u) + Fields(item, u)
                    + x[u]
  BY DEF Counted
<1>5. \A u \in Values :
        o[u] = Others(locals, thrown, w, gs, messages, handled, u) + Fields(item, u) + NoneOf[u]
  BY <1>2, <1>4
<1>6. NoneOf \in [Values -> Nat]
  BY NoneAt
<1> QED
  BY <1>1, <1>3, <1>4, <1>5, <1>6 DEF Counted

LEMMA NewGlobalRefKeeps ==
  ASSUME JniIInv, NEW t \in JniThreads, NEW v \in Values, NewGlobalRef(t, v)
  PROVE  JniIInv'
<1>1. PICK gs : gs = [globals EXCEPT ![v] = @ + 1] /\ globals' = gs
  BY DEF NewGlobalRef
<1>2. /\ locals' = locals /\ marks' = marks /\ promised' = promised /\ messages' = messages
      /\ item' = item /\ handled' = handled /\ owedRef' = owedRef /\ thrown' = thrown
  BY DEF NewGlobalRef, ownRefs
<1>3. /\ HoldersTyped /\ messages \in Seq(Values) /\ v \in MaybeValue
      /\ globals \in [Values -> Nat]
      /\ Counted(owners, item, NoneOf, locals, thrown, owedRef, globals, messages, handled)
  BY DEF JniIInv, HoldersTyped, OwnersExact, MaybeValue
<1>4. /\ gs \in [Values -> Nat] /\ gs[v] = globals[v] + 1
      /\ \A u \in Values : u # v => gs[u] = globals[u]
  BY <1>1, <1>3
<1>5. ButAt(JniThreads, t, owedRef, owedRef) /\ Kept(gs[v]) = 1 /\ globals[v] \in Nat
  BY <1>3, <1>4 DEF ButAt, Kept
<1>6. Counted(owners', item, NoneOf, locals, thrown, owedRef, gs, messages, handled)
  <2>1. CASE globals[v] > 0 /\ owners' = owners
    <3>1. Kept(globals[v]) = 1
      BY <2>1 DEF Kept
    <3>2. ASSUME NEW u \in Values
          PROVE  Kept(gs[u]) + Same(owedRef[t], u) = Kept(globals[u]) + Same(owedRef[t], u) + NoneOf[u]
      <4>1. Kept(gs[u]) = Kept(globals[u])
        BY <1>4, <1>5, <3>1
      <4>2. Kept(globals[u]) \in Nat /\ Same(owedRef[t], u) \in Nat
        BY DEF Kept, Same
      <4> QED
        BY <4>1, <4>2, NoneAt
    <3> QED
      BY <1>3, <1>5, <2>1, <3>2, GlobalsMove
  <2>2. CASE globals[v] = 0 /\ owners' = RetainedRef(owners, v)
    <3>1. Counted(owners', item, Only1(v), locals, thrown, owedRef, globals, messages, handled)
      BY <1>3, <2>2, RetainCounts
    <3>2. ASSUME NEW u \in Values
          PROVE  Kept(gs[u]) + Same(owedRef[t], u)
                   = Kept(globals[u]) + Same(owedRef[t], u) + Only1(v)[u]
      <4>1. Only1(v)[u] = Same(u, v) /\ Kept(globals[v]) = 0
        BY <2>2, Only1At DEF Kept
      <4>2. Kept(globals[u]) \in Nat /\ Same(owedRef[t], u) \in Nat
        BY DEF Kept, Same
      <4>3. CASE u = v
        <5>1. Only1(v)[u] = 1 /\ Kept(gs[u]) = 1 /\ Kept(globals[u]) = 0
          BY <1>5, <4>1, <4>3 DEF Same
        <5> QED
          BY <4>2, <5>1
      <4>4. CASE u # v
        <5>1. Only1(v)[u] = 0 /\ Kept(gs[u]) = Kept(globals[u])
          BY <1>4, <4>1, <4>4 DEF Same
        <5> QED
          BY <4>2, <5>1
      <4> QED
        BY <4>3, <4>4
    <3> QED
      BY <1>3, <1>5, <3>1, <3>2, GlobalsMove
  <2> QED
    BY <2>1, <2>2 DEF NewGlobalRef
<1>7. OwnersExact'
  BY <1>1, <1>2, <1>6 DEF OwnersExact, NoneOf
<1>8. HoldersTyped' /\ FramesKept'
  BY <1>1, <1>2, <1>3, <1>4 DEF HoldersTyped, FramesKept, JniIInv
<1> QED
  BY <1>7, <1>8 DEF JniIInv

LEMMA DeleteGlobalRefKeeps ==
  ASSUME JniIInv, NEW t \in JniThreads, NEW v \in Values, DeleteGlobalRef(t, v)
  PROVE  JniIInv'
<1>1. PICK gs, x, w :
        /\ gs = [globals EXCEPT ![v] = @ - 1] /\ globals' = gs
        /\ x = (IF globals[v] = 1 THEN v ELSE Null) /\ w = [owedRef EXCEPT ![t] = x] /\ owedRef' = w
  BY DEF DeleteGlobalRef
<1>2. /\ locals' = locals /\ marks' = marks /\ promised' = promised /\ messages' = messages
      /\ item' = item /\ handled' = handled /\ owners' = owners /\ thrown' = thrown
      /\ globals[v] > 0 /\ owedRef[t] = Null
  BY DEF DeleteGlobalRef, ownRefs, Calls
<1>3. /\ HoldersTyped /\ messages \in Seq(Values) /\ x \in MaybeValue
      /\ globals \in [Values -> Nat] /\ owedRef \in [JniThreads -> MaybeValue]
      /\ Counted(owners, item, NoneOf, locals, thrown, owedRef, globals, messages, handled)
  BY <1>1 DEF JniIInv, HoldersTyped, OwnersExact, MaybeValue
<1>4. /\ gs \in [Values -> Nat] /\ gs[v] = globals[v] - 1
      /\ \A u \in Values : u # v => gs[u] = globals[u]
  <2>1. globals[v] - 1 \in Nat
    BY <1>2, <1>3
  <2> QED
    BY <1>1, <1>3, <2>1
<1>5. /\ w \in [JniThreads -> MaybeValue] /\ w[t] = x /\ ButAt(JniThreads, t, owedRef, w)
  BY <1>1, <1>3, OneHolder
<1>6. ASSUME NEW u \in Values
      PROVE  Kept(gs[u]) + Same(w[t], u) = Kept(globals[u]) + Same(owedRef[t], u) + NoneOf[u]
  <2>1. Same(owedRef[t], u) = 0 /\ NoneOf[u] = 0 /\ Same(Null, u) = 0
    BY <1>2, NullIsNoValue, NoneAt DEF Same
  <2>2. Kept(globals[u]) \in Nat /\ Kept(gs[u]) = Kept(gs[u]) + 0
    BY DEF Kept
  <2>3. CASE u # v
    <3>1. Kept(gs[u]) = Kept(globals[u]) /\ Same(w[t], u) = 0
      <4>1. x # u
        BY <1>1, <2>3, NullIsNoValue
      <4> QED
        BY <1>4, <1>5, <2>3, <4>1 DEF Same
    <3> QED
      BY <2>1, <2>2, <3>1
  <2>4. CASE u = v /\ globals[v] = 1
    <3>1. Kept(gs[u]) = 0 /\ Kept(globals[u]) = 1 /\ Same(w[t], u) = 1
      BY <1>1, <1>4, <1>5, <2>4 DEF Kept, Same
    <3> QED
      BY <2>1, <3>1
  <2>5. CASE u = v /\ globals[v] # 1
    <3>1. globals[v] \in Nat /\ globals[v] - 1 > 0
      BY <1>2, <1>3, <2>5
    <3>2. Kept(gs[u]) = 1 /\ Kept(globals[u]) = 1
      BY <1>2, <1>4, <2>5, <3>1 DEF Kept
    <3>3. Same(w[t], u) = 0
      BY <1>1, <1>5, <2>1, <2>5
    <3> QED
      BY <2>1, <3>2, <3>3
  <2> QED
    BY <2>3, <2>4, <2>5
<1>7. Counted(owners, item, NoneOf, locals, thrown, w, gs, messages, handled)
  BY <1>3, <1>5, <1>6, GlobalsMove
<1>8. OwnersExact'
  BY <1>1, <1>2, <1>7 DEF OwnersExact, NoneOf
<1>9. HoldersTyped' /\ FramesKept'
  BY <1>1, <1>2, <1>3, <1>4, <1>5 DEF HoldersTyped, FramesKept, JniIInv
<1> QED
  BY <1>8, <1>9 DEF JniIInv

LEMMA PushLocalFrameKeeps ==
  ASSUME JniIInv, NEW t \in JniThreads, PushLocalFrame(t)
  PROVE  JniIInv'
<1>1. /\ marks' = [marks EXCEPT ![t] = Append(marks[t], Len(locals[t]))]
      /\ promised' = [promised EXCEPT ![t] = Append(promised[t], Last(promised[t]))]
      /\ owners' = owners /\ item' = item /\ locals' = locals /\ globals' = globals
      /\ messages' = messages /\ handled' = handled /\ thrown' = thrown /\ owedRef' = owedRef
  BY DEF PushLocalFrame, sharedRefs
<1>2. /\ locals \in [JniThreads -> Seq(Values)] /\ marks[t] \in Seq(Nat)
      /\ promised[t] \in Seq([Values -> Nat]) /\ FramesFit(locals[t], marks[t], promised[t])
      /\ locals[t] \in Seq(Values)
  BY DEF JniIInv, FramesKept, HoldersTyped
<1>3. /\ Append(marks[t], Len(locals[t])) \in Seq(Nat)
      /\ Append(promised[t], Last(promised[t])) \in Seq([Values -> Nat])
      /\ FramesFit(locals[t], Append(marks[t], Len(locals[t])),
                   Append(promised[t], Last(promised[t])))
  BY <1>2, FramesPush
<1>4. locals' = [locals EXCEPT ![t] = locals[t]]
  BY <1>1, <1>2
<1>5. FramesKept'
  BY <1>1, <1>3, <1>4, FramesBecome
<1>6. HoldersTyped' /\ OwnersExact'
  BY <1>1 DEF JniIInv, HoldersTyped, OwnersExact, NoneOf
<1> QED
  BY <1>5, <1>6 DEF JniIInv

\* A thread's table becomes another, and what it gains or loses is owned elsewhere.
LEMMA SameTable ==
  ASSUME HoldersTyped, NEW t \in JniThreads
  PROVE  IsTable(locals, t, locals[t])
BY DEF HoldersTyped, IsTable, ButAt

LEMMA TableMoves ==
  ASSUME HoldersTyped, NEW t \in JniThreads, NEW s, NEW l, IsTable(l, t, s),
         NEW s2, NEW l2, IsTable(l2, t, s2), NEW y \in [Values -> Nat],
         NEW o, NEW i, NEW x, NEW th, NEW ow, NEW g, NEW ms, NEW h,
         Counted(o, i, x, l, th, ow, g, ms, h),
         \A u \in Values : CountIn(s2, u) + y[u] = CountIn(s, u) + x[u]
  PROVE  Counted(o, i, y, l2, th, ow, g, ms, h)
<1>1. /\ ms \in Seq(Values) /\ x \in [Values -> Nat] /\ i \in [Values -> MaybeValue]
      /\ \A u \in Values : o[u] = 0 => i[u] = Null
  BY DEF Counted
<1>2. ASSUME NEW u \in Values
      PROVE  Others(l2, th, ow, g, ms, h, u) + Fields(i, u) + y[u]
               = Others(l, th, ow, g, ms, h, u) + Fields(i, u) + x[u]
  <2>1. PICK a \in Nat, b \in Nat, c \in Nat, d \in Nat, e \in Nat, p \in Nat, q \in Nat :
          /\ a = Others(locals, th, ow, g, ms, h, u) /\ b = Fields(i, u)
          /\ c = CountIn(locals[t], u) /\ d = CountIn(s, u) /\ e = CountIn(s2, u)
          /\ p = x[u] /\ q = y[u]
    <3>1. CountIn(locals[t], u) \in Nat /\ CountIn(s, u) \in Nat /\ CountIn(s2, u) \in Nat
      <4>1. CountIn(locals[t], u) \in Nat /\ CountIn(s, u) \in Nat
        BY <1>1, TableOwners
      <4>2. CountIn(s2, u) \in Nat
        BY <1>1, TableOwners
      <4> QED
        BY <4>1, <4>2
    <3>2. x[u] \in Nat /\ y[u] \in Nat
      BY <1>1
    <3> QED
      BY <1>1, <3>1, <3>2, OthersNat, FieldsNat
  <2>2. Others(l, th, ow, g, ms, h, u) = a - c + d
    BY <1>1, <2>1, TableOwners
  <2>3. Others(l2, th, ow, g, ms, h, u) = a - c + e
    BY <1>1, <2>1, TableOwners
  <2>4. e + q = d + p
    BY <2>1
  <2>5. (a - c + e) + b + q = (a - c + d) + b + p
    BY <2>4
  <2> QED
    BY <2>1, <2>2, <2>3, <2>5
<1>3. /\ o \in [Values -> Nat]
      /\ \A u \in Values : o[u] = Others(l, th, ow, g, ms, h, u) + Fields(i, u) + x[u]
  BY DEF Counted
<1>4. \A u \in Values : o[u] = Others(l2, th, ow, g, ms, h, u) + Fields(i, u) + y[u]
  BY <1>2, <1>3
<1> QED
  BY <1>1, <1>3, <1>4 DEF Counted

LEMMA DeleteLocalRefKeeps ==
  ASSUME JniIInv, NEW t \in JniThreads, NEW v \in Values, NEW d, DeleteLocalRef(t, v, d)
  PROVE  JniIInv'
<1>1. PICK s, m, p : s = locals[t] /\ m = marks[t] /\ p = promised[t]
  OBVIOUS
<1>2. /\ s \in Seq(Values) /\ m \in Seq(Nat) /\ p \in Seq([Values -> Nat])
      /\ FramesFit(s, m, p) /\ HoldersTyped /\ OwnersExact /\ FramesKept
      /\ Len(s) <= MaxLocals /\ messages \in Seq(Values)
      /\ locals \in [JniThreads -> Seq(Values)] /\ marks \in [JniThreads -> Seq(Nat)]
      /\ promised \in [JniThreads -> Seq([Values -> Nat])]
  BY <1>1 DEF JniIInv, FramesKept, HoldersTyped
<1>3. PICK p2 : p2 = OneLess(p, d, v)
  OBVIOUS
<1>4. /\ globals' = globals /\ messages' = messages /\ handled' = handled
      /\ thrown' = thrown /\ owedRef' = owedRef /\ promised' = [promised EXCEPT ![t] = p2]
  <2>3. promised' = [promised EXCEPT ![t] = p2]
    BY <1>1, <1>3 DEF DeleteLocalRef
  <2> QED
    BY <2>3 DEF DeleteLocalRef, sharedRefs
<1>5. d \in 1 .. Len(p) /\ d \in Nat /\ p[d][v] > (IF d = 1 THEN 0 ELSE p[d - 1][v])
  BY <1>1, <1>2 DEF DeleteLocalRef
<1>6. /\ \A e \in 1 .. Len(p) : e >= d => p[e][v] >= 1
      /\ \E k \in 1 .. Len(s) : s[k] = v
  BY <1>2, <1>5, PromiseHolds
<1>a. p \in Seq([Values -> Nat]) /\ d \in Nat /\ HoldsFrom(p, d, v)
  BY <1>2, <1>5, <1>6 DEF HoldsFrom
<1>7. /\ p2 \in Seq([Values -> Nat]) /\ PromiseMoved(p, p2, d, v)
  BY <1>3, <1>a, PromiseMoves
<1>8. HasOwn(p, d, v)
  BY <1>5 DEF HasOwn
<1>9. PICK i \in 1 .. Len(s) :
        /\ s[i] = v /\ \A q \in 1 .. Len(s) : s[q] = v => q <= i
        /\ locals' = [locals EXCEPT ![t] = RemoveAt(s, i)]
        /\ marks' = [marks EXCEPT ![t] = MarksBelow(t, i)]
        /\ \E r \in Released(owners, item, Only1(v)) : owners' = r.owners /\ item' = r.item
  <2>1. {i \in DOMAIN locals[t] : locals[t][i] = v} # {}
    BY <1>1, <1>2, <1>6
  <2>2. PICK i \in DOMAIN locals[t] :
          /\ locals[t][i] = v /\ \A q \in {j \in DOMAIN locals[t] : locals[t][j] = v} : q <= i
          /\ locals' = [locals EXCEPT ![t] = RemoveAt(@, i)]
          /\ marks' = [marks EXCEPT ![t] = MarksBelow(t, i)]
          /\ \E r \in ReleasedOne(owners, item, v) : RefsBecome(r)
    BY <2>1 DEF DeleteLocalRef
  <2>3. \E r \in Released(owners, item, Only1(v)) : owners' = r.owners /\ item' = r.item
    BY <2>2 DEF ReleasedOne, RefsBecome
  <2>4. i \in 1 .. Len(s) /\ \A q \in 1 .. Len(s) : s[q] = v => q <= i
    BY <1>1, <1>2, <2>2
  <2>5. locals' = [locals EXCEPT ![t] = RemoveAt(s, i)]
    BY <1>1, <1>2, <2>2
  <2> QED
    BY <1>1, <2>2, <2>3, <2>4, <2>5
<1>b. PICK r \in Released(owners, item, Only1(v)) : owners' = r.owners /\ item' = r.item
  BY <1>9
<1>10. PICK m2 : m2 = MarksBelow(t, i)
  OBVIOUS
<1>11. m2 \in Seq(Nat) /\ MarksMoved(m, m2, i)
  <2>1. m2 = [k \in DOMAIN m |-> IF m[k] >= i THEN m[k] - 1 ELSE m[k]]
    BY <1>1, <1>10 DEF MarksBelow
  <2>2. i \in Nat \ {0}
    BY <1>9
  <2>3. /\ m2 \in Seq(Nat) /\ Len(m2) = Len(m)
        /\ \A k \in 1 .. Len(m) : m2[k] = IF m[k] >= i THEN m[k] - 1 ELSE m[k]
    BY <1>2, <2>1, <2>2, MarksMove
  <2> QED
    BY <2>3 DEF MarksMoved
<1>12. Youngest(s, i, v)
  BY <1>9 DEF Youngest
<1>13. Deletion(s, m, p, i, v, d, m2, p2)
  BY <1>2, <1>5, <1>7, <1>8, <1>9, <1>11, <1>12 DEF Deletion
<1>14. PICK s2, l2 : s2 = RemoveAt(s, i) /\ l2 = [locals EXCEPT ![t] = s2]
  OBVIOUS
<1>15. FramesFit(s2, m2, p2)
  BY <1>13, <1>14, FramesDelete
<1>16. /\ s2 \in Seq(Values) /\ Len(s2) = Len(s) - 1
       /\ \A u \in Values : CountIn(s2, u) = CountIn(s, u) - Same(v, u)
  <2>1. s2 \in Seq(Values) /\ Len(s2) = Len(s) - 1
    BY <1>2, <1>14, CountRemove
  <2>2. ASSUME NEW u \in Values
        PROVE  CountIn(s2, u) = CountIn(s, u) - Same(v, u)
    <3>1. \A n \in i .. Len(s) : Among(s2, n - 1, u) = Among(s, n, u) - Same(s[i], u)
      BY <1>2, <1>14, CountRemove
    <3>2. Len(s) \in i .. Len(s)
      BY <1>2
    <3> QED
      BY <1>9, <2>1, <3>1, <3>2 DEF CountIn
  <2> QED
    BY <2>1, <2>2
<1>17. FramesKept'
  <2>1. /\ locals' = [locals EXCEPT ![t] = s2] /\ marks' = [marks EXCEPT ![t] = m2]
        /\ promised' = [promised EXCEPT ![t] = p2]
    BY <1>4, <1>9, <1>10, <1>14
  <2> QED
    BY <1>7, <1>11, <1>15, <2>1, FramesBecome
<1>18. IsTable(l2, t, s2) /\ locals' = l2
  <2>1. Len(s2) <= MaxLocals
    BY <1>2, <1>16, JniAssumption
  <2> QED
    BY <1>2, <1>9, <1>14, <1>16, <2>1, TableBecomes
<1>19. Counted(owners, item, Only1(v), l2, thrown, owedRef, globals, messages, handled)
  <2>1. Counted(owners, item, NoneOf, locals, thrown, owedRef, globals, messages, handled)
    BY <1>2 DEF OwnersExact
  <2>2. \A u \in Values : CountIn(s2, u) + Only1(v)[u] = CountIn(s, u) + NoneOf[u]
    <3> TAKE u \in Values
    <3>1. PICK a \in Nat, b \in Nat : a = CountIn(s, u) /\ b = Same(v, u)
      <4>1. Same(v, u) \in Nat
        BY DEF Same
      <4> QED
        BY <1>2, <4>1, CountNat
    <3>2. CountIn(s2, u) = a - b
      BY <1>16, <3>1
    <3>3. Only1(v)[u] = b /\ NoneOf[u] = 0
      <4>1. Same(u, v) = Same(v, u)
        BY DEF Same
      <4> QED
        BY <3>1, <4>1, Only1At, NoneAt
    <3>4. (a - b) + b = a + 0
      OBVIOUS
    <3> QED
      BY <3>1, <3>2, <3>3, <3>4
  <2>3. IsTable(locals, t, s)
    BY <1>1, <1>2, SameTable
  <2>4. Only1(v) \in [Values -> Nat] /\ HoldersTyped /\ IsTable(l2, t, s2)
    BY <1>2, <1>18, Only1At
  <2> QED
    BY <2>1, <2>2, <2>3, <2>4, TableMoves
<1>20. OwnersExact'
  <2>1. Counted(r.owners, r.item, NoneOf, l2, thrown, owedRef, globals, messages, handled)
    BY <1>b, <1>19, ReleaseLeaves
  <2> QED
    BY <1>4, <1>b, <1>18, <2>1 DEF OwnersExact, NoneOf
<1>21. HoldersTyped'
  BY <1>2, <1>4, <1>18 DEF HoldersTyped, IsTable
<1> QED
  BY <1>17, <1>20, <1>21 DEF JniIInv

-----------------------------------------------------------------------------
\* What PopLocalFrame finds: whether the frame has the result, and what goes with it.
PopHas(t, v) ==
  v # Null /\ \E k \in Last(marks[t]) + 1 .. Len(locals[t]) : locals[t][k] = v
PopKept(t) == SubSeq(locals[t], 1, Last(marks[t]))
PopLost(t, v) ==
  [u \in Values |-> CountIn(locals[t], u) - Among(locals[t], Last(marks[t]), u)
                      - (IF PopHas(t, v) THEN Same(u, v) ELSE 0)]

LEMMA PopSteps ==
  ASSUME NEW t, NEW v, PopLocalFrame(t, v)
  PROVE  \E r \in Released(owners, item, PopLost(t, v)) :
           \/ /\ v # Null /\ Last(marks[t]) < MaxLocals
              /\ owners' = (IF PopHas(t, v) THEN r.owners ELSE RetainedRef(r.owners, v))
              /\ item' = r.item
              /\ locals' = [locals EXCEPT ![t] = Append(PopKept(t), v)]
              /\ promised' = [promised EXCEPT ![t] = Relied(Front(promised[t]), v)]
           \/ /\ v = Null \/ (~PopHas(t, v) /\ ~(r.owners[v] > 0)) \/ ~(Last(marks[t]) < MaxLocals)
              /\ owners' = r.owners /\ item' = r.item
              /\ locals' = [locals EXCEPT ![t] = PopKept(t)]
              /\ promised' = [promised EXCEPT ![t] = Front(promised[t])]
BY DEF PopLocalFrame, PopHas, PopKept, PopLost, RefsBecome

LEMMA PopFrames ==
  ASSUME JniIInv, NEW t \in JniThreads, marks[t] # <<>>
  PROVE  /\ Last(marks[t]) \in 0 .. Len(locals[t]) /\ PopKept(t) \in Seq(Values)
         /\ Len(PopKept(t)) = Last(marks[t])
         /\ Front(marks[t]) \in Seq(Nat) /\ Front(promised[t]) \in Seq([Values -> Nat])
         /\ FramesFit(PopKept(t), Front(marks[t]), Front(promised[t]))
         /\ \A u \in Values : CountIn(PopKept(t), u) = Among(locals[t], Last(marks[t]), u)
<1>1. PICK s, m, p : s = locals[t] /\ m = marks[t] /\ p = promised[t]
  OBVIOUS
<1>2. /\ s \in Seq(Values) /\ m \in Seq(Nat) /\ p \in Seq([Values -> Nat])
      /\ FramesFit(s, m, p) /\ m # <<>>
  BY <1>1 DEF JniIInv, FramesKept, HoldersTyped
<1>3. PICK n : n = Last(m)
  OBVIOUS
<1>4. /\ n \in 0 .. Len(s) /\ Front(m) \in Seq(Nat) /\ Front(p) \in Seq([Values -> Nat])
      /\ FramesFit(SubSeq(s, 1, n), Front(m), Front(p))
  BY <1>2, <1>3, FramesPop
<1>5. PICK k : k = SubSeq(s, 1, n)
  OBVIOUS
<1>6. k \in Seq(Values) /\ Len(k) = n
  BY <1>2, <1>4, <1>5, CountSub
<1>7. ASSUME NEW u \in Values
      PROVE  CountIn(k, u) = Among(s, n, u)
  <2>1. \A j \in Int : j <= n => Among(k, j, u) = Among(s, j, u)
    BY <1>2, <1>4, <1>5, CountSub
  <2>2. n \in Int /\ n <= n
    BY <1>4
  <2>3. Among(k, n, u) = Among(s, n, u)
    BY <2>1, <2>2
  <2> QED
    BY <1>6, <2>3 DEF CountIn
<1>8. k = PopKept(t)
  BY <1>1, <1>3, <1>5 DEF PopKept
<1> QED
  BY <1>1, <1>3, <1>4, <1>5, <1>6, <1>7, <1>8

LEMMA PopLostAt ==
  ASSUME JniIInv, NEW t \in JniThreads, marks[t] # <<>>, NEW v \in MaybeValue
  PROVE  /\ PopLost(t, v) \in [Values -> Nat]
         /\ \A u \in Values : PopLost(t, v)[u] =
              CountIn(locals[t], u) - CountIn(PopKept(t), u)
                - (IF PopHas(t, v) THEN Same(u, v) ELSE 0)
<1>1. PICK s, n : s = locals[t] /\ n = Last(marks[t])
  OBVIOUS
<1>2. s \in Seq(Values) /\ Len(s) \in Nat
  BY <1>1 DEF JniIInv, HoldersTyped
<1>3. /\ n \in 0 .. Len(s) /\ n \in Nat
      /\ \A u \in Values : CountIn(PopKept(t), u) = Among(s, n, u)
  <2>1. n \in 0 .. Len(s) /\ \A u \in Values : CountIn(PopKept(t), u) = Among(s, n, u)
    BY <1>1, PopFrames
  <2> QED
    BY <1>2, <2>1
<1>4. ASSUME NEW u \in Values
      PROVE  CountIn(s, u) - Among(s, n, u) - (IF PopHas(t, v) THEN Same(u, v) ELSE 0) \in Nat
  <2>1. n \in Int /\ Len(s) \in Int /\ n <= Len(s)
    BY <1>2, <1>3
  <2>2. PICK a \in Nat, b \in Nat : a = Among(s, n, u) /\ b = CountIn(s, u)
    <3>1. Among(s, n, u) \in Nat /\ CountIn(s, u) \in Nat
      BY <2>1, AmongType DEF CountIn
    <3> QED
      BY <3>1
  <2>3. a <= b
    BY <2>1, <2>2, AmongMono DEF CountIn
  <2>4. CASE PopHas(t, v) /\ u = v
    <3>1. PICK k \in n + 1 .. Len(s) : s[k] = u
      BY <1>1, <2>4 DEF PopHas
    <3>2. Among(s, n, u) + 1 <= Among(s, Len(s), u)
      BY <1>2, <1>3, <3>1, AmongMore
    <3>3. a + 1 <= b
      BY <2>2, <3>2 DEF CountIn
    <3>4. b - a - 1 \in Nat
      BY <3>3
    <3>5. Same(u, v) = 1
      BY <2>4 DEF Same
    <3> QED
      BY <2>2, <2>4, <3>4, <3>5
  <2>5. CASE ~(PopHas(t, v) /\ u = v)
    <3>1. (IF PopHas(t, v) THEN Same(u, v) ELSE 0) = 0
      BY <2>5 DEF Same
    <3>2. b - a - 0 \in Nat
      BY <2>3
    <3> QED
      BY <2>2, <3>1, <3>2
  <2> QED
    BY <2>4, <2>5
<1>5. /\ PopLost(t, v) \in [Values -> Nat]
      /\ \A u \in Values : PopLost(t, v)[u] =
           CountIn(s, u) - Among(s, n, u) - (IF PopHas(t, v) THEN Same(u, v) ELSE 0)
  BY <1>1, <1>4 DEF PopLost
<1> QED
  BY <1>1, <1>3, <1>5

\* When the frame has gone, the rest of the table and what is lost are owned as before.
LEMMA PopLeaves ==
  ASSUME JniIInv, NEW t \in JniThreads, marks[t] # <<>>, NEW v \in MaybeValue,
         NEW s, NEW l, IsTable(l, t, s),
         s = IF PopHas(t, v) THEN Append(PopKept(t), v) ELSE PopKept(t),
         NEW r \in Released(owners, item, PopLost(t, v))
  PROVE  Counted(r.owners, r.item, NoneOf, l, thrown, owedRef, globals, messages, handled)
<1>1. PICK k, y : k = PopKept(t) /\ y = PopLost(t, v)
  OBVIOUS
<1>2. /\ HoldersTyped /\ locals[t] \in Seq(Values)
      /\ Counted(owners, item, NoneOf, locals, thrown, owedRef, globals, messages, handled)
  BY DEF JniIInv, HoldersTyped, OwnersExact
<1>3. /\ k \in Seq(Values) /\ y \in [Values -> Nat]
      /\ \A u \in Values : y[u] =
           CountIn(locals[t], u) - CountIn(k, u) - (IF PopHas(t, v) THEN Same(u, v) ELSE 0)
  BY <1>1, PopFrames, PopLostAt
<1>4. ASSUME NEW u \in Values
      PROVE  CountIn(s, u) + y[u] = CountIn(locals[t], u) + NoneOf[u]
  <2>1. PICK a \in Nat, b \in Nat, c \in Nat :
          a = CountIn(locals[t], u) /\ b = CountIn(k, u) /\ c = Same(u, v)
    <3>1. Same(u, v) \in Nat
      BY DEF Same
    <3> QED
      BY <1>2, <1>3, <3>1, CountNat
  <2>2. CASE PopHas(t, v)
    <3>1. v \in Values
      BY <2>2 DEF PopHas, MaybeValue
    <3>2. s = Append(k, v)
      BY <1>1, <2>2
    <3>3. CountIn(s, u) = b + Same(v, u)
      BY <1>3, <2>1, <3>1, <3>2, CountAppend
    <3>4. Same(v, u) = c
      BY <2>1 DEF Same
    <3>5. y[u] = a - b - c
      BY <1>3, <2>1, <2>2
    <3>6. (b + c) + (a - b - c) = a + 0
      OBVIOUS
    <3> QED
      BY <2>1, <3>3, <3>4, <3>5, <3>6, NoneAt
  <2>3. CASE ~PopHas(t, v)
    <3>1. s = k
      BY <1>1, <2>3
    <3>2. y[u] = a - b - 0
      BY <1>3, <2>1, <2>3
    <3>3. b + (a - b - 0) = a + 0
      OBVIOUS
    <3> QED
      BY <2>1, <3>1, <3>2, <3>3, NoneAt
  <2> QED
    BY <2>2, <2>3
<1>5. IsTable(locals, t, locals[t])
  BY <1>2, SameTable
<1>6. Counted(owners, item, y, l, thrown, owedRef, globals, messages, handled)
  BY <1>2, <1>3, <1>4, <1>5, TableMoves
<1>7. r \in Released(owners, item, y)
  BY <1>1
<1> QED
  BY <1>6, <1>7, ReleaseLeaves

LEMMA PopLocalFrameKeeps ==
  ASSUME JniIInv, NEW t \in JniThreads, NEW v \in Values \union {Null}, PopLocalFrame(t, v)
  PROVE  JniIInv'
<1>1. /\ globals' = globals /\ messages' = messages /\ handled' = handled
      /\ thrown' = thrown /\ owedRef' = owedRef /\ marks[t] # <<>>
      /\ marks' = [marks EXCEPT ![t] = Front(marks[t])]
  BY DEF PopLocalFrame, sharedRefs
<1>2. /\ HoldersTyped /\ v \in MaybeValue /\ locals[t] \in Seq(Values)
      /\ Len(locals[t]) <= MaxLocals /\ MaxLocals \in Nat /\ Len(locals[t]) \in Nat
      /\ messages \in Seq(Values)
  BY JniAssumption DEF JniIInv, HoldersTyped, MaybeValue
<1>3. PICK k, m, p : k = PopKept(t) /\ m = Front(marks[t]) /\ p = Front(promised[t])
  OBVIOUS
<1>4. /\ Last(marks[t]) \in 0 .. Len(locals[t]) /\ k \in Seq(Values) /\ Len(k) = Last(marks[t])
      /\ m \in Seq(Nat) /\ p \in Seq([Values -> Nat]) /\ FramesFit(k, m, p)
  BY <1>1, <1>3, PopFrames
<1>5. PopHas(t, v) => v # Null /\ Last(marks[t]) < MaxLocals
  <2>1. SUFFICES ASSUME PopHas(t, v)
                 PROVE  v # Null /\ Last(marks[t]) < MaxLocals
    OBVIOUS
  <2>2. PICK j \in Last(marks[t]) + 1 .. Len(locals[t]) : TRUE
    BY <2>1 DEF PopHas
  <2>3. Last(marks[t]) < MaxLocals
    BY <1>2, <1>4, <2>2
  <2> QED
    BY <2>1, <2>3 DEF PopHas
<1>6. PICK r \in Released(owners, item, PopLost(t, v)) :
        \/ /\ v # Null /\ Last(marks[t]) < MaxLocals
           /\ owners' = (IF PopHas(t, v) THEN r.owners ELSE RetainedRef(r.owners, v))
           /\ item' = r.item
           /\ locals' = [locals EXCEPT ![t] = Append(k, v)]
           /\ promised' = [promised EXCEPT ![t] = Relied(p, v)]
        \/ /\ v = Null \/ (~PopHas(t, v) /\ ~(r.owners[v] > 0)) \/ ~(Last(marks[t]) < MaxLocals)
           /\ owners' = r.owners /\ item' = r.item
           /\ locals' = [locals EXCEPT ![t] = k]
           /\ promised' = [promised EXCEPT ![t] = p]
  BY <1>3, PopSteps
<1>7. IsTable([locals EXCEPT ![t] = k], t, k)
  <2>1. Len(k) <= MaxLocals
    BY <1>2, <1>4
  <2> QED
    BY <1>2, <1>4, <2>1, TableBecomes
<1>8. CASE /\ v = Null \/ (~PopHas(t, v) /\ ~(r.owners[v] > 0)) \/ ~(Last(marks[t]) < MaxLocals)
           /\ owners' = r.owners /\ item' = r.item
           /\ locals' = [locals EXCEPT ![t] = k]
           /\ promised' = [promised EXCEPT ![t] = p]
  <2>1. ~PopHas(t, v)
    BY <1>5, <1>8
  <2>2. PICK l : l = [locals EXCEPT ![t] = k] /\ IsTable(l, t, k) /\ locals' = l
    BY <1>7, <1>8
  <2>3. Counted(r.owners, r.item, NoneOf, l, thrown, owedRef, globals, messages, handled)
    <3>1. k = IF PopHas(t, v) THEN Append(PopKept(t), v) ELSE PopKept(t)
      BY <1>3, <2>1
    <3> QED
      BY <1>1, <1>2, <2>2, <3>1, PopLeaves
  <2>4. FramesKept'
    BY <1>1, <1>3, <1>4, <1>8, FramesBecome
  <2>5. OwnersExact'
    BY <1>1, <1>8, <2>2, <2>3 DEF OwnersExact, NoneOf
  <2>6. HoldersTyped'
    BY <1>1, <1>2, <2>2 DEF HoldersTyped, IsTable
  <2> QED
    BY <2>4, <2>5, <2>6 DEF JniIInv
<1>9. CASE /\ v # Null /\ Last(marks[t]) < MaxLocals
           /\ owners' = (IF PopHas(t, v) THEN r.owners ELSE RetainedRef(r.owners, v))
           /\ item' = r.item
           /\ locals' = [locals EXCEPT ![t] = Append(k, v)]
           /\ promised' = [promised EXCEPT ![t] = Relied(p, v)]
  <2>1. v \in Values /\ Len(k) < MaxLocals
    BY <1>4, <1>9 DEF MaybeValue
  <2>2. PICK s : s = Append(k, v)
    OBVIOUS
  <2>3. s \in Seq(Values) /\ Len(s) = Len(k) + 1 /\ Len(k) \in Nat
    BY <1>4, <2>1, <2>2
  <2>4. Len(s) <= MaxLocals
    BY <1>2, <2>1, <2>3
  <2>5. PICK l : l = [locals EXCEPT ![t] = s] /\ IsTable(l, t, s) /\ locals' = l
    BY <1>2, <1>9, <2>2, <2>3, <2>4, TableBecomes
  <2>6. PICK q : q = Relied(p, v)
    OBVIOUS
  <2>7. FramesKept'
    <3>1. Len(p) > 0
      <4>1. Len(p) = Len(m) + 1 /\ Len(m) \in Nat
        BY <1>4 DEF FramesFit
      <4> QED
        BY <4>1
    <3>2. /\ q \in Seq([Values -> Nat]) /\ Len(q) = Len(p)
          /\ \A d \in 1 .. Len(p) : d # Len(p) => q[d] = p[d]
          /\ \A u \in Values : q[Len(p)][u] = p[Len(p)][u] + Same(v, u)
      BY <1>4, <2>1, <2>6, <3>1, Relies
    <3>3. FramesFit(s, m, q)
      BY <1>4, <2>1, <2>2, <3>2, FramesAppend
    <3>4. /\ locals' = [locals EXCEPT ![t] = s] /\ marks' = [marks EXCEPT ![t] = m]
          /\ promised' = [promised EXCEPT ![t] = q]
      BY <1>1, <1>3, <1>9, <2>2, <2>6
    <3> QED
      BY <1>4, <3>2, <3>3, <3>4, FramesBecome
  <2>8. Counted(owners', r.item, NoneOf, l, thrown, owedRef, globals, messages, handled)
    <3>1. CASE PopHas(t, v)
      <4>1. s = Append(PopKept(t), v) /\ owners' = r.owners
        BY <1>3, <1>9, <2>2, <3>1
      <4>3. s = IF PopHas(t, v) THEN Append(PopKept(t), v) ELSE PopKept(t)
        BY <3>1, <4>1
      <4>4. Counted(r.owners, r.item, NoneOf, l, thrown, owedRef, globals, messages, handled)
        BY <1>1, <1>2, <2>5, <4>3, PopLeaves
      <4> QED
        BY <4>1, <4>4
    <3>2. CASE ~PopHas(t, v)
      <4>1. PICK l1 : l1 = [locals EXCEPT ![t] = k] /\ IsTable(l1, t, k)
        BY <1>7
      <4>3. k = IF PopHas(t, v) THEN Append(PopKept(t), v) ELSE PopKept(t)
        BY <1>3, <3>2
      <4>4. Counted(r.owners, r.item, NoneOf, l1, thrown, owedRef, globals, messages, handled)
        BY <1>1, <1>2, <4>1, <4>3, PopLeaves
      <4>5. PICK o : o = RetainedRef(r.owners, v) /\ owners' = o
        BY <1>9, <3>2
      <4>6. Counted(o, r.item, Only1(v), l1, thrown, owedRef, globals, messages, handled)
        BY <1>2, <4>4, <4>5, RetainCounts
      <4>7. \A u \in Values : CountIn(s, u) + NoneOf[u] = CountIn(k, u) + Only1(v)[u]
        <5> TAKE u \in Values
        <5>1. CountIn(s, u) = CountIn(k, u) + Same(v, u)
          BY <1>4, <2>1, <2>2, CountAppend
        <5>2. CountIn(k, u) \in Nat /\ Same(v, u) \in Nat /\ Same(u, v) = Same(v, u)
          BY <1>4, CountNat DEF Same
        <5>3. NoneOf[u] = 0 /\ Only1(v)[u] = Same(u, v)
          BY NoneAt, Only1At
        <5> QED
          BY <5>1, <5>2, <5>3
      <4>8. NoneOf \in [Values -> Nat] /\ HoldersTyped /\ IsTable(l1, t, k) /\ IsTable(l, t, s)
        BY <1>2, <2>5, <4>1, NoneAt
      <4>9. Counted(o, r.item, NoneOf, l, thrown, owedRef, globals, messages, handled)
        BY <4>6, <4>7, <4>8, TableMoves
      <4> QED
        BY <4>5, <4>9
    <3> QED
      BY <3>1, <3>2
  <2>9. OwnersExact'
    BY <1>1, <1>9, <2>5, <2>8 DEF OwnersExact, NoneOf
  <2>10. HoldersTyped'
    BY <1>1, <1>2, <2>5 DEF HoldersTyped, IsTable
  <2> QED
    BY <2>7, <2>9, <2>10 DEF JniIInv
<1> QED
  BY <1>6, <1>8, <1>9

LEMMA ThreadExitCleanupKeeps ==
  ASSUME JniIInv, NEW t \in JniThreads, ThreadExitCleanup(t)
  PROVE  JniIInv'
<1>1. PICK y, w, l :
        /\ y = [u \in Values |-> CountIn(locals[t], u) + Same(thrown[t], u)]
        /\ w = [thrown EXCEPT ![t] = Null] /\ l = [locals EXCEPT ![t] = <<>>]
  OBVIOUS
<1>2. PICK r \in Released(owners, item, y) : owners' = r.owners /\ item' = r.item
  BY <1>1 DEF ThreadExitCleanup, RefsBecome
<1>3. /\ locals' = l /\ thrown' = w /\ marks' = [marks EXCEPT ![t] = <<>>]
      /\ promised' = [promised EXCEPT ![t] = <<NoneOf>>]
      /\ globals' = globals /\ messages' = messages /\ handled' = handled /\ owedRef' = owedRef
  BY <1>1 DEF ThreadExitCleanup, sharedRefs
<1>4. /\ HoldersTyped /\ messages \in Seq(Values) /\ locals[t] \in Seq(Values)
      /\ thrown \in [JniThreads -> MaybeValue]
      /\ Counted(owners, item, NoneOf, locals, thrown, owedRef, globals, messages, handled)
  BY DEF JniIInv, HoldersTyped, OwnersExact
<1>0. PICK e : e = <<>>
  OBVIOUS
<1>5. e \in Seq(Values) /\ e = <<>> /\ Len(e) = 0
  BY <1>0
<1>6. \A u \in Values : CountIn(e, u) = 0
  BY <1>5, EmptyCount
<1>7. IsTable(l, t, e)
  <2>1. Len(e) <= MaxLocals
    BY <1>5, JniAssumption
  <2> QED
    BY <1>1, <1>4, <1>5, <2>1, TableBecomes
<1>8. /\ w \in [JniThreads -> MaybeValue] /\ w[t] = Null /\ ButAt(JniThreads, t, thrown, w)
  BY <1>1, <1>4, OneHolder DEF MaybeValue
<1>9. y \in [Values -> Nat] /\ \A u \in Values : y[u] = CountIn(locals[t], u) + Same(thrown[t], u)
  <2>1. ASSUME NEW u \in Values
        PROVE  CountIn(locals[t], u) + Same(thrown[t], u) \in Nat
    <3>1. CountIn(locals[t], u) \in Nat /\ Same(thrown[t], u) \in Nat
      BY <1>4, CountNat DEF Same
    <3> QED
      BY <3>1
  <2> QED
    BY <1>1, <2>1
<1>10. Counted(owners, item, y, l, w, owedRef, globals, messages, handled)
  <2>1. ASSUME NEW u \in Values
        PROVE  Others(l, w, owedRef, globals, messages, handled, u) + Fields(item, u) + y[u]
                 = Others(locals, thrown, owedRef, globals, messages, handled, u) + Fields(item, u)
                     + NoneOf[u]
    <3>1. PICK a \in Nat, b \in Nat, c \in Nat, d \in Nat :
            /\ a = Others(locals, thrown, owedRef, globals, messages, handled, u)
            /\ b = Fields(item, u) /\ c = CountIn(locals[t], u) /\ d = Same(thrown[t], u)
      <4>1. CountIn(locals[t], u) \in Nat /\ Same(thrown[t], u) \in Nat
        BY <1>4, CountNat DEF Same
      <4> QED
        BY <1>4, <4>1, OthersNat, FieldsNat
    <3>2. Others(l, thrown, owedRef, globals, messages, handled, u) = a - c + 0
      <4>1. Others(l, thrown, owedRef, globals, messages, handled, u)
              = Others(locals, thrown, owedRef, globals, messages, handled, u)
                  - CountIn(locals[t], u) + CountIn(e, u)
        BY <1>4, <1>7, TableOwners
      <4> QED
        BY <1>6, <3>1, <4>1
    <3>3. Others(l, w, owedRef, globals, messages, handled, u) = (a - c + 0) - d + 0
      <4>1. Others(l, w, owedRef, globals, messages, handled, u)
              = Others(l, thrown, owedRef, globals, messages, handled, u)
                  - Same(thrown[t], u) + Same(w[t], u)
        BY <1>4, <1>8, OthersHolders
      <4>2. Same(w[t], u) = 0
        BY <1>8, NullIsNoValue DEF Same
      <4> QED
        BY <3>1, <3>2, <4>1, <4>2
    <3>4. y[u] = c + d /\ NoneOf[u] = 0
      BY <1>9, <3>1, NoneAt
    <3>5. ((a - c + 0) - d + 0) + b + (c + d) = a + b + 0
      OBVIOUS
    <3> QED
      BY <3>1, <3>3, <3>4, <3>5
  <2>2. /\ item \in [Values -> MaybeValue] /\ owners \in [Values -> Nat]
        /\ \A u \in Values : owners[u] = 0 => item[u] = Null
        /\ \A u \in Values : owners[u] =
             Others(locals, thrown, owedRef, globals, messages, handled, u) + Fields(item, u)
               + NoneOf[u]
    BY <1>4 DEF Counted
  <2>3. \A u \in Values :
          owners[u] = Others(l, w, owedRef, globals, messages, handled, u) + Fields(item, u) + y[u]
    BY <2>1, <2>2
  <2> QED
    BY <1>4, <1>9, <2>2, <2>3 DEF Counted
<1>11. OwnersExact'
  <2>1. Counted(r.owners, r.item, NoneOf, l, w, owedRef, globals, messages, handled)
    BY <1>2, <1>10, ReleaseLeaves
  <2> QED
    BY <1>2, <1>3, <2>1 DEF OwnersExact, NoneOf
<1>12. HoldersTyped'
  BY <1>3, <1>4, <1>7, <1>8 DEF HoldersTyped, IsTable
<1>13. FramesKept'
  <2>a. PICK m, p : m = <<>> /\ p = <<NoneOf>>
    OBVIOUS
  <2>b. m \in Seq(Nat)
    BY <2>a
  <2>c. p \in Seq([Values -> Nat])
    <3>1. NoneOf \in [Values -> Nat]
      BY NoneAt
    <3> QED
      BY <2>a, <3>1
  <2>1. m \in Seq(Nat) /\ p \in Seq([Values -> Nat]) /\ m = <<>> /\ p = <<NoneOf>>
    BY <2>a, <2>b, <2>c
  <2>2. FramesFit(e, m, p)
    BY <1>5, <2>1, NewFrames
  <2>3. /\ locals' = [locals EXCEPT ![t] = e] /\ marks' = [marks EXCEPT ![t] = m]
        /\ promised' = [promised EXCEPT ![t] = p]
    BY <1>1, <1>3, <1>5, <2>1
  <2> QED
    BY <2>1, <2>2, <2>3, FramesBecome
<1> QED
  BY <1>11, <1>12, <1>13 DEF JniIInv

-----------------------------------------------------------------------------
LEMMA JniInitHolds ==
  ASSUME JniInit
  PROVE  JniIInv
<1>1. /\ owners = NoneOf /\ item = [v \in Values |-> Null]
      /\ locals = [t \in JniThreads |-> <<>>] /\ marks = [t \in JniThreads |-> <<>>]
      /\ promised = [t \in JniThreads |-> <<NoneOf>>] /\ globals = NoneOf
      /\ thrown = [t \in JniThreads |-> Null] /\ owedRef = [t \in JniThreads |-> Null]
      /\ messages = <<>> /\ handled = Null
  BY DEF JniInit
<1>0. PICK e : e = <<>>
  OBVIOUS
<1>2. e \in Seq(Values) /\ e = <<>> /\ Len(e) = 0
  BY <1>0
<1>3. HoldersTyped
  <2>1. locals \in [JniThreads -> Seq(Values)] /\ \A t \in JniThreads : Len(locals[t]) <= MaxLocals
    BY <1>1, <1>2, JniAssumption
  <2>2. /\ thrown \in [JniThreads -> MaybeValue] /\ owedRef \in [JniThreads -> MaybeValue]
        /\ handled \in MaybeValue /\ messages \in Seq(Values) /\ globals \in [Values -> Nat]
    BY <1>1, <1>2, NoneAt DEF MaybeValue
  <2> QED
    BY <2>1, <2>2 DEF HoldersTyped
<1>4. ASSUME NEW v \in Values
      PROVE  Others(locals, thrown, owedRef, globals, messages, handled, v) + Fields(item, v) = 0
  <2>1. Cardinality(Held(locals, v)) = 0
    <3>1. Held(locals, v) = {}
      <4>1. ASSUME NEW h \in Held(locals, v)
            PROVE  FALSE
        <5>1. h[1] \in JniThreads /\ h[2] \in 1 .. MaxLocals /\ h[2] <= Len(locals[h[1]])
          BY DEF Held
        <5>2. Len(locals[h[1]]) = 0
          BY <1>1, <1>2, <5>1
        <5> QED
          BY <5>1, <5>2
      <4> QED
        BY <4>1
    <3> QED
      BY <3>1, FS_EmptySet
  <2>2. Holders(thrown, v) = 0 /\ Holders(owedRef, v) = 0
    <3>1. {t \in JniThreads : thrown[t] = v} = {} /\ {t \in JniThreads : owedRef[t] = v} = {}
      BY <1>1, NullIsNoValue
    <3> QED
      BY <3>1, FS_EmptySet DEF Holders, With
  <2>3. Fields(item, v) = 0
    <3>1. {w \in Values : item[w] = v} = {}
      BY <1>1, NullIsNoValue
    <3> QED
      BY <3>1, FS_EmptySet DEF Fields, With
  <2>4. CountIn(messages, v) = 0
    <3>1. CountIn(e, v) = 0
      BY <1>2, EmptyCount
    <3> QED
      BY <1>1, <1>2, <3>1
  <2>5. Kept(globals[v]) = 0 /\ Same(handled, v) = 0
    BY <1>1, NullIsNoValue DEF Kept, Same, NoneOf
  <2> QED
    BY <2>1, <2>2, <2>3, <2>4, <2>5 DEF Others
<1>5. OwnersExact
  <2>1. ASSUME NEW v \in Values
        PROVE  /\ owners[v] = Others(locals, thrown, owedRef, globals, messages, handled, v)
                                + Fields(item, v) + NoneOf[v]
               /\ item[v] = Null
    BY <1>1, <1>4, NoneAt
  <2>2. /\ owners \in [Values -> Nat] /\ item \in [Values -> MaybeValue]
        /\ messages \in Seq(Values) /\ NoneOf \in [Values -> Nat]
    BY <1>1, <1>3, NoneAt DEF MaybeValue, HoldersTyped
  <2> QED
    BY <2>1, <2>2 DEF OwnersExact, Counted
<1>6. FramesKept
  <2>a. PICK m, p : m = <<>> /\ p = <<NoneOf>>
    OBVIOUS
  <2>b. m \in Seq(Nat)
    BY <2>a
  <2>c. p \in Seq([Values -> Nat])
    <3>1. NoneOf \in [Values -> Nat]
      BY NoneAt
    <3> QED
      BY <2>a, <3>1
  <2>1. m \in Seq(Nat) /\ p \in Seq([Values -> Nat]) /\ m = <<>> /\ p = <<NoneOf>>
    BY <2>a, <2>b, <2>c
  <2>2. FramesFit(e, m, p)
    BY <1>2, <2>1, NewFrames
  <2> QED
    BY <1>1, <1>2, <2>1, <2>2 DEF FramesKept
<1> QED
  BY <1>3, <1>5, <1>6 DEF JniIInv

LEMMA JniStepKeeps ==
  ASSUME JniIInv, [JniNext]_jniVars
  PROVE  JniIInv'
<1>1. ASSUME NEW t \in JniThreads, NEW inner \in Known(t) \union {Null}, NewValue(t, inner)
      PROVE  JniIInv'
  BY <1>1, NewValueKeeps
<1>2. ASSUME NEW t \in JniThreads, NEW v \in Values,
             \/ NewLocalRef(t, v) \/ NewGlobalRef(t, v) \/ DeleteGlobalRef(t, v)
             \/ GetObjectArrayElement(t, v) \/ EnqueueHandlerMessage(t, v)
             \/ \E d \in 1 .. MaxFrames + 1 : DeleteLocalRef(t, v, d)
             \/ \E w \in Values \union {Null} : SetObjectArrayElement(t, v, w)
      PROVE  JniIInv'
  <2>1. CASE NewLocalRef(t, v)
    BY <2>1, NewLocalRefKeeps
  <2>2. CASE NewGlobalRef(t, v)
    BY <2>2, NewGlobalRefKeeps
  <2>3. CASE DeleteGlobalRef(t, v)
    BY <2>3, DeleteGlobalRefKeeps
  <2>4. CASE GetObjectArrayElement(t, v)
    BY <2>4, GetObjectArrayElementKeeps
  <2>5. CASE EnqueueHandlerMessage(t, v)
    BY <2>5, EnqueueHandlerMessageKeeps
  <2>6. ASSUME NEW d \in 1 .. MaxFrames + 1, DeleteLocalRef(t, v, d)
        PROVE  JniIInv'
    BY <2>6, DeleteLocalRefKeeps
  <2>7. ASSUME NEW w \in Values \union {Null}, SetObjectArrayElement(t, v, w)
        PROVE  JniIInv'
    BY <2>7, SetObjectArrayElementKeeps
  <2> QED
    BY <1>2, <2>1, <2>2, <2>3, <2>4, <2>5, <2>6, <2>7
<1>3. ASSUME NEW t \in JniThreads, NEW v \in Values \union {Null},
             SetPendingException(t, v) \/ PopLocalFrame(t, v)
      PROVE  JniIInv'
  BY <1>3, SetPendingExceptionKeeps, PopLocalFrameKeeps
<1>4. ASSUME NEW t \in JniThreads,
             PushLocalFrame(t) \/ FreeRef(t) \/ ExceptionOccurred(t) \/ ThreadExitCleanup(t)
      PROVE  JniIInv'
  BY <1>4, PushLocalFrameKeeps, FreeRefKeeps, ExceptionOccurredKeeps, ThreadExitCleanupKeeps
<1>5. CASE TakeMessage \/ DispatchHandlerMessage
  BY <1>5, TakeMessageKeeps, DispatchHandlerMessageKeeps
<1>6. CASE UNCHANGED jniVars
  <2>1. /\ owners' = owners /\ item' = item /\ locals' = locals /\ marks' = marks
        /\ promised' = promised /\ globals' = globals /\ thrown' = thrown /\ owedRef' = owedRef
        /\ messages' = messages /\ handled' = handled
    BY <1>6 DEF jniVars
  <2> QED
    BY <2>1 DEF JniIInv, HoldersTyped, OwnersExact, FramesKept, NoneOf
<1> QED
  BY <1>1, <1>2, <1>3, <1>4, <1>5, <1>6 DEF JniNext

LEMMA JniInvSound ==
  ASSUME JniIInv
  PROVE  JniSound
<1>1. HoldersTyped /\ OwnersExact /\ FramesKept
  BY DEF JniIInv
<1>2. ASSUME NEW v \in Values
      PROVE  owners[v] = OwnersOf(v)
  <2>1. owners[v] = Others(locals, thrown, owedRef, globals, messages, handled, v) + Fields(item, v)
    BY <1>1, OwnersNow DEF OthersNow
  <2>2. LocalsHolding(v) = Held(locals, v)
    BY DEF LocalsHolding, Held
  <2>3. PICK a \in Nat, b \in Nat, c \in Nat, d \in Nat, e \in Nat, f \in Nat, g \in Nat :
          /\ a = Cardinality(Held(locals, v)) /\ b = Holders(thrown, v) /\ c = Holders(owedRef, v)
          /\ d = Kept(globals[v]) /\ e = Fields(item, v) /\ f = CountIn(messages, v)
          /\ g = Same(handled, v)
    <3>1. Kept(globals[v]) \in Nat /\ Same(handled, v) \in Nat
      BY DEF Kept, Same
    <3>2. CountIn(messages, v) \in Nat
      BY <1>1, CountNat DEF HoldersTyped
    <3>3. Cardinality(Held(locals, v)) \in Nat /\ Holders(thrown, v) \in Nat
          /\ Holders(owedRef, v) \in Nat /\ Fields(item, v) \in Nat
      BY HeldNat, HoldersNat, FieldsNat
    <3> QED
      BY <3>1, <3>2, <3>3
  <2>4. owners[v] = (a + b + c + d + f + g) + e
    BY <2>1, <2>3 DEF Others
  <2>5. OwnersOf(v) = a + b + c + d + e + f + g
    BY <2>2, <2>3 DEF OwnersOf, Holders, Fields, With
  <2> QED
    BY <2>4, <2>5
<1>3. ASSUME NEW t \in JniThreads
      PROVE  /\ \A k \in DOMAIN marks[t] : marks[t][k] <= Len(locals[t])
             /\ \A k \in 2..Len(marks[t]) : marks[t][k - 1] <= marks[t][k]
             /\ \A d \in DOMAIN promised[t], v \in Values :
                  promised[t][d][v] <= Among(locals[t], UpTo(t, d), v)
  <2>1. /\ locals[t] \in Seq(Values) /\ marks[t] \in Seq(Nat)
        /\ promised[t] \in Seq([Values -> Nat])
        /\ FramesFit(locals[t], marks[t], promised[t])
    BY <1>1 DEF HoldersTyped, FramesKept
  <2>2. DOMAIN marks[t] = 1 .. Len(marks[t]) /\ DOMAIN promised[t] = 1 .. Len(promised[t])
    BY <2>1
  <2>3. \A k \in DOMAIN marks[t] : marks[t][k] <= Len(locals[t])
    BY <2>1, <2>2 DEF FramesFit
  <2>4. ASSUME NEW k \in 2 .. Len(marks[t])
        PROVE  marks[t][k - 1] <= marks[t][k]
    <3>1. k - 1 \in 1 .. Len(marks[t]) /\ k \in 1 .. Len(marks[t]) /\ k - 1 <= k
      OBVIOUS
    <3> QED
      BY <2>1, <3>1 DEF FramesFit
  <2>5. ASSUME NEW d \in DOMAIN promised[t], NEW v \in Values
        PROVE  promised[t][d][v] <= Among(locals[t], UpTo(t, d), v)
    <3>1. d \in 1 .. Len(promised[t])
      BY <2>2
    <3>2. promised[t][d][v] <= Among(locals[t], Reach(locals[t], marks[t], d), v)
      BY <2>1, <3>1, ReachOf
    <3>3. UpTo(t, d) = Reach(locals[t], marks[t], d)
      BY DEF UpTo, Reach
    <3> QED
      BY <3>2, <3>3
  <2> QED
    BY <2>3, <2>4, <2>5
<1> QED
  BY <1>2, <1>3 DEF JniSound

THEOREM JniSafety == JniSpec => []JniSound
<1>1. JniInit => JniIInv
  BY JniInitHolds
<1>2. JniIInv /\ [JniNext]_jniVars => JniIInv'
  BY JniStepKeeps
<1>3. JniIInv => JniSound
  BY JniInvSound
<1> QED
  BY <1>1, <1>2, <1>3, PTL DEF JniSpec
=============================================================================
