--------------------------- MODULE PthreadStorage ---------------------------
(***************************************************************************)
(* Guest mutexes, conditions and rwlocks (imports.c 221-730, libc_shim.c   *)
(* 8780-8860): the guest's storage holds a pointer to a host object, made  *)
(* by an explicit init or by the first use of a static initialiser.  What  *)
(* the guest's bytes say is believed only if the side registry of bindings *)
(* agrees; rwlocks have no registry.                                       *)
(*                                                                         *)
(* One action is one critical section of bionic_pthread_storage_lock (or   *)
(* rwlock_storage_lock), or one step outside it.  The program destroys an  *)
(* object only when no thread uses it, and reuses storage only after that. *)
(***************************************************************************)
EXTENDS FiniteSets

CONSTANTS Users, Objects, RwLocks, Hosts, NoHost

\* Initialisers and the kind of host object each stands for; "junk" is any
\* other content of recycled memory.
Initialisers == {"zero", "static"}
HostKinds == {"plain", "special"}
KindOf(bytes) == IF bytes = "zero" THEN "plain" ELSE "special"

ASSUME StorageAssumption ==
  /\ RwLocks \subseteq Objects /\ NoHost \notin Objects \cup Hosts
  /\ Hosts \cap (Initialisers \cup {"junk"}) = {}

VARIABLES
  raw,     \* the first word of each object: bytes, or a host pointer
  bound,   \* the registry: object -> host, or NoHost
  heap,    \* host object -> its kind, "free" when it is not allocated
  user,    \* user[t]: what t is doing, with which object and host
  wantedKind   \* the kind of object the program believes it has; "dead" after destroy

storageVars == <<raw, bound, heap, user, wantedKind>>

NoUse == [at |-> "idle", object |-> NoHost, host |-> NoHost]
InUse(o) == \E t \in Users : user[t].object = o

StorageInit ==
  /\ raw \in {[o \in Objects |-> IF o \in RwLocks THEN "zero" ELSE "static"]}
  /\ bound = [o \in Objects |-> NoHost]
  /\ heap = [h \in Hosts |-> "free"]
  /\ user = [t \in Users |-> NoUse]
  /\ wantedKind = [o \in Objects |-> KindOf(raw[o])]

\* pthread_mutex_init_fake, pthread_cond_init_fake, pthread_rwlock_init_fake:
\* the host object is made before the lock is taken.
InitCreate(t, o, kind) ==
  /\ user[t] = NoUse /\ ~InUse(o)
  /\ o \in RwLocks => wantedKind[o] = "dead" /\ kind = "plain"
  /\ \E h \in Hosts : heap[h] = "free"
  /\ LET h == CHOOSE x \in Hosts : heap[x] = "free"
     IN  /\ heap' = [heap EXCEPT ![h] = kind]
         /\ user' = [user EXCEPT ![t] = [at |-> "init", object |-> o, host |-> h]]
  /\ UNCHANGED <<raw, bound, wantedKind>>

\* pthread_binding_add_locked refuses an object that is bound; ok is the calloc of
\* the binding.  The bytes found in the storage are not looked at.
InitBind(t, ok) ==
  /\ user[t].at = "init"
  /\ LET o == user[t].object
         h == user[t].host
         accepted == o \in RwLocks \/ (ok /\ bound[o] = NoHost)
     IN  /\ raw' = [raw EXCEPT ![o] = IF accepted THEN h ELSE @]
         /\ bound' = [bound EXCEPT ![o] = IF accepted /\ o \notin RwLocks THEN h ELSE @]
         /\ heap' = [heap EXCEPT ![h] = IF accepted THEN @ ELSE "free"]
         /\ wantedKind' = [wantedKind EXCEPT ![o] = IF accepted THEN heap[h] ELSE @]
  /\ user' = [user EXCEPT ![t] = NoUse]

\* ensure_mutex, ensure_cond, materialize_rwlock: a live object, or a static
\* initialiser that is replaced once; anything else is EINVAL.
Ensure(t, o) ==
  /\ user[t] = NoUse /\ wantedKind[o] # "dead"
  /\ ~\E u \in Users : user[u].object = o /\ user[u].at = "init"
  /\ IF raw[o] \in Initialisers /\ bound[o] = NoHost
     THEN \E h \in Hosts :
            /\ heap[h] = "free"
            /\ heap' = [heap EXCEPT ![h] = KindOf(raw[o])]
            /\ raw' = [raw EXCEPT ![o] = h]
            /\ bound' = [bound EXCEPT ![o] = IF o \in RwLocks THEN @ ELSE h]
     ELSE /\ raw[o] \in Hosts
          /\ o \notin RwLocks => bound[o] = raw[o]
          /\ UNCHANGED <<raw, bound, heap>>
  /\ user' = [user EXCEPT ![t] = [at |-> "ensured", object |-> o, host |-> NoHost]]
  /\ UNCHANGED wantedKind
\* guest_mutex, nx_cond: the word is read again without the lock.
LoadHost(t) ==
  /\ user[t].at = "ensured"
  /\ user' = [user EXCEPT ![t].at = "using", ![t].host = raw[user[t].object]]
  /\ UNCHANGED <<raw, bound, heap, wantedKind>>

FinishUse(t) ==
  /\ user[t].at = "using"
  /\ user' = [user EXCEPT ![t] = NoUse]
  /\ UNCHANGED <<raw, bound, heap, wantedKind>>

DestroyKeepsBinding(t, o) ==
  /\ user[t] = NoUse /\ wantedKind[o] # "dead" /\ ~InUse(o)
  /\ raw[o] \in Hosts \cup Initialisers
  /\ raw' = [raw EXCEPT ![o] = "zero"]
  /\ heap' = IF raw[o] \in Hosts THEN [heap EXCEPT ![raw[o]] = "free"] ELSE heap
  /\ wantedKind' = [wantedKind EXCEPT ![o] = "dead"]
  /\ UNCHANGED <<user, bound>>

\* The destroy functions: an untouched initialiser is cleared, a live object is
\* unbound and freed, anything else is EINVAL.
DestroyObject(t, o) ==
  /\ user[t] = NoUse /\ wantedKind[o] # "dead" /\ ~InUse(o)
  /\ raw[o] \in Hosts \cup Initialisers
  /\ raw' = [raw EXCEPT ![o] = "zero"]
  /\ bound' = [bound EXCEPT ![o] = NoHost]
  /\ heap' = IF raw[o] \in Hosts THEN [heap EXCEPT ![raw[o]] = "free"] ELSE heap
  /\ wantedKind' = [wantedKind EXCEPT ![o] = "dead"]
  /\ UNCHANGED user

\* The memory of a destroyed object is recycled: any bytes, or a new object with
\* a static initialiser.
Recycle(o, bytes) ==
  /\ wantedKind[o] = "dead" /\ ~InUse(o)
  /\ bytes = "static" => o \notin RwLocks
  /\ raw' = [raw EXCEPT ![o] = bytes]
  /\ wantedKind' = [wantedKind EXCEPT ![o] = IF bytes = "junk" THEN "dead" ELSE KindOf(bytes)]
  /\ UNCHANGED <<bound, heap, user>>

StorageNext ==
  \/ \E t \in Users, o \in Objects :
        \/ \E kind \in HostKinds : InitCreate(t, o, kind)
        \/ Ensure(t, o) \/ DestroyObject(t, o)
  \/ \E t \in Users : (\E ok \in BOOLEAN : InitBind(t, ok)) \/ LoadHost(t) \/ FinishUse(t)
  \/ \E o \in Objects, bytes \in Initialisers \cup {"junk"} : Recycle(o, bytes)

StorageSpec == StorageInit /\ [][StorageNext]_storageVars

(* All threads that use an object use one host object, allocated, of the     *)
(* kind its initialiser or attribute asked for, whatever bytes recycled      *)
(* memory held and however first uses race ("two guest threads can no longer *)
(* install different native locks", imports.c:225); and each host object is  *)
(* held by one guest object or by one init under way, so none leaks or is    *)
(* freed twice.                                                              *)
OneHostPerObject ==
  /\ \A t \in Users : user[t].at = "using" =>
        LET o == user[t].object
        IN  /\ user[t].host = raw[o] /\ raw[o] \in Hosts
            /\ heap[raw[o]] = wantedKind[o]
            /\ o \notin RwLocks => bound[o] = raw[o]
  /\ \A h \in Hosts :
        LET holders == {o \in Objects : raw[o] = h}
                         \cup {t \in Users : user[t].at = "init" /\ user[t].host = h}
        IN  Cardinality(holders) = IF heap[h] = "free" THEN 0 ELSE 1
  /\ \A o \in Objects : bound[o] # NoHost => bound[o] = raw[o]
=============================================================================
