----------------------------- MODULE AssetPack -----------------------------
(***************************************************************************)
(* Descriptors of the asset pack (asset_pack.c).  A descriptor has a       *)
(* native number of its own, opened on the pack, and names an open file    *)
(* that its duplicates share, with the position in it.  Whoever uses a     *)
(* descriptor pins its handle; close and dup2 mark a handle as closing and *)
(* wait until nobody pins it.                                              *)
(*                                                                         *)
(* The handles are guarded by one lock and a condition variable, which is  *)
(* woken whenever a handle is no longer pinned or no longer closing: a     *)
(* wait is a guard here.  The pack never changes, so that its bytes and    *)
(* the cache of an open file are left out.                                 *)
(***************************************************************************)
EXTENDS Integers, FiniteSets

CONSTANTS
  PackThreads,
  Numbers,     \* native descriptor numbers
  PackSlots,   \* PACK_HANDLES
  OpenFiles,   \* the open files that can be allocated
  EntrySize,   \* length of an entry of the pack
  LongMax      \* LONG_MAX

ASSUME PackAssumption ==
  /\ PackSlots \subseteq Nat \ {0} /\ Numbers \subseteq Nat /\ OpenFiles \subseteq Nat
  /\ IsFiniteSet(PackSlots) /\ IsFiniteSet(PackThreads) /\ 0 \notin PackThreads
  /\ LongMax \in Nat /\ EntrySize \in 0 .. LongMax

VARIABLES
  handles,   \* g_handles
  allocated, \* the open files
  uses,      \* [OpenFiles -> references]
  position,  \* [OpenFiles -> position]
  native,    \* numbers that are open on the pack
  dupLock,   \* who has g_dup_lock
  doing      \* [PackThreads -> the rest of its call]

packVars == <<handles, allocated, uses, position, native, dupLock, doing>>

FreeHandle == [state |-> "free", fd |-> 0, pins |-> 0, file |-> 0]
NotDoing   == [step |-> "idle"]
NoThread   == 0

PackInit ==
  /\ handles = [s \in PackSlots |-> FreeHandle]
  /\ allocated = {} /\ native = {} /\ dupLock = NoThread
  /\ uses = [f \in OpenFiles |-> 0] /\ position = [f \in OpenFiles |-> 0]
  /\ doing = [t \in PackThreads |-> NotDoing]

FindHandle(fd, states) == {s \in PackSlots : handles[s].fd = fd /\ handles[s].state \in states}
FreeHandles            == {s \in PackSlots : handles[s].state = "free"}
Lowest(S)              == CHOOSE s \in S : \A r \in S : s <= r
Become(t, o)           == doing' = [doing EXCEPT ![t] = o]
WithPin(s)             == [handles EXCEPT ![s].pins = @ + 1]
Unpinned(s)            == [handles EXCEPT ![s].pins = @ - 1]

PinHandle(t, fd, then(_)) ==
  \E s \in FindHandle(fd, {"active"}) : handles' = WithPin(s) /\ Become(t, then(s))

ReleaseHandle(t) ==
  /\ doing[t].step \in {"use", "release"}
  /\ handles' = Unpinned(doing[t].slot)
  /\ Become(t, NotDoing)
  /\ dupLock' = IF dupLock = t THEN NoThread ELSE dupLock
  /\ UNCHANGED <<allocated, uses, position, native>>

(***************************************************************************)
(* Reads and seeks: the call pins the handle and works on the open file    *)
(* under its lock.                                                         *)
(***************************************************************************)
Use(t, fd) ==
  /\ doing[t] = NotDoing
  /\ PinHandle(t, fd, LAMBDA s : [step |-> "use", slot |-> s])
  /\ UNCHANGED <<allocated, uses, position, native, dupLock>>

MovePosition(t, to) ==
  /\ position' = [position EXCEPT ![handles[doing[t].slot].file] = to]
  /\ UNCHANGED <<handles, allocated, uses, native, dupLock, doing>>

\* A read that fails has moved the position by what it got before.
ReadPacked(t) ==
  /\ doing[t].step = "use"
  /\ LET at == position[handles[doing[t].slot].file] IN
       at < EntrySize /\ \E to \in at + 1 .. EntrySize : MovePosition(t, to)

Sought(base, offset) == IF offset <= LongMax - base THEN {base + offset} ELSE {}

Seek(t) ==
  /\ doing[t].step = "use"
  /\ \E base \in {0, EntrySize, position[handles[doing[t].slot].file]},
        offset \in 0..LongMax :
       \/ \E to \in Sought(base, offset) : MovePosition(t, to)
       \/ offset <= base /\ MovePosition(t, base - offset)

(***************************************************************************)
(* A descriptor is opened on the pack, and then entered among the handles. *)
(***************************************************************************)
OpenPath(t) ==
  /\ doing[t] = NotDoing /\ native # Numbers /\ allocated # OpenFiles
  /\ LET n == Lowest(Numbers \ native) f == Lowest(OpenFiles \ allocated) IN
       /\ native' = native \union {n}
       /\ allocated' = allocated \union {f}
       /\ position' = [position EXCEPT ![f] = 0]
       /\ Become(t, [step |-> "install", fd |-> n, file |-> f, slot |-> 0])
  /\ UNCHANGED <<handles, uses, dupLock>>

DupFd(t, fd) ==
  /\ doing[t] = NotDoing
  /\ PinHandle(t, fd, LAMBDA s : [step |-> "dup", slot |-> s])
  /\ UNCHANGED <<allocated, uses, position, native, dupLock>>

\* The number is at least the minimum that was asked for; there may be none.
DupOpen(t) ==
  /\ doing[t].step = "dup"
  /\ \/ \E n \in Numbers \ native :
          /\ native' = native \union {n}
          /\ Become(t, [step |-> "install", fd |-> n, slot |-> doing[t].slot,
                        file |-> handles[doing[t].slot].file])
     \/ Become(t, [step |-> "release", slot |-> doing[t].slot]) /\ UNCHANGED native
  /\ UNCHANGED <<handles, allocated, uses, position, dupLock>>

InstallHandle(t) ==
  LET o == doing[t] IN
  /\ o.step = "install"
  /\ IF FreeHandles = {} \/ FindHandle(o.fd, {"active", "closing"}) # {}
       THEN /\ native' = native \ {o.fd}
            /\ allocated' = IF o.slot = 0 THEN allocated \ {o.file} ELSE allocated
            /\ UNCHANGED <<handles, uses>>
       ELSE /\ handles' = [handles EXCEPT ![Lowest(FreeHandles)] =
                             [state |-> "active", fd |-> o.fd, pins |-> 0, file |-> o.file]]
            /\ uses' = [uses EXCEPT ![o.file] = @ + 1]
            /\ UNCHANGED <<native, allocated>>
  /\ Become(t, IF o.slot = 0 THEN NotDoing ELSE [step |-> "release", slot |-> o.slot])
  /\ UNCHANGED <<position, dupLock>>

\* The handle of an open file goes, and with the last one the open file.
Drop(f) ==
  /\ uses' = [uses EXCEPT ![f] = @ - 1]
  /\ allocated' = IF uses[f] = 1 THEN allocated \ {f} ELSE allocated

CloseNow(t, s) ==
  /\ native' = native \ {handles[s].fd}
  /\ Drop(handles[s].file)
  /\ handles' = [handles EXCEPT ![s] = FreeHandle]
  /\ Become(t, NotDoing)

ClosePacked(t, fd) ==
  /\ doing[t] = NotDoing
  /\ \E s \in FindHandle(fd, {"active"}) :
       IF handles[s].pins = 0 THEN CloseNow(t, s)
       ELSE /\ handles' = [handles EXCEPT ![s].state = "closing"]
            /\ Become(t, [step |-> "drain", slot |-> s])
            /\ UNCHANGED <<native, uses, allocated>>
  /\ UNCHANGED <<position, dupLock>>

CloseDrained(t) ==
  /\ doing[t].step = "drain" /\ handles[doing[t].slot].pins = 0
  /\ CloseNow(t, doing[t].slot)
  /\ UNCHANGED <<position, dupLock>>

(***************************************************************************)
(* dup2: one at a time, so that no two of them wait for each other's       *)
(* source; the source is pinned throughout.                                *)
(***************************************************************************)
\* A mutant of the next definition: nobody waits for the other dup2.
DupLockAnyway == TRUE

DupLockFree == dupLock = NoThread

Dup2(t, fd, target) ==
  /\ doing[t] = NotDoing /\ fd # target /\ DupLockFree
  /\ PinHandle(t, fd, LAMBDA s : [step |-> "dup2", slot |-> s, target |-> target])
  /\ dupLock' = t
  /\ UNCHANGED <<allocated, uses, position, native>>

Dup2Open(t) ==
  /\ doing[t].step = "dup2"
  /\ \/ \E n \in Numbers \ native :
          /\ native' = native \union {n}
          /\ Become(t, [step |-> "target", slot |-> doing[t].slot,
                        target |-> doing[t].target, fd |-> n])
     \/ Become(t, [step |-> "release", slot |-> doing[t].slot]) /\ UNCHANGED native
  /\ UNCHANGED <<handles, allocated, uses, position, dupLock>>

Dup2Fails(t) ==
  /\ native' = native \ {doing[t].fd}
  /\ Become(t, [step |-> "release", slot |-> doing[t].slot])

\* The handle s is the target's, or a free one.
ReplaceHandle(t, s) ==
  LET o == doing[t] source == handles[o.slot].file old == handles[s].file IN
  /\ native' = (native \ {o.fd}) \union {o.target}
  /\ IF handles[s].state # "free" /\ old # source
       THEN /\ uses' = [uses EXCEPT ![old] = @ - 1, ![source] = @ + 1]
            /\ allocated' = IF uses[old] = 1 THEN allocated \ {old} ELSE allocated
     ELSE IF handles[s].state = "free"
       THEN uses' = [uses EXCEPT ![source] = @ + 1] /\ UNCHANGED allocated
     ELSE UNCHANGED <<uses, allocated>>
  /\ handles' = [handles EXCEPT ![s] = [state |-> "active", fd |-> o.target, pins |-> 0,
                                        file |-> source]]
  /\ Become(t, [step |-> "release", slot |-> o.slot])

Incoming == {doing[t].fd : t \in {u \in PackThreads : doing[u].step = "install"}}

\* A target that another dup2 or close is taking away is waited for; one that is pinned
\* drains first.  The host's dup2 may fail, unless open gave the target itself.  A program
\* does not name as a target a number that another of its threads is just being given.
Dup2Target(t) ==
  LET o == doing[t] IN
  /\ o.step = "target" /\ o.target \notin Incoming
  /\ FindHandle(o.target, {"closing"}) = {}
  /\ LET mine == FindHandle(o.target, {"active"}) IN
     \/ mine = {} /\ FreeHandles # {} /\ ReplaceHandle(t, Lowest(FreeHandles))
     \/ \E s \in mine : handles[s].pins = 0 /\ ReplaceHandle(t, s)
     \/ /\ IF mine = {} THEN FreeHandles = {} \/ o.fd # o.target
                        ELSE \E s \in mine : handles[s].pins = 0
        /\ Dup2Fails(t) /\ UNCHANGED <<handles, uses, allocated>>
     \/ \E s \in mine :
          /\ handles[s].pins # 0
          /\ handles' = [handles EXCEPT ![s].state = "closing"]
          /\ Become(t, [step |-> "replace", slot |-> o.slot, target |-> o.target,
                        fd |-> o.fd, over |-> s])
          /\ UNCHANGED <<native, uses, allocated>>
  /\ UNCHANGED <<position, dupLock>>

\* The native dup2 may fail, and the target is what it was.
Dup2Drained(t) ==
  /\ doing[t].step = "replace" /\ handles[doing[t].over].pins = 0
  /\ \/ ReplaceHandle(t, doing[t].over)
     \/ /\ handles' = [handles EXCEPT ![doing[t].over].state = "active"]
        /\ Dup2Fails(t) /\ UNCHANGED <<uses, allocated>>
  /\ UNCHANGED <<position, dupLock>>

PackNext ==
  \E t \in PackThreads :
    \/ OpenPath(t)
    \/ \E fd \in Numbers : Use(t, fd) \/ DupFd(t, fd) \/ ClosePacked(t, fd)
    \/ \E fd, target \in Numbers : Dup2(t, fd, target)
    \/ ReadPacked(t) \/ Seek(t) \/ ReleaseHandle(t)
    \/ DupOpen(t) \/ InstallHandle(t) \/ CloseDrained(t)
    \/ Dup2Open(t) \/ Dup2Target(t) \/ Dup2Drained(t)

PackSpec == PackInit /\ [][PackNext]_packVars

\* Threads are alike, and the position of an open file that is free is of no account.
PackView ==
  <<handles, allocated, uses, native, [f \in allocated |-> position[f]],
    IF dupLock = NoThread THEN NotDoing ELSE doing[dupLock],
    [o \in {doing[t] : t \in PackThreads} |->
       Cardinality({t \in PackThreads : doing[t] = o})]>>

-----------------------------------------------------------------------------
LiveHandles == {s \in PackSlots : handles[s].state # "free"}
Pinners(s) == {t \in PackThreads :
                 /\ doing[t].step \in {"use", "release", "dup", "dup2", "target",
                                       "replace", "install"}
                 /\ doing[t].slot = s}
Awaited(t) == CASE doing[t].step = "drain"   -> Pinners(doing[t].slot)
                [] doing[t].step = "replace" -> Pinners(doing[t].over)
                [] OTHER                     -> {}
Temporary == {doing[t].fd : t \in {u \in PackThreads :
                doing[u].step \in {"install", "target", "replace"}}}
Entering  == {doing[t].file : t \in {u \in PackThreads :
                doing[u].step = "install" /\ doing[u].slot = 0}}

\* close and dup2 race the users of a descriptor and of its duplicates
\* (asset_pack.c:829-909, 1176-1198): a handle that is used keeps its number and its
\* open file until it is released; an open file is freed with its last descriptor and
\* not before; no number is leaked, or closed under a handle; a seek does not
\* overflow; and no two threads wait for each other.
PackSound ==
  /\ \A s \in PackSlots : handles[s].pins = Cardinality(Pinners(s))
  /\ \A s \in PackSlots : Pinners(s) # {} => s \in LiveHandles
  /\ \A r, s \in LiveHandles : handles[r].fd = handles[s].fd => r = s
  /\ native = Temporary \union {handles[s].fd : s \in LiveHandles}
  /\ allocated = Entering \union {handles[s].file : s \in LiveHandles}
  /\ \A f \in OpenFiles : uses[f] = Cardinality({s \in LiveHandles : handles[s].file = f})
  /\ \A f \in allocated : position[f] \in 0..LongMax
  /\ \A t, u \in PackThreads : ~(t \in Awaited(u) /\ u \in Awaited(t))
=============================================================================
