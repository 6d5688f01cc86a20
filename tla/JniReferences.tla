--------------------------- MODULE JniReferences ---------------------------
(***************************************************************************)
(* References of the fake JNI (jni_fake.c).  There is no collector: every  *)
(* Java value counts its owners, which are the entries of the threads'     *)
(* tables of local references, the table of global references, the fields  *)
(* of other values, pending exceptions, and messages on their way to the   *)
(* handler thread.  A reference is the address of its value, so that two   *)
(* references to a value cannot be told apart.                             *)
(*                                                                         *)
(* The tables of locals belong to their threads; the others are changed    *)
(* under locals_lock and handler_dispatch_lock, in one step each.  A value *)
(* with a field (an array of one element, a message and its target, a      *)
(* handler and its callback) is one with an item.  "promised" is what JNI  *)
(* lets the guest rely on, as the references in each frame and those below *)
(* it.                                                                     *)
(***************************************************************************)
EXTENDS Integers, Sequences, FiniteSets, SequencesExt

CONSTANTS
  JniThreads, Values,
  MaxLocals,   \* MAX_LOCALS
  MaxFrames,   \* MAX_FRAMES
  MaxGlobals,  \* MAX_GLOBAL_REFS, and the bound on the aliases of one
  MaxQueue     \* bound on the messages that wait

ASSUME JniAssumption ==
  /\ IsFiniteSet(JniThreads) /\ IsFiniteSet(Values) /\ Values \subseteq Nat \ {0}
  /\ MaxLocals \in Nat

VARIABLES
  owners,    \* [Values -> refs], 0 when the value is free
  item,      \* [Values -> the value in its field, or Null]
  locals,    \* [JniThreads -> local_state.refs]
  marks,     \* [JniThreads -> local_state.frames: where each frame begins]
  promised,  \* [JniThreads -> for each frame, the outermost first, how many references
             \* to each value it has and the frames below it]
  globals,   \* global_refs: [Values -> count]
  thrown,    \* [JniThreads -> pending_exception]
  owedRef,   \* [JniThreads -> a value that it releases when it has left the lock]
  messages,  \* the queue of the handler thread
  handled    \* the message that it handles

jniVars == <<owners, item, locals, marks, promised, globals, thrown, owedRef, messages,
             handled>>
ownRefs == <<locals, marks, promised>>
sharedRefs == <<globals, messages, handled>>

Null == 0
NoneOf == [v \in Values |-> 0]

JniInit ==
  /\ owners = NoneOf /\ item = [v \in Values |-> Null]
  /\ locals = [t \in JniThreads |-> <<>>] /\ marks = [t \in JniThreads |-> <<>>]
  /\ promised = [t \in JniThreads |-> <<NoneOf>>]
  /\ globals = NoneOf
  /\ thrown = [t \in JniThreads |-> Null] /\ owedRef = [t \in JniThreads |-> Null]
  /\ messages = <<>> /\ handled = Null

Same(u, v) == IF u = v THEN 1 ELSE 0
Kept(n) == IF n > 0 THEN 1 ELSE 0
Among(s, n, v) == Cardinality({k \in 1 .. n : s[k] = v})
CountIn(s, v) == Among(s, Len(s), v)

-----------------------------------------------------------------------------
\* retain_ref
RetainedRef(o, v) == IF v = Null THEN o ELSE [o EXCEPT ![v] = @ + 1]

\* What happens to owners o and fields i when lost[v] references to each v are released
\* (free_ref): the values in F are freed, as they lose all their owners, among which are
\* the fields of other values in F.
Lose(lost, i, F) == [v \in Values |-> lost[v] + Cardinality({w \in F : i[w] = v})]
IsFreed(o, i, lost, F) == \A v \in Values : v \in F <=> o[v] \in 1 .. Lose(lost, i, F)[v]
Released(o, i, lost) ==
  {[owners |-> [v \in Values |->
                  IF v \in F \/ o[v] = 0 THEN 0 ELSE o[v] - Lose(lost, i, F)[v]],
    item   |-> [v \in Values |-> IF v \in F THEN Null ELSE i[v]]] :
     F \in {G \in SUBSET Values :
             /\ IsFreed(o, i, lost, G)
             /\ \A H \in SUBSET Values : IsFreed(o, i, lost, H) => G \subseteq H}}
Only1(v) == [u \in Values |-> Same(u, v)]
ReleasedOne(o, i, v) == Released(o, i, Only1(v))

RefsBecome(r) == owners' = r.owners /\ item' = r.item

\* What a thread may name: its local references, the global ones and null.
Known(t) == {v \in Values : Last(promised[t])[v] > 0 \/ globals[v] > 0}
FreeValues == {v \in Values : owners[v] = 0}

Calls(t) == owedRef[t] = Null

\* One more reference in the frame on top.
Relied(p, v) == [p EXCEPT ![Len(p)][v] = @ + 1]
Rely(t, v) == promised' = [promised EXCEPT ![t] = Relied(@, v)]

\* reg_local gives v, which o already counts, to the thread, unless its table is full.
RegLocal(t, o, i, v) ==
  IF Len(locals[t]) < MaxLocals
    THEN /\ owners' = o /\ item' = i
         /\ locals' = [locals EXCEPT ![t] = Append(@, v)]
         /\ Rely(t, v)
    ELSE /\ \E r \in ReleasedOne(o, i, v) : RefsBecome(r)
         /\ UNCHANGED <<locals, promised>>

-----------------------------------------------------------------------------
\* A new value, around another or around none.
NewValue(t, inner) ==
  /\ Calls(t)
  /\ \E v \in FreeValues :
       /\ \A u \in FreeValues : v <= u
       /\ RegLocal(t, RetainedRef([owners EXCEPT ![v] = 1], inner),
                   [item EXCEPT ![v] = inner], v)
  /\ UNCHANGED <<marks, sharedRefs, thrown, owedRef>>

NewLocalRef(t, v) ==
  /\ Calls(t) /\ v \in Known(t)
  /\ RegLocal(t, RetainedRef(owners, v), item, v)
  /\ UNCHANGED <<marks, sharedRefs, thrown, owedRef>>

\* A mutant of the next definition: the frames stay where they are.
MarksStay(t, i) == marks[t]

\* The frames above a local reference that is deleted move down with the rest.
MarksBelow(t, i) ==
  [k \in DOMAIN marks[t] |-> IF marks[t][k] >= i THEN marks[t][k] - 1 ELSE marks[t][k]]

\* One reference less in the frame d and those above it.
OneLess(p, d, v) == [e \in DOMAIN p |-> IF e < d THEN p[e] ELSE [p[e] EXCEPT ![v] = @ - 1]]

\* The guest deletes a reference of the frame d, and the youngest entry of the same
\* value goes.
DeleteLocalRef(t, v, d) ==
  /\ Calls(t) /\ d \in DOMAIN promised[t]
  /\ promised[t][d][v] > (IF d = 1 THEN 0 ELSE promised[t][d - 1][v])
  /\ promised' = [promised EXCEPT ![t] = OneLess(@, d, v)]
  /\ LET places == {i \in DOMAIN locals[t] : locals[t][i] = v} IN
     IF places = {} THEN UNCHANGED <<owners, item, locals, marks>>
     ELSE \E i \in places :
            /\ \A q \in places : q <= i
            /\ locals' = [locals EXCEPT ![t] = RemoveAt(@, i)]
            /\ marks' = [marks EXCEPT ![t] = MarksBelow(t, i)]
            /\ \E r \in ReleasedOne(owners, item, v) : RefsBecome(r)
  /\ UNCHANGED <<sharedRefs, thrown, owedRef>>

PushLocalFrame(t) ==
  /\ Calls(t) /\ Len(marks[t]) < MaxFrames
  /\ marks' = [marks EXCEPT ![t] = Append(@, Len(locals[t]))]
  /\ promised' = [promised EXCEPT ![t] = Append(@, Last(@))]
  /\ UNCHANGED <<owners, item, locals, sharedRefs, thrown, owedRef>>

\* The result, when there is one, becomes a local reference of the frame below: the
\* entry that it has in the frame is passed on, or else it is retained.
PopLocalFrame(t, result) ==
  LET mark  == Last(marks[t])
      kept  == SubSeq(locals[t], 1, mark)
      below == Front(promised[t])
      has   == result # Null /\ \E k \in mark + 1 .. Len(locals[t]) : locals[t][k] = result
      lost  == [v \in Values |-> CountIn(locals[t], v) - Among(locals[t], mark, v)
                                   - (IF has THEN Same(v, result) ELSE 0)]
      fits(r) == result # Null /\ (has \/ r.owners[result] > 0) /\ mark < MaxLocals
  IN
  /\ Calls(t) /\ marks[t] # <<>>
  /\ result \in Known(t) \union {Null}
  /\ marks' = [marks EXCEPT ![t] = Front(@)]
  /\ \E r \in Released(owners, item, lost) :
       IF fits(r)
         THEN /\ owners' = (IF has THEN r.owners ELSE RetainedRef(r.owners, result))
              /\ item' = r.item
              /\ locals' = [locals EXCEPT ![t] = Append(kept, result)]
              /\ promised' = [promised EXCEPT ![t] = Relied(below, result)]
         ELSE /\ RefsBecome(r)
              /\ locals' = [locals EXCEPT ![t] = kept]
              /\ promised' = [promised EXCEPT ![t] = below]
  /\ UNCHANGED <<sharedRefs, thrown, owedRef>>

-----------------------------------------------------------------------------
NewGlobalRef(t, v) ==
  /\ Calls(t) /\ v \in Known(t) /\ globals[v] < MaxGlobals
  /\ \/ globals[v] > 0 /\ UNCHANGED owners
     \/ /\ globals[v] = 0 /\ Cardinality({w \in Values : globals[w] > 0}) < MaxGlobals
        /\ owners' = RetainedRef(owners, v)
  /\ globals' = [globals EXCEPT ![v] = @ + 1]
  /\ UNCHANGED <<item, ownRefs, thrown, owedRef, messages, handled>>

\* The value is released when the lock has been left.
DeleteGlobalRef(t, v) ==
  /\ Calls(t) /\ globals[v] > 0
  /\ globals' = [globals EXCEPT ![v] = @ - 1]
  /\ owedRef' = [owedRef EXCEPT ![t] = IF globals[v] = 1 THEN v ELSE Null]
  /\ UNCHANGED <<owners, item, ownRefs, thrown, messages, handled>>

FreeRef(t) ==
  /\ owedRef[t] # Null
  /\ \E r \in ReleasedOne(owners, item, owedRef[t]) : RefsBecome(r)
  /\ owedRef' = [owedRef EXCEPT ![t] = Null]
  /\ UNCHANGED <<ownRefs, sharedRefs, thrown>>

GetObjectArrayElement(t, array) ==
  /\ Calls(t) /\ array \in Known(t) /\ item[array] # Null
  /\ RegLocal(t, RetainedRef(owners, item[array]), item, item[array])
  /\ UNCHANGED <<marks, sharedRefs, thrown, owedRef>>

\* An array of its own elements is not built here.
SetObjectArrayElement(t, array, v) ==
  /\ Calls(t) /\ array \in Known(t) /\ v \in (Known(t) \ {array}) \union {Null}
  /\ item[array] # v /\ v \notin {w \in Values : item[w] = array}
  /\ item' = [item EXCEPT ![array] = v]
  /\ owners' = RetainedRef(owners, v)
  /\ owedRef' = [owedRef EXCEPT ![t] = item[array]]
  /\ UNCHANGED <<ownRefs, sharedRefs, thrown>>

\* Throw, ThrowNew and ExceptionClear.
SetPendingException(t, v) ==
  /\ Calls(t) /\ v \in Known(t) \union {Null} /\ v # thrown[t]
  /\ \E r \in ReleasedOne(RetainedRef(owners, v), item, thrown[t]) : RefsBecome(r)
  /\ thrown' = [thrown EXCEPT ![t] = v]
  /\ UNCHANGED <<ownRefs, sharedRefs, owedRef>>

ExceptionOccurred(t) ==
  /\ Calls(t) /\ thrown[t] # Null
  /\ RegLocal(t, RetainedRef(owners, thrown[t]), item, thrown[t])
  /\ UNCHANGED <<marks, sharedRefs, thrown, owedRef>>

\* Message.sendToTarget; the node of the queue owns the message.
EnqueueHandlerMessage(t, m) ==
  /\ Calls(t) /\ m \in Known(t) /\ item[m] # Null /\ Len(messages) < MaxQueue
  /\ owners' = RetainedRef(owners, m)
  /\ messages' = Append(messages, m)
  /\ UNCHANGED <<item, ownRefs, globals, thrown, owedRef, handled>>

\* The handler thread, one message after the other.
TakeMessage ==
  /\ handled = Null /\ messages # <<>>
  /\ handled' = Head(messages) /\ messages' = Tail(messages)
  /\ UNCHANGED <<owners, item, ownRefs, globals, thrown, owedRef>>

DispatchHandlerMessage ==
  /\ handled # Null
  /\ \E r \in ReleasedOne(owners, item, handled) : RefsBecome(r)
  /\ handled' = Null
  /\ UNCHANGED <<ownRefs, globals, messages, thrown, owedRef>>

\* DetachCurrentThread, or the end of the thread.
ThreadExitCleanup(t) ==
  /\ Calls(t)
  /\ \E r \in Released(owners, item,
                       [v \in Values |-> CountIn(locals[t], v) + Same(thrown[t], v)]) :
       RefsBecome(r)
  /\ locals' = [locals EXCEPT ![t] = <<>>]
  /\ marks' = [marks EXCEPT ![t] = <<>>]
  /\ promised' = [promised EXCEPT ![t] = <<NoneOf>>]
  /\ thrown' = [thrown EXCEPT ![t] = Null]
  /\ UNCHANGED <<sharedRefs, owedRef>>

JniNext ==
  \/ \E t \in JniThreads :
       \/ \E inner \in Known(t) \union {Null} : NewValue(t, inner)
       \/ \E v \in Values :
            \/ NewLocalRef(t, v) \/ NewGlobalRef(t, v) \/ DeleteGlobalRef(t, v)
            \/ GetObjectArrayElement(t, v) \/ EnqueueHandlerMessage(t, v)
            \/ \E d \in 1 .. MaxFrames + 1 : DeleteLocalRef(t, v, d)
            \/ \E w \in Values \union {Null} : SetObjectArrayElement(t, v, w)
       \/ \E v \in Values \union {Null} : SetPendingException(t, v) \/ PopLocalFrame(t, v)
       \/ PushLocalFrame(t) \/ FreeRef(t) \/ ExceptionOccurred(t) \/ ThreadExitCleanup(t)
  \/ TakeMessage \/ DispatchHandlerMessage

JniSpec == JniInit /\ [][JniNext]_jniVars

-----------------------------------------------------------------------------
\* The entries for v in the threads' tables.
LocalsHolding(v) ==
  {e \in JniThreads \X (1 .. MaxLocals) :
     e[2] <= Len(locals[e[1]]) /\ locals[e[1]][e[2]] = v}
OwnersOf(v) ==
  Cardinality(LocalsHolding(v)) + Cardinality({t \in JniThreads : thrown[t] = v})
    + Cardinality({t \in JniThreads : owedRef[t] = v}) + Kept(globals[v])
    + Cardinality({w \in Values : item[w] = v}) + CountIn(messages, v) + Same(handled, v)

\* How many entries of a thread's table are there until the frame above d goes.
UpTo(t, d) == IF d > Len(marks[t]) THEN Len(locals[t]) ELSE marks[t][d]

\* Frames, aliases and shared fields are released in any order, by any thread
\* (jni_fake.c:330-346, 1577-1613, 1681-1698, 2104-2127): a value has as many owners as
\* are counted, neither freed early nor leaked; the frames of a thread are within its
\* table; and what JNI promises the guest in a frame stays in the table as long as that
\* frame, whichever of two references to a value was deleted.
JniSound ==
  /\ \A v \in Values : owners[v] = OwnersOf(v)
  /\ \A t \in JniThreads :
       /\ \A k \in DOMAIN marks[t] : marks[t][k] <= Len(locals[t])
       /\ \A k \in 2..Len(marks[t]) : marks[t][k - 1] <= marks[t][k]
       /\ \A d \in DOMAIN promised[t], v \in Values :
            promised[t][d][v] <= Among(locals[t], UpTo(t, d), v)
=============================================================================
