----------------------------- MODULE ThreadKeys -----------------------------
(***************************************************************************)
(* Keys of thread-local storage (imports.c 1690-1810).  All guest keys are *)
(* slots of one table; a slot's generation tells its keys apart, and each  *)
(* thread stores with a value the generation it was set under.             *)
(*                                                                         *)
(* g_key_mutex makes create and delete one action each; a thread's own     *)
(* values need no lock.  The passes over them at its end call guest code   *)
(* without the lock, so each slot of a pass is a step of its own.          *)
(***************************************************************************)
EXTENDS Integers, FiniteSets

CONSTANTS
  KeyThreads, Slots,
  Generations,    \* 2^32 in the code: the counter wraps and skips 0
  Passes,         \* 4
  MaxBirths       \* bound: keys made in one slot; less than Generations

ASSUME KeyAssumption ==
  /\ IsFiniteSet(Slots) /\ Slots # {} /\ Slots = 1 .. Cardinality(Slots)
  /\ Generations \in Nat /\ Passes \in Nat /\ MaxBirths \in Nat
  /\ MaxBirths < Generations

\* What the slots hold; births counts the keys a slot has had, so the pair
\* <<slot, births>> names a key for the properties.
VARIABLES
  slotUsed, generation, hasDtor, births,
  value,      \* value[t][i]: the key the value was set for, or "null"
  setUnder,   \* KeyValues.generations
  setting,    \* setting[t]: the slot and generation a set has read
  ending      \* ending[t]: the pass and slot of destroy_guest_key_values

keyVars == <<slotUsed, generation, hasDtor, births, value, setUnder, setting, ending>>

NotSetting == [slot |-> 0, generation |-> 0, key |-> 0]
NotEnding == [pass |-> 0, slot |-> 0, again |-> FALSE]
Gone == [pass |-> -1, slot |-> 0, again |-> FALSE]
Running(t) == ending[t] = NotEnding

KeysInit ==
  /\ slotUsed = {} /\ hasDtor = {}
  /\ generation = [i \in Slots |-> 0] /\ births = [i \in Slots |-> 0]
  /\ value = [t \in KeyThreads |-> [i \in Slots |-> 0]]
  /\ setUnder = [t \in KeyThreads |-> [i \in Slots |-> 0]]
  /\ setting = [t \in KeyThreads |-> NotSetting]
  /\ ending = [t \in KeyThreads |-> NotEnding]

SameGeneration(g) == IF g = 0 THEN 1 ELSE g
NextGeneration(g) == IF (g + 1) % Generations = 0 THEN 1 ELSE (g + 1) % Generations

\* pthread_key_create_fake takes the first free slot.
KeyCreate(dtor) ==
  \E i \in Slots \ slotUsed :
    /\ \A j \in Slots \ slotUsed : i <= j
    /\ births[i] < MaxBirths
    /\ births' = [births EXCEPT ![i] = @ + 1]
    /\ generation' = [generation EXCEPT ![i] = NextGeneration(@)]
    /\ slotUsed' = slotUsed \cup {i}
    /\ hasDtor' = IF dtor THEN hasDtor \cup {i} ELSE hasDtor
    /\ UNCHANGED <<value, setUnder, setting, ending>>

\* pthread_key_delete_fake.  No thread is inside a call for the key: POSIX leaves
\* that race to the program.
KeyDelete(i) ==
  /\ i \in slotUsed
  /\ \A t \in KeyThreads : setting[t].slot # i
  /\ slotUsed' = slotUsed \ {i} /\ hasDtor' = hasDtor \ {i}
  /\ UNCHANGED <<generation, births, value, setUnder, setting, ending>>

\* pthread_setspecific_fake: the slot is read first, the value written later.
SetBegin(t, i) ==
  /\ ending[t] # Gone /\ setting[t] = NotSetting
  /\ i \in slotUsed
  /\ setting' = [setting EXCEPT ![t] =
                   [slot |-> i, generation |-> generation[i], key |-> births[i]]]
  /\ UNCHANGED <<slotUsed, generation, hasDtor, births, value, setUnder, ending>>

SetStore(t) ==
  /\ setting[t] # NotSetting
  /\ LET s == setting[t]
     IN  /\ value' = [value EXCEPT ![t][s.slot] = s.key]
         /\ setUnder' = [setUnder EXCEPT ![t][s.slot] = s.generation]
  /\ setting' = [setting EXCEPT ![t] = NotSetting]
  /\ UNCHANGED <<slotUsed, generation, hasDtor, births, ending>>

\* What pthread_getspecific_fake returns for the key now in slot i.
Got(t, i) == IF setUnder[t][i] = generation[i] THEN value[t][i] ELSE 0

\* run_guest_key_destructors, master_key_dtor: the thread ends.
EndBegin(t) ==
  /\ Running(t) /\ setting[t] = NotSetting
  /\ ending' = [ending EXCEPT ![t] = [pass |-> 1, slot |-> 1, again |-> FALSE]]
  /\ UNCHANGED <<slotUsed, generation, hasDtor, births, value, setUnder, setting>>

\* The slot is examined under the lock, its destructor called after it.
Destructible(t, i) ==
  i \in slotUsed \cap hasDtor /\ setUnder[t][i] = generation[i] /\ value[t][i] # 0

LastSlot(e) == e.slot = Cardinality(Slots)
Advance(e, called) ==
  LET again == e.again \/ called
  IN  IF ~LastSlot(e) THEN [e EXCEPT !.slot = @ + 1, !.again = again]
      ELSE IF again /\ e.pass < Passes THEN [pass |-> e.pass + 1, slot |-> 1, again |-> FALSE]
      ELSE Gone

EndSlot(t) ==
  /\ ending[t].pass > 0 /\ setting[t] = NotSetting
  /\ LET i == ending[t].slot
         called == Destructible(t, i)
     IN  /\ value' = IF called THEN [value EXCEPT ![t][i] = 0] ELSE value
         /\ ending' = [ending EXCEPT ![t] = Advance(@, called)]
  /\ UNCHANGED <<slotUsed, generation, hasDtor, births, setUnder, setting>>

KeysNext ==
  \/ \E dtor \in BOOLEAN : KeyCreate(dtor)
  \/ \E i \in Slots : KeyDelete(i)
  \/ \E t \in KeyThreads : \/ \E i \in Slots : SetBegin(t, i)
                           \/ SetStore(t) \/ EndBegin(t) \/ EndSlot(t)

KeysSpec == KeysInit /\ [][KeysNext]_keyVars

(* A get returns, and a destructor receives, only a value that was set for   *)
(* the key now in the slot, never one left behind by a deleted key whose     *)
(* slot was taken again (pthread_key_create_fake bumps the generation and    *)
(* skips 0, which is what calloc leaves in a new thread's table).            *)
ValuesBelongToTheirKey ==
  \A t \in KeyThreads, i \in slotUsed :
    /\ Got(t, i) \in {0, births[i]}
    /\ Destructible(t, i) => value[t][i] = births[i]

KeysTypeOK ==
  /\ slotUsed \subseteq Slots /\ hasDtor \subseteq slotUsed
  /\ generation \in [Slots -> 0 .. Generations - 1]
  /\ \A t \in KeyThreads, i \in Slots : value[t][i] \in 0 .. births[i]
=============================================================================
