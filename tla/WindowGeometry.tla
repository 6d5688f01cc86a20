--------------------------- MODULE WindowGeometry ---------------------------
(***************************************************************************)
(* The size of the native window (android_native_unity.c 25-259): what     *)
(* Unity requested, the base size of the docked or handheld mode, the size *)
(* last applied and the flag that says it is out of date.                  *)
(*                                                                         *)
(* android_native_update_mode changes the base under the state lock alone, *)
(* while a transaction under g_window_apply_lock reads the wanted size,    *)
(* talks to the window without the state lock, and records the outcome.    *)
(* The window refuses a new size while it has buffers configured.          *)
(***************************************************************************)
EXTENDS Integers

CONSTANTS
  Bases,    \* base sizes of the two modes
  Requests, \* sizes Unity may ask for; 0 is the base
  MaxGen,   \* bound on g_geometry_generation
  NoTxn

\* The marker of the idle lock is no transaction and no size.
ASSUME WindowAssumption ==
  /\ NoTxn \notin Bases \cup Requests /\ MaxGen \in Int
  /\ NoTxn \notin [undo : Bases \cup Requests \cup {0, NoTxn},
                   size : Bases \cup Requests \cup {0}, gen : Int,
                   at : {"window", "novalid", "failed", "there", "set", "half", "rollback"}]

VARIABLES
  base, requested, applied, geometryGen, dirty, \* g_base_*, g_requested_*, ...
  actual,   \* the size of the NWindow
  buffers,  \* whether it has buffer slots configured
  txn       \* the transaction of the owner of g_window_apply_lock, or NoTxn

windowVars == <<base, requested, applied, geometryGen, dirty, actual, buffers, txn>>

WindowInit ==
  /\ base \in Bases /\ requested = 0 /\ applied = 0 /\ geometryGen = 1 /\ dirty = TRUE
  /\ actual \in Bases /\ buffers = FALSE /\ txn = NoTxn

Effective == IF requested = 0 THEN base ELSE requested

\* android_native_update_mode, in another mode than before.
UpdateMode ==
  /\ base' \in Bases \ {base} /\ geometryGen < MaxGen
  /\ IF requested = 0 THEN dirty' = TRUE /\ geometryGen' = geometryGen + 1
     ELSE UNCHANGED <<dirty, geometryGen>>
  /\ UNCHANGED <<requested, applied, actual, buffers, txn>>

\* android_native_apply_window_geometry takes the apply lock; the first section
\* of apply_window_geometry_locked reads what to apply.
ApplyGoal(undo) ==
  [undo |-> undo, size |-> Effective', gen |-> geometryGen', at |-> "window"]
Apply ==
  /\ txn = NoTxn
  /\ UNCHANGED <<base, requested, applied, geometryGen, dirty, actual, buffers>>
  /\ txn' = ApplyGoal(NoTxn)

\* ANativeWindow_setBuffersGeometry publishes the request first.
SetBuffersGeometry(size) ==
  /\ txn = NoTxn /\ geometryGen < MaxGen
  /\ requested' = size /\ geometryGen' = geometryGen + 1
  /\ UNCHANGED <<base, applied, actual, buffers>>
  /\ dirty' = (dirty \/ Effective' # applied)
  /\ txn' = ApplyGoal(requested)

\* The section under the window's own mutex, with its outcome: "there" if the
\* window has the size, "set", "half" if the size was set and a later call
\* failed, and the failures, which leave the size alone.
Outcome(o) == txn' = [txn EXCEPT !.at = o]
UseWindow ==
  /\ txn # NoTxn /\ txn.at = "window"
  /\ \/ Outcome("novalid") /\ UNCHANGED actual
     \/ Outcome("failed") /\ UNCHANGED actual
     \/ actual = txn.size /\ Outcome("there") /\ UNCHANGED actual
     \/ /\ actual # txn.size /\ ~buffers /\ actual' = txn.size
        /\ Outcome("set") \/ Outcome("half")
     \/ actual # txn.size /\ buffers /\ Outcome("failed") /\ UNCHANGED actual
  /\ UNCHANGED <<base, requested, applied, geometryGen, dirty, buffers>>

\* The last section: record what is applied and whether it is still wanted.
OutOfDateIfFailed(size, status) == dirty' = status
OutOfDate(size, status) ==
  dirty' = (status \/ geometryGen # txn.gen \/ Effective # size)
Settles == IF txn.at \in {"there", "set"} \/ txn.undo = NoTxn THEN NoTxn
           ELSE [txn EXCEPT !.at = "rollback"]
RecordGeometry ==
  /\ txn # NoTxn
  /\ \/ txn.at = "novalid" /\ UNCHANGED <<applied, dirty>>
     \/ txn.at = "failed" /\ dirty' = TRUE /\ UNCHANGED applied
     \/ /\ txn.at \in {"there", "set", "half"}
        /\ applied' = txn.size /\ OutOfDate(txn.size, txn.at = "half")
  /\ txn' = Settles
  /\ UNCHANGED <<base, requested, geometryGen, actual, buffers>>

\* A failed request is taken back, and the old one is applied again.
Rollback ==
  /\ txn # NoTxn /\ txn.at = "rollback"
  /\ requested' = txn.undo /\ geometryGen' = geometryGen + 1
  /\ UNCHANGED <<base, applied, actual, buffers>>
  /\ dirty' = (Effective' # applied)
  /\ txn' = ApplyGoal(NoTxn)

\* The swapchain configures and frees the window's buffers.
Swapchain ==
  /\ buffers' = ~buffers
  /\ UNCHANGED <<base, requested, applied, geometryGen, dirty, actual, txn>>

WindowNext ==
  \/ UpdateMode \/ UseWindow \/ RecordGeometry \/ Rollback \/ Swapchain
  \/ Apply \/ \E size \in Requests : SetBuffersGeometry(size)

WindowSpec == WindowInit /\ [][WindowNext]_windowVars

-----------------------------------------------------------------------------
(* A change of mode, a request or its rollback that meets a transaction     *)
(* half-way is never forgotten: while the flag says that nothing is left to *)
(* do, the size that is wanted is the one recorded as applied; and between  *)
(* transactions what is recorded is what the window has                     *)
(* (apply_window_geometry_locked, android_native_unity.c:147).              *)
GeometrySettled ==
  /\ ~dirty => applied = Effective
  /\ txn = NoTxn => applied \in {0, actual}
=============================================================================
