--------------------------- MODULE GcBridge_proofs ---------------------------
(***************************************************************************)
(* Theorems about GcBridge, for any mutators and bounds: no capture of a   *)
(* protected thread is committed, references outlive pauses, and a         *)
(* collection ends with nothing of it left.                                *)
(***************************************************************************)
EXTENDS GcBridge, TLAPS, FiniteSetTheorems

\* The types that the argument needs.
Shape ==
  /\ work \in [Mutator -> {"run", "masked", "try", "spin", "own", "leave",
                           "diagTry", "diagOwn"}]
  /\ kernel \in [Mutator -> {"running", "paused"}]
  /\ owner \in Mutator \union {None}
  /\ slot \in [Mutator -> Slot]
  /\ leased \subseteq Mutator
  /\ cycleActive \in BOOLEAN
  /\ at \in [Agent -> CollectorPC \union MonitorPC]
  /\ on \in [Agent -> Mutator \union {None}]

\* The owner of the lock is where the lock is held.
OwnerHolds == owner # None => work[owner] \in {"own", "diagOwn"}

\* An agent works on a slot in the state that reserves it for this agent: no two
\* agents work on one slot.
CapturePCs == {"check", "pause", "paused", "undoDefer", "undoRetry"}
Reserved ==
  /\ at["collector"] \in CapturePCs \union {"giveUp"} =>
       on["collector"] \in Mutator /\ slot[on["collector"]] = "capturing"
  /\ at["collector"] = "dependency" => slot[Worker] = "dependency"
  /\ at["monitor"] \in CapturePCs =>
       on["monitor"] \in Mutator /\ slot[on["monitor"]] = "deferred"
  /\ at["monitor"] = "abort" =>
       on["monitor"] \in Mutator /\ slot[on["monitor"]] = "aborting"
  /\ at["monitor"] \in {"release", "retire"} =>
       on["monitor"] \in Mutator /\ slot[on["monitor"]] = "releasing"

\* Before the pause, and once a release has resumed it, the target runs.
StillRuns ==
  /\ at["collector"] \in {"check", "pause", "giveUp"} => kernel[on["collector"]] = "running"
  /\ at["monitor"] \in {"check", "pause", "retire"} => kernel[on["monitor"]] = "running"

\* A paused thread has a slot that knows of the pause and that it must be resumed, and
\* the cycle refers to every thread with a slot.
PausesKnown ==
  \A t \in Mutator :
    /\ kernel[t] = "paused" => slot[t] \notin {"free", "pending"} /\ t \in needsResume
    /\ slot[t] # "free" => t \in leased /\ cycleActive

\* The property, kept while the worker's release is tried and fails.
StoppedUnprotected ==
  \A t \in Mutator :
    slot[t] \in {"stopped", "releasing", "dependency"} /\ kernel[t] = "paused" =>
      ~Blocked(t) /\ (owner = t => work[t] = "diagOwn")

IInv == Shape /\ OwnerHolds /\ Reserved /\ StillRuns /\ PausesKnown /\ StoppedUnprotected

LEMMA Initial == Init => IInv
<1> SUFFICES ASSUME Init PROVE IInv
  OBVIOUS
<1>1. Shape
  BY DEF Init, Shape, Slot, Agent, CollectorPC, MonitorPC, CapturePC
<1>2. at["collector"] = "idle" /\ at["monitor"] = "off"
  BY DEF Init, Agent
<1>3. OwnerHolds /\ PausesKnown /\ StoppedUnprotected
  BY DEF Init, OwnerHolds, PausesKnown, StoppedUnprotected
<1>4. Reserved /\ StillRuns
  BY <1>2 DEF Reserved, StillRuns, CapturePCs
<1> QED
  BY <1>1, <1>3, <1>4 DEF IInv

\* A mutator takes a step only while it runs, and touches no slot.
LEMMA MutatorStep ==
  ASSUME IInv, NEW t \in Mutator,
         MaskSignal(t) \/ EnterCritical(t) \/ DiagnosticEnter(t) \/ EndSection(t)
  PROVE  IInv'
<1> USE MutatorAssumption DEF Do, Section, slotVars, cycleVars
<1>1. kernel[t] = "running" /\ UNCHANGED <<kernel, slot, needsResume, leased, cycleActive, at, on>>
  BY DEF MaskSignal, EnterCritical, DiagnosticEnter, EndSection, UnmaskSignal, TryLock,
         Respin, Unlock, LeaveCritical, DiagnosticTryLock, DiagnosticUnlock
<1>2. /\ \A u \in Mutator \ {t} : work'[u] = work[u]
      /\ work' \in [Mutator -> {"run", "masked", "try", "spin", "own", "leave",
                               "diagTry", "diagOwn"}]
  BY DEF MaskSignal, EnterCritical, DiagnosticEnter, EndSection, UnmaskSignal, TryLock,
         Respin, Unlock, LeaveCritical, DiagnosticTryLock, DiagnosticUnlock, IInv, Shape
<1>3. /\ owner' \in {owner, t, None}
      /\ OwnerHolds'
  BY DEF MaskSignal, EnterCritical, DiagnosticEnter, EndSection, UnmaskSignal, TryLock,
         Respin, Unlock, LeaveCritical, DiagnosticTryLock, DiagnosticUnlock, IInv, Shape,
         OwnerHolds
<1>4. Shape' /\ Reserved' /\ StillRuns' /\ PausesKnown'
  BY <1>1, <1>2, <1>3 DEF IInv, Shape, Reserved, StillRuns, PausesKnown
<1>5. StoppedUnprotected'
  BY <1>1, <1>2, <1>3 DEF IInv, Shape, StoppedUnprotected, Blocked, Protected
<1> QED
  BY <1>3, <1>4, <1>5 DEF IInv

\* The steps of a capture, by either agent on the slot that is reserved for it.
LEMMA CaptureStep ==
  ASSUME IInv, NEW w \in Agent, Capture(w)
  PROVE  IInv'
<1> USE MutatorAssumption
    DEF IInv, Shape, Reserved, StillRuns, PausesKnown, StoppedUnprotected, OwnerHolds,
        CapturePCs, Agent, Slot, CollectorPC, MonitorPC, CapturePC, Blocked, Protected,
        Goto, SetSlot, mutatorVars, slotVars, cycleVars
<1>1. CASE CaptureDefer(w)
  BY <1>1 DEF CaptureDefer, LeavePending
<1>2. CASE CaptureCheck(w)
  BY <1>2 DEF CaptureCheck
<1>3. CASE CapturePause(w)
  BY <1>3 DEF CapturePause
<1>4. CASE CapturePauseFails(w)
  BY <1>4 DEF CapturePauseFails, RetryCapture
<1>5. CASE CaptureReject(w)
  BY <1>5 DEF CaptureReject
<1>6. CASE CaptureUndo(w)
  BY <1>6 DEF CaptureUndo, LeavePending, RetryCapture
<1>7. CASE CaptureUndoFails(w)
  BY <1>7 DEF CaptureUndoFails
<1>8. CASE CaptureCommit(w)
  BY <1>8 DEF CaptureCommit
<1>9. CASE CaptureAck(w)
  BY <1>9 DEF CaptureAck
<1> HIDE DEF IInv
<1> QED
  BY <1>1, <1>2, <1>3, <1>4, <1>5, <1>6, <1>7, <1>8, <1>9 DEF Capture

\* The monitor's own steps.
LEMMA MonitorSteps ==
  ASSUME IInv,
         \/ MonitorScan \/ MonitorReadFlag \/ MonitorAbort \/ MonitorRelease
         \/ MonitorReleaseFails \/ MonitorRetire \/ MonitorAck
  PROVE  IInv'
<1> USE MutatorAssumption
    DEF IInv, Shape, Reserved, StillRuns, PausesKnown, StoppedUnprotected, OwnerHolds,
        CapturePCs, Agent, Slot, CollectorPC, MonitorPC, CapturePC, Blocked, Protected,
        Goto, SetSlot, mutatorVars, slotVars, cycleVars, MonitorStep
<1>1. CASE MonitorScan
  <2>1. CASE Scan("scan", InState("abort"), "aborting", "abort", "scanPending")
    BY <1>1, <2>1 DEF MonitorScan, Scan, InState
  <2>2. CASE Scan("scanPending", {t \in InState("pending") : ~Blocked(t)},
                  "deferred", "check", "scanFlag")
    BY <1>1, <2>2 DEF MonitorScan, Scan, InState
  <2>3. CASE Scan("drain", InState("stopped"), "releasing", "release", "scan")
    BY <1>1, <2>3 DEF MonitorScan, Scan, InState
  <2> HIDE DEF IInv
  <2> QED
    BY <1>1, <2>1, <2>2, <2>3 DEF MonitorScan
<1>2. CASE MonitorReadFlag
  BY <1>2 DEF MonitorReadFlag
<1>3. CASE MonitorAbort
  BY <1>3 DEF MonitorAbort
<1>4. CASE MonitorRelease
  BY <1>4 DEF MonitorRelease
<1>5. CASE MonitorReleaseFails
  BY <1>5 DEF MonitorReleaseFails
<1>6. CASE MonitorRetire
  BY <1>6 DEF MonitorRetire, DetachIdleCycle
<1>7. CASE MonitorAck
  BY <1>7 DEF MonitorAck
<1> HIDE DEF IInv
<1> QED
  BY <1>1, <1>2, <1>3, <1>4, <1>5, <1>6, <1>7

\* pthread_kill_gc and the collector's protocol around it.
LEMMA CollectorSteps ==
  ASSUME IInv,
         \/ \E t \in Mutator : KillRefused(t)
         \/ \E t \in Mutator, snapshot \in SUBSET Mutator :
              KillBegin(t, snapshot) \/ KillUnleased(t, snapshot)
         \/ KillGivesUp \/ ReleaseRefs("collector") \/ ReleaseRefs("monitor")
         \/ DependencyBegin \/ DependencyResume \/ DependencyResumeFails
         \/ AllSignalled \/ WorldStops \/ JobDone \/ ResumeTheWorld \/ WorldResumes
         \/ StopTheWorld \/ PostJob
  PROVE  IInv'
<1> USE MutatorAssumption
    DEF IInv, Shape, Reserved, StillRuns, PausesKnown, StoppedUnprotected, OwnerHolds,
        CapturePCs, Agent, Slot, CollectorPC, MonitorPC, CapturePC, Blocked, Protected,
        Goto, SetSlot, mutatorVars, slotVars, cycleVars, KillTo, CollectorStep
<1>1. ASSUME NEW t \in Mutator, KillRefused(t) PROVE IInv'
  BY <1>1 DEF KillRefused
<1>2. ASSUME NEW t \in Mutator, NEW snapshot \in SUBSET Mutator, KillBegin(t, snapshot)
      PROVE IInv'
  BY <1>2 DEF KillBegin
<1>3. ASSUME NEW t \in Mutator, NEW snapshot \in SUBSET Mutator, KillUnleased(t, snapshot)
      PROVE IInv'
  <2>1. CASE \A u \in Mutator : slot[u] = "free"
    <3>1. /\ UNCHANGED <<work, owner, kernel, slot, needsResume, on>>
          /\ leased' = {} /\ cycleActive' = FALSE
          /\ at["collector"] = "signal" /\ at'["collector"] = "unref"
          /\ at'["monitor"] = IF at["monitor"] = "off" THEN "scan" ELSE at["monitor"]
          /\ at' \in [Agent -> CollectorPC \union MonitorPC]
      BY <1>3, <2>1 DEF KillUnleased
    <3>2. Shape' /\ OwnerHolds' /\ StoppedUnprotected'
      BY <3>1
    <3>3. PausesKnown'
      BY <3>1, <2>1
    <3>4. Reserved' /\ StillRuns'
      BY <3>1
    <3> QED
      BY <3>2, <3>3, <3>4
  <2>2. CASE ~\A u \in Mutator : slot[u] = "free"
    BY <1>3, <2>2 DEF KillUnleased
  <2> HIDE DEF IInv
  <2> QED
    BY <2>1, <2>2
<1>4. CASE KillGivesUp
  BY <1>4 DEF KillGivesUp, DetachIdleCycle
<1>5. CASE ReleaseRefs("collector")
  BY <1>5 DEF ReleaseRefs
<1>6. CASE ReleaseRefs("monitor")
  BY <1>6 DEF ReleaseRefs
<1>7. CASE DependencyBegin
  BY <1>7 DEF DependencyBegin
<1>8. CASE DependencyResume
  BY <1>8 DEF DependencyResume
<1>9. CASE DependencyResumeFails
  BY <1>9 DEF DependencyResumeFails
<1>10. CASE AllSignalled \/ WorldStops \/ JobDone \/ StopTheWorld \/ PostJob
  BY <1>10 DEF AllSignalled, WorldStops, JobDone, StopTheWorld, PostJob
<1>11. CASE ResumeTheWorld \/ WorldResumes
  BY <1>11 DEF ResumeTheWorld, WorldResumes
<1> HIDE DEF IInv
<1> QED
  BY <1>1, <1>2, <1>3, <1>4, <1>5, <1>6, <1>7, <1>8, <1>9, <1>10, <1>11

LEMMA Step == IInv /\ [Next]_vars => IInv'
<1> SUFFICES ASSUME IInv, [Next]_vars PROVE IInv'
  OBVIOUS
<1>1. CASE UNCHANGED vars
  BY <1>1
  DEF vars, mutatorVars, slotVars, cycleVars, IInv, Shape, OwnerHolds, Reserved,
      StillRuns, PausesKnown, StoppedUnprotected, Blocked
<1>2. CASE Monitor
  BY <1>2, MonitorSteps, CollectorSteps, CaptureStep DEF Monitor, Agent
<1>3. CASE Collector
  BY <1>3, CollectorSteps, CaptureStep DEF Collector, Agent
<1> QED
  BY <1>1, <1>2, <1>3, MutatorStep, CollectorSteps DEF Next

LEMMA Invariant == Spec => []IInv
BY Initial, Step, PTL DEF Spec

(* A stop is committed only on a thread that neither masks the signal nor is *)
(* in a GC-critical section, so no stopped thread has the lock from          *)
(* mmap_broker_lock, for any number of mutators, cycles and failures         *)
(* (gc_capture_slot_once, libc_shim.c:9423).                                 *)
THEOREM StopSafety == Spec => []StoppedNotProtected
<1>1. IInv => StoppedNotProtected
  BY DEF IInv, StoppedUnprotected, StoppedNotProtected
<1> QED
  BY <1>1, Invariant, PTL

(* The references of a cycle are there as long as a thread is paused, also   *)
(* after a failed resume (gc_detach_idle_cycle_locked, libc_shim.c:9500).    *)
THEOREM ReferenceSafety == Spec => []RefsOutlivePauses
<1>1. IInv => RefsOutlivePauses
  BY DEF IInv, PausesKnown, RefsOutlivePauses
<1> QED
  BY <1>1, Invariant, PTL

\* The slot, if any, that an agent may change.
Busy(w) ==
  at[w] \in CapturePCs \union
              IF w = "collector" THEN {"giveUp"} ELSE {"abort", "release", "retire"}

(* The collector and the monitor never work on one slot at the same time:    *)
(* the states of a slot hand it from one to the other under gc_suspend_lock  *)
(* (gc_capture_slot_once, gc_abort_slot, gc_release_slot).                   *)
THEOREM SlotExclusion ==
  Spec => [](Busy("collector") /\ Busy("monitor") => on["collector"] # on["monitor"])
<1>1. IInv => (Busy("collector") /\ Busy("monitor") => on["collector"] # on["monitor"])
  BY DEF IInv, Reserved, Busy, CapturePCs
<1> QED
  BY <1>1, Invariant, PTL

-----------------------------------------------------------------------------
(* The books of a stop: the acknowledgements that the collector counts are  *)
(* those of the slots.                                                      *)

\* The targets whose pthread_kill has returned 0, or will after its acknowledgement.
Sent == signalled \union {t \in {on["collector"]} : at["collector"] = "suspendAck"}

Freed     == {t \in Sent : slot[t] = "free"}
Committed == {t \in Sent : slot[t] \in {"free", "stopped", "dependency", "releasing"}}

\* What an agent has still to count of them.
Late(w, places) == IF at[w] \in places THEN 1 ELSE 0

Counts ==
  /\ resumeAck + Late("monitor", {"unref", "resumeAck"}) = Cardinality(Freed)
  /\ suspendAck + Late("collector", {"suspendAck"}) + Late("monitor", {"suspendAck"})
       = Cardinality(Committed)

\* The collector signals a target once per stop, and whoever has a slot was sent the
\* signal or is being captured.
CapturingPCs == CapturePCs \union {"giveUp"}
Targets ==
  /\ toSignal \subseteq Mutator /\ signalled \subseteq Mutator
  /\ toSignal \intersect signalled = {}
  /\ at["collector"] \in CapturingPCs \union {"suspendAck"} =>
       on["collector"] \in Mutator \ (toSignal \union signalled)
  /\ \A t \in Mutator : slot[t] # "free" =>
       t \in Sent \/ (at["collector"] \in CapturingPCs /\ t = on["collector"])

\* A slot that becomes free has neither a context nor a thread to resume.
Leftovers ==
  /\ \A t \in context : t \in Mutator /\ slot[t] \in {"stopped", "dependency", "releasing"}
  /\ \A t \in needsResume : t \in Mutator /\ slot[t] # "free"
  /\ at["monitor"] = "retire" => on["monitor"] \notin context \union needsResume
  /\ at["collector"] \in {"check", "pause", "giveUp"} => on["collector"] \notin needsResume

\* The last slot takes the cycle with it.
References ==
  /\ cycleActive => \E t \in Mutator : slot[t] # "free"
  /\ \A w \in Agent : releasing[w] # {} => at[w] = "unref"
  /\ releasing \in [Agent -> SUBSET Mutator]

\* An idle collector has left the monitor nothing to do.
Places ==
  /\ at["monitor"] \in MonitorPC
  /\ at["monitor"] = "suspendAck" =>
       on["monitor"] \in Mutator /\ slot[on["monitor"]] \in {"stopped", "dependency"}
  /\ at["collector"] = "idle" =>
       /\ \A t \in Mutator : slot[t] = "free"
       /\ at["monitor"] \in {"off", "scan", "scanPending", "scanFlag", "drain"}

\* Flags and bounded counters.
Bounds ==
  /\ attempts \in 0..MaxAttempts
  /\ at["collector"] \in CapturePCs => attempts < MaxAttempts
  /\ suspendAck \in Nat /\ resumeAck \in Nat
  /\ resumeFlag \in BOOLEAN /\ request \in BOOLEAN /\ completion \in BOOLEAN
  /\ cycles \in 0..MaxCycles /\ faults \in 0..MaxFaults /\ sections \in 0..MaxSections

Books == Targets /\ Leftovers /\ References /\ Places /\ Bounds
CInv == IInv /\ Books /\ Counts

LEMMA BooksStart == Init => Books /\ Counts
<1> SUFFICES ASSUME Init PROVE Books /\ Counts
  OBVIOUS
<1>1. at["collector"] = "idle" /\ at["monitor"] = "off"
  BY DEF Init, Agent
<1>2. Targets /\ Leftovers
  BY <1>1 DEF Init, Targets, Leftovers, CapturingPCs, CapturePCs
<1>3. References /\ Places
  BY <1>1 DEF Init, References, Places, Agent, MonitorPC
<1>4. Bounds
  <2>1. ~(at["collector"] \in CapturePCs)
    BY <1>1 DEF CapturePCs
  <2>2. MaxAttempts \in Nat /\ MaxCycles \in Nat /\ MaxFaults \in Nat /\ MaxSections \in Nat
    BY MutatorAssumption
  <2>3. /\ attempts = 0 /\ suspendAck = 0 /\ resumeAck = 0
        /\ cycles = 0 /\ faults = 0 /\ sections = 0
        /\ ~resumeFlag /\ ~request /\ ~completion
        /\ resumeFlag \in BOOLEAN /\ request \in BOOLEAN /\ completion \in BOOLEAN
    BY DEF Init
  <2> QED
    BY <2>1, <2>2, <2>3 DEF Bounds
<1>5. Freed = {} /\ Committed = {}
  BY <1>1 DEF Init, Freed, Committed, Sent
<1>6. Counts
  BY <1>1, <1>5, FS_EmptySet DEF Init, Counts, Late
<1> QED
  BY <1>2, <1>3, <1>4, <1>6 DEF Books

\* The counts follow the counted sets.
LEMMA SameCounts ==
  ASSUME Counts, UNCHANGED <<suspendAck, resumeAck, signalled>>,
         Freed' = Freed, Committed' = Committed,
         at'["monitor"] \in {"unref", "resumeAck"} <=> at["monitor"] \in {"unref", "resumeAck"},
         at'["monitor"] = "suspendAck" <=> at["monitor"] = "suspendAck",
         at'["collector"] = "suspendAck" <=> at["collector"] = "suspendAck"
  PROVE  Counts'
BY DEF Counts, Late

\* A mutator's step touches no book.
LEMMA BooksMutator ==
  ASSUME CInv, NEW t \in Mutator,
         MaskSignal(t) \/ EnterCritical(t) \/ DiagnosticEnter(t) \/ EndSection(t)
  PROVE  Books' /\ Counts'
<1> USE MutatorAssumption DEF Do, Section
<1>1. UNCHANGED <<kernel, slotVars, cycleVars, at, on, attempts, stopVars, ackVars, faults>>
  BY DEF MaskSignal, EnterCritical, DiagnosticEnter, EndSection, UnmaskSignal, TryLock,
         Respin, Unlock, LeaveCritical, DiagnosticTryLock, DiagnosticUnlock
<1>2. \/ sections' = sections
      \/ sections < MaxSections /\ sections' = sections + 1
  BY DEF MaskSignal, EnterCritical, DiagnosticEnter, EndSection, UnmaskSignal, TryLock,
         Respin, Unlock, LeaveCritical, DiagnosticTryLock, DiagnosticUnlock
<1>3. \/ UNCHANGED <<request, completion>>
      \/ request' = FALSE /\ completion' = TRUE
  BY DEF MaskSignal, EnterCritical, DiagnosticEnter, EndSection, UnmaskSignal, TryLock,
         Respin, Unlock, LeaveCritical, DiagnosticTryLock, DiagnosticUnlock, jobVars
<1> USE <1>1 DEF slotVars, cycleVars, stopVars, ackVars, CInv, Books
<1>4. Targets' /\ Leftovers' /\ References' /\ Places'
  BY DEF Targets, Leftovers, References, Places, Sent
<1>5. sections' \in 0..MaxSections
  BY <1>2 DEF Bounds
<1>6. Bounds'
  BY <1>3, <1>5 DEF Bounds
<1>7. Counts'
  BY DEF Counts, Freed, Committed, Sent, Late
<1> QED
  BY <1>4, <1>6, <1>7

LEMMA BooksCapture ==
  ASSUME CInv, NEW w \in Agent, Capture(w)
  PROVE  Books'
<1> USE MutatorAssumption
    DEF CInv, IInv, Shape, Reserved, StillRuns, PausesKnown, CapturePCs, CapturingPCs, Agent,
        Slot, CollectorPC, MonitorPC, CapturePC, Goto, SetSlot, mutatorVars, slotVars,
        cycleVars, stopVars, ackVars, jobVars, Fault, LeavePending, RetryCapture,
        Books, Targets, Sent, Leftovers, References, Places, Bounds
<1>1. CASE CaptureDefer(w)
  BY <1>1 DEF CaptureDefer
<1>2. CASE CaptureCheck(w)
  BY <1>2 DEF CaptureCheck
<1>3. CASE CapturePause(w)
  BY <1>3 DEF CapturePause
<1>4. CASE CapturePauseFails(w)
  BY <1>4 DEF CapturePauseFails
<1>5. CASE CaptureReject(w)
  BY <1>5 DEF CaptureReject
<1>6. CASE CaptureUndo(w)
  BY <1>6 DEF CaptureUndo
<1>7. CASE CaptureUndoFails(w)
  BY <1>7 DEF CaptureUndoFails
<1>8. CASE CaptureCommit(w)
  BY <1>8 DEF CaptureCommit
<1>9. CASE CaptureAck(w)
  BY <1>9 DEF CaptureAck
<1> HIDE DEF Books
<1> QED
  BY <1>1, <1>2, <1>3, <1>4, <1>5, <1>6, <1>7, <1>8, <1>9 DEF Capture
LEMMA BooksMonitor ==
  ASSUME CInv,
         \/ MonitorScan \/ MonitorReadFlag \/ MonitorAbort \/ MonitorRelease
         \/ MonitorReleaseFails \/ MonitorRetire \/ MonitorAck
  PROVE  Books'
<1> USE MutatorAssumption
    DEF CInv, IInv, Shape, Reserved, StillRuns, PausesKnown, CapturePCs, CapturingPCs, Agent,
        Slot, CollectorPC, MonitorPC, CapturePC, Goto, SetSlot, mutatorVars, slotVars,
        cycleVars, stopVars, ackVars, jobVars, Fault, MonitorStep,
        Books, Targets, Sent, Leftovers, References, Places, Bounds
<1>1. CASE MonitorScan
  <2>1. CASE Scan("scan", InState("abort"), "aborting", "abort", "scanPending")
    BY <1>1, <2>1 DEF MonitorScan, Scan, InState
  <2>2. CASE Scan("scanPending", {t \in InState("pending") : ~Blocked(t)},
                  "deferred", "check", "scanFlag")
    BY <1>1, <2>2 DEF MonitorScan, Scan, InState
  <2>3. CASE Scan("drain", InState("stopped"), "releasing", "release", "scan")
    BY <1>1, <2>3 DEF MonitorScan, Scan, InState
  <2> HIDE DEF Books
  <2> QED
    BY <1>1, <2>1, <2>2, <2>3 DEF MonitorScan
<1>2. CASE MonitorReadFlag
  BY <1>2 DEF MonitorReadFlag
<1>3. CASE MonitorAbort
  BY <1>3 DEF MonitorAbort
<1>4. CASE MonitorRelease
  BY <1>4 DEF MonitorRelease
<1>5. CASE MonitorReleaseFails
  BY <1>5 DEF MonitorReleaseFails
<1>6. CASE MonitorRetire
  BY <1>6 DEF MonitorRetire, DetachIdleCycle
<1>7. CASE MonitorAck
  BY <1>7 DEF MonitorAck
<1> HIDE DEF Books
<1> QED
  BY <1>1, <1>2, <1>3, <1>4, <1>5, <1>6, <1>7

\* The last acknowledgement comes when every slot is free and the monitor is between two.
LEMMA LastAck ==
  ASSUME CInv, at["collector"] = "awaitResume", resumeAck = Cardinality(signalled)
  PROVE  /\ \A t \in Mutator : slot[t] = "free"
         /\ at["monitor"] \in {"off", "scan", "scanPending", "scanFlag", "drain"}
<1>1. Sent = signalled
  BY DEF Sent
<1>2. Freed \subseteq signalled
  BY <1>1 DEF Freed
<1>3. IsFiniteSet(signalled)
  BY MutatorAssumption, FS_Subset DEF CInv, Books, Targets
<1>4. /\ Cardinality(Freed) <= Cardinality(signalled)
      /\ Cardinality(Freed) = Cardinality(signalled) => Freed = signalled
      /\ Cardinality(Freed) \in Nat /\ Cardinality(signalled) \in Nat
  BY <1>2, <1>3, FS_Subset, FS_CardinalityType
<1>5. at["monitor"] \notin {"unref", "resumeAck"} /\ Freed = signalled
  BY <1>4 DEF CInv, Counts, Late
<1>6. \A t \in Mutator : slot[t] = "free"
  BY <1>1, <1>5 DEF CInv, Books, Targets, CapturingPCs, CapturePCs, Freed
<1>7. at["monitor"] \in MonitorPC
  BY DEF CInv, Books, Places
<1> QED
  BY <1>5, <1>6, <1>7
  DEF CInv, IInv, Reserved, Books, Places, CapturePCs, MonitorPC, CapturePC

LEMMA BooksCollector ==
  ASSUME CInv,
         \/ \E t \in Mutator : KillRefused(t)
         \/ \E t \in Mutator, snapshot \in SUBSET Mutator :
              KillBegin(t, snapshot) \/ KillUnleased(t, snapshot)
         \/ KillGivesUp \/ ReleaseRefs("collector") \/ ReleaseRefs("monitor")
         \/ DependencyBegin \/ DependencyResume \/ DependencyResumeFails
         \/ AllSignalled \/ WorldStops \/ JobDone \/ ResumeTheWorld \/ WorldResumes
         \/ StopTheWorld \/ PostJob
  PROVE  Books'
<1>12. CASE WorldResumes
  <2>1. /\ \A t \in Mutator : slot[t] = "free"
        /\ at["monitor"] \in {"off", "scan", "scanPending", "scanFlag", "drain"}
    BY <1>12, LastAck DEF WorldResumes, CollectorStep
  <2> QED
    BY <1>12, <2>1
    DEF CInv, IInv, Shape, CapturePCs, CapturingPCs, Agent, CollectorPC, MonitorPC, CapturePC,
        Goto, mutatorVars, slotVars, cycleVars, stopVars, jobVars, CollectorStep,
        Books, Targets, Sent, Leftovers, References, Places, Bounds, WorldResumes
<1> USE MutatorAssumption
    DEF CInv, IInv, Shape, Reserved, StillRuns, PausesKnown, CapturePCs, CapturingPCs, Agent,
        Slot, CollectorPC, MonitorPC, CapturePC, Goto, SetSlot, mutatorVars, slotVars,
        cycleVars, stopVars, ackVars, jobVars, Fault, KillTo, CollectorStep,
        Books, Targets, Sent, Leftovers, References, Places, Bounds
<1>1. ASSUME NEW t \in Mutator, KillRefused(t) PROVE Books'
  BY <1>1 DEF KillRefused
<1>2. ASSUME NEW t \in Mutator, NEW snapshot \in SUBSET Mutator, KillBegin(t, snapshot)
      PROVE Books'
  BY <1>2 DEF KillBegin
<1>3. ASSUME NEW t \in Mutator, NEW snapshot \in SUBSET Mutator, KillUnleased(t, snapshot)
      PROVE Books'
  BY <1>3 DEF KillUnleased
<1>4. CASE KillGivesUp
  BY <1>4 DEF KillGivesUp, DetachIdleCycle
<1>5. CASE ReleaseRefs("collector")
  BY <1>5 DEF ReleaseRefs
<1>6. CASE ReleaseRefs("monitor")
  BY <1>6 DEF ReleaseRefs
<1>7. CASE DependencyBegin
  BY <1>7 DEF DependencyBegin
<1>8. CASE DependencyResume
  BY <1>8 DEF DependencyResume
<1>9. CASE DependencyResumeFails
  BY <1>9 DEF DependencyResumeFails
<1>10. CASE AllSignalled \/ WorldStops \/ JobDone
  BY <1>10 DEF AllSignalled, WorldStops, JobDone
<1>14. CASE PostJob
  BY <1>14 DEF PostJob
<1>11. CASE ResumeTheWorld
  BY <1>11 DEF ResumeTheWorld
<1>13. CASE StopTheWorld
  BY <1>13 DEF StopTheWorld
<1> HIDE DEF Books
<1> QED
  BY <1>1, <1>2, <1>3, <1>4, <1>5, <1>6, <1>7, <1>8, <1>9, <1>10, <1>11, <1>12, <1>13, <1>14

\* What a capture does to the counted sets.
LEMMA CountsCapture ==
  ASSUME CInv, NEW w \in Agent, Capture(w)
  PROVE  Counts'
<1> USE DEF Agent, Goto, SetSlot, mutatorVars, slotVars, cycleVars, stopVars, ackVars, jobVars
<1> DEFINE t == on[w]
<1>1. CASE CaptureCommit(w)
  <2>1. /\ t \in Mutator /\ t \notin Committed
        /\ w = "monitor" => t \in Sent
    BY <1>1 DEF CaptureCommit, CInv, IInv, Reserved, CapturePCs, CapturingPCs, Books, Targets,
               Sent, Committed
  <2>2. Freed' = Freed /\ Committed' = Committed \union {t}
    BY <1>1, <2>1 DEF CaptureCommit, Freed, Committed, Sent, CInv, IInv, Shape, Reserved,
                     CapturePCs
  <2>3. IsFiniteSet(Committed)
    BY MutatorAssumption, FS_Subset DEF Committed, Sent, CInv, Books, Targets
  <2>4. Cardinality(Committed') = Cardinality(Committed) + 1
    BY <2>1, <2>2, <2>3, FS_AddElement
  <2>5. Late(w, {"suspendAck"}) = 0 /\ Late(w, {"suspendAck"})' = 1
    BY <1>1 DEF CaptureCommit, Late, CInv, IInv, Shape
  <2> QED
    BY <1>1, <2>2, <2>4, <2>5 DEF Counts, CaptureCommit, Late, CInv, IInv, Shape, Books, Bounds
<1>2. CASE CaptureAck(w)
  <2>1. Freed' = Freed /\ Committed' = Committed
    BY <1>2 DEF CaptureAck, Freed, Committed, Sent, CInv, IInv, Shape
  <2> QED
    BY <1>2, <2>1 DEF Counts, CaptureAck, Late, CInv, IInv, Shape, Books, Bounds
<1>3. CASE CaptureDefer(w) \/ CaptureUndo(w) \/ CaptureUndoFails(w) \/ CapturePauseFails(w)
  <2>1. t \in Mutator /\ slot[t] \in {"capturing", "deferred"} /\ at[w] \in CapturePCs
    BY <1>3 DEF CaptureDefer, CaptureUndo, CaptureUndoFails, CapturePauseFails, CInv, IInv,
               Reserved, CapturePCs
  <2>2. \/ slot' = slot
        \/ slot' = [slot EXCEPT ![t] = "pending"]
        \/ slot' = [slot EXCEPT ![t] = "abort"]
    BY <1>3 DEF CaptureDefer, CaptureUndo, CaptureUndoFails, CapturePauseFails, LeavePending,
               RetryCapture
  <2>3. \/ signalled' = signalled
        \/ signalled' = signalled \union {t}
    BY <1>3 DEF CaptureDefer, CaptureUndo, CaptureUndoFails, CapturePauseFails, LeavePending
  <2>4. /\ at'["collector"] = "suspendAck" <=> at["collector"] = "suspendAck"
        /\ on' = on
    BY <1>3 DEF CaptureDefer, CaptureUndo, CaptureUndoFails, CapturePauseFails, LeavePending,
               RetryCapture, CInv, IInv, Shape
  <2>5. /\ slot'[t] \in {"capturing", "deferred", "pending", "abort"}
        /\ \A u \in Mutator \ {t} : slot'[u] = slot[u]
    BY <2>1, <2>2 DEF CInv, IInv, Shape
  <2>6. /\ \A u : u # t => (u \in Sent' <=> u \in Sent)
        /\ Sent \subseteq Mutator
    BY <2>3, <2>4 DEF Sent, CInv, Books, Targets
  <2>7. Freed' = Freed /\ Committed' = Committed
    BY <2>1, <2>5, <2>6 DEF Freed, Committed
  <2> QED
    BY <1>3, <2>7 DEF Counts, CaptureDefer, CaptureUndo, CaptureUndoFails, CapturePauseFails,
               LeavePending, RetryCapture, Late, CInv, IInv, Shape
<1>4. CASE CaptureCheck(w) \/ CapturePause(w) \/ CaptureReject(w)
  <2>1. Freed' = Freed /\ Committed' = Committed
    BY <1>4 DEF CaptureCheck, CapturePause, CaptureReject, Freed, Committed, Sent, CInv,
               IInv, Shape
  <2> QED
    BY <1>4, <2>1 DEF Counts, CaptureCheck, CapturePause, CaptureReject, Late, CInv, IInv, Shape
<1> QED
  BY <1>1, <1>2, <1>3, <1>4 DEF Capture

LEMMA CountsMonitor ==
  ASSUME CInv,
         \/ MonitorScan \/ MonitorReadFlag \/ MonitorAbort \/ MonitorRelease
         \/ MonitorReleaseFails \/ MonitorRetire \/ MonitorAck
  PROVE  Counts'
<1> USE DEF Agent, Goto, SetSlot, mutatorVars, slotVars, cycleVars, stopVars, ackVars, jobVars,
        MonitorStep
<1>1. CASE MonitorRetire
  <2> DEFINE t == on["monitor"]
  <2>1. /\ t \in Mutator /\ t \in Committed /\ t \notin Freed
    BY <1>1 DEF MonitorRetire, CInv, IInv, Reserved, CapturePCs, CapturingPCs, Books, Targets,
               Sent, Committed, Freed
  <2>2. Freed' = Freed \union {t} /\ Committed' = Committed
    BY <1>1, <2>1 DEF MonitorRetire, Freed, Committed, Sent, CInv, IInv, Shape
  <2>3. IsFiniteSet(Freed)
    BY MutatorAssumption, FS_Subset DEF Freed, Sent, CInv, Books, Targets
  <2>4. Cardinality(Freed') = Cardinality(Freed) + 1
    BY <2>1, <2>2, <2>3, FS_AddElement
  <2> QED
    BY <1>1, <2>2, <2>4 DEF Counts, MonitorRetire, Late, CInv, IInv, Shape, Books, Bounds
<1>2. CASE MonitorAck
  <2>1. Freed' = Freed /\ Committed' = Committed
    BY <1>2 DEF MonitorAck, Freed, Committed, Sent, CInv, IInv, Shape
  <2> QED
    BY <1>2, <2>1 DEF Counts, MonitorAck, Late, CInv, IInv, Shape, Books, Bounds
<1>3. CASE MonitorScan
  <2>1. /\ \/ slot' = slot
           \/ \E t \in InState("abort") : slot' = [slot EXCEPT ![t] = "aborting"]
           \/ \E t \in InState("pending") : slot' = [slot EXCEPT ![t] = "deferred"]
           \/ \E t \in InState("stopped") : slot' = [slot EXCEPT ![t] = "releasing"]
        /\ signalled' = signalled /\ on'["collector"] = on["collector"]
        /\ at'["collector"] = at["collector"]
    BY <1>3 DEF MonitorScan, Scan, CInv, IInv, Shape
  <2>2. /\ \A t \in Mutator : slot'[t] = "free" <=> slot[t] = "free"
        /\ \A t \in Mutator : slot'[t] \in {"free", "stopped", "dependency", "releasing"}
             <=> slot[t] \in {"free", "stopped", "dependency", "releasing"}
    BY <2>1 DEF InState, CInv, IInv, Shape
  <2>3. Sent' = Sent /\ Sent \subseteq Mutator
    BY <2>1 DEF Sent, CInv, Books, Targets, CapturingPCs
  <2>4. Freed' = Freed /\ Committed' = Committed
    BY <2>2, <2>3 DEF Freed, Committed
  <2> QED
    BY <1>3, <2>4 DEF Counts, MonitorScan, Scan, Late, CInv, IInv, Shape
<1>4. CASE MonitorReadFlag \/ MonitorAbort \/ MonitorRelease \/ MonitorReleaseFails
  <2>1. /\ \/ slot' = slot
           \/ /\ slot[on["monitor"]] = "aborting"
              /\ \/ slot' = [slot EXCEPT ![on["monitor"]] = "pending"]
                 \/ slot' = [slot EXCEPT ![on["monitor"]] = "abort"]
           \/ /\ slot[on["monitor"]] = "releasing"
              /\ slot' = [slot EXCEPT ![on["monitor"]] = "stopped"]
        /\ signalled' = signalled /\ on' = on /\ at'["collector"] = at["collector"]
    BY <1>4 DEF MonitorReadFlag, MonitorAbort, MonitorRelease, MonitorReleaseFails, CInv, IInv,
               Shape, Reserved
  <2>2. \A t \in Mutator :
          /\ slot'[t] = "free" <=> slot[t] = "free"
          /\ slot'[t] \in {"free", "stopped", "dependency", "releasing"}
               <=> slot[t] \in {"free", "stopped", "dependency", "releasing"}
    BY <2>1 DEF CInv, IInv, Shape
  <2>3. Sent' = Sent /\ Sent \subseteq Mutator
    BY <2>1 DEF Sent, CInv, Books, Targets, CapturingPCs
  <2>4. Freed' = Freed /\ Committed' = Committed
    BY <2>2, <2>3 DEF Freed, Committed
  <2> QED
    BY <1>4, <2>4 DEF Counts, MonitorReadFlag, MonitorAbort, MonitorRelease,
               MonitorReleaseFails, Late, CInv, IInv, Shape
<1> QED
  BY <1>1, <1>2, <1>3, <1>4

LEMMA CountsCollector ==
  ASSUME CInv,
         \/ \E t \in Mutator : KillRefused(t)
         \/ \E t \in Mutator, snapshot \in SUBSET Mutator :
              KillBegin(t, snapshot) \/ KillUnleased(t, snapshot)
         \/ KillGivesUp \/ ReleaseRefs("collector") \/ ReleaseRefs("monitor")
         \/ DependencyBegin \/ DependencyResume \/ DependencyResumeFails
         \/ AllSignalled \/ WorldStops \/ JobDone \/ ResumeTheWorld \/ WorldResumes
         \/ StopTheWorld \/ PostJob
  PROVE  Counts'
<1> USE DEF Agent, Goto, SetSlot, mutatorVars, slotVars, cycleVars, stopVars, ackVars, jobVars,
        CollectorStep, KillTo
<1>1. CASE StopTheWorld
  <2>1. Freed' = {} /\ Committed' = {}
    BY <1>1 DEF StopTheWorld, Freed, Committed, Sent, CInv, IInv, Shape
  <2>2. /\ at["monitor"] \in {"off", "scan", "scanPending", "scanFlag", "drain"}
        /\ at'["monitor"] = at["monitor"] /\ at'["collector"] = "signal"
        /\ suspendAck' = 0 /\ resumeAck' = 0
    BY <1>1 DEF StopTheWorld, CInv, IInv, Shape, Books, Places
  <2> QED
    BY <2>1, <2>2, FS_EmptySet DEF Counts, Late
<1>2. ASSUME NEW t \in Mutator, NEW snapshot \in SUBSET Mutator, KillBegin(t, snapshot)
      PROVE Counts'
  <2>1. Freed' = Freed /\ Committed' = Committed
    BY <1>2 DEF KillBegin, Freed, Committed, Sent, CInv, IInv, Shape, Books, Targets
  <2> QED
    BY <1>2, <2>1 DEF Counts, KillBegin, Late, CInv, IInv, Shape
<1>3. ASSUME NEW t \in Mutator, NEW snapshot \in SUBSET Mutator, KillUnleased(t, snapshot)
      PROVE Counts'
  <2>1. Freed' = Freed /\ Committed' = Committed
    BY <1>3 DEF KillUnleased, Freed, Committed, Sent, CInv, IInv, Shape
  <2> QED
    BY <1>3, <2>1 DEF Counts, KillUnleased, Late, CInv, IInv, Shape
<1>4. CASE KillGivesUp
  <2>1. Freed' = Freed /\ Committed' = Committed
    BY <1>4 DEF KillGivesUp, Freed, Committed, Sent, CInv, IInv, Shape, Reserved, Books, Targets,
               CapturingPCs
  <2> QED
    BY <1>4, <2>1 DEF Counts, KillGivesUp, Late, CInv, IInv, Shape
<1>5. CASE ReleaseRefs("collector") \/ ReleaseRefs("monitor")
  <2>1. Freed' = Freed /\ Committed' = Committed
    BY <1>5 DEF ReleaseRefs, Freed, Committed, Sent, CInv, IInv, Shape
  <2> QED
    BY <1>5, <2>1 DEF Counts, ReleaseRefs, Late, CInv, IInv, Shape
<1>6. CASE DependencyBegin \/ DependencyResume \/ DependencyResumeFails
  <2>1. /\ \/ slot' = slot
           \/ slot[Worker] = "stopped" /\ slot' = [slot EXCEPT ![Worker] = "dependency"]
           \/ slot[Worker] = "dependency" /\ slot' = [slot EXCEPT ![Worker] = "stopped"]
        /\ signalled' = signalled /\ on' = on
        /\ at["collector"] # "suspendAck" /\ at'["collector"] # "suspendAck"
    BY <1>6 DEF DependencyBegin, DependencyResume, DependencyResumeFails, CInv, IInv, Shape,
               Reserved
  <2>2. \A t \in Mutator :
          /\ slot'[t] = "free" <=> slot[t] = "free"
          /\ slot'[t] \in {"free", "stopped", "dependency", "releasing"}
               <=> slot[t] \in {"free", "stopped", "dependency", "releasing"}
    BY <2>1, MutatorAssumption DEF CInv, IInv, Shape
  <2>3. Sent' = Sent /\ Sent \subseteq Mutator
    BY <2>1 DEF Sent, CInv, Books, Targets, CapturingPCs
  <2>4. Freed' = Freed /\ Committed' = Committed
    BY <2>2, <2>3 DEF Freed, Committed
  <2> QED
    BY <1>6, <2>4 DEF Counts, DependencyBegin, DependencyResume, DependencyResumeFails, Late,
               CInv, IInv, Shape
<1>7. CASE (\E t \in Mutator : KillRefused(t)) \/ AllSignalled \/ WorldStops \/ JobDone
           \/ ResumeTheWorld \/ WorldResumes \/ PostJob
  <2>1. Freed' = Freed /\ Committed' = Committed
    BY <1>7 DEF KillRefused, AllSignalled, WorldStops, JobDone, ResumeTheWorld, WorldResumes,
               PostJob, Freed, Committed, Sent, CInv, IInv, Shape
  <2> QED
    BY <1>7, <2>1 DEF Counts, KillRefused, AllSignalled, WorldStops, JobDone, ResumeTheWorld,
               WorldResumes, PostJob, Late, CInv, IInv, Shape
<1> QED
  BY <1>1, <1>2, <1>3, <1>4, <1>5, <1>6, <1>7

LEMMA CyclesStep == CInv /\ [Next]_vars => CInv'
<1> SUFFICES ASSUME CInv, [Next]_vars PROVE CInv'
  OBVIOUS
<1>1. IInv'
  BY Step DEF CInv
<1>2. Books' /\ Counts'
  <2>1. CASE UNCHANGED vars
    BY <2>1
    DEF vars, mutatorVars, slotVars, cycleVars, stopVars, ackVars, jobVars, CInv, Books,
        Targets, Sent, Leftovers, References, Places, Bounds, Counts, Freed, Committed, Late
  <2>2. CASE Monitor
    BY <2>2, BooksMonitor, BooksCollector, BooksCapture, CountsMonitor, CountsCollector,
       CountsCapture DEF Monitor, Agent
  <2>3. CASE Collector
    BY <2>3, BooksCollector, BooksCapture, CountsCollector, CountsCapture DEF Collector, Agent
  <2> QED
    BY <2>1, <2>2, <2>3, BooksMutator, BooksCollector, CountsCollector DEF Next
<1> QED
  BY <1>1, <1>2 DEF CInv

LEMMA CyclesInvariant == Spec => []CInv
<1>1. Init => CInv
  BY Initial, BooksStart DEF CInv
<1> QED
  BY <1>1, CyclesStep, PTL DEF Spec

(* Every variable of the bridge keeps its type: in particular no stop counts *)
(* more acknowledgements than there are threads (gc_capture_slot_once,       *)
(* gc_release_slot).                                                         *)
THEOREM TypeCorrect == Spec => []TypeOK
<1>1. CInv => TypeOK
  <2> SUFFICES ASSUME CInv PROVE TypeOK
    OBVIOUS
  <2>1. Freed \subseteq Mutator /\ Committed \subseteq Mutator
    BY DEF CInv, Books, Targets, Freed, Committed, Sent, CapturingPCs
  <2>2. /\ Cardinality(Freed) <= Cardinality(Mutator)
        /\ Cardinality(Committed) <= Cardinality(Mutator)
        /\ Cardinality(Freed) \in Nat /\ Cardinality(Committed) \in Nat
        /\ Cardinality(Mutator) \in Nat
    BY <2>1, MutatorAssumption, FS_Subset, FS_CardinalityType
  <2>3. /\ suspendAck \in 0..Cardinality(Mutator)
        /\ resumeAck \in 0..Cardinality(Mutator)
    BY <2>2 DEF CInv, Counts, Late, Books, Bounds
  <2> QED
    BY <2>3 DEF TypeOK, CInv, IInv, Shape, Books, Targets, Leftovers, References, Bounds
<1> QED
  BY <1>1, CyclesInvariant, PTL

(* A collection ends with nothing of it left: when the collector is idle     *)
(* again every target runs, no slot, context or reference is left over, and  *)
(* the monitor is between two targets (gc_release_slot,                      *)
(* gc_detach_idle_cycle_locked, libc_shim.c:9500).                           *)
THEOREM CycleSafety == Spec => []CyclesClean
<1>1. CInv => IdleIsClean
  BY DEF CInv, IInv, Shape, PausesKnown, Books, Leftovers, References, Places, IdleIsClean, Agent
<1> QED
  BY <1>1, CyclesInvariant, TypeCorrect, ReferenceSafety, PTL DEF CyclesClean
-----------------------------------------------------------------------------
(* The first stop: no resume_flag of an earlier one is about.               *)

Stopping ==
  cycles = 0 \/ (cycles = 1 /\ at["collector"] \notin {"idle", "awaitResume"})

\* The monitor releases nobody.
NotDraining ==
  /\ cycles = 0 => at["collector"] = "idle"
  /\ Stopping => /\ ~resumeFlag
                 /\ at["monitor"] \notin {"drain", "release", "retire", "unref", "resumeAck"}
                 /\ \A t \in Sent : slot[t] \notin {"free", "releasing"}

\* Who is stopped stays so with its context, but for the service thread.
Captured ==
  /\ \A w \in Agent : at[w] \in {"paused", "undoDefer", "undoRetry"} => kernel[on[w]] = "paused"
  /\ Stopping => \A t \in Mutator : slot[t] \in {"stopped", "dependency"} =>
       /\ t \in context
       /\ \/ kernel[t] = "paused"
          \/ t = Worker /\ at["collector"] \in {"awaitJob", "resume"}

ScanPCs == {"world", "futex", "dependency", "awaitJob", "resume"}
AllStopped ==
  Stopping /\ at["collector"] \in ScanPCs =>
    \A t \in signalled : slot[t] \in {"stopped", "dependency"}

FInv == NotDraining /\ Captured /\ AllStopped

LEMMA FirstStart == Init => FInv
<1> SUFFICES ASSUME Init PROVE FInv
  OBVIOUS
<1>1. at["collector"] = "idle" /\ at["monitor"] = "off"
  BY DEF Init, Agent
<1> QED
  BY <1>1 DEF Init, FInv, NotDraining, Captured, AllStopped, Sent, Agent, ScanPCs

LEMMA FirstMutator ==
  ASSUME CInv, FInv, NEW t \in Mutator,
         MaskSignal(t) \/ EnterCritical(t) \/ DiagnosticEnter(t) \/ EndSection(t)
  PROVE  FInv'
<1>1. UNCHANGED <<kernel, slotVars, at, on, stopVars, ackVars>>
  BY DEF Do, MaskSignal, EnterCritical, DiagnosticEnter, EndSection, UnmaskSignal, TryLock,
         Respin, Unlock, LeaveCritical, DiagnosticTryLock, DiagnosticUnlock
<1> QED
  BY <1>1
  DEF slotVars, stopVars, ackVars, FInv, NotDraining, Captured, AllStopped, Stopping, Sent

LEMMA FirstCapture ==
  ASSUME CInv, FInv, NEW w \in Agent, Capture(w)
  PROVE  FInv'
<1> USE MutatorAssumption
    DEF CInv, IInv, Shape, Reserved, StillRuns, PausesKnown, CapturePCs, CapturingPCs, Agent,
        Slot, CollectorPC, MonitorPC, CapturePC, Goto, SetSlot, mutatorVars, slotVars,
        cycleVars, stopVars, ackVars, jobVars, Fault, LeavePending, RetryCapture, Books, Targets, Sent, Places,
        FInv, NotDraining, Captured, AllStopped, Stopping, ScanPCs
<1>1. CASE CaptureDefer(w)
  BY <1>1 DEF CaptureDefer
<1>2. CASE CaptureCheck(w)
  BY <1>2 DEF CaptureCheck
<1>3. CASE CapturePause(w)
  BY <1>3 DEF CapturePause
<1>4. CASE CapturePauseFails(w)
  BY <1>4 DEF CapturePauseFails
<1>5. CASE CaptureReject(w)
  BY <1>5 DEF CaptureReject
<1>6. CASE CaptureUndo(w)
  BY <1>6 DEF CaptureUndo
<1>7. CASE CaptureUndoFails(w)
  BY <1>7 DEF CaptureUndoFails
<1>8. CASE CaptureCommit(w)
  BY <1>8 DEF CaptureCommit
<1>9. CASE CaptureAck(w)
  BY <1>9 DEF CaptureAck
<1> HIDE DEF FInv
<1> QED
  BY <1>1, <1>2, <1>3, <1>4, <1>5, <1>6, <1>7, <1>8, <1>9 DEF Capture

LEMMA FirstMonitor ==
  ASSUME CInv, FInv,
         \/ MonitorScan \/ MonitorReadFlag \/ MonitorAbort \/ MonitorRelease
         \/ MonitorReleaseFails \/ MonitorRetire \/ MonitorAck
  PROVE  FInv'
<1> USE MutatorAssumption
    DEF CInv, IInv, Shape, Reserved, StillRuns, PausesKnown, CapturePCs, CapturingPCs, Agent,
        Slot, CollectorPC, MonitorPC, CapturePC, Goto, SetSlot, mutatorVars, slotVars,
        cycleVars, stopVars, ackVars, jobVars, Fault, MonitorStep, Books, Targets, Sent, Places,
        FInv, NotDraining, Captured, AllStopped, Stopping, ScanPCs
<1>1. CASE MonitorScan
  <2>1. CASE Scan("scan", InState("abort"), "aborting", "abort", "scanPending")
    BY <1>1, <2>1 DEF MonitorScan, Scan, InState
  <2>2. CASE Scan("scanPending", {t \in InState("pending") : ~Blocked(t)},
                  "deferred", "check", "scanFlag")
    BY <1>1, <2>2 DEF MonitorScan, Scan, InState
  <2>3. CASE Scan("drain", InState("stopped"), "releasing", "release", "scan")
    BY <1>1, <2>3 DEF MonitorScan, Scan, InState
  <2> HIDE DEF FInv
  <2> QED
    BY <1>1, <2>1, <2>2, <2>3 DEF MonitorScan
<1>2. CASE MonitorReadFlag
  BY <1>2 DEF MonitorReadFlag
<1>3. CASE MonitorAbort
  BY <1>3 DEF MonitorAbort
<1>4. CASE MonitorRelease
  BY <1>4 DEF MonitorRelease
<1>5. CASE MonitorReleaseFails
  BY <1>5 DEF MonitorReleaseFails
<1>6. CASE MonitorRetire
  BY <1>6 DEF MonitorRetire, DetachIdleCycle
<1>7. CASE MonitorAck
  BY <1>7 DEF MonitorAck
<1> HIDE DEF FInv
<1> QED
  BY <1>1, <1>2, <1>3, <1>4, <1>5, <1>6, <1>7

\* The last acknowledgement of a stop: every target has been captured.
LEMMA AllCommitted ==
  ASSUME CInv, at["collector"] = "awaitSuspend", suspendAck = Cardinality(signalled)
  PROVE  Committed = signalled
<1>1. Sent = signalled
  BY DEF Sent
<1>2. Committed \subseteq signalled
  BY <1>1 DEF Committed
<1>3. IsFiniteSet(signalled)
  BY MutatorAssumption, FS_Subset DEF CInv, Books, Targets
<1>4. /\ Cardinality(Committed) <= Cardinality(signalled)
      /\ Cardinality(Committed) = Cardinality(signalled) => Committed = signalled
      /\ Cardinality(Committed) \in Nat /\ Cardinality(signalled) \in Nat
  BY <1>2, <1>3, FS_Subset, FS_CardinalityType
<1> QED
  BY <1>4 DEF CInv, Counts, Late

LEMMA FirstCollector ==
  ASSUME CInv, FInv,
         \/ \E t \in Mutator : KillRefused(t)
         \/ \E t \in Mutator, snapshot \in SUBSET Mutator :
              KillBegin(t, snapshot) \/ KillUnleased(t, snapshot)
         \/ KillGivesUp \/ ReleaseRefs("collector") \/ ReleaseRefs("monitor")
         \/ DependencyBegin \/ DependencyResume \/ DependencyResumeFails
         \/ AllSignalled \/ WorldStops \/ JobDone \/ ResumeTheWorld \/ WorldResumes
         \/ StopTheWorld \/ PostJob
  PROVE  FInv'
<1>0. ASSUME WorldStops PROVE Committed = signalled
  BY <1>0, AllCommitted DEF WorldStops, CollectorStep
<1> USE MutatorAssumption
    DEF CInv, IInv, Shape, Reserved, StillRuns, PausesKnown, CapturePCs, CapturingPCs, Agent,
        Slot, CollectorPC, MonitorPC, CapturePC, Goto, SetSlot, mutatorVars, slotVars,
        cycleVars, stopVars, ackVars, jobVars, Fault, KillTo, CollectorStep, Books, Targets, Sent, Places,
        FInv, NotDraining, Captured, AllStopped, Stopping, ScanPCs
<1>1. ASSUME NEW t \in Mutator, KillRefused(t) PROVE FInv'
  BY <1>1 DEF KillRefused
<1>2. ASSUME NEW t \in Mutator, NEW snapshot \in SUBSET Mutator, KillBegin(t, snapshot)
      PROVE FInv'
  BY <1>2 DEF KillBegin
<1>3. ASSUME NEW t \in Mutator, NEW snapshot \in SUBSET Mutator, KillUnleased(t, snapshot)
      PROVE FInv'
  BY <1>3 DEF KillUnleased
<1>4. CASE WorldStops
  BY <1>4, <1>0 DEF WorldStops, Committed
<1>5. CASE KillGivesUp
  BY <1>5 DEF KillGivesUp, DetachIdleCycle
<1>6. CASE ReleaseRefs("collector")
  BY <1>6 DEF ReleaseRefs
<1>7. CASE ReleaseRefs("monitor")
  BY <1>7 DEF ReleaseRefs
<1>8. CASE DependencyBegin
  BY <1>8 DEF DependencyBegin
<1>9. CASE DependencyResume
  BY <1>9 DEF DependencyResume
<1>10. CASE DependencyResumeFails
  BY <1>10 DEF DependencyResumeFails
<1>11. CASE AllSignalled
  BY <1>11 DEF AllSignalled
<1>12. CASE JobDone
  BY <1>12 DEF JobDone
<1>13. CASE PostJob
  BY <1>13 DEF PostJob
<1>14. CASE ResumeTheWorld
  BY <1>14 DEF ResumeTheWorld
<1>15. CASE WorldResumes
  BY <1>15 DEF WorldResumes
<1>16. CASE StopTheWorld
  <2>1. /\ at["collector"] = "idle" /\ at'["collector"] = "signal"
        /\ at'["monitor"] = at["monitor"] /\ cycles' = cycles + 1
        /\ UNCHANGED <<slot, kernel, context, on, resumeFlag>>
        /\ \A t \in Mutator : slot[t] = "free"
    BY <1>16 DEF StopTheWorld
  <2>2. Sent' = {}
    BY <1>16, <2>1 DEF StopTheWorld
  <2>3. cycles \in Nat
    BY DEF Bounds
  <2>4. Stopping' => cycles = 0
    BY <2>1, <2>3
  <2>5. NotDraining'
    BY <2>1, <2>2, <2>3, <2>4
  <2>6. Captured' /\ AllStopped'
    BY <2>1
  <2> QED
    BY <2>5, <2>6
<1> HIDE DEF FInv
<1> QED
  BY <1>1, <1>2, <1>3, <1>4, <1>5, <1>6, <1>7, <1>8, <1>9, <1>10, <1>11, <1>12, <1>13, <1>14, <1>15, <1>16

LEMMA FirstStep == CInv /\ FInv /\ [Next]_vars => FInv'
<1> SUFFICES ASSUME CInv, FInv, [Next]_vars PROVE FInv'
  OBVIOUS
<1>1. CASE UNCHANGED vars
  BY <1>1
  DEF vars, mutatorVars, slotVars, cycleVars, stopVars, ackVars, jobVars, FInv, NotDraining,
      Captured, AllStopped, Stopping, Sent
<1>2. CASE Monitor
  BY <1>2, FirstMonitor, FirstCollector, FirstCapture DEF Monitor, Agent
<1>3. CASE Collector
  BY <1>3, FirstCollector, FirstCapture DEF Collector, Agent
<1> QED
  BY <1>1, <1>2, <1>3, FirstMutator, FirstCollector DEF Next

(* In the first collection everybody whose pthread_kill was counted stays    *)
(* stopped with its context while the collector scans, but for the service   *)
(* thread that it waits for. Later ones do not have this: the monitor may    *)
(* drain on the resume_flag of the one before (gc_resume_monitor,            *)
(* libc_shim.c:9623).                                                        *)
THEOREM FirstStopSafety == Spec => [](cycles <= 1 => WorldStopped)
<1>1. CInv /\ FInv => (cycles <= 1 => WorldStopped)
  BY DEF CInv, Books, Bounds, Targets, FInv, NotDraining, Captured, AllStopped, Stopping,
         ScanPCs, WorldStopped
<1> QED
  BY <1>1, FirstStart, FirstStep, CyclesInvariant, PTL DEF Spec
=============================================================================
