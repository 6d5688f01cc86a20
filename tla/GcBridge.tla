------------------------------ MODULE GcBridge ------------------------------
(***************************************************************************)
(* The stop-the-world bridge at the end of source/libc_shim.c.  Horizon has *)
(* no POSIX signals, so pthread_kill_gc pauses the target with threadPause, *)
(* publishes its registers for the IL2CPP scanner and counts suspend_ack; a *)
(* monitor thread delivers deferred stops, retries what failed, and, when   *)
(* the collector sets resume_flag, resumes every target and counts          *)
(* resume_ack.  A collection holds references to the threads it may pause.  *)
(*                                                                         *)
(* The collector is guest code: its protocol is the one the comment at      *)
(* g_il2cpp_base describes, and it counts a pthread_kill that returned 0.   *)
(* Slots are named by their target: pthread_kill_gc keeps one per pthread_t.*)
(* One step is one critical section of gc_suspend_lock or one kernel call.  *)
(***************************************************************************)
EXTENDS Integers, FiniteSets

CONSTANTS
  Mutator,        \* the registered guest threads other than the collector
  Worker,         \* the mutator that runs the GC service entry
  Diagnostician,  \* mutators that run nx_sparse_arena_get_diagnostics
  MaxCycles,      \* bound: collections
  MaxFaults,      \* bound: failing threadPause, threadDumpContext, threadResume
  JobResumeFails, \* whether the threadResume of the service thread may fail
  MaxAttempts,    \* GI_GC_CAPTURE_ATTEMPTS
  MaxSections,    \* bound: protected sections the mutators enter
  None            \* no thread

ASSUME MutatorAssumption ==
  /\ IsFiniteSet(Mutator)
  /\ Worker \in Mutator
  /\ Diagnostician \subseteq Mutator
  /\ None \notin Mutator
  /\ JobResumeFails \in BOOLEAN
  /\ MaxCycles \in Nat /\ MaxFaults \in Nat /\ MaxSections \in Nat
  /\ MaxAttempts \in Nat \ {0}

Agent == {"collector", "monitor"}   \* the threads that run the bridge's code

VARIABLES
  work,         \* what each mutator does with its signal mask and g_mmap_lock
  kernel,       \* each mutator in the kernel: "running" or "paused"
  owner,        \* the owner of g_mmap_lock
  slot,         \* gc_suspensions[].active
  needsResume,  \* gc_suspensions[].needs_resume
  context,      \* mutators whose GC record shows a captured context
  leased,       \* gc_cycle_threads, the references of the current cycle
  cycleActive,  \* gc_cycle_active
  releasing,    \* references of a detached cycle, not yet given back
  at, on,       \* where each agent is, and the target it works on
  attempts,     \* attempts made by the pthread_kill_gc in progress
  toSignal,     \* targets the collector has still to signal in this stop
  signalled,    \* targets whose pthread_kill returned 0 in this stop
  suspendAck, resumeAck, resumeFlag,   \* the guest's words
  request, completion,                 \* the service handshake, likewise
  cycles, faults, sections             \* what the bounds count

mutatorVars == << work, owner, sections >>
slotVars    == << slot, needsResume, context >>
cycleVars   == << leased, cycleActive, releasing >>
ackVars     == << suspendAck, resumeAck, resumeFlag >>
jobVars     == << request, completion >>
stopVars    == << toSignal, signalled, cycles >>
vars == << mutatorVars, kernel, slotVars, cycleVars, at, on, attempts,
           stopVars, ackVars, jobVars, faults >>

Slot == {"free", "capturing", "stopped", "releasing", "abort", "aborting",
         "dependency", "pending", "deferred"}
CapturePC == {"check", "pause", "paused", "undoDefer", "undoRetry", "suspendAck"}
CollectorPC == CapturePC \union
  {"idle", "signal", "giveUp", "unref", "awaitSuspend", "world", "futex",
   "dependency", "awaitJob", "resume", "awaitResume"}
MonitorPC == CapturePC \union
  {"off", "scan", "scanPending", "scanFlag", "drain", "abort", "release", "retire",
   "unref", "resumeAck"}

TypeOK ==
  /\ work \in [Mutator -> {"run", "masked", "try", "spin", "own", "leave",
                           "diagTry", "diagOwn"}]
  /\ kernel \in [Mutator -> {"running", "paused"}]
  /\ owner \in Mutator \union {None}
  /\ slot \in [Mutator -> Slot]
  /\ needsResume \subseteq Mutator
  /\ context \subseteq Mutator
  /\ leased \subseteq Mutator
  /\ cycleActive \in BOOLEAN
  /\ releasing \in [Agent -> SUBSET Mutator]
  /\ at \in [Agent -> CollectorPC \union MonitorPC]
  /\ on \in [Agent -> Mutator \union {None}]
  /\ attempts \in 0..MaxAttempts
  /\ toSignal \subseteq Mutator
  /\ signalled \subseteq Mutator
  /\ suspendAck \in 0..Cardinality(Mutator)
  /\ resumeAck \in 0..Cardinality(Mutator)
  /\ resumeFlag \in BOOLEAN
  /\ request \in BOOLEAN /\ completion \in BOOLEAN
  /\ cycles \in 0..MaxCycles
  /\ faults \in 0..MaxFaults
  /\ sections \in 0..MaxSections

Init ==
  /\ work = [t \in Mutator |-> "run"]
  /\ kernel = [t \in Mutator |-> "running"]
  /\ owner = None
  /\ slot = [t \in Mutator |-> "free"]
  /\ needsResume = {} /\ context = {}
  /\ leased = {} /\ cycleActive = FALSE
  /\ releasing = [w \in Agent |-> {}]
  /\ at = [w \in Agent |-> IF w = "collector" THEN "idle" ELSE "off"]
  /\ on = [w \in Agent |-> None]
  /\ attempts = 0
  /\ toSignal = {} /\ signalled = {}
  /\ suspendAck = 0 /\ resumeAck = 0 /\ resumeFlag = FALSE
  /\ request = FALSE /\ completion = FALSE
  /\ cycles = 0 /\ faults = 0 /\ sections = 0

Goto(w, to) == at' = [at EXCEPT ![w] = to]
SetSlot(t, to) == slot' = [slot EXCEPT ![t] = to]
Fault == faults < MaxFaults /\ faults' = faults + 1

-----------------------------------------------------------------------------
(* A running mutator: pthread_sigmask_fake, mmap_broker_lock and _unlock    *)
(* (the same protocol as bionic_pthread_storage_lock), and the diagnostics. *)

Protected == {"masked", "try", "own", "leave", "diagTry"}

\* gc_signal_blocked: the signal mask, or gc_critical_depth above zero.
Blocked(t) == work[t] \in Protected

Do(t, from, to) ==
  /\ kernel[t] = "running"
  /\ work[t] = from
  /\ work' = [work EXCEPT ![t] = to]
  /\ UNCHANGED << kernel, slotVars, cycleVars, at, on, attempts, stopVars,
                  ackVars, faults >>

Section == sections < MaxSections /\ sections' = sections + 1

MaskSignal(t) ==
  Do(t, "run", "masked") /\ Section /\ UNCHANGED << owner, jobVars >>

UnmaskSignal(t) ==
  Do(t, "masked", "run") /\ UNCHANGED << owner, sections, jobVars >>

\* The service thread enters for the job it was given, others as they like.
EnterCritical(t) ==
  /\ Do(t, "run", "try")
  /\ IF t = Worker /\ request THEN UNCHANGED sections ELSE Section
  /\ UNCHANGED << owner, jobVars >>

\* mutexTryLock; a failed attempt leaves the protected state before it yields.
TryLock(t) ==
  /\ IF owner = None
     THEN Do(t, "try", "own") /\ owner' = t
     ELSE Do(t, "try", "spin") /\ UNCHANGED owner
  /\ UNCHANGED << sections, jobVars >>

Respin(t) == Do(t, "spin", "try") /\ UNCHANGED << owner, sections, jobVars >>

\* The GC service answers a request from inside madvise_fake.
Unlock(t) ==
  /\ Do(t, "own", "leave")
  /\ owner' = None
  /\ IF t = Worker /\ request
     THEN request' = FALSE /\ completion' = TRUE
     ELSE UNCHANGED jobVars
  /\ UNCHANGED sections

LeaveCritical(t) ==
  Do(t, "leave", "run") /\ UNCHANGED << owner, sections, jobVars >>

\* nx_sparse_arena_get_diagnostics: nx_guest_gc_critical_leave comes right
\* after the try-lock, taken or not.
DiagnosticEnter(t) ==
  /\ t \in Diagnostician
  /\ Do(t, "run", "diagTry")
  /\ Section
  /\ UNCHANGED << owner, jobVars >>

DiagnosticTryLock(t) ==
  /\ IF owner = None
     THEN Do(t, "diagTry", "diagOwn") /\ owner' = t
     ELSE Do(t, "diagTry", "run") /\ UNCHANGED owner
  /\ UNCHANGED << sections, jobVars >>

DiagnosticUnlock(t) ==
  Do(t, "diagOwn", "run") /\ owner' = None /\ UNCHANGED << sections, jobVars >>

-----------------------------------------------------------------------------
(* gc_capture_slot_once, run by the collector on a "capturing" slot and by  *)
(* the monitor on a "deferred" one.                                         *)

\* How a capture by w that did not commit ends: the signal stays pending.
LeavePending(w) ==
  /\ SetSlot(on[w], "pending")
  /\ IF w = "collector"
     THEN Goto(w, "signal") /\ signalled' = signalled \union {on[w]}
     ELSE Goto(w, "scan") /\ UNCHANGED signalled

\* ... or is tried again: by the collector at once, up to its limit.
RetryCapture(w) ==
  IF w = "monitor"
  THEN SetSlot(on[w], "pending") /\ Goto(w, "scan") /\ UNCHANGED attempts
  ELSE /\ attempts' = attempts + 1
       /\ Goto(w, IF attempts' < MaxAttempts THEN "check" ELSE "giveUp")
       /\ UNCHANGED slot

CaptureDefer(w) ==
  /\ at[w] = "check"
  /\ Blocked(on[w])
  /\ LeavePending(w)
  /\ UNCHANGED << mutatorVars, kernel, needsResume, context, cycleVars, on,
                  attempts, toSignal, cycles, ackVars, jobVars, faults >>

\* The lock-free check found the signal deliverable: threadPause comes next,
\* and by then the target may have changed its mind.
CaptureCheck(w) ==
  /\ at[w] = "check"
  /\ ~Blocked(on[w])
  /\ Goto(w, "pause")
  /\ UNCHANGED << mutatorVars, kernel, slotVars, cycleVars, on, attempts,
                  stopVars, ackVars, jobVars, faults >>

CapturePause(w) ==
  /\ at[w] = "pause"
  /\ kernel' = [kernel EXCEPT ![on[w]] = "paused"]
  /\ needsResume' = needsResume \union {on[w]}
  /\ Goto(w, "paused")
  /\ UNCHANGED << mutatorVars, slot, context, cycleVars, on, attempts,
                  stopVars, ackVars, jobVars, faults >>

CapturePauseFails(w) ==
  /\ at[w] = "pause"
  /\ Fault
  /\ RetryCapture(w)
  /\ UNCHANGED << mutatorVars, kernel, needsResume, context, cycleVars, on,
                  stopVars, ackVars, jobVars >>

\* The second check, on the paused target; or the dump failed, or showed a
\* guest pc under a foreign thread pointer.
CaptureReject(w) ==
  /\ at[w] = "paused"
  /\ \/ Blocked(on[w]) /\ Goto(w, "undoDefer") /\ UNCHANGED faults
     \/ Fault /\ Goto(w, "undoRetry")
  /\ UNCHANGED << mutatorVars, kernel, slotVars, cycleVars, on, attempts,
                  stopVars, ackVars, jobVars >>

CaptureUndo(w) ==
  /\ at[w] \in {"undoDefer", "undoRetry"}
  /\ kernel' = [kernel EXCEPT ![on[w]] = "running"]
  /\ needsResume' = needsResume \ {on[w]}
  /\ \/ at[w] = "undoDefer" /\ LeavePending(w) /\ UNCHANGED attempts
     \/ at[w] = "undoRetry" /\ RetryCapture(w) /\ UNCHANGED signalled
  /\ UNCHANGED << mutatorVars, context, cycleVars, on, toSignal, cycles,
                  ackVars, jobVars, faults >>

\* The target could not be resumed: the monitor will, and pthread_kill_gc
\* returns 0 because the signal is still to be delivered.
CaptureUndoFails(w) ==
  /\ at[w] \in {"undoDefer", "undoRetry"}
  /\ Fault
  /\ SetSlot(on[w], "abort")
  /\ IF w = "collector"
     THEN Goto(w, "signal") /\ signalled' = signalled \union {on[w]}
     ELSE Goto(w, "scan") /\ UNCHANGED signalled
  /\ UNCHANGED << mutatorVars, kernel, needsResume, context, cycleVars, on,
                  attempts, toSignal, cycles, ackVars, jobVars >>

\* Seeded fault: no second look at the signal mask of the paused target.
CaptureCommitUnchecked(w) ==
  /\ at[w] = "paused"
  /\ context' = context \union {on[w]}
  /\ SetSlot(on[w], "stopped")
  /\ Goto(w, "suspendAck")
  /\ UNCHANGED << mutatorVars, kernel, needsResume, cycleVars, on, attempts,
                  stopVars, ackVars, jobVars, faults >>

CaptureCommit(w) ==
  /\ at[w] = "paused"
  /\ ~Blocked(on[w])
  /\ context' = context \union {on[w]}
  /\ SetSlot(on[w], "stopped")
  /\ Goto(w, "suspendAck")
  /\ UNCHANGED << mutatorVars, kernel, needsResume, cycleVars, on, attempts,
                  stopVars, ackVars, jobVars, faults >>

CaptureAck(w) ==
  /\ at[w] = "suspendAck"
  /\ suspendAck' = suspendAck + 1
  /\ IF w = "collector"
     THEN Goto(w, "signal") /\ signalled' = signalled \union {on[w]}
     ELSE Goto(w, "scan") /\ UNCHANGED signalled
  /\ UNCHANGED << mutatorVars, kernel, slotVars, cycleVars, on, attempts,
                  toSignal, cycles, resumeAck, resumeFlag, jobVars, faults >>

-----------------------------------------------------------------------------
(* The cycle: gc_begin_cycle_locked, gc_detach_idle_cycle_locked and        *)
(* gc_release_cycle_refs.  The snapshot is any set of mutators: a thread    *)
(* that is still being created, exits or is being joined is not in it.      *)

\* Seeded fault: the first slot to become free ends the cycle.
DetachBusyCycle(w) ==
  IF cycleActive
  THEN /\ releasing' = [releasing EXCEPT ![w] = leased]
       /\ leased' = {}
       /\ cycleActive' = FALSE
  ELSE UNCHANGED cycleVars

\* After slot' is decided: the last slot to become free ends the cycle.
DetachIdleCycle(w) ==
  IF cycleActive /\ \A t \in Mutator : slot'[t] = "free"
  THEN /\ releasing' = [releasing EXCEPT ![w] = leased]
       /\ leased' = {}
       /\ cycleActive' = FALSE
  ELSE UNCHANGED cycleVars

ReleaseRefs(w) ==
  /\ at[w] = "unref"
  /\ releasing' = [releasing EXCEPT ![w] = {}]
  /\ Goto(w, IF w = "collector" THEN "signal" ELSE "resumeAck")
  /\ UNCHANGED << mutatorVars, kernel, slotVars, leased, cycleActive, on,
                  attempts, stopVars, ackVars, jobVars, faults >>

-----------------------------------------------------------------------------
(* pthread_kill_gc.                                                         *)

\* No GC record, no free slot, no monitor or no snapshot: an error return
\* that leaves the bridge alone.
KillRefused(t) ==
  /\ at["collector"] = "signal"
  /\ t \in toSignal
  /\ toSignal' = toSignal \ {t}
  /\ UNCHANGED << mutatorVars, kernel, slotVars, cycleVars, at, on, attempts,
                  signalled, cycles, ackVars, jobVars, faults >>

\* gc_ensure_monitor, and where the collector goes on.
KillTo(to) ==
  at' = [at EXCEPT !["collector"] = to,
                   !["monitor"] = IF @ = "off" THEN "scan" ELSE @]

\* The early return for a target whose slot is in use is never taken by a
\* collector that signals each target once per stop and waits for resume_ack.
KillBegin(t, snapshot) ==
  /\ at["collector"] = "signal"
  /\ t \in toSignal
  /\ slot[t] = "free"
  /\ cycleActive => snapshot = leased
  /\ t \in snapshot
  /\ leased' = snapshot
  /\ cycleActive' = TRUE
  /\ toSignal' = toSignal \ {t}
  /\ on' = [on EXCEPT !["collector"] = t]
  /\ attempts' = 0
  /\ IF Blocked(t)
     THEN SetSlot(t, "pending") /\ signalled' = signalled \union {t}
            /\ KillTo("signal")
     ELSE SetSlot(t, "capturing") /\ KillTo("check")
            /\ UNCHANGED signalled
  /\ UNCHANGED << mutatorVars, kernel, needsResume, context, releasing, cycles,
                  ackVars, jobVars, faults >>

\* The target is not in the snapshot: ESRCH.
KillUnleased(t, snapshot) ==
  /\ at["collector"] = "signal"
  /\ t \in toSignal \ snapshot
  /\ slot[t] = "free"
  /\ cycleActive => snapshot = leased
  /\ toSignal' = toSignal \ {t}
  /\ IF \A u \in Mutator : slot[u] = "free"
     THEN /\ releasing' = [releasing EXCEPT !["collector"] = snapshot]
          /\ leased' = {} /\ cycleActive' = FALSE
          /\ KillTo("unref")
     ELSE UNCHANGED cycleVars /\ KillTo("signal")
  /\ UNCHANGED << mutatorVars, kernel, slotVars, on, attempts, signalled,
                  cycles, ackVars, jobVars, faults >>

\* GI_GC_CAPTURE_ATTEMPTS captures failed: EAGAIN.
KillGivesUp ==
  /\ at["collector"] = "giveUp"
  /\ SetSlot(on["collector"], "free")
  /\ DetachIdleCycle("collector")
  /\ Goto("collector", "unref")
  /\ UNCHANGED << mutatorVars, kernel, needsResume, context, on, attempts,
                  stopVars, ackVars, jobVars, faults >>

-----------------------------------------------------------------------------
(* gc_maybe_release_worker_dependency: the collector is about to wait for   *)
(* completion, and the thread that must provide it is one it has stopped.   *)

DependencyBegin ==
  /\ at["collector"] = "futex"
  /\ IF cycleActive /\ slot[Worker] = "stopped" /\ Worker \in needsResume
     THEN SetSlot(Worker, "dependency") /\ Goto("collector", "dependency")
     ELSE Goto("collector", "awaitJob") /\ UNCHANGED slot
  /\ UNCHANGED << mutatorVars, kernel, needsResume, context, cycleVars, on,
                  attempts, stopVars, ackVars, jobVars, faults >>

DependencyResume ==
  /\ at["collector"] = "dependency"
  /\ kernel' = [kernel EXCEPT ![Worker] = "running"]
  /\ needsResume' = needsResume \ {Worker}
  /\ SetSlot(Worker, "stopped")
  /\ Goto("collector", "awaitJob")
  /\ UNCHANGED << mutatorVars, context, cycleVars, on, attempts, stopVars,
                  ackVars, jobVars, faults >>

\* The resume failed; the futex wait that follows does not try it again.
DependencyResumeFails ==
  /\ at["collector"] = "dependency"
  /\ JobResumeFails
  /\ Fault
  /\ SetSlot(Worker, "stopped")
  /\ Goto("collector", "awaitJob")
  /\ UNCHANGED << mutatorVars, kernel, needsResume, context, cycleVars, on,
                  attempts, stopVars, ackVars, jobVars >>

-----------------------------------------------------------------------------
(* gc_resume_monitor, gc_abort_slot and gc_release_slot.                    *)

MonitorStep(from, to) ==
  /\ at["monitor"] = from
  /\ Goto("monitor", to)
  /\ UNCHANGED << mutatorVars, attempts, stopVars, jobVars >>

\* One critical section per scan: take a slot in state s, or go on to next.
Scan(from, candidates, s, take, next) ==
  IF candidates = {}
  THEN MonitorStep(from, next) /\ UNCHANGED << slot, on >>
  ELSE \E t \in candidates :
         /\ MonitorStep(from, take)
         /\ SetSlot(t, s)
         /\ on' = [on EXCEPT !["monitor"] = t]

InState(s) == {t \in Mutator : slot[t] = s}

MonitorScan ==
  /\ \/ Scan("scan", InState("abort"), "aborting", "abort", "scanPending")
     \/ Scan("scanPending", {t \in InState("pending") : ~Blocked(t)},
             "deferred", "check", "scanFlag")
     \/ Scan("drain", InState("stopped"), "releasing", "release", "scan")
  /\ UNCHANGED << kernel, needsResume, context, cycleVars, ackVars, faults >>

\* Seeded fault: resume_flag is not read.
MonitorIgnoresFlag ==
  /\ MonitorStep("scanFlag", "drain")
  /\ UNCHANGED << kernel, slotVars, cycleVars, on, ackVars, faults >>

\* resume_flag is read once, before the loop that releases every slot.
MonitorReadFlag ==
  /\ MonitorStep("scanFlag", IF resumeFlag THEN "drain" ELSE "scan")
  /\ UNCHANGED << kernel, slotVars, cycleVars, on, ackVars, faults >>

\* Seeded fault: the pending signal is dropped with the aborted capture.
MonitorDropsSignal ==
  /\ MonitorStep("abort", "scan")
  /\ kernel' = [kernel EXCEPT ![on["monitor"]] = "running"]
  /\ needsResume' = needsResume \ {on["monitor"]}
  /\ SetSlot(on["monitor"], "free")
  /\ UNCHANGED << context, cycleVars, on, ackVars, faults >>

\* Only uncommitted captures come here, so the signal is pending again.
MonitorAbort ==
  /\ MonitorStep("abort", "scan")
  /\ \/ /\ kernel' = [kernel EXCEPT ![on["monitor"]] = "running"]
        /\ needsResume' = needsResume \ {on["monitor"]}
        /\ SetSlot(on["monitor"], "pending")
        /\ UNCHANGED faults
     \/ /\ Fault
        /\ SetSlot(on["monitor"], "abort")
        /\ UNCHANGED << kernel, needsResume >>
  /\ UNCHANGED << context, cycleVars, on, ackVars >>

MonitorRelease ==
  LET t == on["monitor"] IN
  /\ MonitorStep("release", "retire")
  /\ context' = context \ {t}
  /\ IF t \in needsResume
     THEN kernel' = [kernel EXCEPT ![t] = "running"]
     ELSE UNCHANGED kernel
  /\ needsResume' = needsResume \ {t}
  /\ UNCHANGED << slot, cycleVars, on, ackVars, faults >>

MonitorReleaseFails ==
  /\ on["monitor"] \in needsResume
  /\ MonitorStep("release", "scan")
  /\ Fault
  /\ context' = context \ {on["monitor"]}
  /\ SetSlot(on["monitor"], "stopped")
  /\ UNCHANGED << kernel, needsResume, cycleVars, on, ackVars >>

MonitorRetire ==
  /\ MonitorStep("retire", "unref")
  /\ SetSlot(on["monitor"], "free")
  /\ DetachIdleCycle("monitor")
  /\ UNCHANGED << kernel, needsResume, context, on, ackVars, faults >>

MonitorAck ==
  /\ MonitorStep("resumeAck", "drain")
  /\ resumeAck' = resumeAck + 1
  /\ UNCHANGED << kernel, slotVars, cycleVars, on, suspendAck, resumeFlag,
                  faults >>

-----------------------------------------------------------------------------
(* The collector of the Android binary (not part of src/): stop, scan, with *)
(* or without the help of the service thread, and resume.                   *)

CollectorStep(from, to) ==
  /\ at["collector"] = from
  /\ Goto("collector", to)
  /\ UNCHANGED << mutatorVars, kernel, slotVars, cycleVars, on, attempts,
                  faults >>

StopTheWorld ==
  /\ cycles < MaxCycles
  /\ CollectorStep("idle", "signal")
  /\ cycles' = cycles + 1
  /\ toSignal' = Mutator
  /\ signalled' = {}
  /\ suspendAck' = 0 /\ resumeAck' = 0
  /\ UNCHANGED << resumeFlag, jobVars >>

AllSignalled ==
  /\ toSignal = {}
  /\ CollectorStep("signal", "awaitSuspend")
  /\ UNCHANGED << stopVars, ackVars, jobVars >>

WorldStops ==
  /\ suspendAck = Cardinality(signalled)
  /\ CollectorStep("awaitSuspend", "world")
  /\ UNCHANGED << stopVars, ackVars, jobVars >>

PostJob ==
  /\ CollectorStep("world", "futex")
  /\ request' = TRUE /\ completion' = FALSE
  /\ UNCHANGED << stopVars, ackVars >>

JobDone ==
  /\ completion
  /\ CollectorStep("awaitJob", "resume")
  /\ UNCHANGED << stopVars, ackVars, jobVars >>

ResumeTheWorld ==
  /\ at["collector"] \in {"world", "resume"}
  /\ CollectorStep(at["collector"], "awaitResume")
  /\ resumeFlag' = TRUE
  /\ UNCHANGED << stopVars, suspendAck, resumeAck, jobVars >>

WorldResumes ==
  /\ resumeAck = Cardinality(signalled)
  /\ CollectorStep("awaitResume", "idle")
  /\ resumeFlag' = FALSE
  /\ UNCHANGED << stopVars, suspendAck, resumeAck, jobVars >>

-----------------------------------------------------------------------------
EndSection(t) ==
  \/ UnmaskSignal(t) \/ TryLock(t) \/ Respin(t) \/ Unlock(t)
  \/ LeaveCritical(t) \/ DiagnosticTryLock(t) \/ DiagnosticUnlock(t)

Capture(w) ==
  \/ CaptureDefer(w) \/ CaptureCheck(w) \/ CapturePause(w)
  \/ CapturePauseFails(w) \/ CaptureReject(w) \/ CaptureUndo(w)
  \/ CaptureUndoFails(w) \/ CaptureCommit(w) \/ CaptureAck(w)

Monitor ==
  \/ MonitorScan \/ MonitorReadFlag \/ MonitorAbort \/ MonitorRelease
  \/ MonitorReleaseFails \/ MonitorRetire \/ ReleaseRefs("monitor")
  \/ MonitorAck \/ Capture("monitor")

Collector ==
  \/ \E t \in Mutator : KillRefused(t)
  \/ \E t \in Mutator, snapshot \in SUBSET Mutator :
       KillBegin(t, snapshot) \/ KillUnleased(t, snapshot)
  \/ KillGivesUp \/ ReleaseRefs("collector") \/ Capture("collector")
  \/ DependencyBegin \/ DependencyResume \/ DependencyResumeFails
  \/ AllSignalled \/ WorldStops \/ JobDone
  \/ ResumeTheWorld \/ WorldResumes

Next ==
  \/ \E t \in Mutator : MaskSignal(t) \/ EnterCritical(t) \/ DiagnosticEnter(t)
                          \/ EndSection(t)
  \/ Monitor
  \/ Collector \/ StopTheWorld \/ PostJob

Spec == Init /\ [][Next]_vars

\* Every thread the kernel lets run does run; the collector's own code ends a
\* stop it has begun, and the service thread takes up a job.
Fairness ==
  /\ \A t \in Mutator : WF_vars(EndSection(t))
  /\ WF_vars(request /\ EnterCritical(Worker))
  /\ WF_vars(Monitor)
  /\ WF_vars(Collector)

FairSpec == Spec /\ Fairness

-----------------------------------------------------------------------------
(* Properties.                                                              *)

\* While the collector scans, each target whose pthread_kill it counted is
\* paused with its registers published; only the service thread may have been
\* resumed, and only for the wait on completion.
WorldStopped ==
  at["collector"] \in {"world", "futex", "dependency", "awaitJob", "resume"} =>
    \A t \in signalled :
      /\ t \in context
      /\ \/ kernel[t] = "paused"
         \/ t = Worker /\ at["collector"] \in {"awaitJob", "resume"}

\* A capture commits only on a target that neither masks the signal nor is
\* between nx_guest_gc_critical_enter and _leave: the check before threadPause
\* and the one after it together close the race, however the two threads
\* interleave, and so no stopped thread has g_mmap_lock from mmap_broker_lock.
StoppedNotProtected ==
  \A t \in Mutator :
    slot[t] \in {"stopped", "releasing"} /\ kernel[t] = "paused" =>
      ~Blocked(t) /\ (owner = t => work[t] = "diagOwn")

\* The cycle keeps its references as long as it keeps anyone paused, also when
\* a resume failed and the target waits for the monitor to try again.
RefsOutlivePauses ==
  \A t \in Mutator : kernel[t] = "paused" => t \in leased

\* gc_release_slot: "Never acknowledge a target that is still paused", and
\* everything is reusable by the time the collector has its last resume_ack.
IdleIsClean ==
  at["collector"] = "idle" =>
    /\ \A t \in Mutator : kernel[t] = "running" /\ slot[t] = "free"
    /\ context = {} /\ needsResume = {}
    /\ ~cycleActive /\ \A w \in Agent : releasing[w] = {}

\* A cycle ends with nothing of it left (libc_shim.c:9500), and not before; every
\* variable has its type throughout.
CyclesClean == TypeOK /\ RefsOutlivePauses /\ IdleIsClean

\* What the comment at mmap_broker_lock is after: no stopped thread owns the
\* lock, whoever took it ("a raw Horizon threadPause can stop its owner").
StoppedNotOwner ==
  \A t \in Mutator :
    slot[t] \in {"stopped", "releasing"} /\ kernel[t] = "paused" => owner # t

\* Each stop ends with the world running again: no suspend_ack or resume_ack is
\* lost when captures are deferred, retried or undone, and the service thread
\* can complete the job that the stopped collector waits for.
CollectionEnds == at["collector"] = "signal" ~> at["collector"] = "idle"

=============================================================================
