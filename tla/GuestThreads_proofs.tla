------------------------ MODULE GuestThreads_proofs ------------------------
(* Theorems about GuestThreads for any set of threads, host threads and     *)
(* borrowers: type correctness and the four safety invariants, all from one *)
(* inductive invariant.                                                     *)
EXTENDS GuestThreads, FiniteSetTheorems, TLAPS

Creating(a) == pc[a] \in {"publish", "awaitChild"}
Tearing(j) == pc[j] \in {"drainJoin", "hostJoin", "removeRecord", "account"}

\* A call that works on a thread knows which one.
Targeted ==
  \A j \in Joiner : Creating(j) \/ Tearing(j) => target[j] \in Thread

\* How far a thread has come, in terms of its record and its native thread.
Lifecycle ==
  /\ \A t \in Thread :
       /\ pc[t] = "unborn" =>
            /\ t \notin returned \union registered \union reapClaimed
            /\ host[t] = "none"
       /\ pc[t] \notin {"unborn", "ended"} => host[t] = "running"
       /\ pc[t] = "ended" => host[t] # "none"
       /\ t \notin returned => pc[t] \in {"unborn", "trampoline", "awaitCreator"}
       /\ t \in returned => state[t] # "CREATING"
  /\ \A h \in Host : state[h] # "CREATING"
  /\ \A a \in Actor :
       /\ state[a] \in {"CREATING", "LIVE"} =>
            pc[a] \notin {"draining", "dtors", "ended", "selfUndo", "hostDrain"}
       /\ a \in registered => state[a] \notin {"absent", "freed"}

\* A creator works on a record that is not its child's yet to run with.
Creation ==
  \A a \in Joiner : Creating(a) =>
    /\ target[a] \notin returned
    /\ pc[target[a]] # "unborn"
    /\ state[target[a]] \in {"CREATING", "LIVE"}
    /\ \A b \in Joiner \ {a} : Creating(b) => target[b] # target[a]

\* What a joiner has established at each point of the teardown.
Teardown ==
  /\ \A j \in Joiner : Tearing(j) =>
       /\ target[j] \in returned \ reapFailed
       /\ pc[j] = "account" <=> target[j] \notin registered
       /\ host[target[j]] = "joined" <=> pc[j] \in {"removeRecord", "account"}
  /\ reapFailed \subseteq reapClaimed
  /\ \A t \in Thread : host[t] = "joined" => t \in reapClaimed

IInv ==
  /\ TypeOK
  /\ Targeted
  /\ Lifecycle
  /\ Creation
  /\ Teardown
  /\ BorrowedThreadRuns
  /\ OneReclaimer
  /\ StackOutlivesThread

-----------------------------------------------------------------------------
\* Every step of the registry preserves the inductive invariant.
LEMMA Step == IInv /\ [Next]_vars => IInv'
<1> SUFFICES ASSUME IInv, [Next]_vars PROVE IInv'
  OBVIOUS
<1> USE ThreadAssumption
    DEF IInv, TypeOK, Actor, Joiner, Record, PC, CallPC, Goto, recordVars,
        nativeVars, Targeted, Creating, Tearing, Lifecycle, Creation, Teardown,
        BorrowedThreadRuns, OneReclaimer, TearingDown, StackOutlivesThread
<1>1. ASSUME NEW a \in Actor, EnsureReaper(a) PROVE IInv'
  BY <1>1 DEF EnsureReaper
<1>2. ASSUME NEW a \in Actor, StartReaper(a) PROVE IInv'
  BY <1>2 DEF StartReaper
<1>3. ASSUME NEW a \in Actor, PublishRecord(a) PROVE IInv'
  BY <1>3 DEF PublishRecord, ReturnFromCreate
<1>4. ASSUME NEW a \in Actor, AwaitChild(a) PROVE IInv'
  BY <1>4 DEF AwaitChild, ReturnFromCreate
<1>5. ASSUME NEW a \in Actor, JoinDrained(a) PROVE IInv'
  BY <1>5 DEF JoinDrained
<1>6. ASSUME NEW a \in Actor, NEW t \in Thread, NEW d \in BOOLEAN, 
             CreateHostThread(a, t, d)
      PROVE IInv'
  BY <1>6 DEF CreateHostThread
<1>7. ASSUME NEW a \in Actor, NEW t \in Thread, JoinClaim(a, t) PROVE IInv'
  BY <1>7 DEF JoinClaim
<1>8. ASSUME NEW a \in Actor, NEW t \in Thread, Detach(a, t) PROVE IInv'
  BY <1>8 DEF Detach
<1>9. ASSUME NEW t \in Thread, ChildStart(t) PROVE IInv'
  BY <1>9 DEF ChildStart
<1>10. ASSUME NEW t \in Thread, EnterGuest(t) PROVE IInv'
  BY <1>10 DEF EnterGuest
<1>11. ASSUME NEW t \in Thread, BeginExit(t) PROVE IInv'
  BY <1>11 DEF BeginExit
<1>12. ASSUME NEW t \in Thread, ExitDrained(t) PROVE IInv'
  BY <1>12 DEF ExitDrained
<1>13. ASSUME NEW t \in Thread, FinishExit(t) PROVE IInv'
  BY <1>13 DEF FinishExit
<1>14. ASSUME NEW t \in Thread, NativeExit(t) PROVE IInv'
  BY <1>14 DEF NativeExit
<1>15. ASSUME NEW t \in Thread, ReapClaim(t) PROVE IInv'
  BY <1>15 DEF ReapClaim, ReapCandidate
<1>16. ASSUME NEW j \in Joiner, HostJoin(j) PROVE IInv'
  BY <1>16 DEF HostJoin
<1>17. ASSUME NEW j \in Joiner, HostJoinFails(j) PROVE IInv'
  BY <1>17 DEF HostJoinFails, Home
<1>18. ASSUME NEW j \in Joiner, RemoveRecord(j) PROVE IInv'
  BY <1>18 DEF RemoveRecord
<1>19. ASSUME NEW j \in Joiner, AccountAndFree(j) PROVE IInv'
  BY <1>19 DEF AccountAndFree, Home
<1>20. ASSUME NEW h \in Host, SelfRegister(h) PROVE IInv'
  BY <1>20 DEF SelfRegister
<1>21. ASSUME NEW h \in Host, SelfKeySet(h) PROVE IInv'
  BY <1>21 DEF SelfKeySet
<1>22. ASSUME NEW h \in Host, SelfKeyFails(h) PROVE IInv'
  BY <1>22 DEF SelfKeyFails
<1>23. ASSUME NEW h \in Host, HostExit(h) PROVE IInv'
  BY <1>23 DEF HostExit
<1>24. ASSUME NEW h \in Host, RetireExternal(h) PROVE IInv'
  BY <1>24 DEF RetireExternal
<1>25. ASSUME NEW b \in Borrower, Snapshot(b) PROVE IInv'
  <2>1. borrowers' \in [Actor -> SUBSET Borrower]
    BY <1>25 DEF Snapshot
  <2>2. ASSUME NEW t \in Actor, borrowers'[t] # {}
        PROVE borrowers[t] # {} \/ t \in Acquirable
    BY <1>25, <2>2 DEF Snapshot
  <2>3. BorrowedThreadRuns'
    BY <1>25, <2>2 DEF Snapshot, Acquirable
  <2>4. TypeOK'
    BY <1>25, <2>1 DEF Snapshot
  <2>5. Targeted' /\ Lifecycle' /\ Creation'
    BY <1>25 DEF Snapshot
  <2>6. Teardown' /\ OneReclaimer' /\ StackOutlivesThread'
    BY <1>25 DEF Snapshot
  <2> HIDE DEF TypeOK, Targeted, Lifecycle, Creation, Teardown, OneReclaimer,
               StackOutlivesThread, BorrowedThreadRuns
  <2> QED
    BY <2>3, <2>4, <2>5, <2>6
<1>26. ASSUME NEW b \in Borrower, NEW t \in Actor, Acquire(b, t) PROVE IInv'
  BY <1>26 DEF Acquire, Acquirable
<1>27. ASSUME NEW b \in Borrower, NEW t \in Actor, Release(b, t) PROVE IInv'
  BY <1>27 DEF Release
<1>28. CASE UNCHANGED vars
  BY <1>28 DEF vars
<1> HIDE DEF IInv
<1> QED
  BY <1>1, <1>2, <1>3, <1>4, <1>5, <1>6, <1>7, <1>8, <1>9, <1>10,
     <1>11, <1>12, <1>13, <1>14, <1>15, <1>16, <1>17, <1>18, <1>19, <1>20,
     <1>21, <1>22, <1>23, <1>24, <1>25, <1>26, <1>27, <1>28
  DEF Next, Create, Trampoline, Exit, Reclaim

\* The threads whose stacks are accounted for.
Counted == {t \in returned : state[t] # "freed"}

\* Taking a member out of a finite set makes it one smaller.
LEMMA OneFewer ==
  ASSUME NEW S, IsFiniteSet(S), NEW x \in S
  PROVE  Cardinality(S \ {x}) = Cardinality(S) - 1
BY FS_RemoveElement

\* The creators' and the reclaimers' last critical sections are the only ones
\* that touch guest_thread_stack_bytes, each by its own thread.
LEMMA AccountingStep ==
  IInv /\ StackAccounting /\ [Next]_vars => StackAccounting'
<1> SUFFICES ASSUME IInv, StackAccounting, [Next]_vars PROVE StackAccounting'
  OBVIOUS
<1> USE ThreadAssumption
    DEF IInv, TypeOK, Actor, Joiner, Goto, recordVars, nativeVars,
        Targeted, Creating, Tearing, Lifecycle, Creation, Teardown,
        OneReclaimer, TearingDown, StackOutlivesThread
<1>1. IsFiniteSet(Counted) /\ stackBytes = Cardinality(Counted)
  <2>1. Counted \subseteq Thread
    BY DEF Counted
  <2> QED
    BY <2>1, FiniteThreads, FS_Subset DEF Counted, StackAccounting
<1>2. SUFFICES stackBytes' = Cardinality(Counted')
  BY DEF Counted, StackAccounting
<1> DEFINE Same == stackBytes' = stackBytes /\ Counted' = Counted
<1>3. Same => stackBytes' = Cardinality(Counted')
  BY <1>1
<1>4. ASSUME NEW a \in Actor, Creating(a), ReturnFromCreate(a)
      PROVE stackBytes' = Cardinality(Counted')
  <2>1. Counted' = Counted \union {target[a]} /\ target[a] \notin Counted
    BY <1>4 DEF ReturnFromCreate, Counted
  <2>2. stackBytes' = stackBytes + 1
    BY <1>4 DEF ReturnFromCreate
  <2> QED
    BY <1>1, <2>1, <2>2, FS_AddElement
<1>5. ASSUME NEW j \in Joiner, AccountAndFree(j)
      PROVE stackBytes' = Cardinality(Counted')
  <2>1. Counted' = Counted \ {target[j]} /\ target[j] \in Counted
    BY <1>5 DEF AccountAndFree, Counted
  <2>2. stackBytes' = stackBytes - 1
    BY <1>5 DEF AccountAndFree
  <2>3. IsFiniteSet(Counted) /\ target[j] \in Counted
    BY <1>1, <2>1
  <2>4. Cardinality(Counted \ {target[j]}) = Cardinality(Counted) - 1
    <3> HIDE DEF IInv, TypeOK, Actor, Joiner, Goto, recordVars, nativeVars,
        Targeted, Creating, Tearing, Lifecycle, Creation, Teardown,
        OneReclaimer, TearingDown, StackOutlivesThread
    <3> QED
      BY <2>3, OneFewer
  <2> QED
    BY <1>1, <2>1, <2>2, <2>4
<1>6. ASSUME NEW a \in Actor, EnsureReaper(a) PROVE Same
  BY <1>6 DEF EnsureReaper, Counted
<1>7. ASSUME NEW a \in Actor, StartReaper(a) PROVE Same
  BY <1>7 DEF StartReaper, Counted
<1>8. ASSUME NEW a \in Actor, PublishRecord(a)
      PROVE stackBytes' = Cardinality(Counted')
  <2>1. CASE target[a] \in childReady
    BY <1>8, <2>1, <1>4 DEF PublishRecord
  <2>2. CASE target[a] \notin childReady
    <3>1. Same
      BY <1>8, <2>2 DEF PublishRecord, Counted
    <3> QED
      BY <3>1, <1>3
  <2> QED
    BY <2>1, <2>2
<1>9. ASSUME NEW a \in Actor, AwaitChild(a)
      PROVE stackBytes' = Cardinality(Counted')
  BY <1>9, <1>4 DEF AwaitChild
<1>10. ASSUME NEW a \in Actor, JoinDrained(a) PROVE Same
  BY <1>10 DEF JoinDrained, Counted
<1>11. ASSUME NEW a \in Actor, NEW t \in Thread, NEW d \in BOOLEAN, 
             CreateHostThread(a, t, d)
      PROVE Same
  BY <1>11 DEF CreateHostThread, Counted
<1>12. ASSUME NEW a \in Actor, NEW t \in Thread, JoinClaim(a, t) PROVE Same
  BY <1>12 DEF JoinClaim, Counted
<1>13. ASSUME NEW a \in Actor, NEW t \in Thread, Detach(a, t) PROVE Same
  BY <1>13 DEF Detach, Counted
<1>14. ASSUME NEW t \in Thread, ChildStart(t) PROVE Same
  BY <1>14 DEF ChildStart, Counted
<1>15. ASSUME NEW t \in Thread, EnterGuest(t) PROVE Same
  BY <1>15 DEF EnterGuest, Counted
<1>16. ASSUME NEW t \in Thread, BeginExit(t) PROVE Same
  BY <1>16 DEF BeginExit, Counted
<1>17. ASSUME NEW t \in Thread, ExitDrained(t) PROVE Same
  BY <1>17 DEF ExitDrained, Counted
<1>18. ASSUME NEW t \in Thread, FinishExit(t) PROVE Same
  BY <1>18 DEF FinishExit, Counted
<1>19. ASSUME NEW t \in Thread, NativeExit(t) PROVE Same
  BY <1>19 DEF NativeExit, Counted
<1>20. ASSUME NEW t \in Thread, ReapClaim(t) PROVE Same
  BY <1>20 DEF ReapClaim, ReapCandidate, Counted
<1>21. ASSUME NEW j \in Joiner, HostJoin(j) PROVE Same
  BY <1>21 DEF HostJoin, Counted
<1>22. ASSUME NEW j \in Joiner, HostJoinFails(j) PROVE Same
  BY <1>22 DEF HostJoinFails, Home, Counted
<1>23. ASSUME NEW j \in Joiner, RemoveRecord(j) PROVE Same
  BY <1>23 DEF RemoveRecord, Counted
<1>24. ASSUME NEW h \in Host, SelfRegister(h) PROVE Same
  BY <1>24 DEF SelfRegister, Counted
<1>25. ASSUME NEW h \in Host, SelfKeySet(h) PROVE Same
  BY <1>25 DEF SelfKeySet, Counted
<1>26. ASSUME NEW h \in Host, SelfKeyFails(h) PROVE Same
  BY <1>26 DEF SelfKeyFails, Counted
<1>27. ASSUME NEW h \in Host, HostExit(h) PROVE Same
  BY <1>27 DEF HostExit, Counted
<1>28. ASSUME NEW h \in Host, RetireExternal(h) PROVE Same
  BY <1>28 DEF RetireExternal, Counted
<1>29. ASSUME NEW b \in Borrower, Snapshot(b) PROVE Same
  BY <1>29 DEF Snapshot, Acquirable, Counted
<1>30. ASSUME NEW b \in Borrower, NEW t \in Actor, Acquire(b, t) PROVE Same
  BY <1>30 DEF Acquire, Acquirable, Counted
<1>31. ASSUME NEW b \in Borrower, NEW t \in Actor, Release(b, t) PROVE Same
  BY <1>31 DEF Release, Counted
<1>32. CASE UNCHANGED vars
  BY <1>32, <1>3 DEF vars, Counted
<1> QED
  BY <1>3, <1>5, <1>6, <1>7, <1>8, <1>9, <1>10, <1>11, <1>12, <1>13, <1>14,
     <1>15, <1>16, <1>17, <1>18, <1>19, <1>20, <1>21, <1>22, <1>23, <1>24,
     <1>25, <1>26, <1>27, <1>28, <1>29, <1>30, <1>31, <1>32
  DEF Next, Create, Trampoline, Exit, Reclaim

\* The registry starts empty, before the first pthread call of the binary.
LEMMA InitIInv == Init => IInv /\ StackAccounting
<1> SUFFICES ASSUME Init PROVE IInv /\ StackAccounting
  OBVIOUS
<1> USE ThreadAssumption DEF Init, Actor, Joiner
<1>1. TypeOK
  BY DEF TypeOK, Record, PC, CallPC
<1>2. Targeted /\ Creation
  BY DEF Targeted, Creation, Creating, Tearing
<1>3. Lifecycle /\ Teardown
  BY DEF Lifecycle, Teardown, Tearing
<1>4. BorrowedThreadRuns /\ OneReclaimer /\ StackOutlivesThread
  BY DEF BorrowedThreadRuns, OneReclaimer, TearingDown, StackOutlivesThread
<1>5. StackAccounting
  <2>1. {t \in returned : state[t] # "freed"} = {}
    OBVIOUS
  <2> QED
    BY <2>1, FS_EmptySet DEF StackAccounting
<1> QED
  BY <1>1, <1>2, <1>3, <1>4, <1>5 DEF IInv

\* The inductive invariant holds in every state of every behaviour.
THEOREM Invariant == Spec => [](IInv /\ StackAccounting)
<1>1. IInv /\ StackAccounting /\ [Next]_vars => (IInv /\ StackAccounting)'
  BY Step, AccountingStep
<1> QED
  BY <1>1, InitIInv, PTL DEF Spec

\* Type correctness of the registry of imports.c.
THEOREM TypeCorrect == Spec => []TypeOK
<1>1. IInv => TypeOK
  BY DEF IInv
<1> QED
  BY <1>1, Invariant, PTL

\* nx_guest_thread_acquire and _snapshot: a thread whose record someone
\* references is running natively until the reference is released.
THEOREM BorrowSafety == Spec => []BorrowedThreadRuns
<1>1. IInv => BorrowedThreadRuns
  BY DEF IInv
<1> QED
  BY <1>1, Invariant, PTL

\* pthread_join_fake, pthread_detach_fake and the reaper: one reclaimer.
THEOREM ReclaimSafety == Spec => []OneReclaimer
<1>1. IInv => OneReclaimer
  BY DEF IInv
<1> QED
  BY <1>1, Invariant, PTL

\* No pooled stack is released, and no record freed, before the host join.
THEOREM StackSafety == Spec => []StackOutlivesThread
<1>1. IInv => StackOutlivesThread
  BY DEF IInv
<1> QED
  BY <1>1, Invariant, PTL

\* guest_thread_stack_bytes counts the stacks of the unreclaimed threads, so
\* the unsigned counter of the code never wraps below zero.
THEOREM AccountingCorrect == Spec => []StackAccounting
BY Invariant, PTL

=============================================================================
