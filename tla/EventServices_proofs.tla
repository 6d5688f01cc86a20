------------------------ MODULE EventServices_proofs ------------------------
(***************************************************************************)
(* Theorems about what tells the game that something has happened - its    *)
(* window, loopers, epoll sets, audio players, the frame loop with its     *)
(* callbacks and sockets - for any threads, descriptors, sizes, callback   *)
(* indices and intervals.                                                  *)
(***************************************************************************)
EXTENDS WindowGeometry, Looper, Epoll, AudioPlayers, FrameLoop, NetworkPoll, FiniteSetTheorems,
        WellFoundedInduction, TLAPS

(***************************************************************************)
(* 1. The native window.  Only the transaction that has just set the size  *)
(* knows a size that is not recorded.                                      *)
(***************************************************************************)

WinSizes == Bases \union Requests \union {0}
Txns == [undo : Requests \union {0, NoTxn}, size : WinSizes, gen : Int,
         at : {"window", "novalid", "failed", "there", "set", "half", "rollback"}]

WindowTyped ==
  /\ base \in Bases /\ requested \in Requests \union {0}
  /\ applied \in WinSizes /\ actual \in WinSizes
  /\ geometryGen \in Int /\ dirty \in BOOLEAN
  /\ txn \in Txns \union {NoTxn}

WindowIInv ==
  /\ WindowTyped
  /\ ~dirty => applied = Effective
  /\ applied \in {0, actual} \/ (txn # NoTxn /\ txn.at \in {"set", "half"})
  /\ txn # NoTxn /\ txn.at \in {"there", "set", "half"} => actual = txn.size
  /\ txn # NoTxn /\ txn.at = "rollback" => txn.undo # NoTxn

LEMMA NoTxnIsNone == NoTxn \notin Txns
BY WindowAssumption DEF Txns, WinSizes

LEMMA WindowInitial == WindowInit => WindowIInv
BY DEF WindowInit, WindowIInv, WindowTyped, WinSizes, Effective

\* A transaction begins with the size that is wanted after the step.
LEMMA GoalTyped ==
  ASSUME WindowTyped', NEW undo \in Requests \union {0, NoTxn}
  PROVE  ApplyGoal(undo) \in Txns /\ ApplyGoal(undo).at = "window"
BY DEF WindowTyped, ApplyGoal, Effective, Txns, WinSizes

\* A step that does not touch the rest settles with the flag and the sizes alone.
LEMMA Settling ==
  ASSUME WindowTyped', ~dirty' => applied' = Effective',
         applied' \in {0, actual'} \/ (txn' # NoTxn /\ txn'.at \in {"set", "half"}),
         txn' # NoTxn /\ txn'.at \in {"there", "set", "half"} => actual' = txn'.size,
         txn' # NoTxn /\ txn'.at = "rollback" => txn'.undo # NoTxn
  PROVE  WindowIInv'
BY DEF WindowIInv

LEMMA WindowStep ==
  ASSUME WindowIInv, [WindowNext]_windowVars
  PROVE  WindowIInv'
<1>1. CASE UpdateMode
  <2>1. /\ base' \in Bases /\ UNCHANGED <<requested, applied, actual, buffers, txn>>
        /\ \/ dirty' = TRUE /\ geometryGen' = geometryGen + 1
           \/ requested # 0 /\ UNCHANGED <<dirty, geometryGen>>
    BY <1>1 DEF UpdateMode
  <2>2. WindowTyped'
    <3>1. geometryGen' \in Int
      BY <2>1 DEF WindowIInv, WindowTyped
    <3>2. dirty' \in BOOLEAN
      <4>1. dirty' = TRUE \/ dirty' = dirty
        BY <2>1
      <4> QED
        BY <4>1 DEF WindowIInv, WindowTyped
    <3> QED
      BY <2>1, <3>1, <3>2 DEF WindowIInv, WindowTyped
  <2>3. ~dirty' => applied' = Effective'
    BY <2>1 DEF WindowIInv, Effective
  <2> QED
    BY <2>1, <2>2, <2>3, Settling DEF WindowIInv
<1>2. CASE Apply
  BY <1>2, NoTxnIsNone DEF Apply, ApplyGoal, WindowIInv, WindowTyped, Effective, Txns, WinSizes
<1>3. ASSUME NEW size \in Requests, SetBuffersGeometry(size) PROVE WindowIInv'
  <2>1. /\ txn = NoTxn /\ requested' = size /\ geometryGen' = geometryGen + 1
        /\ UNCHANGED <<base, applied, actual, buffers>>
        /\ dirty' = (dirty \/ Effective' # applied)
        /\ txn' = ApplyGoal(requested)
    BY <1>3 DEF SetBuffersGeometry
  <2>2. dirty' \in BOOLEAN /\ (~dirty' => applied' = Effective')
    BY <2>1
  <2>3. ApplyGoal(requested) \in Txns /\ ApplyGoal(requested).at = "window"
    BY <2>1 DEF WindowIInv, WindowTyped, ApplyGoal, Effective, Txns, WinSizes
  <2>4. WindowTyped'
    BY <2>1, <2>2, <2>3 DEF WindowIInv, WindowTyped
  <2> QED
    BY <2>1, <2>2, <2>3, <2>4, Settling DEF WindowIInv
<1>4. CASE UseWindow
  BY <1>4, NoTxnIsNone DEF UseWindow, Outcome, WindowIInv, WindowTyped, Effective, Txns
<1>5. CASE RecordGeometry
  <2>1. /\ txn \in Txns /\ txn # NoTxn
        /\ UNCHANGED <<base, requested, geometryGen, actual, buffers>>
        /\ txn' = NoTxn \/ (txn' = [txn EXCEPT !.at = "rollback"] /\ txn.undo # NoTxn)
    BY <1>5 DEF RecordGeometry, Settles, WindowIInv, WindowTyped
  <2>2. /\ txn' \in Txns \union {NoTxn}
        /\ txn' # NoTxn => txn'.at = "rollback" /\ txn'.undo # NoTxn
    BY <2>1 DEF Txns
  <2>3. CASE txn.at \in {"novalid", "failed"}
    <3>1. applied' = applied /\ (dirty' = dirty \/ dirty' = TRUE)
      BY <1>5, <2>3 DEF RecordGeometry
    <3>2. WindowTyped'
      BY <2>1, <2>2, <3>1 DEF WindowIInv, WindowTyped
    <3> QED
      BY <2>1, <2>2, <2>3, <3>1, <3>2, Settling DEF WindowIInv, Effective
  <2>4. CASE txn.at \in {"there", "set", "half"}
    <3>1. applied' = txn.size /\ actual = txn.size
      BY <1>5, <2>4 DEF RecordGeometry, WindowIInv
    <3>2. dirty' = (txn.at = "half" \/ geometryGen # txn.gen \/ Effective # txn.size)
      BY <1>5, <2>4 DEF RecordGeometry, OutOfDate
    <3>3. dirty' \in BOOLEAN /\ (~dirty' => Effective = txn.size)
      BY <3>2
    <3>4. Effective' = Effective
      BY <2>1 DEF Effective
    <3>5. WindowTyped'
      BY <2>1, <2>2, <3>1, <3>3 DEF WindowIInv, WindowTyped
    <3> QED
      BY <2>1, <2>2, <3>1, <3>3, <3>4, <3>5, Settling
  <2> QED
    BY <1>5, <2>3, <2>4 DEF RecordGeometry
<1>6. CASE Rollback
  <2>1. /\ txn \in Txns /\ txn # NoTxn /\ txn.at = "rollback"
        /\ UNCHANGED <<base, applied, actual, buffers>>
        /\ requested' = txn.undo /\ geometryGen' = geometryGen + 1
        /\ dirty' = (Effective' # applied) /\ txn' = ApplyGoal(NoTxn)
    BY <1>6 DEF Rollback, WindowIInv, WindowTyped
  <2>2. dirty' \in BOOLEAN /\ (~dirty' => applied' = Effective')
    BY <2>1
  <2>3. requested' \in Requests \union {0}
    BY <2>1 DEF Txns, WindowIInv
  <2>4. ApplyGoal(NoTxn) \in Txns /\ ApplyGoal(NoTxn).at = "window"
    BY <2>1, <2>3 DEF WindowIInv, WindowTyped, ApplyGoal, Effective, Txns, WinSizes
  <2>5. WindowTyped'
    BY <2>1, <2>2, <2>3, <2>4 DEF WindowIInv, WindowTyped
  <2> QED
    BY <2>1, <2>2, <2>4, <2>5, Settling DEF WindowIInv
<1>7. CASE Swapchain \/ UNCHANGED windowVars
  BY <1>7 DEF Swapchain, windowVars, WindowIInv, WindowTyped, Effective
<1> QED
  BY <1>1, <1>2, <1>3, <1>4, <1>5, <1>6, <1>7 DEF WindowNext

(* Whatever mode changes, requests and rollbacks meet a transaction half-   *)
(* way: while the flag says that nothing is left to do, the size recorded   *)
(* is the one wanted now, and between transactions the record is the        *)
(* window's own size or nothing.  While the flag is set nothing is said of  *)
(* the size that is wanted (android_native_update_mode,                     *)
(* apply_window_geometry_locked, ANativeWindow_setBuffersGeometry).         *)
THEOREM WindowSafety == WindowSpec => []GeometrySettled
<1>1. WindowIInv => GeometrySettled
  BY DEF WindowIInv, GeometrySettled
<1>2. WindowIInv /\ [WindowNext]_windowVars => WindowIInv'
  BY WindowStep
<1> QED
  BY <1>1, <1>2, WindowInitial, PTL DEF WindowSpec

-----------------------------------------------------------------------------
(***************************************************************************)
(* 2. Loopers.  A thread that polls a looper which is still the one it     *)
(* asked for is its owner, and alone in finding it without responses; a    *)
(* registration in a batch of callbacks is found again by its number.      *)
(***************************************************************************)

LoopEntries == [fd : Fds \union {Nobody}, cb : BOOLEAN, reg : Nat]
LoopRecords == [used : BOOLEAN, gen : Nat, owner : LThreads \union {Nobody}, refs : Nat,
                ids : BOOLEAN, wake : Nat, consumed : Nat, regs : Nat,
                fds : [LSlots -> LoopEntries], resp : Seq({0})]
Cookies == [l : Loopers, gen : Nat]
Polls == [at : {"scan", "asleep", "probe", "calls"}, l : Loopers, gen : Nat,
          limit : {"zero", "finite", "forever"}, seen : SUBSET LoopEntries,
          batch : SUBSET LoopEntries, through : Nat]

LooperTyped ==
  /\ looper \in [Loopers -> LoopRecords]
  /\ DOMAIN cookie = LThreads /\ cookie = [t \in LThreads |-> cookie[t]]
  /\ \A t \in LThreads : cookie[t] # Nobody => cookie[t] \in Cookies
  /\ DOMAIN poll = LThreads /\ poll = [t \in LThreads |-> poll[t]]
  /\ \A t \in LThreads : poll[t] # Out => poll[t] \in Polls
  /\ DOMAIN wanted = Loopers /\ wanted = [l \in Loopers |-> wanted[l]]

\* The registrations of a looper are told apart by their numbers.
NumbersApart(L) ==
  /\ \A i \in LSlots : L.fds[i] # NoEntry => L.fds[i].reg \in 1 .. L.regs
  /\ \A i, j \in LSlots : i # j /\ L.fds[i] # NoEntry => L.fds[i].reg # L.fds[j].reg

LoopersApart ==
  \A l \in Loopers : (looper[l].used => looper[l].refs >= 1) /\ NumbersApart(looper[l])

PollOf(t, p) ==
  LET L == looper[p.l]  live == LiveLooper(p.l, p.gen) IN
  /\ p.gen <= L.gen
  /\ live => L.owner = t
  /\ live /\ p.at # "calls" => L.resp = <<>>
  /\ p.at = "asleep" => live /\ ~HasWake(L) /\ EntriesOf(L) = {}
  /\ p.at = "calls" => \A e \in p.batch :
       e.reg \in 1 .. L.regs /\ \A i \in LSlots : L.fds[i].reg = e.reg => L.fds[i] = e

LooperIInv ==
  /\ LooperTyped /\ LoopersApart /\ OneOwner /\ RegistrationsKept
  /\ \A t \in LThreads : poll[t] # Out => PollOf(t, poll[t])

LEMMA LooperWith ==
  ASSUME NEW L \in LoopRecords
  PROVE  /\ \A n \in Nat : [L EXCEPT !.refs = n] \in LoopRecords
         /\ \A n \in Nat : [L EXCEPT !.wake = n] \in LoopRecords
         /\ \A n \in Nat : [L EXCEPT !.consumed = n] \in LoopRecords
         /\ \A s \in Seq({0}) : [L EXCEPT !.resp = s] \in LoopRecords
         /\ \A s \in Seq({0}), n \in Nat : [L EXCEPT !.resp = s, !.consumed = n] \in LoopRecords
         /\ \A F \in [LSlots -> LoopEntries] : [L EXCEPT !.fds = F] \in LoopRecords
         /\ \A F \in [LSlots -> LoopEntries], n \in Nat :
              [L EXCEPT !.regs = n, !.fds = F] \in LoopRecords
<1>1. \A n \in Nat : [L EXCEPT !.refs = n] \in LoopRecords
  BY DEF LoopRecords
<1>2. \A n \in Nat : [L EXCEPT !.wake = n] \in LoopRecords
  BY DEF LoopRecords
<1>3. \A n \in Nat : [L EXCEPT !.consumed = n] \in LoopRecords
  BY DEF LoopRecords
<1>4. \A s \in Seq({0}) : [L EXCEPT !.resp = s] \in LoopRecords
  BY DEF LoopRecords
<1>5. \A s \in Seq({0}), n \in Nat : [L EXCEPT !.resp = s, !.consumed = n] \in LoopRecords
  BY DEF LoopRecords
<1>6. \A F \in [LSlots -> LoopEntries] : [L EXCEPT !.fds = F] \in LoopRecords
  BY DEF LoopRecords
<1>7. \A F \in [LSlots -> LoopEntries], n \in Nat :
        [L EXCEPT !.regs = n, !.fds = F] \in LoopRecords
  BY DEF LoopRecords
<1> QED
  BY <1>1, <1>2, <1>3, <1>4, <1>5, <1>6, <1>7

\* How a looper changes: its generation and its numbers grow, and with the
\* same generation it keeps its owner; a new registration has a new number.
Ages(L, M) ==
  /\ L.gen <= M.gen /\ L.regs <= M.regs
  /\ M.used /\ M.gen = L.gen => L.used /\ M.owner = L.owner
  /\ \A i \in LSlots : \/ M.fds[i] = L.fds[i] \/ M.fds[i] = NoEntry
                       \/ M.fds[i].reg > L.regs

\* What a sleeping thread looks at.
SameToSleeper(L, M) ==
  /\ M.gen = L.gen /\ M.wake = L.wake /\ M.consumed = L.consumed /\ M.fds = L.fds
  /\ L.used => M.used

LEMMA NoEntryTyped == NoEntry \in LoopEntries /\ NoEntry.reg = 0 /\ NoEntry.fd = Nobody
BY DEF NoEntry, LoopEntries

LEMMA OutIsOut == Out.at = "out" /\ Out \notin Polls
<1>1. Out.at = "out"
  BY DEF Out
<1>2. \A p \in Polls : p.at # "out"
  BY DEF Polls
<1> QED
  BY <1>1, <1>2

\* Another thread's poll after the step, when its own place is the same or it is woken.
LEMMA PollStays ==
  ASSUME LooperIInv, NEW u \in LThreads, NEW p \in Polls, p = poll[u],
         NEW L, NEW M, L = looper[p.l], M = looper'[p.l], M \in LoopRecords, Ages(L, M),
         NEW q, q = p \/ (p.at = "asleep" /\ q = [p EXCEPT !.at = "scan"]),
         L.used /\ M.used /\ L.gen = p.gen /\ M.gen = p.gen /\ L.resp = <<>> =>
           M.resp = <<>> \/ q.at = "calls",
         q.at = "asleep" => SameToSleeper(L, M)
  PROVE  PollOf(u, q)'
<1>1. PollOf(u, p) /\ L \in LoopRecords /\ p.l \in Loopers
  BY OutIsOut DEF LooperIInv, LooperTyped, Polls
<1>2. /\ q.l = p.l /\ q.gen = p.gen /\ q.batch = p.batch /\ (q.at = p.at \/ q.at = "scan")
      /\ q.at = "scan" => p.at # "calls"
  BY DEF Polls
<1>3. p.gen \in Nat /\ L.gen \in Nat /\ M.gen \in Nat /\ L.regs \in Nat /\ M.regs \in Nat
      /\ p.batch \subseteq LoopEntries
  BY <1>1 DEF Polls, LoopRecords
<1>4. p.gen <= L.gen /\ L.gen <= M.gen /\ L.regs <= M.regs
  BY <1>1 DEF PollOf, Ages
<1>5. M.used /\ M.gen = p.gen => L.used /\ L.gen = p.gen /\ M.owner = L.owner
  BY <1>3, <1>4 DEF Ages
<1>6. p.gen <= M.gen
  BY <1>3, <1>4
<1>7. M.used /\ M.gen = p.gen => M.owner = u
  BY <1>1, <1>5 DEF PollOf, LiveLooper
<1>8. M.used /\ M.gen = p.gen /\ q.at # "calls" => M.resp = <<>>
  BY <1>1, <1>2, <1>5 DEF PollOf, LiveLooper
<1>9. q.at = "asleep" => M.used /\ M.gen = p.gen /\ ~HasWake(M) /\ EntriesOf(M) = {}
  <2> SUFFICES ASSUME q.at = "asleep"
               PROVE  M.used /\ M.gen = p.gen /\ ~HasWake(M) /\ EntriesOf(M) = {}
    OBVIOUS
  <2>1. p.at = "asleep"
    BY <1>2
  <2>2. L.used /\ L.gen = p.gen /\ ~HasWake(L) /\ EntriesOf(L) = {}
    BY <1>1, <2>1 DEF PollOf, LiveLooper
  <2>3. M.gen = L.gen /\ M.used
    BY <2>2 DEF SameToSleeper
  <2>4. HasWake(M) = HasWake(L)
    BY DEF SameToSleeper, HasWake
  <2>5. EntriesOf(M) = EntriesOf(L)
    BY DEF SameToSleeper, EntriesOf
  <2> QED
    BY <2>2, <2>3, <2>4, <2>5
<1>10. ASSUME q.at = "calls", NEW e \in q.batch
       PROVE  e.reg \in 1 .. M.regs /\ \A i \in LSlots : M.fds[i].reg = e.reg => M.fds[i] = e
  <2>1. e.reg \in 1 .. L.regs /\ \A i \in LSlots : L.fds[i].reg = e.reg => L.fds[i] = e
    BY <1>1, <1>2, <1>10 DEF PollOf
  <2>2. PICK n : n = e.reg
    OBVIOUS
  <2>3. n \in 1 .. L.regs /\ L.regs \in Nat /\ M.regs \in Nat /\ L.regs <= M.regs
    BY <1>3, <1>4, <2>1, <2>2
  <2>4. n \in 1 .. M.regs /\ n # 0 /\ ~(n > L.regs)
    BY <2>3
  <2>5. ASSUME NEW i \in LSlots, M.fds[i].reg = n PROVE M.fds[i] = e
    <3>1. M.fds[i] = L.fds[i] \/ M.fds[i] = NoEntry \/ M.fds[i].reg > L.regs
      BY DEF Ages
    <3>2. M.fds[i] = L.fds[i]
      BY <2>4, <2>5, <3>1, NoEntryTyped
    <3> QED
      BY <2>1, <2>2, <2>5, <3>2
  <2> QED
    BY <2>2, <2>4, <2>5
<1>11. looper'[q.l] = M /\ q.gen = p.gen
  BY <1>2
<1>12. LiveLooper(q.l, q.gen)' <=> M.used /\ M.gen = p.gen
  BY <1>11 DEF LiveLooper
<1> QED
  BY <1>6, <1>7, <1>8, <1>9, <1>10, <1>11, <1>12 DEF PollOf

\* A call of the game, on the loopers that it changes.
LEMMA GameStep ==
  ASSUME LooperIInv, LooperTyped', LoopersApart', OneOwner', RegistrationsKept',
         \A l \in Loopers : Ages(looper[l], looper'[l]),
         \A l \in Loopers : looper'[l].resp = looper[l].resp \/ looper'[l].resp = <<>>,
         \A u \in LThreads :
           \/ poll'[u] = poll[u]
              /\ (poll[u].at = "asleep" => SameToSleeper(looper[poll[u].l], looper'[poll[u].l]))
           \/ poll[u].at = "asleep" /\ poll'[u] = [poll[u] EXCEPT !.at = "scan"]
  PROVE  LooperIInv'
<1>1. ASSUME NEW u \in LThreads, NEW q, q = poll'[u], q # Out PROVE PollOf(u, q)'
  <2>1. PICK p : p = poll[u]
    OBVIOUS
  <2>2. p \in Polls
    BY <1>1, <2>1, OutIsOut DEF LooperIInv, LooperTyped
  <2>3. PICK L, M : L = looper[p.l] /\ M = looper'[p.l]
    OBVIOUS
  <2>4. p.l \in Loopers /\ M \in LoopRecords
    BY <2>2, <2>3 DEF LooperTyped, Polls
  <2>5. Ages(L, M)
    BY <2>3, <2>4
  <2>6. M.resp = L.resp \/ M.resp = <<>>
    BY <2>3, <2>4
  <2>7. \/ q = p /\ (p.at = "asleep" => SameToSleeper(L, M))
        \/ p.at = "asleep" /\ q = [p EXCEPT !.at = "scan"]
    BY <1>1, <2>1, <2>3
  <2>8. q.at = "asleep" => SameToSleeper(L, M)
    BY <2>2, <2>7 DEF Polls
  <2>9. q = p \/ (p.at = "asleep" /\ q = [p EXCEPT !.at = "scan"])
    BY <2>7
  <2> QED
    BY <2>1, <2>2, <2>3, <2>4, <2>5, <2>6, <2>8, <2>9, PollStays
<1>2. \A u \in LThreads : poll'[u] # Out => PollOf(u, poll[u])'
  BY <1>1
<1> QED
  BY <1>2 DEF LooperIInv

\* What a section of a poll leaves as it is.
SameOwner(L, M) ==
  /\ M.used = L.used /\ M.gen = L.gen /\ M.owner = L.owner /\ M.refs = L.refs /\ M.regs = L.regs
  /\ \A i \in LSlots : M.fds[i] = L.fds[i] \/ M.fds[i] = NoEntry

\* A section of a thread's poll, on a looper that it owns or without a change.
LEMMA PollerStep ==
  ASSUME LooperIInv, NEW t \in LThreads, NEW l \in Loopers, NEW M \in LoopRecords,
         looper' = [looper EXCEPT ![l] = M],
         M = looper[l] \/ looper[l].owner = t,
         SameOwner(looper[l], M),
         NEW q, poll' = [poll EXCEPT ![t] = q], q = Out \/ (q \in Polls /\ PollOf(t, q)'),
         cookie' = cookie, DOMAIN wanted' = Loopers, wanted' = [k \in Loopers |-> wanted'[k]],
         RegistrationsKept'
  PROVE  LooperIInv'
<1>0. /\ M.used <=> looper[l].used
      /\ M.gen = looper[l].gen /\ M.owner = looper[l].owner
      /\ M.refs = looper[l].refs /\ M.regs = looper[l].regs
      /\ \A i \in LSlots : M.fds[i] = looper[l].fds[i] \/ M.fds[i] = NoEntry
  BY DEF SameOwner
<1>1. LooperTyped /\ LoopersApart /\ OneOwner
  BY DEF LooperIInv
<1>2. looper' \in [Loopers -> LoopRecords]
      /\ \A k \in Loopers : looper'[k] = IF k = l THEN M ELSE looper[k]
  BY <1>1 DEF LooperTyped
<1>3. \A u \in LThreads : poll'[u] = IF u = t THEN q ELSE poll[u]
  BY <1>1 DEF LooperTyped
<1>4. LooperTyped'
  <2>1. DOMAIN poll' = LThreads /\ poll' = [u \in LThreads |-> poll'[u]]
    BY <1>1 DEF LooperTyped
  <2>2. \A u \in LThreads : poll'[u] # Out => poll'[u] \in Polls
    BY <1>1, <1>3 DEF LooperTyped
  <2> QED
    BY <1>1, <1>2, <2>1, <2>2 DEF LooperTyped
<1>5. NumbersApart(M)
  <2>1. NumbersApart(looper[l])
    BY <1>1 DEF LoopersApart
  <2> QED
    BY <1>0, <2>1, NoEntryTyped DEF NumbersApart
<1>6. LoopersApart'
  BY <1>0, <1>1, <1>2, <1>5 DEF LoopersApart
<1>7. OneOwner'
  BY <1>0, <1>1, <1>2 DEF OneOwner
<1>8. \A k \in Loopers : Ages(looper[k], looper'[k])
  <2>1. \A k \in Loopers : looper[k].gen \in Nat /\ looper[k].regs \in Nat
    BY <1>1 DEF LooperTyped, LoopRecords
  <2> QED
    BY <1>0, <1>2, <2>1 DEF Ages
<1>9. ASSUME NEW u \in LThreads, u # t, NEW p, p = poll[u], p # Out PROVE PollOf(u, p)'
  <2>1. p \in Polls /\ p.l \in Loopers /\ PollOf(u, p)
    BY <1>1, <1>9 DEF LooperIInv, LooperTyped, Polls
  <2>2. PICK J, K : J = looper[p.l] /\ K = looper'[p.l]
    OBVIOUS
  <2>3. K \in LoopRecords /\ Ages(J, K)
    BY <1>2, <1>8, <2>1, <2>2
  <2>4. J.used /\ J.gen = p.gen => K = J
    <3> SUFFICES ASSUME J.used, J.gen = p.gen PROVE K = J
      OBVIOUS
    <3>1. J.owner = u
      BY <2>1, <2>2 DEF PollOf, LiveLooper
    <3>2. CASE p.l # l
      BY <1>2, <2>1, <2>2, <3>2
    <3>3. CASE p.l = l
      <4>1. M = J
        BY <1>9, <2>2, <3>1, <3>3
      <4> QED
        BY <1>2, <2>1, <2>2, <3>3, <4>1
    <3> QED
      BY <3>2, <3>3
  <2>5. p.at = "asleep" => K = J
    BY <2>1, <2>2, <2>4 DEF PollOf, LiveLooper
  <2>6. p.at = "asleep" => SameToSleeper(J, K)
    BY <2>5 DEF SameToSleeper
  <2>7. J.used /\ K.used /\ J.gen = p.gen /\ K.gen = p.gen /\ J.resp = <<>> =>
          K.resp = <<>> \/ p.at = "calls"
    BY <2>4
  <2> QED
    BY <1>9, <2>1, <2>2, <2>3, <2>6, <2>7, PollStays
<1>10. \A u \in LThreads : poll'[u] # Out => PollOf(u, poll[u])'
  <2> SUFFICES ASSUME NEW u \in LThreads, NEW p, p = poll'[u], p # Out PROVE PollOf(u, p)'
    OBVIOUS
  <2> QED
    BY <1>3, <1>9
<1> QED
  BY <1>4, <1>6, <1>7, <1>10 DEF LooperIInv

LEMMA RetiredLooper ==
  ASSUME NEW L \in LoopRecords
  PROVE  /\ Retired(L) \in LoopRecords /\ ~Retired(L).used /\ Retired(L).gen = L.gen + 1
         /\ Retired(L).regs = L.regs /\ Retired(L).resp = <<>>
         /\ \A i \in LSlots : Retired(L).fds[i] = NoEntry
         /\ NumbersApart(Retired(L)) /\ Ages(L, Retired(L)) /\ EntriesOf(Retired(L)) = {}
<1>1. Cleared \in [LSlots -> LoopEntries] /\ \A i \in LSlots : Cleared[i] = NoEntry
  BY NoEntryTyped DEF Cleared
<1> DEFINE R == [L EXCEPT !.used = FALSE, !.gen = L.gen + 1, !.owner = Nobody, !.refs = 0,
                          !.ids = FALSE, !.wake = 0, !.consumed = 0, !.fds = Cleared,
                          !.resp = <<>>]
<1>20. Retired(L) = R
  BY DEF Retired, LoopRecords
<1>21. R.used = FALSE /\ R.gen = L.gen + 1 /\ R.regs = L.regs /\ R.resp = <<>> /\ R.fds = Cleared
  BY DEF LoopRecords
<1>22. R \in LoopRecords
  <2>1. \A b \in BOOLEAN, g \in Nat, o \in LThreads \union {Nobody},
           F \in [LSlots -> LoopEntries], s \in Seq({0}) :
          [L EXCEPT !.used = b, !.gen = g, !.owner = o, !.refs = 0, !.ids = b, !.wake = 0,
                    !.consumed = 0, !.fds = F, !.resp = s] \in LoopRecords
    BY ZenonT(30) DEF LoopRecords
  <2>2. <<>> \in Seq({0}) /\ FALSE \in BOOLEAN /\ L.gen + 1 \in Nat
    BY DEF LoopRecords
  <2> QED
    BY <1>1, <2>1, <2>2
<1>2. /\ Retired(L) \in LoopRecords /\ ~Retired(L).used /\ Retired(L).gen = L.gen + 1
      /\ Retired(L).regs = L.regs /\ Retired(L).resp = <<>> /\ Retired(L).fds = Cleared
  BY <1>20, <1>21, <1>22
<1>3. L.gen \in Nat /\ L.regs \in Nat
  BY DEF LoopRecords
<1> QED
  BY <1>1, <1>2, <1>3 DEF NumbersApart, Ages, EntriesOf

\* Whoever sleeps on another looper is left alone.
LEMMA WokenSleepers ==
  ASSUME LooperIInv, NEW l \in Loopers, NEW M \in LoopRecords,
         looper' = [looper EXCEPT ![l] = M],
         \/ poll' = Woken(l)
         \/ poll' = poll /\ (SameToSleeper(looper[l], M) \/ ~looper[l].used)
  PROVE  /\ \A u \in LThreads :
              \/ poll'[u] = poll[u] /\ (poll[u].at = "asleep" =>
                                          SameToSleeper(looper[poll[u].l], looper'[poll[u].l]))
              \/ poll[u].at = "asleep" /\ poll'[u] = [poll[u] EXCEPT !.at = "scan"]
         /\ DOMAIN poll' = LThreads /\ poll' = [t \in LThreads |-> poll'[t]]
         /\ \A u \in LThreads : poll'[u] # Out => poll'[u] \in Polls
<1>1. LooperTyped
  BY DEF LooperIInv
<1>2. \A k \in Loopers : looper'[k] = IF k = l THEN M ELSE looper[k]
  BY <1>1 DEF LooperTyped
<1>3. ASSUME NEW u \in LThreads, poll[u].at = "asleep"
      PROVE  /\ poll[u] \in Polls /\ poll[u].l \in Loopers /\ looper[poll[u].l].used
             /\ [poll[u] EXCEPT !.at = "scan"] \in Polls
  <2>1. poll[u] # Out
    BY <1>3, OutIsOut
  <2>2. poll[u] \in Polls /\ PollOf(u, poll[u])
    BY <1>1, <2>1 DEF LooperIInv, LooperTyped
  <2> QED
    BY <1>3, <2>2 DEF PollOf, LiveLooper, Polls
<1>4. DOMAIN poll' = LThreads /\ poll' = [t \in LThreads |-> poll'[t]]
  BY <1>1 DEF LooperTyped, Woken
<1>5. CASE poll' = Woken(l)
  <2>1. ASSUME NEW u \in LThreads
        PROVE  \/ /\ poll'[u] = poll[u] /\ (poll[u].at = "asleep" => poll[u].l # l)
               \/ poll[u].at = "asleep" /\ poll'[u] = [poll[u] EXCEPT !.at = "scan"]
    BY <1>5 DEF Woken
  <2>2. \A u \in LThreads : poll[u].at = "asleep" /\ poll[u].l # l =>
          SameToSleeper(looper[poll[u].l], looper'[poll[u].l])
    BY <1>2, <1>3 DEF SameToSleeper
  <2>3. \A u \in LThreads : poll'[u] # Out => poll'[u] \in Polls
    BY <1>1, <1>3, <2>1 DEF LooperTyped
  <2> QED
    BY <1>4, <2>1, <2>2, <2>3
<1>6. CASE poll' = poll /\ (SameToSleeper(looper[l], M) \/ ~looper[l].used)
  <2>1. \A u \in LThreads : poll[u].at = "asleep" =>
          SameToSleeper(looper[poll[u].l], looper'[poll[u].l])
    <3> SUFFICES ASSUME NEW u \in LThreads, poll[u].at = "asleep"
                 PROVE  SameToSleeper(looper[poll[u].l], looper'[poll[u].l])
      OBVIOUS
    <3>1. CASE poll[u].l = l
      BY <1>2, <1>3, <1>6, <3>1, ZenonT(30)
    <3>2. CASE poll[u].l # l
      BY <1>2, <1>3, <3>2 DEF SameToSleeper
    <3> QED
      BY <3>1, <3>2
  <2> QED
    BY <1>1, <1>4, <1>6, <2>1 DEF LooperTyped
<1> QED
  BY <1>5, <1>6

\* A call of the game that changes one looper.
LEMMA OneLooperStep ==
  ASSUME LooperIInv, NEW l \in Loopers, NEW M \in LoopRecords,
         looper' = [looper EXCEPT ![l] = M],
         \/ poll' = Woken(l)
         \/ poll' = poll /\ (SameToSleeper(looper[l], M) \/ ~looper[l].used),
         Ages(looper[l], M), M.resp = looper[l].resp \/ M.resp = <<>>,
         M.used => M.refs >= 1, NumbersApart(M),
         NEW c, cookie' = c, DOMAIN c = LThreads, c = [t \in LThreads |-> c[t]],
         \A t \in LThreads : c[t] # Nobody => c[t] \in Cookies,
         M.used /\ M.owner # Nobody => c[M.owner] = [l |-> l, gen |-> M.gen],
         \A k \in Loopers : k # l /\ looper[k].used /\ looper[k].owner # Nobody =>
           c[looper[k].owner] = cookie[looper[k].owner],
         NEW w, wanted' = [wanted EXCEPT ![l] = w], {e.reg : e \in EntriesOf(M)} = w
  PROVE  LooperIInv'
<1>1. LooperTyped /\ LoopersApart /\ OneOwner /\ RegistrationsKept
  BY DEF LooperIInv
<1>2. looper' \in [Loopers -> LoopRecords]
      /\ \A k \in Loopers : looper'[k] = IF k = l THEN M ELSE looper[k]
  BY <1>1 DEF LooperTyped
<1>3. /\ DOMAIN wanted' = Loopers /\ wanted' = [k \in Loopers |-> wanted'[k]]
      /\ \A k \in Loopers : wanted'[k] = IF k = l THEN w ELSE wanted[k]
  BY <1>1 DEF LooperTyped
<1>4. /\ \A u \in LThreads :
           \/ poll'[u] = poll[u] /\ (poll[u].at = "asleep" =>
                                       SameToSleeper(looper[poll[u].l], looper'[poll[u].l]))
           \/ poll[u].at = "asleep" /\ poll'[u] = [poll[u] EXCEPT !.at = "scan"]
      /\ DOMAIN poll' = LThreads /\ poll' = [t \in LThreads |-> poll'[t]]
      /\ \A u \in LThreads : poll'[u] # Out => poll'[u] \in Polls
  BY WokenSleepers
<1>5. LooperTyped'
  BY <1>2, <1>3, <1>4 DEF LooperTyped
<1>6. LoopersApart'
  BY <1>1, <1>2 DEF LoopersApart
<1>7. OneOwner'
  BY <1>1, <1>2 DEF OneOwner
<1>8. RegistrationsKept'
  BY <1>1, <1>2, <1>3 DEF RegistrationsKept
<1>9. \A k \in Loopers : Ages(looper[k], looper'[k])
  <2>1. \A k \in Loopers : looper[k].gen \in Nat /\ looper[k].regs \in Nat
    BY <1>1 DEF LooperTyped, LoopRecords
  <2> QED
    BY <1>2, <2>1 DEF Ages
<1>10. \A k \in Loopers : looper'[k].resp = looper[k].resp \/ looper'[k].resp = <<>>
  BY <1>2
<1> QED
  BY <1>4, <1>5, <1>6, <1>7, <1>8, <1>9, <1>10, GameStep

LEMMA PrepareStep ==
  ASSUME LooperIInv, NEW t \in LThreads, NEW ids \in BOOLEAN, Prepare(t, ids)
  PROVE  LooperIInv'
<1>1. LooperTyped /\ LoopersApart /\ OneOwner /\ RegistrationsKept
  BY DEF LooperIInv
<1>2. PICK l \in Loopers :
        /\ ~looper[l].used
        /\ looper' = [looper EXCEPT ![l].used = TRUE, ![l].gen = looper[l].gen + 1,
                        ![l].owner = t, ![l].refs = 1, ![l].ids = ids]
        /\ cookie' = [cookie EXCEPT ![t] = [l |-> l, gen |-> looper[l].gen + 1]]
        /\ UNCHANGED <<poll, wanted>>
  BY <1>1 DEF Prepare, LooperTyped
<1>3. PICK L : L = looper[l]
  OBVIOUS
<1>4. L \in LoopRecords /\ L.gen \in Nat /\ L.regs \in Nat /\ NumbersApart(L) /\ ~L.used
  BY <1>1, <1>2, <1>3 DEF LooperTyped, LoopersApart, LoopRecords
<1> DEFINE M == [L EXCEPT !.used = TRUE, !.gen = L.gen + 1, !.owner = t, !.refs = 1, !.ids = ids]
<1>5. M \in LoopRecords
  <2>1. \A b \in BOOLEAN, g \in Nat :
          [L EXCEPT !.used = b, !.gen = g, !.owner = t, !.refs = 1, !.ids = ids] \in LoopRecords
    BY <1>4 DEF LoopRecords
  <2>2. TRUE \in BOOLEAN /\ L.gen + 1 \in Nat
    BY <1>4
  <2> QED
    BY <2>1, <2>2
<1>6. /\ M.used = TRUE /\ M.gen = L.gen + 1 /\ M.owner = t /\ M.refs = 1 /\ M.regs = L.regs
      /\ M.fds = L.fds /\ M.resp = L.resp
  BY <1>4 DEF LoopRecords
<1>7. looper' = [looper EXCEPT ![l] = M]
  BY <1>1, <1>2, <1>3, <1>4 DEF LooperTyped, LoopRecords
<1> HIDE DEF M
<1>8. Ages(L, M) /\ NumbersApart(M) /\ EntriesOf(M) = EntriesOf(L)
  BY <1>4, <1>6 DEF Ages, NumbersApart, EntriesOf
<1>9. PICK c : c = cookie'
  OBVIOUS
<1>10. /\ DOMAIN c = LThreads /\ c = [u \in LThreads |-> c[u]]
       /\ \A u \in LThreads : c[u] = IF u = t THEN [l |-> l, gen |-> M.gen] ELSE cookie[u]
  BY <1>1, <1>2, <1>3, <1>6, <1>9 DEF LooperTyped
<1>11. [l |-> l, gen |-> M.gen] \in Cookies
  BY <1>4, <1>6 DEF Cookies
<1>12. \A u \in LThreads : c[u] # Nobody => c[u] \in Cookies
  BY <1>1, <1>10, <1>11 DEF LooperTyped
<1>13. ASSUME NEW k \in Loopers, k # l, looper[k].used, looper[k].owner # Nobody
       PROVE  c[looper[k].owner] = cookie[looper[k].owner]
  <2>1. looper[k].owner \in LThreads /\ looper[k].gen \in Nat
    BY <1>1, <1>13 DEF LooperTyped, LoopRecords
  <2>2. cookie[looper[k].owner] = [l |-> k, gen |-> looper[k].gen]
    BY <1>1, <1>13 DEF OneOwner
  <2>3. [l |-> k, gen |-> looper[k].gen] # Nobody
    BY <2>1, LooperAssumption
  <2>4. looper[k].owner # t
    BY <1>13, <2>2, <2>3 DEF Prepare, HasLooper, LiveLooper
  <2> QED
    BY <1>10, <2>1, <2>4
<1>14. PICK w : w = wanted[l]
  OBVIOUS
<1>15. wanted' = [wanted EXCEPT ![l] = w] /\ {e.reg : e \in EntriesOf(M)} = w
  BY <1>1, <1>2, <1>3, <1>8, <1>14 DEF LooperTyped, RegistrationsKept
<1>16. c[M.owner] = [l |-> l, gen |-> M.gen]
  BY <1>6, <1>10
<1>17. Ages(looper[l], M) /\ M.resp = looper[l].resp /\ M.refs >= 1
  BY <1>3, <1>6, <1>8
<1>18. poll' = poll /\ ~looper[l].used
  BY <1>2
<1>19. DOMAIN c = LThreads /\ c = [u \in LThreads |-> c[u]] /\ cookie' = c
  BY <1>9, <1>10
<1>20. M.used => M.refs >= 1
  BY <1>17
<1>21. NumbersApart(M)
  BY <1>8
<1>22. M.used /\ M.owner # Nobody => c[M.owner] = [l |-> l, gen |-> M.gen]
  BY <1>16
<1>23. \A k \in Loopers : k # l /\ looper[k].used /\ looper[k].owner # Nobody =>
         c[looper[k].owner] = cookie[looper[k].owner]
  BY <1>13
<1>24. \/ poll' = Woken(l)
       \/ poll' = poll /\ (SameToSleeper(looper[l], M) \/ ~looper[l].used)
  BY <1>18
<1>25. Ages(looper[l], M) /\ (M.resp = looper[l].resp \/ M.resp = <<>>)
  BY <1>17
<1> QED
  BY <1>5, <1>7, <1>12, <1>15, <1>19, <1>20, <1>21, <1>22, <1>23, <1>24, <1>25, OneLooperStep
\* A call that leaves the cookies and the owners alone.
LEMMA PlainStep ==
  ASSUME LooperIInv, NEW l \in Loopers, NEW L, L = looper[l], NEW M \in LoopRecords,
         looper' = [looper EXCEPT ![l] = M],
         poll' = Woken(l) \/ (poll' = poll /\ (SameToSleeper(L, M) \/ ~L.used)),
         Ages(L, M), M.resp = L.resp \/ M.resp = <<>>,
         M.used => M.refs >= 1 /\ L.used /\ M.owner = L.owner /\ M.gen = L.gen,
         NumbersApart(M), cookie' = cookie,
         NEW w, wanted' = [wanted EXCEPT ![l] = w], {e.reg : e \in EntriesOf(M)} = w
  PROVE  LooperIInv'
<1>1. LooperTyped /\ OneOwner
  BY DEF LooperIInv
<1>2. PICK c : c = cookie
  OBVIOUS
<1>3. DOMAIN c = LThreads /\ c = [t \in LThreads |-> c[t]] /\ cookie' = c
  BY <1>1, <1>2 DEF LooperTyped
<1>4. \A t \in LThreads : c[t] # Nobody => c[t] \in Cookies
  BY <1>1, <1>2 DEF LooperTyped
<1>5. M.used /\ M.owner # Nobody => c[M.owner] = [l |-> l, gen |-> M.gen]
  BY <1>1, <1>2 DEF OneOwner
<1>6. \A k \in Loopers : k # l /\ looper[k].used /\ looper[k].owner # Nobody =>
        c[looper[k].owner] = cookie[looper[k].owner]
  BY <1>2
<1>7. M.used => M.refs >= 1
  OBVIOUS
<1>8. Ages(looper[l], M) /\ (M.resp = looper[l].resp \/ M.resp = <<>>)
  OBVIOUS
<1>9. \/ poll' = Woken(l)
      \/ poll' = poll /\ (SameToSleeper(looper[l], M) \/ ~looper[l].used)
  OBVIOUS
<1> QED
  BY <1>3, <1>4, <1>5, <1>6, <1>7, <1>8, <1>9, OneLooperStep

\* What is known of a looper and of the registrations wanted in it.
LEMMA OneLooper ==
  ASSUME LooperIInv, NEW l \in Loopers, NEW L, L = looper[l]
  PROVE  /\ L \in LoopRecords /\ L.gen \in Nat /\ L.regs \in Nat /\ L.refs \in Nat
         /\ L.fds \in [LSlots -> LoopEntries]
         /\ NumbersApart(L) /\ (L.used => L.refs >= 1)
         /\ wanted[l] = {e.reg : e \in EntriesOf(L)}
         /\ wanted = [wanted EXCEPT ![l] = wanted[l]]
BY DEF LooperIInv, LooperTyped, LoopersApart, RegistrationsKept, LoopRecords

LEMMA AcquireLooperStep ==
  ASSUME LooperIInv, NEW l \in Loopers, AcquireLooper(l) \/ Wake(l)
  PROVE  LooperIInv'
<1>1. PICK L : L = looper[l]
  OBVIOUS
<1>2. /\ L \in LoopRecords /\ L.gen \in Nat /\ L.regs \in Nat /\ L.refs \in Nat /\ L.wake \in Nat
      /\ NumbersApart(L) /\ L.used /\ L.refs >= 1 /\ wanted[l] = {e.reg : e \in EntriesOf(L)}
      /\ wanted' = [wanted EXCEPT ![l] = wanted[l]] /\ cookie' = cookie
      /\ looper \in [Loopers -> LoopRecords]
  BY <1>1, OneLooper DEF AcquireLooper, Wake, LoopRecords, LooperIInv, LooperTyped
<1>3. ASSUME NEW M \in LoopRecords, looper' = [looper EXCEPT ![l] = M],
             M.used, M.refs >= 1, M.gen = L.gen, M.owner = L.owner, M.regs = L.regs,
             M.fds = L.fds, M.resp = L.resp,
             poll' = Woken(l) \/ (poll' = poll /\ SameToSleeper(L, M))
      PROVE  LooperIInv'
  <2>1. Ages(L, M) /\ NumbersApart(M) /\ EntriesOf(M) = EntriesOf(L)
    BY <1>2, <1>3 DEF Ages, NumbersApart, EntriesOf
  <2> QED
    BY <1>1, <1>2, <1>3, <2>1, PlainStep, ZenonT(30)
<1>4. CASE AcquireLooper(l)
  <2> DEFINE M == [L EXCEPT !.refs = L.refs + 1]
  <2>1. M \in LoopRecords
    <3>1. L.refs + 1 \in Nat /\ L \in LoopRecords
      BY <1>2
    <3>2. \A n \in Nat : [L EXCEPT !.refs = n] \in LoopRecords
      BY <3>1, LooperWith
    <3> QED
      BY <3>1, <3>2
  <2>4. looper' = [looper EXCEPT ![l] = M]
    BY <1>1, <1>2, <1>4 DEF AcquireLooper
  <2>2. M.used = L.used /\ M.refs = L.refs + 1 /\ M.gen = L.gen /\ M.owner = L.owner
        /\ M.regs = L.regs /\ M.fds = L.fds /\ M.resp = L.resp
        /\ M.wake = L.wake /\ M.consumed = L.consumed
    BY <1>2 DEF LoopRecords
  <2>3. SameToSleeper(L, M) /\ poll' = poll
    BY <1>2, <1>4, <2>2 DEF SameToSleeper, AcquireLooper
  <2> HIDE DEF M
  <2>5. M.used /\ M.refs >= 1
    BY <1>2, <2>2
  <2> QED
    BY <1>3, <2>1, <2>2, <2>3, <2>4, <2>5
<1>5. CASE Wake(l)
  <2> DEFINE M == [L EXCEPT !.wake = L.wake + 1]
  <2>1. M \in LoopRecords
    <3>1. L.wake + 1 \in Nat /\ L \in LoopRecords
      BY <1>2
    <3>2. \A n \in Nat : [L EXCEPT !.wake = n] \in LoopRecords
      BY <3>1, LooperWith
    <3> QED
      BY <3>1, <3>2
  <2>4. looper' = [looper EXCEPT ![l] = M]
    BY <1>1, <1>2, <1>5 DEF Wake
  <2>2. M.used = L.used /\ M.refs = L.refs /\ M.gen = L.gen /\ M.owner = L.owner
        /\ M.regs = L.regs /\ M.fds = L.fds /\ M.resp = L.resp
    BY <1>2 DEF LoopRecords
  <2>3. poll' = Woken(l)
    BY <1>5 DEF Wake
  <2> HIDE DEF M
  <2> QED
    BY <1>2, <1>3, <2>1, <2>2, <2>3, <2>4
<1> QED
  BY <1>4, <1>5

LEMMA ReleaseRefStep ==
  ASSUME LooperIInv, NEW l \in Loopers, ReleaseRef(l)
  PROVE  LooperIInv'
<1>1. PICK L : L = looper[l]
  OBVIOUS
<1>2. /\ L \in LoopRecords /\ L.gen \in Nat /\ L.regs \in Nat /\ L.refs \in Nat
      /\ NumbersApart(L) /\ L.used /\ L.refs >= 1 /\ wanted[l] = {e.reg : e \in EntriesOf(L)}
      /\ wanted = [wanted EXCEPT ![l] = wanted[l]] /\ cookie' = cookie
      /\ looper \in [Loopers -> LoopRecords]
  BY <1>1, OneLooper DEF ReleaseRef, LooperIInv, LooperTyped
<1>3. CASE L.refs = 1
  <2>1. /\ looper' = [looper EXCEPT ![l] = Retired(L)] /\ poll' = Woken(l)
        /\ wanted' = [wanted EXCEPT ![l] = {}]
    BY <1>1, <1>2, <1>3 DEF ReleaseRef
  <2>2. PICK M : M = Retired(L)
    OBVIOUS
  <2>3. /\ M \in LoopRecords /\ ~M.used /\ M.resp = <<>>
        /\ NumbersApart(M) /\ Ages(L, M) /\ EntriesOf(M) = {}
    BY <1>2, <2>2, RetiredLooper
  <2>4. {e.reg : e \in EntriesOf(M)} = {} /\ looper' = [looper EXCEPT ![l] = M]
    BY <2>1, <2>2, <2>3
  <2> QED
    BY <1>1, <1>2, <2>1, <2>3, <2>4, PlainStep
<1>4. CASE L.refs # 1
  <2> DEFINE M == [L EXCEPT !.refs = L.refs - 1]
  <2>1. M \in LoopRecords
    <3>1. L.refs - 1 \in Nat /\ L \in LoopRecords
      BY <1>2, <1>4
    <3>2. \A n \in Nat : [L EXCEPT !.refs = n] \in LoopRecords
      BY <3>1, LooperWith
    <3> QED
      BY <3>1, <3>2
  <2>5. looper' = [looper EXCEPT ![l] = M]
    BY <1>1, <1>2, <1>4 DEF ReleaseRef
  <2>2. M.used = L.used /\ M.refs = L.refs - 1 /\ M.gen = L.gen /\ M.owner = L.owner
        /\ M.regs = L.regs /\ M.fds = L.fds /\ M.resp = L.resp
        /\ M.wake = L.wake /\ M.consumed = L.consumed
    BY <1>2 DEF LoopRecords
  <2>3. SameToSleeper(L, M) /\ poll' = poll /\ wanted' = [wanted EXCEPT ![l] = wanted[l]]
        /\ M.refs >= 1
    BY <1>1, <1>2, <1>4, <2>2 DEF SameToSleeper, ReleaseRef
  <2> HIDE DEF M
  <2>4. Ages(L, M) /\ NumbersApart(M) /\ EntriesOf(M) = EntriesOf(L)
    BY <1>2, <2>2 DEF Ages, NumbersApart, EntriesOf
  <2>6. {e.reg : e \in EntriesOf(M)} = wanted[l]
    BY <1>2, <2>4
  <2>7. poll' = poll /\ (SameToSleeper(L, M) \/ ~L.used)
    BY <2>3
  <2>8. M.used => M.refs >= 1 /\ L.used /\ M.owner = L.owner /\ M.gen = L.gen
    BY <1>2, <2>2, <2>3
  <2>9. cookie' = cookie /\ wanted' = [wanted EXCEPT ![l] = wanted[l]] /\ M.resp = L.resp
    BY <1>2, <2>2, <2>3
  <2> QED
    BY <1>1, <2>1, <2>4, <2>5, <2>6, <2>7, <2>8, <2>9, PlainStep
<1> QED
  BY <1>3, <1>4

LEMMA DisownedLooper ==
  ASSUME NEW L \in LoopRecords, L.refs >= 1, NumbersApart(L)
  PROVE  /\ Disowned(L) \in LoopRecords
         /\ Disowned(L).used => Disowned(L).refs >= 1 /\ Disowned(L).owner = Nobody
         /\ Disowned(L).resp = L.resp \/ Disowned(L).resp = <<>>
         /\ NumbersApart(Disowned(L)) /\ Ages(L, Disowned(L))
         /\ EntriesOf(Disowned(L)) = IF L.refs = 1 THEN {} ELSE EntriesOf(L)
<1>1. L.gen \in Nat /\ L.refs \in Nat /\ L.regs \in Nat
  BY DEF LoopRecords
<1>2. CASE L.refs <= 1
  <2> DEFINE K == [L EXCEPT !.gen = L.gen + 1]
  <2>1. K \in LoopRecords
    <3>1. \A g \in Nat : [L EXCEPT !.gen = g] \in LoopRecords
      BY DEF LoopRecords
    <3>2. L.gen + 1 \in Nat
      BY <1>1
    <3> QED
      BY <3>1, <3>2
  <2>2. K.gen = L.gen + 1 /\ K.regs = L.regs
    BY DEF LoopRecords
  <2>3. Disowned(L) = Retired(K)
    BY <1>2 DEF Disowned
  <2>4. L.refs = 1
    BY <1>1, <1>2
  <2> HIDE DEF K
  <2>5. PICK M : M = Retired(K)
    OBVIOUS
  <2>6. /\ M \in LoopRecords /\ ~M.used /\ M.gen = L.gen + 1 + 1 /\ M.regs = L.regs
        /\ M.resp = <<>> /\ \A i \in LSlots : M.fds[i] = NoEntry
        /\ NumbersApart(M) /\ EntriesOf(M) = {}
    BY <2>1, <2>2, <2>5, RetiredLooper
  <2>7. Ages(L, M)
    BY <1>1, <2>6 DEF Ages
  <2> QED
    BY <2>3, <2>4, <2>5, <2>6, <2>7
<1>3. CASE L.refs > 1
  <2> DEFINE M == [L EXCEPT !.owner = Nobody, !.gen = L.gen + 1, !.refs = L.refs - 1]
  <2>1. M \in LoopRecords
    <3>1. \A g, n \in Nat : [L EXCEPT !.owner = Nobody, !.gen = g, !.refs = n] \in LoopRecords
      BY DEF LoopRecords
    <3>2. L.gen + 1 \in Nat /\ L.refs - 1 \in Nat
      BY <1>1, <1>3
    <3> QED
      BY <3>1, <3>2
  <2>2. /\ M.owner = Nobody /\ M.gen = L.gen + 1 /\ M.refs = L.refs - 1 /\ M.regs = L.regs
        /\ M.fds = L.fds /\ M.resp = L.resp
    BY DEF LoopRecords
  <2>3. Disowned(L) = M
    BY <1>1, <1>3 DEF Disowned
  <2> HIDE DEF M
  <2>4. NumbersApart(M) /\ Ages(L, M) /\ EntriesOf(M) = EntriesOf(L)
    BY <1>1, <2>2 DEF NumbersApart, Ages, EntriesOf
  <2>5. M.refs >= 1 /\ L.refs # 1
    BY <1>1, <1>3, <2>2
  <2> QED
    BY <2>1, <2>2, <2>3, <2>4, <2>5
<1> QED
  BY <1>1, <1>2, <1>3

LEMMA ThreadDestructorStep ==
  ASSUME LooperIInv, NEW t \in LThreads, ThreadDestructor(t)
  PROVE  LooperIInv'
<1>1. LooperTyped /\ LoopersApart /\ OneOwner /\ RegistrationsKept
  BY DEF LooperIInv
<1>2. PICK c : c = [cookie EXCEPT ![t] = Nobody]
  OBVIOUS
<1>3. /\ DOMAIN c = LThreads /\ c = [u \in LThreads |-> c[u]] /\ cookie' = c
      /\ \A u \in LThreads : c[u] = IF u = t THEN Nobody ELSE cookie[u]
  BY <1>1, <1>2 DEF LooperTyped, ThreadDestructor
<1>4. \A u \in LThreads : c[u] # Nobody => c[u] \in Cookies
  BY <1>1, <1>3 DEF LooperTyped
<1>5. PICK l \in Loopers : l = cookie[t].l
  BY <1>1 DEF ThreadDestructor, LooperTyped, Cookies
<1>6. ASSUME NEW k \in Loopers, k # l \/ ~LiveLooper(l, cookie[t].gen), looper[k].used,
             looper[k].owner # Nobody
      PROVE  looper[k].owner \in LThreads /\ c[looper[k].owner] = cookie[looper[k].owner]
  <2>1. looper[k].owner \in LThreads
    BY <1>1, <1>6 DEF LooperTyped, LoopRecords
  <2>2. cookie[looper[k].owner] = [l |-> k, gen |-> looper[k].gen]
    BY <1>1, <1>6 DEF OneOwner
  <2>3. looper[k].owner = t => cookie[t].l = k /\ cookie[t].gen = looper[k].gen
    BY <2>2
  <2>4. looper[k].owner # t
    BY <1>5, <1>6, <2>3 DEF LiveLooper
  <2> QED
    BY <1>3, <2>1, <2>4
<1>7. CASE ~LiveLooper(l, cookie[t].gen)
  <2>1. looper' = looper /\ poll' = poll /\ wanted' = wanted
    BY <1>5, <1>7 DEF ThreadDestructor
  <2>2. LooperTyped' /\ LoopersApart' /\ RegistrationsKept'
    BY <1>1, <1>3, <1>4, <2>1 DEF LooperTyped, LoopersApart, RegistrationsKept
  <2>3. OneOwner'
    BY <1>1, <1>3, <1>6, <1>7, <2>1 DEF OneOwner
  <2>4. \A u \in LThreads : poll'[u] # Out => PollOf(u, poll[u])'
    BY <2>1 DEF LooperIInv, PollOf, LiveLooper
  <2> QED
    BY <2>2, <2>3, <2>4 DEF LooperIInv
<1>8. CASE LiveLooper(l, cookie[t].gen)
  <2>1. PICK L, M : L = looper[l] /\ M = Disowned(L)
    OBVIOUS
  <2>2. L \in LoopRecords /\ NumbersApart(L) /\ L.refs >= 1 /\ L.used
        /\ wanted[l] = {e.reg : e \in EntriesOf(L)} /\ wanted = [wanted EXCEPT ![l] = wanted[l]]
    BY <1>8, <2>1, OneLooper DEF LiveLooper
  <2>3. /\ looper' = [looper EXCEPT ![l] = M] /\ poll' = Woken(l)
        /\ wanted' = [wanted EXCEPT ![l] = IF L.refs = 1 THEN {} ELSE wanted[l]]
    BY <1>1, <1>5, <1>8, <2>1, <2>2 DEF ThreadDestructor, LooperTyped
  <2>4. /\ M \in LoopRecords /\ (M.used => M.refs >= 1 /\ M.owner = Nobody)
        /\ (M.resp = L.resp \/ M.resp = <<>>) /\ NumbersApart(M) /\ Ages(L, M)
        /\ EntriesOf(M) = IF L.refs = 1 THEN {} ELSE EntriesOf(L)
    BY <2>1, <2>2, DisownedLooper
  <2>5. PICK w : w = IF L.refs = 1 THEN {} ELSE wanted[l]
    OBVIOUS
  <2>6. wanted' = [wanted EXCEPT ![l] = w] /\ {e.reg : e \in EntriesOf(M)} = w
    BY <2>2, <2>3, <2>4, <2>5
  <2>7. \A k \in Loopers : k # l /\ looper[k].used /\ looper[k].owner # Nobody =>
          c[looper[k].owner] = cookie[looper[k].owner]
    BY <1>6
  <2>8. M.used /\ M.owner # Nobody => c[M.owner] = [l |-> l, gen |-> M.gen]
    BY <2>4
  <2>9. /\ Ages(looper[l], M) /\ (M.resp = looper[l].resp \/ M.resp = <<>>)
        /\ (M.used => M.refs >= 1) /\ NumbersApart(M) /\ M \in LoopRecords
    BY <2>1, <2>4
  <2>10. \/ poll' = Woken(l)
         \/ poll' = poll /\ (SameToSleeper(looper[l], M) \/ ~looper[l].used)
    BY <2>3
  <2>11. looper' = [looper EXCEPT ![l] = M]
    BY <2>3
  <2>12. DOMAIN c = LThreads /\ c = [u \in LThreads |-> c[u]] /\ cookie' = c
    BY <1>3
  <2> QED
    BY <1>4, <2>6, <2>7, <2>8, <2>9, <2>10, <2>11, <2>12, OneLooperStep
<1> QED
  BY <1>7, <1>8

\* A registration takes the descriptor's own slot, or a free one.
LEMMA AddFdStep ==
  ASSUME LooperIInv, NEW l \in Loopers, NEW fd \in Fds, NEW cb \in BOOLEAN, AddFd(l, fd, cb)
  PROVE  LooperIInv'
<1>1. PICK L : L = looper[l]
  OBVIOUS
<1>2. /\ L \in LoopRecords /\ L.gen \in Nat /\ L.regs \in Nat /\ L.refs \in Nat
      /\ L.fds \in [LSlots -> LoopEntries]
      /\ NumbersApart(L) /\ L.used /\ L.refs >= 1 /\ wanted[l] = {e.reg : e \in EntriesOf(L)}
      /\ looper \in [Loopers -> LoopRecords] /\ cookie' = cookie /\ poll' = Woken(l)
      /\ wanted = [wanted EXCEPT ![l] = wanted[l]]
  BY <1>1, OneLooper DEF AddFd, LooperIInv, LooperTyped
<1>3. PICK i \in LSlots, e \in LoopEntries, r \in Nat :
        /\ r = L.regs + 1 /\ e = [fd |-> fd, cb |-> cb, reg |-> r]
        /\ looper' = [looper EXCEPT ![l].regs = r, ![l].fds[i] = e]
        /\ wanted' = [wanted EXCEPT ![l] = (wanted[l] \ {L.fds[i].reg}) \cup {r}]
  <2>1. PICK i \in SlotFor(L, fd) :
          /\ looper' = [looper EXCEPT ![l].regs = L.regs + 1,
                          ![l].fds[i] = [fd |-> fd, cb |-> cb, reg |-> L.regs + 1]]
          /\ wanted' = [wanted EXCEPT ![l] = (wanted[l] \ {L.fds[i].reg}) \cup {L.regs + 1}]
    BY <1>1, <1>2 DEF AddFd
  <2>2. i \in LSlots
    BY DEF SlotFor
  <2>3. [fd |-> fd, cb |-> cb, reg |-> L.regs + 1] \in LoopEntries /\ L.regs + 1 \in Nat
    BY <1>2 DEF LoopEntries
  <2> QED
    BY <2>1, <2>2, <2>3
<1>4. e.reg = r /\ e # NoEntry
  BY <1>2, <1>3, NoEntryTyped
<1>5. PICK F \in [LSlots -> LoopEntries] : F = [L.fds EXCEPT ![i] = e]
  BY <1>2
<1>6. \A j \in LSlots : F[j] = IF j = i THEN e ELSE L.fds[j]
  BY <1>2, <1>5
<1> DEFINE M == [L EXCEPT !.regs = r, !.fds = F]
<1>7. M \in LoopRecords
  <2>1. \A G \in [LSlots -> LoopEntries], n \in Nat :
          [L EXCEPT !.regs = n, !.fds = G] \in LoopRecords
    BY <1>2, LooperWith
  <2> QED
    BY <1>3, <2>1
<1>8. looper' = [looper EXCEPT ![l] = M]
  <2>1. [L EXCEPT !.regs = r, !.fds[i] = e] = M
    BY <1>2, <1>5 DEF LoopRecords
  <2> QED
    BY <1>1, <1>2, <1>3, <2>1
<1>9. M.used = L.used /\ M.gen = L.gen /\ M.owner = L.owner /\ M.refs = L.refs /\ M.regs = r
      /\ M.fds = F /\ M.resp = L.resp
  BY <1>2 DEF LoopRecords
<1> HIDE DEF M
<1>10. NumbersApart(M)
  <2>1. \A j \in LSlots : L.fds[j] # NoEntry => L.fds[j].reg \in 1 .. L.regs
    BY <1>2 DEF NumbersApart
  <2>2. \A j \in LSlots : j # i => L.fds[j].reg # r
    BY <1>2, <1>3, <2>1, NoEntryTyped
  <2>3. \A j \in LSlots : F[j] # NoEntry => F[j].reg \in 1 .. r
    BY <1>2, <1>3, <1>4, <1>6, <2>1
  <2>4. \A j, k \in LSlots : j # k /\ F[j] # NoEntry => F[j].reg # F[k].reg
    BY <1>2, <1>4, <1>6, <2>2 DEF NumbersApart
  <2> QED
    BY <1>9, <2>3, <2>4 DEF NumbersApart
<1>11. Ages(L, M)
  BY <1>2, <1>3, <1>4, <1>6, <1>9 DEF Ages
<1>12. PICK w : w = (wanted[l] \ {L.fds[i].reg}) \cup {r}
  OBVIOUS
<1>13. {f.reg : f \in EntriesOf(M)} = w
  <2>1. \A j \in LSlots : j # i /\ L.fds[j] # NoEntry => L.fds[j].reg # L.fds[i].reg
    BY <1>2 DEF NumbersApart
  <2>2. EntriesOf(M) = {F[j] : j \in LSlots} \ {NoEntry}
    BY <1>9 DEF EntriesOf
  <2>3. ASSUME NEW f \in EntriesOf(M) PROVE f.reg \in w
    BY <1>2, <1>4, <1>6, <1>12, <2>1, <2>2, <2>3 DEF EntriesOf
  <2>4. ASSUME NEW x \in w PROVE \E f \in EntriesOf(M) : f.reg = x
    <3>1. CASE x = r
      BY <1>4, <1>6, <2>2, <3>1
    <3>2. CASE x # r
      <4>1. PICK f \in EntriesOf(L) : f.reg = x /\ x # L.fds[i].reg
        BY <1>2, <1>12, <2>4, <3>2
      <4>2. PICK j \in LSlots : f = L.fds[j] /\ f # NoEntry /\ j # i
        BY <4>1 DEF EntriesOf
      <4>3. F[j] = f
        BY <1>6, <4>2
      <4> QED
        BY <2>2, <4>1, <4>2, <4>3
    <3> QED
      BY <3>1, <3>2
  <2> QED
    BY <2>3, <2>4
<1>14. M.used => M.refs >= 1 /\ L.used /\ M.owner = L.owner /\ M.gen = L.gen
  BY <1>2, <1>9
<1>15. wanted' = [wanted EXCEPT ![l] = w] /\ cookie' = cookie /\ M.resp = L.resp
  BY <1>2, <1>3, <1>9, <1>12
<1>16. poll' = Woken(l) \/ (poll' = poll /\ (SameToSleeper(L, M) \/ ~L.used))
  BY <1>2
<1> QED
  BY <1>1, <1>7, <1>8, <1>10, <1>11, <1>13, <1>14, <1>15, <1>16, PlainStep

\* A descriptor is taken out of one looper or of all; only whoever sleeps on a
\* looper that had it is woken, and nobody sleeps on one with a registration.
LEMMA RemoveFdStep ==
  ASSUME LooperIInv, NEW where \in {{l} : l \in Loopers} \cup {Loopers}, NEW fd \in Fds,
         RemoveFd(where, fd)
  PROVE  LooperIInv'
<1>1. LooperTyped /\ LoopersApart /\ OneOwner /\ RegistrationsKept
  BY DEF LooperIInv
<1>2. /\ cookie' = cookie
      /\ looper' = [l \in Loopers |-> IF l \in where THEN WithoutFd(looper[l], fd) ELSE looper[l]]
      /\ wanted' = [l \in Loopers |-> IF l \in where THEN wanted[l] \ RegsOf(looper[l], fd)
                                      ELSE wanted[l]]
  BY DEF RemoveFd
<1>3. ASSUME NEW l \in Loopers, NEW L, L = looper[l], NEW M, M = looper'[l]
      PROVE  /\ M \in LoopRecords /\ M.used = L.used /\ M.gen = L.gen /\ M.owner = L.owner
             /\ M.refs = L.refs /\ M.regs = L.regs /\ M.resp = L.resp
             /\ M.wake = L.wake /\ M.consumed = L.consumed
             /\ l \notin where => M = L
             /\ M.fds \in [LSlots -> LoopEntries]
             /\ l \in where =>
                  \A i \in LSlots : M.fds[i] = IF L.fds[i].fd = fd THEN NoEntry ELSE L.fds[i]
  <2>1. L \in LoopRecords /\ L.fds \in [LSlots -> LoopEntries]
    BY <1>1, <1>3 DEF LooperTyped, LoopRecords
  <2>2. CASE l \notin where
    BY <1>2, <1>3, <2>1, <2>2
  <2>3. CASE l \in where
    <3>1. PICK F : F = [i \in LSlots |-> IF L.fds[i].fd = fd THEN NoEntry ELSE L.fds[i]]
      OBVIOUS
    <3>2. F \in [LSlots -> LoopEntries]
      BY <2>1, <3>1, NoEntryTyped
    <3>3. M = [L EXCEPT !.fds = F]
      BY <1>2, <1>3, <2>3, <3>1 DEF WithoutFd
    <3>4. M \in LoopRecords
      BY <2>1, <3>2, <3>3, LooperWith
    <3>5. /\ M.used = L.used /\ M.gen = L.gen /\ M.owner = L.owner
          /\ M.refs = L.refs /\ M.regs = L.regs /\ M.resp = L.resp
          /\ M.wake = L.wake /\ M.consumed = L.consumed /\ M.fds = F
      BY <2>1, <3>3 DEF LoopRecords
    <3>6. \A i \in LSlots : M.fds[i] = IF L.fds[i].fd = fd THEN NoEntry ELSE L.fds[i]
      BY <3>1, <3>5
    <3>7. M.fds \in [LSlots -> LoopEntries]
      BY <3>2, <3>5
    <3> QED
      BY <2>3, <3>4, <3>5, <3>6, <3>7
  <2> QED
    BY <2>2, <2>3
<1>4. ASSUME NEW l \in Loopers, NEW L, L = looper[l], NEW M, M = looper'[l]
      PROVE  /\ NumbersApart(M) /\ Ages(L, M)
             /\ {e.reg : e \in EntriesOf(M)} = wanted'[l]
             /\ l \in where /\ RegsOf(L, fd) = {} => M.fds = L.fds
  <2>1. NumbersApart(L) /\ L.gen \in Nat /\ L.regs \in Nat /\ L.fds \in [LSlots -> LoopEntries]
        /\ wanted[l] = {e.reg : e \in EntriesOf(L)}
    BY <1>4, OneLooper
  <2>2. CASE l \notin where
    <3>1. M = L /\ wanted'[l] = wanted[l]
      BY <1>2, <1>3, <1>4, <2>2
    <3>2. Ages(L, L)
      BY <2>1 DEF Ages
    <3> QED
      BY <2>1, <2>2, <3>1, <3>2
  <2>3. CASE l \in where
    <3>1. /\ M.fds \in [LSlots -> LoopEntries] /\ M.gen = L.gen /\ M.regs = L.regs
          /\ M.used = L.used /\ M.owner = L.owner
          /\ wanted'[l] = wanted[l] \ RegsOf(L, fd)
      BY <1>2, <1>3, <1>4, <2>3
    <3>2. \A i \in LSlots : M.fds[i] = IF L.fds[i].fd = fd THEN NoEntry ELSE L.fds[i]
      BY <1>3, <1>4, <2>3
    <3>3. NumbersApart(M)
      BY <2>1, <3>1, <3>2, NoEntryTyped DEF NumbersApart
    <3>4. Ages(L, M)
      BY <2>1, <3>1, <3>2 DEF Ages
    <3>6. {e.reg : e \in EntriesOf(M)} = wanted'[l]
      <4>1. ASSUME NEW e \in EntriesOf(M) PROVE e.reg \in wanted'[l]
        <5>1. PICK i \in LSlots : e = L.fds[i] /\ e # NoEntry /\ e.fd # fd
          BY <3>2, <4>1 DEF EntriesOf
        <5>2. e \in EntriesOf(L)
          BY <5>1 DEF EntriesOf
        <5>3. \A f \in EntriesOf(L) : f.fd = fd => f.reg # e.reg
          BY <2>1, <5>1 DEF EntriesOf, NumbersApart
        <5> QED
          BY <2>1, <3>1, <5>2, <5>3 DEF RegsOf
      <4>2. ASSUME NEW x \in wanted'[l] PROVE \E e \in EntriesOf(M) : e.reg = x
        <5>1. PICK e \in EntriesOf(L) : e.reg = x /\ x \notin RegsOf(L, fd)
          BY <2>1, <3>1, <4>2
        <5>2. e.fd # fd
          BY <5>1 DEF RegsOf
        <5>3. e \in EntriesOf(M)
          BY <3>2, <5>1, <5>2 DEF EntriesOf
        <5> QED
          BY <5>1, <5>3
      <4> QED
        BY <4>1, <4>2
    <3>7. RegsOf(L, fd) = {} => M.fds = L.fds
      <4> SUFFICES ASSUME RegsOf(L, fd) = {} PROVE M.fds = L.fds
        OBVIOUS
      <4>1. \A i \in LSlots : L.fds[i].fd # fd \/ L.fds[i] = NoEntry
        BY DEF RegsOf, EntriesOf
      <4>2. \A i \in LSlots : M.fds[i] = L.fds[i]
        BY <3>2, <4>1
      <4> QED
        BY <2>1, <3>1, <4>2
    <3> QED
      BY <3>3, <3>4, <3>6, <3>7
  <2> QED
    BY <2>2, <2>3
<1>30. ASSUME NEW l \in Loopers
       PROVE  /\ looper'[l].used = looper[l].used /\ looper'[l].gen = looper[l].gen
              /\ looper'[l].owner = looper[l].owner /\ looper'[l].refs = looper[l].refs
              /\ looper'[l].resp = looper[l].resp /\ looper'[l].wake = looper[l].wake
              /\ looper'[l].consumed = looper[l].consumed
              /\ l \notin where => looper'[l] = looper[l]
  <2>1. PICK L, M : L = looper[l] /\ M = looper'[l]
    OBVIOUS
  <2>2. /\ M.gen = L.gen /\ M.owner = L.owner /\ M.refs = L.refs
        /\ M.resp = L.resp /\ M.wake = L.wake /\ M.consumed = L.consumed
    BY <1>3, <2>1
  <2>3. M.used = L.used
    BY <1>3, <2>1
  <2>4. l \notin where => M = L
    BY <1>3, <2>1
  <2> QED
    BY <2>1, <2>2, <2>3, <2>4
<1>31. ASSUME NEW l \in Loopers PROVE NumbersApart(looper'[l])
  <2>1. PICK L, M : L = looper[l] /\ M = looper'[l]
    OBVIOUS
  <2>2. NumbersApart(M)
    BY <1>4, <2>1
  <2> QED
    BY <2>1, <2>2
<1>5. LoopersApart'
  BY <1>1, <1>30, <1>31 DEF LoopersApart
<1>6. OneOwner'
  BY <1>1, <1>2, <1>30 DEF OneOwner
<1>7. RegistrationsKept'
  BY <1>4 DEF RegistrationsKept
<1>8. \A l \in Loopers : Ages(looper[l], looper'[l])
  BY <1>4
<1>9. \A l \in Loopers : looper'[l].resp = looper[l].resp \/ looper'[l].resp = <<>>
  BY <1>30
<1>10. ASSUME NEW u \in LThreads
       PROVE  /\ \/ poll'[u] = poll[u] /\ (poll[u].at = "asleep" =>
                                             SameToSleeper(looper[poll[u].l], looper'[poll[u].l]))
                 \/ poll[u].at = "asleep" /\ poll'[u] = [poll[u] EXCEPT !.at = "scan"]
              /\ poll'[u] # Out => poll'[u] \in Polls
  <2>1. poll'[u] = IF \E l \in where : RegsOf(looper[l], fd) # {} /\ Woken(l)[u] # poll[u]
                   THEN [poll[u] EXCEPT !.at = "scan"] ELSE poll[u]
    BY DEF RemoveFd
  <2>2. \A l : Woken(l)[u] # poll[u] => poll[u].at = "asleep"
    BY DEF Woken
  <2>3. poll[u].at = "asleep" => poll[u] \in Polls /\ poll[u].l \in Loopers
    BY <1>1, OutIsOut DEF LooperTyped, Polls
  <2>4. poll[u].at = "asleep" => EntriesOf(looper[poll[u].l]) = {}
    BY OutIsOut DEF LooperIInv, PollOf
  <2>5. poll[u].at = "asleep" => SameToSleeper(looper[poll[u].l], looper'[poll[u].l])
    <3> SUFFICES ASSUME poll[u].at = "asleep", NEW l \in Loopers, l = poll[u].l
                 PROVE  SameToSleeper(looper[l], looper'[l])
      BY <2>3
    <3>1. RegsOf(looper[l], fd) = {}
      BY <2>4 DEF RegsOf
    <3>2. PICK L, M : L = looper[l] /\ M = looper'[l]
      OBVIOUS
    <3>3. M.fds = L.fds
      BY <1>4, <1>30, <3>1, <3>2
    <3> QED
      BY <1>30, <3>2, <3>3 DEF SameToSleeper
  <2>6. poll[u].at = "asleep" => [poll[u] EXCEPT !.at = "scan"] \in Polls
    BY <2>3 DEF Polls
  <2>7. poll'[u] = poll[u] \/ (poll[u].at = "asleep" /\ poll'[u] = [poll[u] EXCEPT !.at = "scan"])
    BY <2>1, <2>2
  <2> QED
    BY <1>1, <2>5, <2>6, <2>7 DEF LooperTyped
<1>11. LooperTyped'
  <2>1. looper' \in [Loopers -> LoopRecords]
    BY <1>2, <1>3
  <2>2. DOMAIN wanted' = Loopers /\ wanted' = [l \in Loopers |-> wanted'[l]]
    BY <1>2
  <2>3. DOMAIN poll' = LThreads /\ poll' = [t \in LThreads |-> poll'[t]]
    BY DEF RemoveFd
  <2> QED
    BY <1>1, <1>2, <1>10, <2>1, <2>2, <2>3 DEF LooperTyped
<1> QED
  BY <1>5, <1>6, <1>7, <1>8, <1>9, <1>10, <1>11, GameStep

\* A section of a poll that does not change the table.
LEMMA PollerLeaves ==
  ASSUME LooperIInv, NEW t \in LThreads, NEW q, poll' = [poll EXCEPT ![t] = q],
         q = Out \/ (q \in Polls /\ PollOf(t, q)), UNCHANGED <<looper, cookie, wanted>>
  PROVE  LooperIInv'
<1>1. LooperTyped /\ LoopersApart /\ OneOwner /\ RegistrationsKept
  BY DEF LooperIInv
<1>2. \A u \in LThreads : poll'[u] = IF u = t THEN q ELSE poll[u]
  BY <1>1 DEF LooperTyped
<1>3. LooperTyped'
  <2>1. DOMAIN poll' = LThreads /\ poll' = [u \in LThreads |-> poll'[u]]
    BY <1>1 DEF LooperTyped
  <2>2. \A u \in LThreads : poll'[u] # Out => poll'[u] \in Polls
    BY <1>1, <1>2 DEF LooperTyped
  <2> QED
    BY <1>1, <2>1, <2>2 DEF LooperTyped
<1>4. LoopersApart' /\ OneOwner' /\ RegistrationsKept'
  BY <1>1 DEF LoopersApart, OneOwner, RegistrationsKept
<1>5. ASSUME NEW u \in LThreads, NEW p, p = poll'[u], p # Out PROVE PollOf(u, p)'
  <2>1. PollOf(u, p)
    BY <1>2, <1>5 DEF LooperIInv
  <2> QED
    BY <2>1 DEF PollOf, LiveLooper
<1>6. \A u \in LThreads : poll'[u] # Out => PollOf(u, poll[u])'
  BY <1>5
<1> QED
  BY <1>3, <1>4, <1>6 DEF LooperIInv

\* A section that takes a response, or takes note of a wake.
LEMMA PollerTakes ==
  ASSUME LooperIInv, NEW t \in LThreads, NEW l \in Loopers, NEW L, L = looper[l], L.owner = t,
         NEW s \in Seq({0}), NEW n \in Nat,
         looper' = [looper EXCEPT ![l] = [L EXCEPT !.resp = s, !.consumed = n]],
         NEW q, poll' = [poll EXCEPT ![t] = q], q = Out \/ (q \in Polls /\ PollOf(t, q)'),
         UNCHANGED <<cookie, wanted>>
  PROVE  LooperIInv'
<1> DEFINE M == [L EXCEPT !.resp = s, !.consumed = n]
<1>1. L \in LoopRecords /\ wanted[l] = {e.reg : e \in EntriesOf(L)}
  BY OneLooper
<1>2. M \in LoopRecords
  BY <1>1, LooperWith
<1>3. /\ M.used = L.used /\ M.gen = L.gen /\ M.owner = L.owner /\ M.refs = L.refs
      /\ M.regs = L.regs /\ M.fds = L.fds
  BY <1>1 DEF LoopRecords
<1>4. looper' = [looper EXCEPT ![l] = M]
  OBVIOUS
<1> HIDE DEF M
<1>5. EntriesOf(M) = EntriesOf(L)
  BY <1>3 DEF EntriesOf
<1>6. RegistrationsKept'
  <2>1. \A k \in Loopers : looper'[k] = IF k = l THEN M ELSE looper[k]
    BY <1>4 DEF LooperIInv, LooperTyped
  <2> QED
    BY <1>5, <2>1 DEF LooperIInv, RegistrationsKept
<1>7. DOMAIN wanted' = Loopers /\ wanted' = [k \in Loopers |-> wanted'[k]]
  BY DEF LooperIInv, LooperTyped
<1>9. SameOwner(looper[l], M)
  BY <1>3 DEF SameOwner
<1>10. cookie' = cookie
  OBVIOUS
<1>11. M = looper[l] \/ looper[l].owner = t
  OBVIOUS
<1>12. q = Out \/ (q \in Polls /\ PollOf(t, q)')
  OBVIOUS
<1> QED
  BY <1>2, <1>4, <1>6, <1>7, <1>9, <1>10, <1>11, <1>12, PollerStep

\* Where a polling thread stands.
LEMMA Polling ==
  ASSUME LooperIInv, NEW t \in LThreads, NEW p, p = poll[t], p.at # "out"
  PROVE  /\ p \in Polls /\ p.l \in Loopers /\ p.gen \in Nat /\ PollOf(t, p)
         /\ p.through \in Nat /\ p.batch \subseteq LoopEntries
         /\ p.at \in {"scan", "asleep", "probe", "calls"}
         /\ LiveLooper(p.l, p.gen) => looper[p.l].owner = t
<1>1. p # Out
  BY OutIsOut
<1>2. p \in Polls /\ PollOf(t, p)
  BY <1>1 DEF LooperIInv, LooperTyped
<1> QED
  BY <1>2 DEF PollOf, Polls

LEMMA PollBeginStep ==
  ASSUME LooperIInv, NEW t \in LThreads, NEW limit \in {"zero", "finite", "forever"},
         PollBegin(t, limit)
  PROVE  LooperIInv'
<1>1. LooperTyped
  BY DEF LooperIInv
<1>2. /\ poll[t] = Out /\ cookie[t] \in Cookies /\ LiveLooper(cookie[t].l, cookie[t].gen)
      /\ looper[cookie[t].l].owner = t /\ UNCHANGED <<cookie, wanted>>
  BY <1>1 DEF PollBegin, HasLooper, LooperTyped
<1>3. PICK l \in Loopers, g \in Nat : l = cookie[t].l /\ g = cookie[t].gen
  BY <1>2 DEF Cookies
<1>4. PICK L : L = looper[l]
  OBVIOUS
<1>5. L \in LoopRecords /\ L.resp \in Seq({0}) /\ L.consumed \in Nat /\ L.owner = t
      /\ L.used /\ L.gen = g
  BY <1>1, <1>2, <1>3, <1>4 DEF LooperTyped, LoopRecords, LiveLooper
<1>6. CASE L.resp # <<>>
  <2>1. looper' = [looper EXCEPT ![l].resp = Tail(L.resp)] /\ poll' = poll
    BY <1>1, <1>3, <1>4, <1>6 DEF PollBegin, TakeResponse, LooperTyped
  <2>2. Tail(L.resp) \in Seq({0})
    BY <1>5, <1>6
  <2>3. [L EXCEPT !.resp = Tail(L.resp)] = [L EXCEPT !.resp = Tail(L.resp), !.consumed = L.consumed]
    BY <1>5 DEF LoopRecords
  <2>4. looper' = [looper EXCEPT ![l] = [L EXCEPT !.resp = Tail(L.resp), !.consumed = L.consumed]]
    BY <1>1, <1>4, <2>1, <2>3 DEF LooperTyped
  <2>5. poll' = [poll EXCEPT ![t] = Out]
    BY <1>1, <1>2, <2>1 DEF LooperTyped
  <2> QED
    BY <1>2, <1>4, <1>5, <2>2, <2>4, <2>5, PollerTakes
<1>7. CASE L.resp = <<>>
  <2>1. PICK q : q = [at |-> "scan", l |-> l, gen |-> g, limit |-> limit, seen |-> {},
                      batch |-> {}, through |-> 0]
    OBVIOUS
  <2>2. poll' = [poll EXCEPT ![t] = q] /\ looper' = looper
    BY <1>3, <1>4, <1>7, <2>1 DEF PollBegin
  <2>3. q \in Polls
    BY <2>1 DEF Polls
  <2>4. PollOf(t, q)
    BY <1>4, <1>5, <1>7, <2>1 DEF PollOf, LiveLooper
  <2> QED
    BY <1>2, <2>2, <2>3, <2>4, PollerLeaves
<1> QED
  BY <1>6, <1>7

LEMMA SleepEndsStep ==
  ASSUME LooperIInv, NEW t \in LThreads, SleepEnds(t)
  PROVE  LooperIInv'
<1>1. PICK p : p = poll[t]
  OBVIOUS
<1>2. /\ p.at = "asleep" /\ UNCHANGED <<looper, cookie, wanted>>
      /\ \/ poll' = [poll EXCEPT ![t] = Out]
         \/ poll' = [poll EXCEPT ![t] = [p EXCEPT !.at = "scan"]]
  BY <1>1 DEF SleepEnds, Returns, LooperIInv, LooperTyped
<1>3. p \in Polls /\ PollOf(t, p)
  BY <1>1, <1>2, Polling
<1>4. PICK q : q = [p EXCEPT !.at = "scan"]
  OBVIOUS
<1>5. q \in Polls /\ q.at = "scan" /\ q.l = p.l /\ q.gen = p.gen
  BY <1>3, <1>4 DEF Polls
<1>6. PollOf(t, q)
  BY <1>2, <1>3, <1>5 DEF PollOf
<1> QED
  BY <1>2, <1>4, <1>5, <1>6, PollerLeaves

LEMMA ProbeInterruptedStep ==
  ASSUME LooperIInv, NEW t \in LThreads, ProbeInterrupted(t)
  PROVE  LooperIInv'
<1>1. PICK p, L : p = poll[t] /\ L = looper[p.l]
  OBVIOUS
<1>2. /\ p.at = "probe" /\ UNCHANGED <<cookie, wanted>> /\ poll' = [poll EXCEPT ![t] = Out]
      /\ \/ looper' = looper
         \/ /\ LiveLooper(p.l, p.gen)
            /\ looper' = [looper EXCEPT ![p.l].consumed = L.wake]
  BY <1>1 DEF ProbeInterrupted, Returns
<1>3. p.l \in Loopers /\ (LiveLooper(p.l, p.gen) => L.owner = t)
  BY <1>1, <1>2, Polling
<1>4. L \in LoopRecords /\ L.wake \in Nat /\ L.resp \in Seq({0})
  BY <1>1, <1>3, OneLooper DEF LoopRecords
<1>5. CASE looper' = looper
  BY <1>2, <1>5, PollerLeaves
<1>6. CASE LiveLooper(p.l, p.gen) /\ looper' = [looper EXCEPT ![p.l].consumed = L.wake]
  <2>1. [L EXCEPT !.consumed = L.wake] = [L EXCEPT !.resp = L.resp, !.consumed = L.wake]
    BY <1>4 DEF LoopRecords
  <2>2. looper' = [looper EXCEPT ![p.l] = [L EXCEPT !.resp = L.resp, !.consumed = L.wake]]
    BY <1>1, <1>6, <2>1 DEF LooperIInv, LooperTyped
  <2>3. PICK l \in Loopers : l = p.l
    BY <1>3
  <2>4. looper' = [looper EXCEPT ![l] = [L EXCEPT !.resp = L.resp, !.consumed = L.wake]]
        /\ L = looper[l] /\ L.owner = t
    BY <1>1, <1>3, <1>6, <2>2, <2>3
  <2> QED
    BY <1>2, <1>4, <2>4, PollerTakes
<1> QED
  BY <1>2, <1>5, <1>6

LEMMA ScanStep ==
  ASSUME LooperIInv, NEW t \in LThreads, Scan(t)
  PROVE  LooperIInv'
<1>1. PICK p, l, L : p = poll[t] /\ l = p.l /\ L = looper[l]
  OBVIOUS
<1>2. p.at = "scan" /\ UNCHANGED <<cookie, wanted>>
  BY <1>1 DEF Scan
<1>3. p \in Polls /\ l \in Loopers /\ PollOf(t, p)
  BY <1>1, <1>2, Polling
<1>4. L \in LoopRecords /\ L.wake \in Nat /\ L.resp \in Seq({0})
  BY <1>1, <1>3, OneLooper DEF LoopRecords
<1>5. CASE poll' = [poll EXCEPT ![t] = Out] /\ looper' = looper
  BY <1>2, <1>5, PollerLeaves
<1>6. CASE /\ LiveLooper(l, p.gen) /\ poll' = [poll EXCEPT ![t] = Out]
           /\ looper' = [looper EXCEPT ![l].consumed = L.wake]
  <2>1. [L EXCEPT !.consumed = L.wake] = [L EXCEPT !.resp = L.resp, !.consumed = L.wake]
    BY <1>4 DEF LoopRecords
  <2>2. looper' = [looper EXCEPT ![l] = [L EXCEPT !.resp = L.resp, !.consumed = L.wake]]
    BY <1>1, <1>6, <2>1 DEF LooperIInv, LooperTyped
  <2>3. L = looper[l] /\ L.owner = t /\ poll' = [poll EXCEPT ![t] = Out]
    BY <1>1, <1>3, <1>6 DEF PollOf
  <2> QED
    BY <1>2, <1>3, <1>4, <2>2, <2>3, PollerTakes
<1>7. CASE /\ LiveLooper(l, p.gen) /\ EntriesOf(L) = {} /\ ~HasWake(L) /\ looper' = looper
           /\ poll' = [poll EXCEPT ![t].at = "asleep"]
  <2>1. PICK q : q = [p EXCEPT !.at = "asleep"]
    OBVIOUS
  <2>2. q \in Polls /\ q.at = "asleep" /\ q.l = p.l /\ q.gen = p.gen
    BY <1>3, <2>1 DEF Polls
  <2>3. PollOf(t, q)
    BY <1>1, <1>2, <1>3, <1>7, <2>2 DEF PollOf
  <2>4. poll' = [poll EXCEPT ![t] = q]
    BY <1>1, <1>7, <2>1 DEF LooperIInv, LooperTyped
  <2> QED
    BY <1>2, <1>7, <2>2, <2>3, <2>4, PollerLeaves
<1>8. CASE /\ LiveLooper(l, p.gen) /\ looper' = looper
           /\ poll' = [poll EXCEPT ![t].at = "probe", ![t].seen = EntriesOf(L)]
  <2>1. PICK q : q = [p EXCEPT !.at = "probe", !.seen = EntriesOf(L)]
    OBVIOUS
  <2>2. EntriesOf(L) \subseteq LoopEntries
    BY <1>4 DEF EntriesOf, LoopRecords
  <2>3. q \in Polls /\ q.at = "probe" /\ q.l = p.l /\ q.gen = p.gen
    BY <1>3, <2>1, <2>2 DEF Polls
  <2>4. PollOf(t, q)
    BY <1>1, <1>2, <1>3, <1>8, <2>3 DEF PollOf
  <2>5. poll' = [poll EXCEPT ![t] = q]
    BY <1>1, <1>8, <2>1 DEF LooperIInv, LooperTyped
  <2> QED
    BY <1>2, <1>8, <2>3, <2>4, <2>5, PollerLeaves
<1> QED
  BY <1>1, <1>5, <1>6, <1>7, <1>8 DEF Scan, Returns

\* The end of the loop's body.
LEMMA TurnEnds ==
  ASSUME LooperIInv, NEW t \in LThreads, NEW p \in Polls, p = poll[t], p.at # "calls",
         NEW L, L = looper[p.l], LiveLooper(p.l, p.gen),
         NEW M \in LoopRecords, NEW s \in Seq({0}), M = [L EXCEPT !.resp = s],
         Answer(t, M, L.wake) \/ WakeOrTurn(t, M), UNCHANGED <<cookie, wanted>>
  PROVE  LooperIInv'
<1>1. p.l \in Loopers /\ PollOf(t, p) /\ L.owner = t /\ p # Out
  <2>1. p # Out
    BY OutIsOut
  <2> QED
    BY <2>1 DEF LooperIInv, PollOf, Polls
<1>2. PICK l \in Loopers : l = p.l
  BY <1>1
<1>3. L \in LoopRecords /\ L.wake \in Nat /\ looper \in [Loopers -> LoopRecords]
  BY <1>2, OneLooper DEF LoopRecords, LooperIInv, LooperTyped
<1>4. M.resp = s /\ M.wake = L.wake
  BY <1>3 DEF LoopRecords
<1>5. CASE Answer(t, M, L.wake)
  <2>1. /\ M.resp # <<>> /\ poll' = [poll EXCEPT ![t] = Out]
        /\ looper' = [looper EXCEPT ![l] = [M EXCEPT !.resp = Tail(s), !.consumed = L.wake]]
    BY <1>2, <1>4, <1>5 DEF Answer, Returns
  <2>2. Tail(s) \in Seq({0})
    BY <1>4, <2>1
  <2>3. [M EXCEPT !.resp = Tail(s), !.consumed = L.wake]
          = [L EXCEPT !.resp = Tail(s), !.consumed = L.wake]
    BY <1>3 DEF LoopRecords
  <2>4. looper' = [looper EXCEPT ![l] = [L EXCEPT !.resp = Tail(s), !.consumed = L.wake]]
    BY <2>1, <2>3
  <2>5. L = looper[l] /\ L.owner = t /\ poll' = [poll EXCEPT ![t] = Out]
    BY <1>1, <1>2, <2>1
  <2> QED
    BY <1>3, <2>2, <2>4, <2>5, PollerTakes
<1>6. CASE WakeOrTurn(t, M)
  <2>1. /\ s = <<>> /\ looper' = [looper EXCEPT ![l].consumed = L.wake]
        /\ \/ poll' = [poll EXCEPT ![t] = Out]
           \/ poll' = [poll EXCEPT ![t].at = "scan"]
    BY <1>2, <1>4, <1>6 DEF WakeOrTurn, Returns
  <2>2. L.resp = <<>>
    BY <1>1 DEF PollOf
  <2>3. [L EXCEPT !.consumed = L.wake] = [L EXCEPT !.resp = <<>>, !.consumed = L.wake]
    BY <1>3, <2>2 DEF LoopRecords
  <2>4. looper' = [looper EXCEPT ![l] = [L EXCEPT !.resp = <<>>, !.consumed = L.wake]]
    BY <1>2, <1>3, <2>1, <2>3
  <2>5. <<>> \in Seq({0}) /\ L = looper[l] /\ L.owner = t
    BY <1>1, <1>2
  <2>6. CASE poll' = [poll EXCEPT ![t] = Out]
    BY <1>3, <2>4, <2>5, <2>6, PollerTakes
  <2>7. CASE poll' = [poll EXCEPT ![t].at = "scan"]
    <3>1. PICK q : q = [p EXCEPT !.at = "scan"]
      OBVIOUS
    <3>2. q \in Polls /\ q.at = "scan" /\ q.l = l /\ q.gen = p.gen /\ p.gen \in Nat
      BY <1>2, <3>1 DEF Polls
    <3>3. poll' = [poll EXCEPT ![t] = q]
      BY <2>7, <3>1 DEF LooperIInv, LooperTyped
    <3>4. PICK N : N = [L EXCEPT !.resp = <<>>, !.consumed = L.wake]
      OBVIOUS
    <3>5. N.gen = L.gen /\ N.used = L.used /\ N.owner = L.owner /\ N.resp = <<>>
      BY <1>3, <3>4 DEF LoopRecords
    <3>6. looper'[l] = N
      BY <1>3, <2>4, <3>4
    <3>7. p.gen <= L.gen
      BY <1>1 DEF PollOf
    <3>8. PollOf(t, q)'
      BY <2>5, <3>2, <3>5, <3>6, <3>7 DEF PollOf
    <3> QED
      BY <1>3, <2>4, <2>5, <3>2, <3>3, <3>8, PollerTakes
  <2> QED
    BY <2>1, <2>6, <2>7
<1> QED
  BY <1>5, <1>6

LEMMA ProbeReturnsStep ==
  ASSUME LooperIInv, NEW t \in LThreads, ProbeReturns(t)
  PROVE  LooperIInv'
<1>1. PICK p, l, L : p = poll[t] /\ l = p.l /\ L = looper[l]
  OBVIOUS
<1>2. p.at = "probe" /\ UNCHANGED <<cookie, wanted>>
  BY <1>1 DEF ProbeReturns
<1>3. p \in Polls /\ l \in Loopers /\ PollOf(t, p)
  BY <1>1, <1>2, Polling
<1>4. L \in LoopRecords /\ L.wake \in Nat /\ L.resp \in Seq({0}) /\ L.fds \in [LSlots -> LoopEntries]
      /\ L.regs \in Nat /\ NumbersApart(L) /\ looper \in [Loopers -> LoopRecords]
  BY <1>1, <1>3, OneLooper DEF LoopRecords, LooperIInv, LooperTyped
<1>5. CASE ~LiveLooper(l, p.gen)
  <2>1. poll' = [poll EXCEPT ![t] = Out] /\ looper' = looper
    BY <1>1, <1>5 DEF ProbeReturns, Returns
  <2> QED
    BY <1>2, <2>1, PollerLeaves
<1>6. CASE LiveLooper(l, p.gen)
  <2>20. PICK ready \in SUBSET p.seen :
           LET valid  == ready \cap EntriesOf(L)
               called == {e \in valid : e.cb}
               M == [L EXCEPT !.resp = @ \o [i \in 1 .. Cardinality(valid \ called) |-> 0]]
           IN \/ called = {} /\ (Answer(t, M, L.wake) \/ WakeOrTurn(t, M))
              \/ /\ called # {} /\ looper' = [looper EXCEPT ![l] = M]
                 /\ poll' = [poll EXCEPT ![t].at = "calls", ![t].batch = called,
                               ![t].through = L.wake, ![t].seen = {}]
    BY <1>1, <1>6 DEF ProbeReturns
  <2>21. PICK valid, called : valid = ready \cap EntriesOf(L) /\ called = {e \in valid : e.cb}
    OBVIOUS
  <2>1. /\ valid = ready \cap EntriesOf(L) /\ called = {e \in valid : e.cb}
        /\ LET M == [L EXCEPT !.resp = L.resp \o [i \in 1 .. Cardinality(valid \ called) |-> 0]]
           IN \/ called = {} /\ (Answer(t, M, L.wake) \/ WakeOrTurn(t, M))
              \/ /\ called # {} /\ looper' = [looper EXCEPT ![l] = M]
                 /\ poll' = [poll EXCEPT ![t].at = "calls", ![t].batch = called,
                               ![t].through = L.wake, ![t].seen = {}]
    BY <2>20, <2>21
  <2>2. called \subseteq EntriesOf(L) /\ valid \subseteq EntriesOf(L)
    BY <2>1
  <2>3. PICK n : n = Cardinality(valid \ called)
    OBVIOUS
  <2>4. n \in Nat
    <3>1. IsFiniteSet({L.fds[i] : i \in LSlots})
      <4>1. PICK T : T = {L.fds[i] : i \in LSlots}
        OBVIOUS
      <4>2. L.fds \in Surjection(LSlots, T)
        BY <1>4, <4>1 DEF Surjection
      <4> QED
        BY <4>1, <4>2, LooperAssumption, FS_Surjection
    <3>2. valid \ called \subseteq {L.fds[i] : i \in LSlots}
      BY <2>2 DEF EntriesOf
    <3>3. IsFiniteSet(valid \ called)
      BY <3>1, <3>2, FS_Subset
    <3> QED
      BY <2>3, <3>3, FS_CardinalityType
  <2>5. PICK s : s = L.resp \o [i \in 1 .. n |-> 0]
    OBVIOUS
  <2>6. s \in Seq({0})
    <3>1. [i \in 1 .. n |-> 0] \in Seq({0})
      BY <2>4
    <3> QED
      BY <1>4, <2>5, <3>1
  <2>7. PICK M : M = [L EXCEPT !.resp = s]
    OBVIOUS
  <2>8. M \in LoopRecords
    <3>1. \A r \in Seq({0}) : [L EXCEPT !.resp = r] \in LoopRecords
      BY <1>4, LooperWith
    <3> QED
      BY <2>6, <2>7, <3>1
  <2>9. \/ Answer(t, M, L.wake) \/ WakeOrTurn(t, M)
        \/ /\ looper' = [looper EXCEPT ![l] = M]
           /\ poll' = [poll EXCEPT ![t].at = "calls", ![t].batch = called,
                         ![t].through = L.wake, ![t].seen = {}]
    BY <2>1, <2>3, <2>5, <2>7
  <2>10. CASE Answer(t, M, L.wake) \/ WakeOrTurn(t, M)
    BY <1>1, <1>2, <1>3, <1>6, <2>6, <2>7, <2>8, <2>10, TurnEnds
  <2>11. CASE /\ looper' = [looper EXCEPT ![l] = M]
              /\ poll' = [poll EXCEPT ![t].at = "calls", ![t].batch = called,
                            ![t].through = L.wake, ![t].seen = {}]
    <3>1. PICK q : q = [p EXCEPT !.at = "calls", !.batch = called, !.through = L.wake, !.seen = {}]
      OBVIOUS
    <3>2. called \subseteq LoopEntries
      BY <1>4, <2>2 DEF EntriesOf
    <3>3. q \in Polls /\ q.at = "calls" /\ q.l = l /\ q.gen = p.gen /\ q.batch = called
      BY <1>1, <1>3, <1>4, <3>1, <3>2 DEF Polls
    <3>4. poll' = [poll EXCEPT ![t] = q]
      BY <1>1, <2>11, <3>1 DEF LooperIInv, LooperTyped
    <3>5. [L EXCEPT !.resp = s] = [L EXCEPT !.resp = s, !.consumed = L.consumed]
      BY <1>4 DEF LoopRecords
    <3>6. looper' = [looper EXCEPT ![l] = [L EXCEPT !.resp = s, !.consumed = L.consumed]]
      BY <2>7, <2>11, <3>5
    <3>7. /\ M.gen = L.gen /\ M.used = L.used /\ M.owner = L.owner /\ M.regs = L.regs
          /\ M.fds = L.fds
      BY <1>4, <2>7 DEF LoopRecords
    <3>8. looper'[l] = M
      BY <1>3, <1>4, <2>11
    <3>9. ASSUME NEW e \in called
          PROVE  e.reg \in 1 .. L.regs /\ \A i \in LSlots : L.fds[i].reg = e.reg => L.fds[i] = e
      <4>1. PICK j \in LSlots : e = L.fds[j] /\ e # NoEntry
        BY <2>2, <3>9 DEF EntriesOf
      <4> QED
        BY <1>4, <4>1 DEF NumbersApart
    <3>10. p.gen <= L.gen /\ L.owner = t
      BY <1>1, <1>3, <1>6 DEF PollOf
    <3>11. PollOf(t, q)'
      BY <3>3, <3>7, <3>8, <3>9, <3>10 DEF PollOf
    <3>12. L.consumed \in Nat
      BY <1>4 DEF LoopRecords
    <3> QED
      BY <1>1, <1>2, <1>3, <2>6, <3>3, <3>4, <3>6, <3>10, <3>11, <3>12, PollerTakes
  <2> QED
    BY <2>9, <2>10, <2>11
<1> QED
  BY <1>5, <1>6

\* A callback that returns 0 takes away the registration that it was called for.
LEMMA CallbackReturnsStep ==
  ASSUME LooperIInv, NEW t \in LThreads, NEW keep \in BOOLEAN, CallbackReturns(t, keep)
  PROVE  LooperIInv'
<1>1. PICK p, l, L : p = poll[t] /\ l = p.l /\ L = looper[l]
  OBVIOUS
<1>2. p.at = "calls" /\ cookie' = cookie
  BY <1>1 DEF CallbackReturns
<1>3. p \in Polls /\ l \in Loopers /\ PollOf(t, p) /\ p.batch \subseteq LoopEntries
  BY <1>1, <1>2, Polling
<1>4. L \in LoopRecords /\ L.fds \in [LSlots -> LoopEntries]
      /\ L.regs \in Nat /\ looper \in [Loopers -> LoopRecords]
      /\ wanted[l] = {e.reg : e \in EntriesOf(L)}
  BY <1>1, <1>3, OneLooper DEF LooperIInv, LooperTyped
<1>5. PICK e \in p.batch :
        /\ poll' = [poll EXCEPT ![t].batch = p.batch \ {e}]
        /\ IF ~keep /\ LiveLooper(l, p.gen)
           THEN /\ looper' = [looper EXCEPT ![l].fds =
                                [i \in LSlots |-> Unregistered(L.fds[i], e)]]
                /\ wanted' = [wanted EXCEPT ![l] = wanted[l] \ {e.reg}]
           ELSE UNCHANGED <<looper, wanted>>
  <2>a. PICK f \in poll[t].batch :
          /\ poll' = [poll EXCEPT ![t].batch = @ \ {f}]
          /\ IF ~keep /\ LiveLooper(poll[t].l, poll[t].gen)
             THEN /\ looper' = [looper EXCEPT ![poll[t].l].fds =
                                  [i \in LSlots |-> Unregistered(@[i], f)]]
                  /\ wanted' = [wanted EXCEPT ![poll[t].l] = @ \ {f.reg}]
             ELSE UNCHANGED <<looper, wanted>>
    BY Zenon DEF CallbackReturns
  <2>1. PICK e \in p.batch :
          /\ poll' = [poll EXCEPT ![t].batch = @ \ {e}]
          /\ IF ~keep /\ LiveLooper(l, p.gen)
             THEN /\ looper' = [looper EXCEPT ![l].fds =
                                  [i \in LSlots |-> Unregistered(@[i], e)]]
                  /\ wanted' = [wanted EXCEPT ![l] = @ \ {e.reg}]
             ELSE UNCHANGED <<looper, wanted>>
    BY <1>1, <2>a
  <2>2. poll' = [poll EXCEPT ![t].batch = p.batch \ {e}]
    BY <1>1, <2>1
  <2>3. [i \in LSlots |-> Unregistered(looper[l].fds[i], e)]
          = [i \in LSlots |-> Unregistered(L.fds[i], e)]
    BY <1>1
  <2>4. IF ~keep /\ LiveLooper(l, p.gen)
        THEN /\ looper' = [looper EXCEPT ![l].fds =
                             [i \in LSlots |-> Unregistered(L.fds[i], e)]]
             /\ wanted' = [wanted EXCEPT ![l] = wanted[l] \ {e.reg}]
        ELSE UNCHANGED <<looper, wanted>>
    BY <2>1, <2>3
  <2> QED
    BY <2>2, <2>4
<1>6. PICK q : q = [p EXCEPT !.batch = p.batch \ {e}]
  OBVIOUS
<1>7. /\ q \in Polls /\ q.at = "calls" /\ q.l = l /\ q.gen = p.gen /\ q.batch = p.batch \ {e}
      /\ poll' = [poll EXCEPT ![t] = q]
  <2>1. q \in Polls
    BY <1>3, <1>6 DEF Polls
  <2>2. q.at = "calls" /\ q.l = l /\ q.gen = p.gen /\ q.batch = p.batch \ {e}
    BY <1>1, <1>2, <1>3, <1>6 DEF Polls
  <2>3. poll' = [poll EXCEPT ![t] = q]
    BY <1>1, <1>5, <1>6 DEF LooperIInv, LooperTyped
  <2> QED
    BY <2>1, <2>2, <2>3
<1>8. ASSUME NEW f \in p.batch
      PROVE  f.reg \in 1 .. L.regs /\ \A i \in LSlots : L.fds[i].reg = f.reg => L.fds[i] = f
  BY <1>1, <1>2, <1>3, <1>8 DEF PollOf
<1>9. p.gen <= L.gen /\ (LiveLooper(l, p.gen) => L.owner = t)
  BY <1>1, <1>3 DEF PollOf
<1>10. CASE UNCHANGED <<looper, wanted>>
  <2>1. PollOf(t, q)
    BY <1>1, <1>7, <1>8, <1>9 DEF PollOf
  <2> QED
    BY <1>2, <1>7, <1>10, <2>1, PollerLeaves
<1>11. CASE /\ LiveLooper(l, p.gen)
            /\ looper' = [looper EXCEPT ![l].fds = [i \in LSlots |-> Unregistered(L.fds[i], e)]]
            /\ wanted' = [wanted EXCEPT ![l] = wanted[l] \ {e.reg}]
  <2>1. PICK F : F = [i \in LSlots |-> Unregistered(L.fds[i], e)]
    OBVIOUS
  <2>2. /\ F \in [LSlots -> LoopEntries]
        /\ \A i \in LSlots : F[i] = IF L.fds[i] = e THEN NoEntry ELSE L.fds[i]
    BY <1>4, <2>1, NoEntryTyped DEF Unregistered
  <2>3. PICK M : M = [L EXCEPT !.fds = F]
    OBVIOUS
  <2>4. M \in LoopRecords
    <3>1. \A G \in [LSlots -> LoopEntries] : [L EXCEPT !.fds = G] \in LoopRecords
      BY <1>4, LooperWith
    <3> QED
      BY <2>2, <2>3, <3>1
  <2>5. looper' = [looper EXCEPT ![l] = M]
    BY <1>1, <1>3, <1>4, <1>11, <2>1, <2>3
  <2>6. /\ M.used = L.used /\ M.gen = L.gen /\ M.owner = L.owner /\ M.refs = L.refs
        /\ M.regs = L.regs /\ M.fds = F
    BY <1>4, <2>3 DEF LoopRecords
  <2>7. SameOwner(L, M)
    BY <2>2, <2>6 DEF SameOwner
  <2>8. {f.reg : f \in EntriesOf(M)} = wanted[l] \ {e.reg}
    <3>1. e.reg \in 1 .. L.regs /\ \A i \in LSlots : L.fds[i].reg = e.reg => L.fds[i] = e
      BY <1>8
    <3>2. EntriesOf(M) = EntriesOf(L) \ {e}
      BY <2>2, <2>6 DEF EntriesOf
    <3>3. \A f \in EntriesOf(L) : f.reg = e.reg => f = e
      BY <3>1 DEF EntriesOf
    <3> QED
      BY <1>4, <3>2, <3>3
  <2>9. RegistrationsKept'
    <3>1. \A k \in Loopers : looper'[k] = IF k = l THEN M ELSE looper[k]
      BY <1>4, <2>5
    <3>2. \A k \in Loopers : wanted'[k] = IF k = l THEN wanted[l] \ {e.reg} ELSE wanted[k]
      BY <1>11 DEF LooperIInv, LooperTyped
    <3> QED
      BY <2>8, <3>1, <3>2 DEF LooperIInv, RegistrationsKept
  <2>10. PollOf(t, q)'
    <3>1. looper'[l] = M
      BY <1>3, <1>4, <2>5
    <3>2. ASSUME NEW f \in q.batch
          PROVE  f.reg \in 1 .. M.regs /\ \A i \in LSlots : M.fds[i].reg = f.reg => M.fds[i] = f
      <4>1. f.reg \in 1 .. L.regs /\ \A i \in LSlots : L.fds[i].reg = f.reg => L.fds[i] = f
        BY <1>7, <1>8, <3>2
      <4>2. \A i \in LSlots : M.fds[i].reg = f.reg => M.fds[i] = L.fds[i]
        BY <1>4, <2>2, <2>6, <4>1, NoEntryTyped
      <4> QED
        BY <2>6, <4>1, <4>2
    <3>3. q.gen <= M.gen /\ M.owner = t
      BY <1>7, <1>9, <1>11, <2>6
    <3> QED
      BY <1>7, <3>1, <3>2, <3>3 DEF PollOf
  <2>11. DOMAIN wanted' = Loopers /\ wanted' = [k \in Loopers |-> wanted'[k]]
    BY <1>11 DEF LooperIInv, LooperTyped
  <2>12. SameOwner(looper[l], M) /\ (M = looper[l] \/ looper[l].owner = t)
    BY <1>1, <1>9, <1>11, <2>7
  <2>13. q = Out \/ (q \in Polls /\ PollOf(t, q)')
    BY <1>7, <2>10
  <2>14. poll' = [poll EXCEPT ![t] = q]
    BY <1>7
  <2> QED
    BY <1>2, <1>3, <2>4, <2>5, <2>9, <2>11, <2>12, <2>13, <2>14, PollerStep
<1> QED
  BY <1>5, <1>10, <1>11

LEMMA BatchEndsStep ==
  ASSUME LooperIInv, NEW t \in LThreads, BatchEnds(t)
  PROVE  LooperIInv'
<1>1. PICK p, l, L : p = poll[t] /\ l = p.l /\ L = looper[l]
  OBVIOUS
<1>2. p.at = "calls" /\ UNCHANGED <<cookie, wanted>>
  BY <1>1 DEF BatchEnds
<1>3. p \in Polls /\ l \in Loopers /\ PollOf(t, p) /\ p.through \in Nat
      /\ (LiveLooper(l, p.gen) => L.owner = t)
  BY <1>1, <1>2, Polling
<1>4. L \in LoopRecords /\ L.resp \in Seq({0}) /\ looper \in [Loopers -> LoopRecords]
  BY <1>1, <1>3, OneLooper DEF LoopRecords, LooperIInv, LooperTyped
<1>5. CASE poll' = [poll EXCEPT ![t] = Out] /\ looper' = looper
  BY <1>2, <1>5, PollerLeaves
<1>6. CASE LiveLooper(l, p.gen) /\ Answer(t, L, p.through)
  <2>1. /\ L.resp # <<>> /\ poll' = [poll EXCEPT ![t] = Out]
        /\ looper' = [looper EXCEPT ![l] = [L EXCEPT !.resp = Tail(L.resp), !.consumed = p.through]]
    BY <1>1, <1>6 DEF Answer, Returns
  <2>2. Tail(L.resp) \in Seq({0})
    BY <1>4, <2>1
  <2>3. L = looper[l] /\ L.owner = t
    BY <1>1, <1>3, <1>6
  <2> QED
    BY <1>2, <1>3, <2>1, <2>2, <2>3, PollerTakes
<1>7. CASE /\ LiveLooper(l, p.gen) /\ poll' = [poll EXCEPT ![t] = Out]
           /\ looper' = [looper EXCEPT ![l].consumed = p.through]
  <2>1. [L EXCEPT !.consumed = p.through] = [L EXCEPT !.resp = L.resp, !.consumed = p.through]
    BY <1>4 DEF LoopRecords
  <2>2. looper' = [looper EXCEPT ![l] = [L EXCEPT !.resp = L.resp, !.consumed = p.through]]
    BY <1>1, <1>4, <1>7, <2>1
  <2>3. L = looper[l] /\ L.owner = t /\ poll' = [poll EXCEPT ![t] = Out]
    BY <1>1, <1>3, <1>7
  <2> QED
    BY <1>2, <1>3, <1>4, <2>2, <2>3, PollerTakes
<1> QED
  BY <1>1, <1>5, <1>6, <1>7 DEF BatchEnds, Returns

LEMMA LooperInitial == LooperInit => LooperIInv
<1> SUFFICES ASSUME LooperInit PROVE LooperIInv
  OBVIOUS
<1> DEFINE L == [used |-> FALSE, gen |-> 0, owner |-> Nobody, refs |-> 0, ids |-> FALSE,
                 wake |-> 0, consumed |-> 0, regs |-> 0, fds |-> Cleared, resp |-> <<>>]
<1>1. Cleared \in [LSlots -> LoopEntries] /\ \A i \in LSlots : Cleared[i] = NoEntry
  BY NoEntryTyped DEF Cleared
<1>2. L \in LoopRecords
  <2>1. <<>> \in Seq({0}) /\ FALSE \in BOOLEAN /\ 0 \in Nat /\ Nobody \in LThreads \union {Nobody}
    OBVIOUS
  <2> QED
    BY <1>1, <2>1 DEF LoopRecords
<1>3. L.used = FALSE /\ L.fds = Cleared
  OBVIOUS
<1>4. looper = [l \in Loopers |-> L]
  BY DEF LooperInit
<1> HIDE DEF L
<1>5. LooperTyped
  BY <1>2, <1>4 DEF LooperTyped, LooperInit
<1>6. NumbersApart(L) /\ EntriesOf(L) = {}
  BY <1>1, <1>3 DEF NumbersApart, EntriesOf
<1>7. \A l \in Loopers : looper[l] = L
  BY <1>4
<1>8. LoopersApart /\ OneOwner
  BY <1>3, <1>6, <1>7 DEF LoopersApart, OneOwner
<1>9. RegistrationsKept
  <2>1. \A l \in Loopers : wanted[l] = {}
    BY DEF LooperInit
  <2> QED
    BY <1>6, <1>7, <2>1 DEF RegistrationsKept
<1> QED
  BY <1>5, <1>8, <1>9 DEF LooperIInv, LooperInit

LEMMA LooperNextKeeps == LooperIInv /\ [LooperNext]_looperVars => LooperIInv'
<1> SUFFICES ASSUME LooperIInv, [LooperNext]_looperVars PROVE LooperIInv'
  OBVIOUS
<1>1. ASSUME NEW t \in LThreads, PollStep(t) PROVE LooperIInv'
  BY <1>1, ScanStep, ProbeReturnsStep, BatchEndsStep, CallbackReturnsStep DEF PollStep
<1>2. ASSUME NEW t \in LThreads, SleepEnds(t) \/ ProbeInterrupted(t) \/ ThreadDestructor(t)
      PROVE  LooperIInv'
  BY <1>2, SleepEndsStep, ProbeInterruptedStep, ThreadDestructorStep
<1>3. ASSUME NEW t \in LThreads, NEW ids \in BOOLEAN, Prepare(t, ids) PROVE LooperIInv'
  BY <1>3, PrepareStep
<1>4. ASSUME NEW t \in LThreads, NEW limit \in {"zero", "finite", "forever"}, PollBegin(t, limit)
      PROVE  LooperIInv'
  BY <1>4, PollBeginStep
<1>5. ASSUME NEW l \in Loopers, AcquireLooper(l) \/ ReleaseRef(l) \/ Wake(l) PROVE LooperIInv'
  BY <1>5, AcquireLooperStep, ReleaseRefStep
<1>6. ASSUME NEW l \in Loopers, NEW fd \in Fds, NEW cb \in BOOLEAN, AddFd(l, fd, cb)
      PROVE  LooperIInv'
  BY <1>6, AddFdStep
<1>7. ASSUME NEW fd \in Fds, NEW where \in {{l} : l \in Loopers} \cup {Loopers},
             RemoveFd(where, fd)
      PROVE  LooperIInv'
  BY <1>7, RemoveFdStep
<1>8. CASE UNCHANGED looperVars
  <2>1. looper' = looper /\ cookie' = cookie /\ poll' = poll /\ wanted' = wanted
    BY <1>8 DEF looperVars
  <2>2. LooperTyped' /\ LoopersApart' /\ OneOwner' /\ RegistrationsKept'
    BY <2>1 DEF LooperIInv, LooperTyped, LoopersApart, OneOwner, RegistrationsKept
  <2>3. ASSUME NEW t \in LThreads, NEW p, p = poll[t], p # Out PROVE PollOf(t, p)'
    BY <2>1, <2>3 DEF LooperIInv, PollOf, LiveLooper
  <2>4. \A t \in LThreads : poll'[t] # Out => PollOf(t, poll[t])'
    <3>1. ASSUME NEW t \in LThreads, NEW p, p = poll'[t], p # Out PROVE PollOf(t, p)'
      BY <2>1, <2>3, <3>1
    <3> QED
      BY <3>1
  <2> QED
    BY <2>2, <2>4 DEF LooperIInv
<1> QED
  BY <1>1, <1>2, <1>3, <1>4, <1>5, <1>6, <1>7, <1>8 DEF LooperNext

(* A thread sleeps in ALooper_pollOnce only on a looper of its own that has  *)
(* nothing to report, what is registered is what was registered and not      *)
(* taken back, and a looper belongs to the thread whose cookie names it,     *)
(* through retirements, reused slots and callbacks that register again       *)
(* (android_native_unity.c).                                                 *)
THEOREM LooperSafety == LooperSpec => []LooperSound
<1>1. LooperSpec => []LooperIInv
  BY LooperInitial, LooperNextKeeps, PTL DEF LooperSpec
<1>2. LooperIInv => LooperSound
  <2> SUFFICES ASSUME LooperIInv PROVE LooperSound
    OBVIOUS
  <2>1. ASSUME NEW t \in LThreads, poll[t].at = "asleep"
        PROVE  LET L == looper[poll[t].l] IN
               LiveLooper(poll[t].l, poll[t].gen) /\ ~HasWake(L) /\ EntriesOf(L) = {}
               /\ L.resp = <<>>
    <3>1. PollOf(t, poll[t])
      BY <2>1, OutIsOut DEF LooperIInv
    <3> QED
      BY <2>1, <3>1 DEF PollOf
  <2>2. SleepersHaveNothing
    BY <2>1 DEF SleepersHaveNothing
  <2> QED
    BY <2>2 DEF LooperIInv, LooperSound
<1> QED
  BY <1>1, <1>2, PTL

-----------------------------------------------------------------------------
(***************************************************************************)
(* 3. Epoll.  A registration keeps the number that it was stamped with, so *)
(* a copy of it that is still current has its descriptor, and what poll    *)
(* saw is still what it stands for.                                        *)
(***************************************************************************)

EpollItems == [used : BOOLEAN, fd : EFds \union {0}, gen : Nat, disabled : BOOLEAN,
               oneshot : BOOLEAN, meant : Nat, raced : BOOLEAN]
EpollCalls == [at : {"idle", "closing", "ctl", "wait", "poll", "deliver", "ebadf"},
               fd : EFds \union {0}, meant : Nat, set : Nat,
               copy : SUBSET (ESlots \X Nat \X EFds), seen : SUBSET (ESlots \X Nat \X Nat)]

EpollTyped ==
  /\ names \in [EFds -> Nat] /\ opens \in Nat /\ set \in Nat /\ stamp \in Nat
  /\ items \in [ESlots -> EpollItems]
  /\ call \in [EThreads -> EpollCalls]

ItemsSound ==
  \A s \in ESlots : items[s].used =>
    /\ items[s].fd \in EFds /\ items[s].gen <= stamp
    /\ ~items[s].raced => items[s].meant # 0 /\ names[items[s].fd] = items[s].meant

CallSound(k) ==
  /\ k.at \in {"closing", "ctl"} => k.fd \in EFds
  /\ k.at = "ctl" => k.meant # 0
  /\ k.at = "closing" => \A s \in ESlots : items[s].used /\ items[s].fd = k.fd => items[s].raced
  /\ k.at \in {"poll", "ebadf"} =>
       \A c \in k.copy : c[2] <= stamp /\ (Current(c) => items[c[1]].fd = c[3])
  /\ k.at = "deliver" =>
       \A c \in k.seen : c[2] <= stamp /\ (Current(c) /\ ~items[c[1]].raced =>
                                             c[3] = items[c[1]].meant)
  /\ k.at = "ebadf" => \E c \in k.copy : ~Current(c) \/ items[c[1]].raced

EpollIInv == EpollTyped /\ ItemsSound /\ \A t \in EThreads : CallSound(call[t])

\* How an item changes: it goes, is switched off, or is stamped anew.
ItemAges(I, J) ==
  \/ J = I \/ ~J.used
  \/ J.used = I.used /\ J.fd = I.fd /\ J.gen = I.gen /\ J.meant = I.meant /\ J.raced = I.raced
  \/ J.gen > stamp

LEMMA FreeItemTyped == FreeItem \in EpollItems /\ ~FreeItem.used
<1>1. FreeItem \in EpollItems
  BY DEF FreeItem, EpollItems
<1>2. FreeItem.used = FALSE
  BY DEF FreeItem
<1> QED
  BY <1>1, <1>2

LEMMA NoCallSound == NoCall \in EpollCalls /\ CallSound(NoCall) /\ CallSound(NoCall)'
<1>1. NoCall.at = "idle"
  BY DEF NoCall
<1>2. NoCall \in EpollCalls
  BY DEF NoCall, EpollCalls
<1> QED
  BY <1>1, <1>2 DEF CallSound

\* Another thread's call after a step of the registry.
LEMMA CallStays ==
  ASSUME EpollIInv, NEW k \in EpollCalls, CallSound(k), EpollTyped', stamp <= stamp',
         \A s \in ESlots : ItemAges(items[s], items'[s]),
         k.at = "closing" => \A s \in ESlots :
           items'[s].used /\ items'[s].gen > stamp /\ items'[s].fd = k.fd => items'[s].raced
  PROVE  CallSound(k)'
<1>1. stamp \in Nat /\ stamp' \in Nat /\ items \in [ESlots -> EpollItems]
      /\ items' \in [ESlots -> EpollItems]
  BY DEF EpollIInv, EpollTyped
<1>2. k.copy \subseteq ESlots \X Nat \X EFds /\ k.seen \subseteq ESlots \X Nat \X Nat
  BY DEF EpollCalls
<1>3. ASSUME NEW s \in ESlots, NEW n \in Nat, n <= stamp, items'[s].used, items'[s].gen = n
      PROVE  /\ items[s].used /\ items[s].gen = n /\ items'[s].fd = items[s].fd
             /\ items'[s].meant = items[s].meant /\ items'[s].raced = items[s].raced
  <2>1. ItemAges(items[s], items'[s]) /\ ~(items'[s].gen > stamp)
    BY <1>1, <1>3
  <2> QED
    BY <1>3, <2>1 DEF ItemAges
<1>4. ASSUME k.at = "closing", NEW s \in ESlots, items'[s].used, items'[s].fd = k.fd
      PROVE  items'[s].raced
  <2>1. CASE items'[s].gen > stamp
    BY <1>4, <2>1
  <2>2. CASE ~(items'[s].gen > stamp)
    <3>1. items'[s].gen \in Nat
      BY <1>1 DEF EpollItems
    <3>2. items'[s].gen <= stamp
      BY <1>1, <2>2, <3>1
    <3>3. items[s].used /\ items[s].fd = k.fd /\ items'[s].raced = items[s].raced
      BY <1>3, <1>4, <3>1, <3>2
    <3> QED
      BY <1>4, <3>3 DEF CallSound
  <2> QED
    BY <2>1, <2>2
<1>5. ASSUME NEW c, c[1] \in ESlots, c[2] \in Nat, c[2] <= stamp, Current(c)'
      PROVE  /\ Current(c) /\ items'[c[1]].fd = items[c[1]].fd
             /\ items'[c[1]].meant = items[c[1]].meant /\ items'[c[1]].raced = items[c[1]].raced
  BY <1>3, <1>5 DEF Current
<1>6. ASSUME k.at \in {"poll", "ebadf"}, NEW c \in k.copy
      PROVE  /\ c[1] \in ESlots /\ c[2] \in Nat /\ c[2] <= stamp
             /\ c[2] <= stamp' /\ (Current(c)' => items'[c[1]].fd = c[3])
  <2>1. c[1] \in ESlots /\ c[2] \in Nat /\ c[2] <= stamp /\ (Current(c) => items[c[1]].fd = c[3])
    BY <1>2, <1>6 DEF CallSound
  <2>2. c[2] <= stamp'
    BY <1>1, <2>1
  <2>3. Current(c)' => Current(c) /\ items'[c[1]].fd = items[c[1]].fd
    BY <1>5, <2>1
  <2> QED
    BY <2>1, <2>2, <2>3
<1>7. ASSUME k.at = "deliver", NEW c \in k.seen
      PROVE  c[2] <= stamp' /\ (Current(c)' /\ ~items'[c[1]].raced => c[3] = items'[c[1]].meant)
  <2>1. c[1] \in ESlots /\ c[2] \in Nat /\ c[2] <= stamp
        /\ (Current(c) /\ ~items[c[1]].raced => c[3] = items[c[1]].meant)
    BY <1>2, <1>7 DEF CallSound
  <2>2. c[2] <= stamp'
    BY <1>1, <2>1
  <2>3. Current(c)' => /\ Current(c) /\ items'[c[1]].meant = items[c[1]].meant
                       /\ items'[c[1]].raced = items[c[1]].raced
    BY <1>5, <2>1
  <2> QED
    BY <2>1, <2>2, <2>3
<1>8. ASSUME k.at = "ebadf" PROVE \E c \in k.copy : ~Current(c)' \/ items'[c[1]].raced
  <2>1. PICK c \in k.copy : ~Current(c) \/ items[c[1]].raced
    BY <1>8 DEF CallSound
  <2>2. Current(c)' => Current(c) /\ items'[c[1]].raced = items[c[1]].raced
    BY <1>5, <1>6, <1>8
  <2> QED
    BY <2>1, <2>2
<1>9. k.at \in {"closing", "ctl"} => k.fd \in EFds
  BY DEF CallSound
<1>10. k.at = "ctl" => k.meant # 0
  BY DEF CallSound
<1> QED
  BY <1>4, <1>6, <1>7, <1>8, <1>9, <1>10 DEF CallSound

\* A step of one thread, which leaves its own call as k.
LEMMA EpollStep ==
  ASSUME EpollIInv, NEW t \in EThreads, NEW k \in EpollCalls, call' = [call EXCEPT ![t] = k],
         names' \in [EFds -> Nat], opens' \in Nat, set' \in Nat, stamp' \in Nat,
         items' \in [ESlots -> EpollItems], ItemsSound', CallSound(k)', stamp <= stamp',
         \A s \in ESlots : ItemAges(items[s], items'[s]),
         \A s \in ESlots, u \in EThreads :
           items'[s].used /\ items'[s].gen > stamp /\ call[u].at = "closing"
             /\ items'[s].fd = call[u].fd => items'[s].raced
  PROVE  EpollIInv'
<1>1. call \in [EThreads -> EpollCalls]
  BY DEF EpollIInv, EpollTyped
<1>2. EpollTyped' /\ \A u \in EThreads : call'[u] = IF u = t THEN k ELSE call[u]
  BY <1>1 DEF EpollTyped
<1>3. ASSUME NEW u \in EThreads, NEW j, j = call'[u] PROVE CallSound(j)'
  <2>1. CASE u = t
    BY <1>2, <1>3, <2>1
  <2>2. CASE u # t
    <3>1. j = call[u] /\ j \in EpollCalls /\ CallSound(j)
      BY <1>1, <1>2, <1>3, <2>2 DEF EpollIInv
    <3>2. j.at = "closing" => \A s \in ESlots :
            items'[s].used /\ items'[s].gen > stamp /\ items'[s].fd = j.fd => items'[s].raced
      BY <3>1
    <3> QED
      BY <1>2, <3>1, <3>2, CallStays
  <2> QED
    BY <2>1, <2>2
<1>4. \A u \in EThreads : CallSound(call[u])'
  BY <1>3
<1> QED
  BY <1>2, <1>4 DEF EpollIInv

\* A step that stamps nothing.
LEMMA UnstampedStep ==
  ASSUME EpollIInv, NEW t \in EThreads, NEW k \in EpollCalls, call' = [call EXCEPT ![t] = k],
         names' \in [EFds -> Nat], opens' \in Nat, set' \in Nat, stamp' = stamp,
         items' \in [ESlots -> EpollItems], ItemsSound', CallSound(k)',
         \A s \in ESlots : items'[s] = items[s] \/ ~items'[s].used
  PROVE  EpollIInv'
<1>1. stamp \in Nat /\ items \in [ESlots -> EpollItems] /\ ItemsSound
  BY DEF EpollIInv, EpollTyped
<1>2. \A s \in ESlots : items'[s].used => items'[s].gen <= stamp
  BY <1>1 DEF ItemsSound
<1>3. \A s \in ESlots : items'[s].used /\ items'[s].gen > stamp => FALSE
  <2>1. \A s \in ESlots : items'[s].gen \in Nat
    BY DEF EpollItems
  <2> QED
    BY <1>1, <1>2, <2>1
<1>4. \A s \in ESlots : ItemAges(items[s], items'[s])
  BY DEF ItemAges
<1>5. stamp' \in Nat /\ stamp <= stamp'
  BY <1>1
<1>6. \A s \in ESlots, u \in EThreads :
        items'[s].used /\ items'[s].gen > stamp /\ call[u].at = "closing"
          /\ items'[s].fd = call[u].fd => items'[s].raced
  BY <1>3
<1> QED
  BY <1>4, <1>5, <1>6, EpollStep

\* What is known of a registry that a step leaves alone.
LEMMA EpollFacts ==
  ASSUME EpollIInv
  PROVE  /\ names \in [EFds -> Nat] /\ opens \in Nat /\ set \in Nat /\ stamp \in Nat
         /\ items \in [ESlots -> EpollItems] /\ call \in [EThreads -> EpollCalls] /\ ItemsSound
         /\ \A t \in EThreads : call[t] \in EpollCalls /\ CallSound(call[t])
BY DEF EpollIInv, EpollTyped

\* Numbers are opened and closed.
LEMMA OpenFdStep ==
  ASSUME EpollIInv, NEW t \in EThreads, OpenFd(t)
  PROVE  EpollIInv'
<1>1. /\ UNCHANGED <<set, items, stamp, call>> /\ opens' = opens + 1
      /\ \E f \in EFds : names[f] = 0 /\ names' = [names EXCEPT ![f] = opens + 1]
  BY DEF OpenFd
<1>2. PICK f \in EFds : names[f] = 0 /\ names' = [names EXCEPT ![f] = opens + 1]
  BY <1>1
<1>3. names' \in [EFds -> Nat] /\ \A g \in EFds : names'[g] = names[g] \/ names[g] = 0
  BY <1>2, EpollFacts
<1>4. ItemsSound'
  BY <1>1, <1>3, EpollFacts DEF ItemsSound
<1>5. EpollTyped'
  BY <1>1, <1>3, EpollFacts DEF EpollTyped
<1>6. ASSUME NEW u \in EThreads, NEW k, k = call[u] PROVE CallSound(k)'
  <2>1. CallSound(k)
    BY <1>6, EpollFacts
  <2> QED
    BY <1>1, <2>1 DEF CallSound, Current
<1> QED
  BY <1>1, <1>4, <1>5, <1>6 DEF EpollIInv

LEMMA PruneClosedStep ==
  ASSUME EpollIInv, NEW t \in EThreads, PruneClosed(t)
  PROVE  EpollIInv'
<1>1. PICK f \in EFds : /\ items' = Forgotten(f) /\ UNCHANGED <<names, opens, set, stamp>>
                        /\ call' = [call EXCEPT ![t] = [NoCall EXCEPT !.at = "closing", !.fd = f]]
  BY DEF PruneClosed, Becomes
<1>2. PICK k : k = [NoCall EXCEPT !.at = "closing", !.fd = f]
  OBVIOUS
<1>3. k \in EpollCalls /\ k.at = "closing" /\ k.fd = f
  BY <1>2 DEF NoCall, EpollCalls
<1>4. /\ \A s \in ESlots : items'[s] = IF items[s].used /\ items[s].fd = f THEN FreeItem
                                       ELSE items[s]
      /\ items' \in [ESlots -> EpollItems]
  BY <1>1, EpollFacts, FreeItemTyped DEF Forgotten
<1>5. \A s \in ESlots : items'[s].used => items'[s] = items[s] /\ items'[s].fd # f
  BY <1>4, FreeItemTyped
<1>6. ItemsSound'
  BY <1>1, <1>5, EpollFacts DEF ItemsSound
<1>7. CallSound(k)'
  BY <1>3, <1>5 DEF CallSound
<1>8. /\ names' \in [EFds -> Nat] /\ opens' \in Nat /\ set' \in Nat /\ stamp' = stamp
      /\ call' = [call EXCEPT ![t] = k]
  BY <1>1, <1>2, EpollFacts
<1>9. \A s \in ESlots : items'[s] = items[s] \/ ~items'[s].used
  BY <1>5
<1> QED
  BY <1>3, <1>4, <1>6, <1>7, <1>8, <1>9, UnstampedStep

LEMMA CloseNumberStep ==
  ASSUME EpollIInv, NEW t \in EThreads, CloseNumber(t)
  PROVE  EpollIInv'
<1>1. /\ call[t].at = "closing" /\ names' = [names EXCEPT ![call[t].fd] = 0]
      /\ call' = [call EXCEPT ![t] = NoCall] /\ UNCHANGED <<opens, set, items, stamp>>
  BY DEF CloseNumber, EpollReturns, Becomes
<1>2. /\ call[t].fd \in EFds
      /\ \A s \in ESlots : items[s].used /\ items[s].fd = call[t].fd => items[s].raced
  BY <1>1, EpollFacts DEF CallSound
<1>3. names' \in [EFds -> Nat] /\ \A g \in EFds : g # call[t].fd => names'[g] = names[g]
  BY <1>1, <1>2, EpollFacts
<1>4. ItemsSound'
  BY <1>1, <1>2, <1>3, EpollFacts DEF ItemsSound
<1>5. opens' \in Nat /\ set' \in Nat /\ stamp' = stamp /\ items' \in [ESlots -> EpollItems]
      /\ \A s \in ESlots : items'[s] = items[s] \/ ~items'[s].used
  BY <1>1, EpollFacts
<1> QED
  BY <1>1, <1>3, <1>4, <1>5, NoCallSound, UnstampedStep

\* The set comes and goes with all its items.
LEMMA CreateSetStep ==
  ASSUME EpollIInv, NEW t \in EThreads, CreateSet(t) \/ CloseSet(t)
  PROVE  EpollIInv'
<1>1. /\ UNCHANGED <<names, opens, call>> /\ items' = [s \in ESlots |-> FreeItem]
      /\ stamp' \in {stamp, stamp + 1} /\ set' \in {0, stamp + 1}
  BY DEF CreateSet, CloseSet
<1>2. \A s \in ESlots : ~items'[s].used
  BY <1>1, FreeItemTyped
<1>3. items' \in [ESlots -> EpollItems] /\ stamp' \in Nat /\ stamp <= stamp' /\ set' \in Nat
  BY <1>1, EpollFacts, FreeItemTyped
<1>4. ItemsSound'
  BY <1>2 DEF ItemsSound
<1>5. call[t] \in EpollCalls /\ CallSound(call[t]) /\ call' = [call EXCEPT ![t] = call[t]]
  BY <1>1, EpollFacts
<1>6. \A s \in ESlots : ItemAges(items[s], items'[s])
  BY <1>2 DEF ItemAges
<1>7. EpollTyped'
  BY <1>1, <1>3, EpollFacts DEF EpollTyped
<1>8. PICK k : k = call[t]
  OBVIOUS
<1>9. CallSound(k)'
  BY <1>2, <1>3, <1>5, <1>6, <1>7, <1>8, CallStays
<1>10. names' \in [EFds -> Nat] /\ opens' \in Nat
  BY <1>1, EpollFacts
<1>11. \A s \in ESlots, u \in EThreads :
         items'[s].used /\ items'[s].gen > stamp /\ call[u].at = "closing"
           /\ items'[s].fd = call[u].fd => items'[s].raced
  BY <1>2
<1> QED
  BY <1>3, <1>4, <1>5, <1>6, <1>8, <1>9, <1>10, <1>11, EpollStep

\* A descriptor is checked, and registered later.
LEMMA CtlValidStep ==
  ASSUME EpollIInv, NEW t \in EThreads, CtlValid(t)
  PROVE  EpollIInv'
<1>1. PICK f \in EFds :
        /\ names[f] # 0 /\ UNCHANGED <<names, opens, set, items, stamp>>
        /\ call' = [call EXCEPT ![t] = [NoCall EXCEPT !.at = "ctl", !.fd = f, !.meant = names[f]]]
  BY DEF CtlValid, Becomes
<1>2. PICK k : k = [NoCall EXCEPT !.at = "ctl", !.fd = f, !.meant = names[f]]
  OBVIOUS
<1>3. k \in EpollCalls /\ k.at = "ctl" /\ k.fd = f /\ k.meant = names[f]
  <2>1. names[f] \in Nat
    BY EpollFacts
  <2> QED
    BY <1>2, <2>1 DEF NoCall, EpollCalls
<1>4. CallSound(k)'
  BY <1>1, <1>3 DEF CallSound
<1>5. /\ names' \in [EFds -> Nat] /\ opens' \in Nat /\ set' \in Nat /\ stamp' = stamp
      /\ items' \in [ESlots -> EpollItems] /\ call' = [call EXCEPT ![t] = k]
      /\ \A s \in ESlots : items'[s] = items[s] \/ ~items'[s].used
  BY <1>1, <1>2, EpollFacts
<1>6. ItemsSound'
  BY <1>1, EpollFacts DEF ItemsSound
<1> QED
  BY <1>3, <1>4, <1>5, <1>6, UnstampedStep

LEMMA CtlApplyStep ==
  ASSUME EpollIInv, NEW t \in EThreads, CtlApply(t)
  PROVE  EpollIInv'
<1>1. /\ call[t].at = "ctl" /\ call' = [call EXCEPT ![t] = NoCall] /\ UNCHANGED <<names, opens, set>>
  BY DEF CtlApply, EpollReturns, Becomes
<1>2. PICK fd \in EFds, m \in Nat : fd = call[t].fd /\ m = call[t].meant /\ m # 0
  BY <1>1, EpollFacts DEF CallSound, EpollCalls
<1>3. names' \in [EFds -> Nat] /\ opens' \in Nat /\ set' \in Nat
  BY <1>1, EpollFacts
<1>4. CASE UNCHANGED <<items, stamp>>
  <2>1. ItemsSound' /\ stamp' = stamp /\ items' \in [ESlots -> EpollItems]
        /\ \A s \in ESlots : items'[s] = items[s] \/ ~items'[s].used
    BY <1>1, <1>4, EpollFacts DEF ItemsSound
  <2> QED
    BY <1>1, <1>3, <2>1, NoCallSound, UnstampedStep
<1>5. ASSUME NEW s \in ESlots, items' = [items EXCEPT ![s] = FreeItem], UNCHANGED stamp
      PROVE  EpollIInv'
  <2>1. items' \in [ESlots -> EpollItems] /\ stamp' = stamp
        /\ \A r \in ESlots : items'[r] = items[r] \/ ~items'[r].used
    BY <1>5, EpollFacts, FreeItemTyped
  <2>2. ItemsSound'
    BY <1>1, <2>1, EpollFacts DEF ItemsSound
  <2> QED
    BY <1>1, <1>3, <2>1, <2>2, NoCallSound, UnstampedStep
<1>6. ASSUME NEW s \in ESlots, NEW once \in BOOLEAN, RegisterItem(t, s, once)
      PROVE  EpollIInv'
  <2>1. PICK race \in BOOLEAN : race <=> names[fd] # m \/ Closing(fd)
    <3>1. CASE names[fd] # m \/ Closing(fd)
      BY <3>1
    <3>2. CASE ~(names[fd] # m \/ Closing(fd))
      BY <3>2
    <3> QED
      BY <3>1, <3>2
  <2>2. PICK I : I = [used |-> TRUE, fd |-> fd, gen |-> stamp + 1, disabled |-> FALSE,
                      oneshot |-> once, meant |-> m, raced |-> race]
    OBVIOUS
  <2>3. I \in EpollItems
    <3>1. stamp + 1 \in Nat
      BY EpollFacts
    <3> QED
      BY <2>2, <3>1 DEF EpollItems
  <2>4. I.used = TRUE /\ I.fd = fd /\ I.gen = stamp + 1 /\ I.meant = m /\ I.raced = race
    BY <2>2
  <2>5. items' = [items EXCEPT ![s] = I] /\ stamp' = stamp + 1
    <3>1. race = (names[call[t].fd] # call[t].meant \/ Closing(call[t].fd))
      BY <1>2, <2>1
    <3> QED
      BY <1>2, <1>6, <2>2, <3>1 DEF RegisterItem
  <2>6. items' \in [ESlots -> EpollItems]
        /\ \A r \in ESlots : items'[r] = IF r = s THEN I ELSE items[r]
    BY <2>3, <2>5, EpollFacts
  <2>7. stamp \in Nat /\ stamp' \in Nat /\ stamp <= stamp'
    BY <2>5, EpollFacts
  <2>8. \A r \in ESlots : r # s => items[r].gen \in Nat
    BY EpollFacts DEF EpollItems
  <2>9. ItemsSound'
    <3> SUFFICES ASSUME NEW r \in ESlots, items'[r].used
                 PROVE  /\ items'[r].fd \in EFds /\ items'[r].gen <= stamp'
                        /\ ~items'[r].raced =>
                             items'[r].meant # 0 /\ names'[items'[r].fd] = items'[r].meant
      BY DEF ItemsSound
    <3>1. CASE r = s
      BY <1>1, <1>2, <2>1, <2>4, <2>5, <2>6, <2>7, <3>1
    <3>2. CASE r # s
      BY <1>1, <2>5, <2>6, <2>7, <2>8, <3>2, EpollFacts DEF ItemsSound
    <3> QED
      BY <3>1, <3>2
  <2>10. \A r \in ESlots : ItemAges(items[r], items'[r])
    BY <2>4, <2>6, <2>7 DEF ItemAges
  <2>11. ASSUME NEW r \in ESlots, NEW u \in EThreads, items'[r].used, items'[r].gen > stamp,
                call[u].at = "closing", items'[r].fd = call[u].fd
         PROVE  items'[r].raced
    <3>1. CASE r = s
      BY <2>1, <2>4, <2>6, <2>11, <3>1 DEF Closing
    <3>2. CASE r # s
      BY <2>6, <2>7, <2>8, <2>11, <3>2, EpollFacts DEF ItemsSound
    <3> QED
      BY <3>1, <3>2
  <2> QED
    BY <1>1, <1>3, <2>6, <2>7, <2>9, <2>10, <2>11, NoCallSound, EpollStep
<1>7. \/ UNCHANGED <<items, stamp>>
      \/ \E s \in ESlots : items' = [items EXCEPT ![s] = FreeItem] /\ UNCHANGED stamp
      \/ \E s \in ESlots, once \in BOOLEAN : RegisterItem(t, s, once)
  BY DEF CtlApply, Found, FirstFreeItem
<1> QED
  BY <1>4, <1>5, <1>6, <1>7

\* A step of a call that leaves the registry alone.
LEMMA CallOnlyStep ==
  ASSUME EpollIInv, NEW t \in EThreads, NEW k \in EpollCalls, call' = [call EXCEPT ![t] = k],
         UNCHANGED <<names, opens, set, items, stamp>>, CallSound(k)
  PROVE  EpollIInv'
<1>1. /\ names' \in [EFds -> Nat] /\ opens' \in Nat /\ set' \in Nat /\ stamp' = stamp
      /\ items' \in [ESlots -> EpollItems]
      /\ \A s \in ESlots : items'[s] = items[s] \/ ~items'[s].used
  BY EpollFacts
<1>2. ItemsSound'
  BY EpollFacts DEF ItemsSound
<1>3. CallSound(k)'
  BY DEF CallSound, Current
<1> QED
  BY <1>1, <1>2, <1>3, UnstampedStep

LEMMA WaitSound ==
  ASSUME NEW k, k = [NoCall EXCEPT !.at = "wait"]
  PROVE  k \in EpollCalls /\ CallSound(k) /\ CallSound(k)'
<1>1. k \in EpollCalls /\ k.at = "wait"
  BY DEF NoCall, EpollCalls
<1> QED
  BY <1>1 DEF CallSound

LEMMA CopyStep ==
  ASSUME EpollIInv, NEW t \in EThreads, Copy(t)
  PROVE  EpollIInv'
<1>1. UNCHANGED <<names, opens, set, items, stamp>>
  BY DEF Copy
<1>2. CASE set = 0
  <2>1. call' = [call EXCEPT ![t] = NoCall]
    BY <1>2 DEF Copy, EpollReturns, Becomes
  <2> QED
    BY <1>1, <2>1, NoCallSound, CallOnlyStep
<1>3. CASE set # 0
  <2>1. PICK copy : copy = {<<s, items[s].gen, items[s].fd>> :
                              s \in {r \in ESlots : items[r].used /\ ~items[r].disabled}}
    OBVIOUS
  <2>2. PICK k : k = [NoCall EXCEPT !.at = "poll", !.set = set, !.copy = copy]
    OBVIOUS
  <2>3. call' = [call EXCEPT ![t] = k]
    BY <1>3, <2>1, <2>2 DEF Copy, Becomes
  <2>4. \A c \in copy : \E s \in ESlots : items[s].used /\ c = <<s, items[s].gen, items[s].fd>>
    BY <2>1
  <2>5. ASSUME NEW c \in copy
        PROVE  /\ c \in ESlots \X Nat \X EFds /\ c[2] <= stamp
               /\ Current(c) => items[c[1]].fd = c[3]
    <3>1. PICK s \in ESlots : items[s].used /\ c = <<s, items[s].gen, items[s].fd>>
      BY <2>4
    <3>2. items[s].gen \in Nat /\ items[s].fd \in EFds /\ items[s].gen <= stamp
      BY <3>1, EpollFacts DEF EpollItems, ItemsSound
    <3> QED
      BY <3>1, <3>2
  <2>6. copy \in SUBSET (ESlots \X Nat \X EFds)
    BY <2>5
  <2>7. k \in EpollCalls /\ k.at = "poll" /\ k.copy = copy
    <3>1. set \in Nat
      BY EpollFacts
    <3> QED
      BY <2>2, <2>6, <3>1 DEF NoCall, EpollCalls
  <2>8. CallSound(k)
    BY <2>5, <2>7 DEF CallSound
  <2> QED
    BY <1>1, <2>3, <2>7, <2>8, CallOnlyStep
<1> QED
  BY <1>2, <1>3

\* What poll saw of a current copy is what its item stands for.
LEMMA PollAnswersStep ==
  ASSUME EpollIInv, NEW t \in EThreads, Poll(t)
  PROVE  EpollIInv'
<1>1. call[t].at = "poll" /\ UNCHANGED <<names, opens, set, items, stamp>>
  BY DEF Poll
<1>2. PICK b \in EpollCalls : b = call[t] /\ b.at = "poll" /\ CallSound(b)
  BY <1>1, EpollFacts
<1>3. b.copy \subseteq ESlots \X Nat \X EFds
  BY <1>2 DEF EpollCalls
<1>4. \A c \in b.copy : c[2] <= stamp /\ (Current(c) => items[c[1]].fd = c[3])
  BY <1>2 DEF CallSound
<1>5. ASSUME NEW c \in b.copy, Current(c), ~items[c[1]].raced
      PROVE  names[c[3]] = items[c[1]].meant /\ names[c[3]] # 0
  <2>1. c[1] \in ESlots
    BY <1>3
  <2>2. items[c[1]].used /\ items[c[1]].fd = c[3]
    BY <1>4, <1>5 DEF Current
  <2> QED
    BY <1>5, <2>1, <2>2, EpollFacts DEF ItemsSound
<1>6. ASSUME NEW ready \in SUBSET b.copy,
             Becomes(t, [call[t] EXCEPT !.at = "deliver",
                          !.seen = {<<c[1], c[2], names[c[3]]>> : c \in ready}])
      PROVE  EpollIInv'
  <2>1. PICK seen : seen = {<<c[1], c[2], names[c[3]]>> : c \in ready}
    OBVIOUS
  <2>2. PICK k : k = [b EXCEPT !.at = "deliver", !.seen = seen]
    OBVIOUS
  <2>3. call' = [call EXCEPT ![t] = k]
    BY <1>2, <1>6, <2>1, <2>2 DEF Becomes
  <2>4. ASSUME NEW d \in seen
        PROVE  /\ d \in ESlots \X Nat \X Nat /\ d[2] <= stamp
               /\ Current(d) /\ ~items[d[1]].raced => d[3] = items[d[1]].meant
    <3>1. PICK c \in b.copy : d = <<c[1], c[2], names[c[3]]>>
      BY <2>1
    <3>2. c[1] \in ESlots /\ c[2] \in Nat /\ c[3] \in EFds /\ names[c[3]] \in Nat
      BY <1>3, EpollFacts
    <3>3. d[1] = c[1] /\ d[2] = c[2] /\ d[3] = names[c[3]]
      BY <3>1
    <3>4. Current(d) <=> Current(c)
      BY <3>3 DEF Current
    <3>5. Current(d) /\ ~items[d[1]].raced => d[3] = items[d[1]].meant
      BY <1>5, <3>3, <3>4
    <3> QED
      BY <1>4, <3>1, <3>2, <3>3, <3>5
  <2>5. seen \in SUBSET (ESlots \X Nat \X Nat)
    BY <2>4
  <2>6. k \in EpollCalls /\ k.at = "deliver" /\ k.seen = seen
    BY <1>2, <2>2, <2>5 DEF EpollCalls
  <2>7. CallSound(k)
    BY <2>4, <2>6 DEF CallSound
  <2> QED
    BY <1>1, <2>3, <2>6, <2>7, CallOnlyStep
<1>7. ASSUME NEW c \in b.copy, names[c[3]] = 0, Becomes(t, [call[t] EXCEPT !.at = "ebadf"])
      PROVE  EpollIInv'
  <2>1. PICK k : k = [b EXCEPT !.at = "ebadf"]
    OBVIOUS
  <2>2. k \in EpollCalls /\ k.at = "ebadf" /\ k.copy = b.copy /\ call' = [call EXCEPT ![t] = k]
    BY <1>2, <1>7, <2>1 DEF EpollCalls, Becomes
  <2>3. ~Current(c) \/ items[c[1]].raced
    BY <1>5, <1>7
  <2>4. CallSound(k)
    BY <1>4, <2>2, <2>3 DEF CallSound
  <2> QED
    BY <1>1, <2>2, <2>4, CallOnlyStep
<1> QED
  BY <1>2, <1>6, <1>7 DEF Poll

LEMMA EbadfStep ==
  ASSUME EpollIInv, NEW t \in EThreads, Ebadf(t)
  PROVE  EpollIInv'
<1>1. UNCHANGED <<names, opens, set, items, stamp>>
  BY DEF Ebadf
<1>2. PICK k : k = [NoCall EXCEPT !.at = "wait"]
  OBVIOUS
<1>3. call' = [call EXCEPT ![t] = NoCall] \/ call' = [call EXCEPT ![t] = k]
  BY <1>2 DEF Ebadf, EpollReturns, Becomes
<1> QED
  BY <1>1, <1>2, <1>3, NoCallSound, WaitSound, CallOnlyStep

\* An item is delivered once, or dropped when its number is gone.
LEMMA DeliverStep ==
  ASSUME EpollIInv, NEW t \in EThreads, Deliver(t)
  PROVE  EpollIInv'
<1>1. UNCHANGED <<names, opens, set, stamp>>
  BY DEF Deliver
<1>2. PICK w : w = [NoCall EXCEPT !.at = "wait"]
  OBVIOUS
<1>3. w \in EpollCalls /\ CallSound(w)'
  BY <1>2, WaitSound
<1>4. PICK k \in EpollCalls : CallSound(k)' /\ call' = [call EXCEPT ![t] = k]
  <2>1. call' = [call EXCEPT ![t] = NoCall] \/ call' = [call EXCEPT ![t] = w]
    BY <1>2 DEF Deliver, EpollReturns, Becomes
  <2> QED
    BY <1>3, <2>1, NoCallSound
<1>5. \/ items' = items
      \/ \E hit \in SUBSET ESlots, gone \in SUBSET ESlots :
           items' = [s \in ESlots |-> IF s \in gone THEN FreeItem
                                      ELSE IF items[s].oneshot /\ s \in hit
                                        THEN [items[s] EXCEPT !.disabled = TRUE]
                                      ELSE items[s]]
  <2> DEFINE live == {c \in call[t].seen : Current(c)}
             hit  == {s \in ESlots : \E c \in live : c[1] = s}
             gone == {s \in ESlots : \E c \in live : c[1] = s /\ c[3] = 0}
  <2>1. set = call[t].set =>
          items' = [s \in ESlots |-> IF \E c \in live : c[1] = s /\ c[3] = 0 THEN FreeItem
                                     ELSE IF items[s].oneshot /\ \E c \in live : c[1] = s
                                       THEN [items[s] EXCEPT !.disabled = TRUE]
                                     ELSE items[s]]
    BY DEF Deliver
  <2>2. set # call[t].set => items' = items
    BY DEF Deliver
  <2>3. /\ \A s \in ESlots : s \in gone <=> \E c \in live : c[1] = s /\ c[3] = 0
        /\ \A s \in ESlots : s \in hit <=> \E c \in live : c[1] = s
        /\ gone \in SUBSET ESlots /\ hit \in SUBSET ESlots
    OBVIOUS
  <2> HIDE DEF live, hit, gone
  <2>4. set = call[t].set =>
          items' = [s \in ESlots |-> IF s \in gone THEN FreeItem
                                     ELSE IF items[s].oneshot /\ s \in hit
                                       THEN [items[s] EXCEPT !.disabled = TRUE]
                                     ELSE items[s]]
    BY <2>1, <2>3
  <2> QED
    BY <2>2, <2>3, <2>4
<1>6. ASSUME NEW s \in ESlots, NEW J, J = [items[s] EXCEPT !.disabled = TRUE]
      PROVE  /\ J \in EpollItems /\ J.used = items[s].used /\ J.fd = items[s].fd
             /\ J.gen = items[s].gen /\ J.meant = items[s].meant /\ J.raced = items[s].raced
  <2>1. items[s] \in EpollItems
    BY EpollFacts
  <2> QED
    BY <1>6, <2>1 DEF EpollItems
<1>7. \A s \in ESlots : items'[s] \in {items[s], FreeItem, [items[s] EXCEPT !.disabled = TRUE]}
  BY <1>5
<1>8. items' \in [ESlots -> EpollItems]
  <2>1. \A s \in ESlots : [items[s] EXCEPT !.disabled = TRUE] \in EpollItems
    BY <1>6
  <2>2. DOMAIN items' = ESlots /\ items' = [s \in ESlots |-> items'[s]]
    BY <1>5, EpollFacts
  <2>3. \A s \in ESlots : items'[s] \in EpollItems
    BY <1>7, <2>1, FreeItemTyped, EpollFacts
  <2> QED
    BY <2>2, <2>3
<1>9. ASSUME NEW s \in ESlots, items'[s].used
      PROVE  /\ items[s].used /\ items'[s].used = items[s].used /\ items'[s].fd = items[s].fd
             /\ items'[s].gen = items[s].gen /\ items'[s].meant = items[s].meant
             /\ items'[s].raced = items[s].raced
  <2>1. items'[s] = items[s] \/ items'[s] = [items[s] EXCEPT !.disabled = TRUE]
    BY <1>7, <1>9, FreeItemTyped
  <2>2. PICK J : J = items'[s]
    OBVIOUS
  <2> QED
    BY <1>6, <1>9, <2>1
<1>10. ItemsSound'
  BY <1>1, <1>9, EpollFacts DEF ItemsSound
<1>11. \A s \in ESlots : ItemAges(items[s], items'[s])
  BY <1>9 DEF ItemAges
<1>12. ASSUME NEW s \in ESlots, items'[s].used, items'[s].gen > stamp PROVE FALSE
  <2>1. items'[s].gen \in Nat /\ items'[s].gen <= stamp /\ stamp \in Nat
    BY <1>8, <1>9, <1>12, EpollFacts DEF EpollItems, ItemsSound
  <2> QED
    BY <1>12, <2>1
<1>13. /\ names' \in [EFds -> Nat] /\ opens' \in Nat /\ set' \in Nat /\ stamp' \in Nat
       /\ stamp <= stamp'
  BY <1>1, EpollFacts
<1>14. \A s \in ESlots, u \in EThreads :
         items'[s].used /\ items'[s].gen > stamp /\ call[u].at = "closing"
           /\ items'[s].fd = call[u].fd => items'[s].raced
  BY <1>12
<1> QED
  BY <1>4, <1>8, <1>10, <1>11, <1>13, <1>14, EpollStep

LEMMA EpollInitial == EpollInit => EpollIInv
<1> SUFFICES ASSUME EpollInit PROVE EpollIInv
  OBVIOUS
<1>1. /\ EpollTyped /\ \A t \in EThreads : call[t] = NoCall
      /\ \A s \in ESlots : ~items[s].used
  BY FreeItemTyped, NoCallSound DEF EpollInit, EpollTyped
<1> QED
  BY <1>1, NoCallSound DEF EpollIInv, ItemsSound

LEMMA EpollNextKeeps == EpollIInv /\ [EpollNext]_epollVars => EpollIInv'
<1> SUFFICES ASSUME EpollIInv, [EpollNext]_epollVars PROVE EpollIInv'
  OBVIOUS
<1>1. CASE EpollNext
  <2>1. PICK t \in EThreads :
          \/ OpenFd(t) \/ PruneClosed(t) \/ CloseNumber(t) \/ CreateSet(t) \/ CloseSet(t)
          \/ CtlValid(t) \/ CtlApply(t) \/ Copy(t) \/ Poll(t) \/ Ebadf(t) \/ Deliver(t)
    BY <1>1 DEF EpollNext
  <2> QED
    BY <2>1, OpenFdStep, PruneClosedStep, CloseNumberStep, CreateSetStep, CtlValidStep,
       CtlApplyStep, CopyStep, PollAnswersStep, EbadfStep, DeliverStep
<1>2. CASE UNCHANGED epollVars
  <2>1. /\ names' = names /\ opens' = opens /\ set' = set /\ items' = items /\ stamp' = stamp
        /\ call' = call
    BY <1>2 DEF epollVars
  <2> QED
    BY <2>1 DEF EpollIInv, EpollTyped, ItemsSound, CallSound, Current
<1> QED
  BY <1>1, <1>2

(* A registration stands for the description that its number named when the *)
(* caller registered it, an event carries that description, and an open set *)
(* does not fail with EBADF, except where the registration raced with the   *)
(* close of its number (nx_epoll_ctl, nx_epoll_wait, nx_epoll_forget_fd).   *)
THEOREM EpollSafety == EpollSpec => []EventsOfTheirFd
<1>1. EpollIInv => EventsOfTheirFd
  <2> SUFFICES ASSUME EpollIInv PROVE EventsOfTheirFd
    OBVIOUS
  <2>1. \A t \in EThreads : CallSound(call[t])
    BY DEF EpollIInv
  <2>2. \A t \in EThreads : call[t].at = "ebadf" =>
          \E c \in call[t].copy : ~Current(c) \/ items[c[1]].raced
    BY <2>1 DEF CallSound
  <2>3. \A t \in EThreads : call[t].at = "deliver" =>
          \A c \in call[t].seen : Current(c) /\ ~items[c[1]].raced => c[3] = items[c[1]].meant
    BY <2>1 DEF CallSound
  <2> QED
    BY <2>2, <2>3, EpollFacts DEF EventsOfTheirFd, ItemsSound
<1>2. EpollSpec => []EpollIInv
  BY EpollInitial, EpollNextKeeps, PTL DEF EpollSpec
<1> QED
  BY <1>1, <1>2, PTL

-----------------------------------------------------------------------------
(***************************************************************************)
(* 4. Audio.  Three invariants, each of its own variables: who refers to a *)
(* player, what is in its queue, and which device is open.                 *)
(***************************************************************************)

IsRegistered(p) == \E i \in DOMAIN gPlayers : gPlayers[i] = p
IsPinned(p)     == \E i \in DOMAIN snapshot : snapshot[i] = p

\* A player has one place among the registered and one in the snapshot, and a
\* doomed one is only kept by its pin.
PlayersIInv ==
  /\ gPlayers \in Seq(Players \union {NoPlayer}) /\ snapshot \in Seq(Players)
  /\ making \subseteq Players /\ doomed \subseteq Players
  /\ \A i, j \in DOMAIN gPlayers :
       gPlayers[i] = gPlayers[j] /\ gPlayers[i] # NoPlayer => i = j
  /\ \A i, j \in DOMAIN snapshot : snapshot[i] = snapshot[j] => i = j
  /\ refs = [p \in Players |-> refs[p]]
  /\ \A p \in Players :
       /\ p \in making => ~IsRegistered(p) /\ ~IsPinned(p)
       /\ p \in doomed => ~IsRegistered(p) /\ p \notin making /\ IsPinned(p)
       /\ refs[p] = (IF IsPinned(p) THEN 1 ELSE 0)
                    + (IF IsRegistered(p) \/ p \in making THEN 1 ELSE 0)

Inside(p) == IF cur[p] = 0 THEN 0 ELSE 1
QueueInOrder(p) ==
  /\ cur[p] # 0 => cur[p] = processed[p] + 1
  /\ \A i \in 1 .. Depth(p) : ring[p][(qHead[p] + i - 1) % BQ_SLOTS] = processed[p] + Inside(p) + i

QueuesIInv ==
  /\ ring \in [Players -> [0 .. BQ_SLOTS - 1 -> Nat]]
  /\ qHead \in [Players -> 0 .. BQ_SLOTS - 1] /\ qTail \in [Players -> 0 .. BQ_SLOTS - 1]
  /\ cur \in [Players -> Nat] /\ processed \in [Players -> Nat]
  /\ \A p \in Players : QueueInOrder(p)

\* A device is open because the game uses it or because it is being closed.
DevicesIInv ==
  /\ closing \in BOOLEAN /\ devOpen = {gDev, stopping} \ {0}
  /\ gDev # 0 => ~closing
  /\ stopping # 0 => closing
  /\ snapshot # <<>> => devOpen # {}

\* Devices.
LEMMA DevicesInitial == AudioInit => DevicesIInv
BY DEF AudioInit, DevicesIInv

LEMMA DevicesStep ==
  ASSUME DevicesIInv, [AudioNext]_audioVars
  PROVE  DevicesIInv'
<1>1. ASSUME UNCHANGED deviceVars, snapshot' # <<>> => snapshot # <<>> \/ devOpen # {}
      PROVE  DevicesIInv'
  BY <1>1 DEF DevicesIInv, deviceVars
<1>2. ASSUME NEW p \in Players, CreatePlayer(p) PROVE DevicesIInv'
  <2>1. ~closing /\ HaveDevice /\ UNCHANGED snapshot
    BY <1>2 DEF CreatePlayer, EnsureDevice
  <2>2. CASE UNCHANGED deviceVars
    BY <1>1, <2>1, <2>2
  <2>3. CASE gDev = 0 /\ gDev' \in DeviceIds \ devOpen /\ devOpen' = devOpen \union {gDev'}
             /\ UNCHANGED <<closing, stopping>>
    <3>1. gDev' # 0 /\ stopping = 0 /\ devOpen = {}
      BY <2>1, <2>3, AudioAssumption DEF DevicesIInv
    <3> QED
      BY <2>1, <2>3, <3>1 DEF DevicesIInv
  <2> QED
    BY <2>1, <2>2, <2>3 DEF HaveDevice
<1>3. ASSUME NEW p \in Players,
             \/ RegisterPlayer(p) \/ EnqueueBuffer(p) \/ Clear(p) \/ RegisterCallback(p)
             \/ DestroyPlayer(p) \/ \E play \in BOOLEAN : SetPlayState(p, play)
      PROVE  DevicesIInv'
  <2>1. UNCHANGED deviceVars /\ UNCHANGED snapshot
    BY <1>3 DEF RegisterPlayer, EnqueueBuffer, Clear, RegisterCallback, DestroyPlayer, SetPlayState
  <2> QED
    BY <1>1, <2>1
<1>4. CASE TakeSnapshot \/ MixIdle \/ MixBlock \/ MixUntilCallback
  <2>1. UNCHANGED deviceVars /\ (snapshot # <<>> \/ devOpen # {})
    BY <1>4 DEF TakeSnapshot, MixIdle, MixBlock, MixUntilCallback, Unpin
  <2> QED
    BY <1>1, <2>1
<1>5. CASE ShutdownBegin
  <2>1. /\ gDev # 0 /\ stopping' = gDev /\ gDev' = 0 /\ closing' = TRUE
        /\ UNCHANGED <<snapshot, devOpen>> /\ stopping = 0
    BY <1>5 DEF ShutdownBegin, DevicesIInv
  <2> QED
    BY <2>1 DEF DevicesIInv
<1>6. CASE CloseDevice
  <2>1. /\ stopping # 0 /\ snapshot = <<>> /\ devOpen' = devOpen \ {stopping} /\ stopping' = 0
        /\ UNCHANGED <<snapshot, gDev, closing>> /\ gDev = 0
    BY <1>6 DEF CloseDevice, DevicesIInv
  <2> QED
    BY <2>1 DEF DevicesIInv
<1>7. CASE ShutdownEnd
  BY <1>7 DEF ShutdownEnd, DevicesIInv
<1>8. CASE UNCHANGED audioVars
  BY <1>1, <1>8 DEF audioVars, deviceVars
<1> QED
  BY <1>2, <1>3, <1>4, <1>5, <1>6, <1>7, <1>8 DEF AudioNext

LEMMA DeviceIsOne == DevicesIInv => OneDevice
<1> SUFFICES ASSUME DevicesIInv PROVE OneDevice
  OBVIOUS
<1>1. devOpen = {} \/ \E d \in devOpen : devOpen = {d}
  BY DEF DevicesIInv
<1>2. Cardinality(devOpen) <= 1
  BY <1>1, FS_EmptySet, FS_Singleton
<1> QED
  BY <1>2 DEF OneDevice, DevicesIInv

\* The arithmetic of a ring: a place is less than the size, and wraps once.
LEMMA RingDepth ==
  ASSUME NEW B \in Nat \ {0}, NEW h \in 0 .. B - 1, NEW t \in 0 .. B - 1
  PROVE  (t - h + B) % B = IF t >= h THEN t - h ELSE t - h + B
OBVIOUS

\* Of a ring from h to t, D deep, n buffers are taken: it starts at g then.
Popped(B, h, t, D, n, g) ==
  /\ g \in 0 .. B - 1 /\ (t - g + B) % B = D - n
  /\ \A i \in 1 .. D - n : (g + i - 1) % B = (h + (n + i) - 1) % B

LEMMA RingPopped ==
  ASSUME NEW B \in Nat \ {0}, NEW h \in 0 .. B - 1, NEW t \in 0 .. B - 1,
         NEW D \in Nat, D = (t - h + B) % B, NEW n \in 0 .. D, NEW g, g = (h + n) % B
  PROVE  Popped(B, h, t, D, n, g)
<1>1. D = IF t >= h THEN t - h ELSE t - h + B
  BY RingDepth
<1>2. D < B /\ h + n \in Nat /\ h + n < 2 * B
  BY <1>1
<1>3. g = IF h + n < B THEN h + n ELSE h + n - B
  BY <1>2
<1>4. g \in 0 .. B - 1
  BY <1>2, <1>3
<1>5. (t - g + B) % B = IF t >= g THEN t - g ELSE t - g + B
  BY <1>4, RingDepth
<1>6. (t - g + B) % B = D - n
  BY <1>1, <1>3, <1>5
<1>7. ASSUME NEW i \in 1 .. D - n PROVE (g + i - 1) % B = (h + (n + i) - 1) % B
  <2>1. g + i - 1 \in Nat /\ g + i - 1 < 2 * B
    BY <1>2, <1>4
  <2>2. h + (n + i) - 1 \in Nat /\ h + (n + i) - 1 < 2 * B
    BY <1>2
  <2>3. (g + i - 1) % B = IF g + i - 1 < B THEN g + i - 1 ELSE g + i - 1 - B
    BY <2>1
  <2>4. (h + (n + i) - 1) % B = IF h + (n + i) - 1 < B THEN h + (n + i) - 1
                                 ELSE h + (n + i) - 1 - B
    BY <2>2
  <2>5. h + n + i - 1 < h + B
    BY <1>2
  <2> QED
    BY <1>3, <2>1, <2>2, <2>3, <2>4, <2>5
<1> QED
  BY <1>4, <1>6, <1>7 DEF Popped

LEMMA RingPushed ==
  ASSUME NEW B \in Nat \ {0}, NEW h \in 0 .. B - 1, NEW t \in 0 .. B - 1,
         NEW D \in Nat, D = (t - h + B) % B, NEW u, u = (t + 1) % B, u # h
  PROVE  /\ u \in 0 .. B - 1 /\ (u - h + B) % B = D + 1 /\ (h + (D + 1) - 1) % B = t
         /\ \A i \in 1 .. D : (h + i - 1) % B \in 0 .. B - 1 /\ (h + i - 1) % B # t
<1>1. D = IF t >= h THEN t - h ELSE t - h + B
  BY RingDepth
<1>2. t + 1 \in Nat /\ t + 1 < 2 * B
  OBVIOUS
<1>3. u = IF t + 1 < B THEN t + 1 ELSE t + 1 - B
  BY <1>2
<1>5. u \in 0 .. B - 1
  BY <1>3
<1>6. (u - h + B) % B = IF u >= h THEN u - h ELSE u - h + B
  BY <1>5, RingDepth
<1>7. (u - h + B) % B = D + 1
  BY <1>1, <1>3, <1>6
<1>8. (h + (D + 1) - 1) % B = t
  <2>1. PICK n \in Nat : n = h + (D + 1) - 1
    OBVIOUS
  <2>2. n = t \/ n = t + B
    BY <1>1, <2>1
  <2> QED
    BY <2>1, <2>2
<1>9. ASSUME NEW i \in 1 .. D PROVE (h + i - 1) % B \in 0 .. B - 1 /\ (h + i - 1) % B # t
  <2>1. PICK n \in Nat : n = h + i - 1
    OBVIOUS
  <2>2. (n < B /\ n # t) \/ (n >= B /\ n < B + t)
    BY <1>1, <2>1
  <2>3. n % B = IF n < B THEN n ELSE n - B
    BY <2>2
  <2> QED
    BY <2>1, <2>2, <2>3
<1> QED
  BY <1>5, <1>7, <1>8, <1>9

\* Queues.
LEMMA QueueFacts ==
  ASSUME QueuesIInv, NEW p \in Players
  PROVE  /\ ring[p] \in [0 .. BQ_SLOTS - 1 -> Nat] /\ qHead[p] \in 0 .. BQ_SLOTS - 1
         /\ qTail[p] \in 0 .. BQ_SLOTS - 1 /\ cur[p] \in Nat /\ processed[p] \in Nat
         /\ QueueInOrder(p) /\ BQ_SLOTS \in Nat \ {0} /\ Inside(p) \in {0, 1}
         /\ Depth(p) \in Nat /\ Depth(p) = (qTail[p] - qHead[p] + BQ_SLOTS) % BQ_SLOTS
<1>1. /\ qHead[p] \in 0 .. BQ_SLOTS - 1 /\ qTail[p] \in 0 .. BQ_SLOTS - 1
      /\ BQ_SLOTS \in Nat \ {0}
  BY AudioAssumption DEF QueuesIInv
<1>2. Depth(p) \in Nat
  BY <1>1, RingDepth DEF Depth
<1> QED
  BY <1>1, <1>2 DEF QueuesIInv, Inside, Depth

LEMMA ChainInOrder ==
  ASSUME QueuesIInv, NEW p \in Players
  PROVE  /\ Len(Chain(p)) = Inside(p) + Depth(p) /\ DOMAIN Chain(p) = 1 .. Inside(p) + Depth(p)
         /\ \A i \in 1 .. Inside(p) + Depth(p) : Chain(p)[i] = processed[p] + i
<1>1. PICK d \in Nat : d = Depth(p)
  BY QueueFacts
<1>2. PICK q : q = [i \in 1 .. d |-> ring[p][(qHead[p] + i - 1) % BQ_SLOTS]]
  OBVIOUS
<1>3. processed[p] \in Nat /\ cur[p] \in Nat
  BY QueueFacts
<1>4. \A i \in 1 .. d : q[i] = processed[p] + Inside(p) + i
  BY <1>1, <1>2, QueueFacts DEF QueueInOrder
<1>5. q \in Seq(Nat) /\ Len(q) = d
  <2>1. \A i \in 1 .. d : q[i] \in Nat
    BY <1>3, <1>4, QueueFacts
  <2> QED
    BY <1>2, <2>1
<1>6. CASE cur[p] = 0
  <2>1. Chain(p) = << >> \o q /\ Inside(p) = 0
    BY <1>1, <1>2, <1>6 DEF Chain, Inside
  <2>2. Chain(p) = q
    BY <1>5, <2>1
  <2> QED
    BY <1>1, <1>3, <1>4, <1>5, <2>1, <2>2
<1>7. CASE cur[p] # 0
  <2>1. Chain(p) = <<cur[p]>> \o q /\ Inside(p) = 1 /\ cur[p] = processed[p] + 1
    BY <1>1, <1>2, <1>7, QueueFacts DEF Chain, Inside, QueueInOrder
  <2>2. /\ Len(Chain(p)) = 1 + d /\ DOMAIN Chain(p) = 1 .. 1 + d /\ Chain(p)[1] = cur[p]
        /\ \A i \in 2 .. 1 + d : Chain(p)[i] = q[i - 1]
    BY <1>3, <1>5, <2>1
  <2>3. ASSUME NEW i \in 1 .. 1 + d PROVE Chain(p)[i] = processed[p] + i
    <3>1. CASE i = 1
      BY <2>1, <2>2, <3>1
    <3>2. CASE i # 1
      <4>1. i - 1 \in 1 .. d
        BY <3>2
      <4>2. q[i - 1] = processed[p] + 1 + (i - 1)
        BY <1>4, <2>1, <4>1
      <4> QED
        BY <1>3, <2>2, <3>2, <4>2
    <3> QED
      BY <3>1, <3>2
  <2> QED
    BY <1>1, <2>1, <2>2, <2>3
<1> QED
  BY <1>6, <1>7

\* A call changes the queue of one player.
LEMMA OneQueueStep ==
  ASSUME QueuesIInv, NEW p \in Players,
         NEW r \in [0 .. BQ_SLOTS - 1 -> Nat], NEW h \in 0 .. BQ_SLOTS - 1,
         NEW u \in 0 .. BQ_SLOTS - 1, NEW c \in Nat, NEW n \in Nat,
         ring' = [ring EXCEPT ![p] = r], qHead' = [qHead EXCEPT ![p] = h],
         qTail' = [qTail EXCEPT ![p] = u], cur' = [cur EXCEPT ![p] = c],
         processed' = [processed EXCEPT ![p] = n],
         c # 0 => c = n + 1,
         \A i \in 1 .. (u - h + BQ_SLOTS) % BQ_SLOTS :
           r[(h + i - 1) % BQ_SLOTS] = n + (IF c = 0 THEN 0 ELSE 1) + i
  PROVE  QueuesIInv'
<1>1. /\ ring' \in [Players -> [0 .. BQ_SLOTS - 1 -> Nat]]
      /\ \A q \in Players : ring'[q] = IF q = p THEN r ELSE ring[q]
  BY DEF QueuesIInv
<1>2. /\ qHead' \in [Players -> 0 .. BQ_SLOTS - 1] /\ qTail' \in [Players -> 0 .. BQ_SLOTS - 1]
      /\ cur' \in [Players -> Nat] /\ processed' \in [Players -> Nat]
  BY DEF QueuesIInv
<1>3. \A q \in Players : /\ qHead'[q] = IF q = p THEN h ELSE qHead[q]
                         /\ qTail'[q] = IF q = p THEN u ELSE qTail[q]
                         /\ cur'[q] = IF q = p THEN c ELSE cur[q]
                         /\ processed'[q] = IF q = p THEN n ELSE processed[q]
  BY DEF QueuesIInv
<1>4. ASSUME NEW q \in Players PROVE QueueInOrder(q)'
  <2>1. CASE q = p
    <3>1. /\ ring'[q] = r /\ qHead'[q] = h /\ qTail'[q] = u /\ cur'[q] = c /\ processed'[q] = n
      BY <1>1, <1>3, <2>1
    <3>2. Depth(q)' = (u - h + BQ_SLOTS) % BQ_SLOTS /\ Inside(q)' = IF c = 0 THEN 0 ELSE 1
      BY <3>1 DEF Inside, Depth
    <3>3. cur'[q] # 0 => cur'[q] = processed'[q] + 1
      BY <3>1
    <3>4. \A i \in 1 .. Depth(q)' :
            ring'[q][(qHead'[q] + i - 1) % BQ_SLOTS] = processed'[q] + Inside(q)' + i
      BY <3>1, <3>2
    <3> QED
      BY <3>3, <3>4 DEF QueueInOrder
  <2>2. CASE q # p
    <3>1. /\ ring'[q] = ring[q] /\ qHead'[q] = qHead[q] /\ qTail'[q] = qTail[q]
          /\ cur'[q] = cur[q] /\ processed'[q] = processed[q]
      BY <1>1, <1>3, <2>2
    <3>2. QueueInOrder(q)
      BY DEF QueuesIInv
    <3>3. Depth(q)' = Depth(q) /\ Inside(q)' = Inside(q)
      BY <3>1 DEF Inside, Depth
    <3> QED
      BY <3>1, <3>2, <3>3 DEF QueueInOrder
  <2> QED
    BY <2>1, <2>2
<1> QED
  BY <1>1, <1>2, <1>4 DEF QueuesIInv

LEMMA EmptyQueue ==
  /\ EmptyRing \in [0 .. BQ_SLOTS - 1 -> Nat] /\ 0 \in 0 .. BQ_SLOTS - 1
  /\ (0 - 0 + BQ_SLOTS) % BQ_SLOTS = 0
<1>1. 0 \in 0 .. BQ_SLOTS - 1 /\ EmptyRing \in [0 .. BQ_SLOTS - 1 -> Nat]
  BY AudioAssumption DEF EmptyRing
<1>2. (0 - 0 + BQ_SLOTS) % BQ_SLOTS = 0
  BY AudioAssumption
<1> QED
  BY <1>1, <1>2

LEMMA ClearQueueStep ==
  ASSUME QueuesIInv, NEW p \in Players, ClearQueue(p)
  PROVE  QueuesIInv'
<1>1. \A i \in 1 .. (0 - 0 + BQ_SLOTS) % BQ_SLOTS :
        EmptyRing[(0 + i - 1) % BQ_SLOTS] = 0 + (IF 0 = 0 THEN 0 ELSE 1) + i
  BY EmptyQueue
<1>2. /\ ring' = [ring EXCEPT ![p] = EmptyRing] /\ qHead' = [qHead EXCEPT ![p] = 0]
      /\ qTail' = [qTail EXCEPT ![p] = 0] /\ cur' = [cur EXCEPT ![p] = 0]
      /\ processed' = [processed EXCEPT ![p] = 0] /\ 0 \in Nat /\ (0 # 0 => 0 = 0 + 1)
  BY DEF ClearQueue
<1> QED
  BY <1>1, <1>2, EmptyQueue, OneQueueStep

LEMMA EnqueueStep ==
  ASSUME QueuesIInv, NEW p \in Players, EnqueueBuffer(p)
  PROVE  QueuesIInv'
<1>1. PICK D \in Nat, n \in Nat : D = Depth(p) /\ n = processed[p] + Len(Chain(p)) + 1
  BY QueueFacts, ChainInOrder
<1>2. PICK h, u : h = qHead[p] /\ u = (qTail[p] + 1) % BQ_SLOTS
  OBVIOUS
<1>3. /\ u # h /\ ring' = [ring EXCEPT ![p][qTail[p]] = n] /\ qTail' = [qTail EXCEPT ![p] = u]
      /\ UNCHANGED <<qHead, cur, processed>>
  BY <1>1, <1>2 DEF EnqueueBuffer
<1>4. PICK t \in 0 .. BQ_SLOTS - 1 : t = qTail[p]
  BY QueueFacts
<1>5. h \in 0 .. BQ_SLOTS - 1 /\ D = (t - h + BQ_SLOTS) % BQ_SLOTS /\ u = (t + 1) % BQ_SLOTS
      /\ BQ_SLOTS \in Nat \ {0}
  BY <1>1, <1>2, <1>4, QueueFacts
<1>6. /\ u \in 0 .. BQ_SLOTS - 1 /\ (u - h + BQ_SLOTS) % BQ_SLOTS = D + 1
      /\ (h + (D + 1) - 1) % BQ_SLOTS = t
      /\ \A i \in 1 .. D : (h + i - 1) % BQ_SLOTS \in 0 .. BQ_SLOTS - 1 /\ (h + i - 1) % BQ_SLOTS # t
  BY <1>3, <1>5, RingPushed
<1>7. PICK r : r = [ring[p] EXCEPT ![t] = n]
  OBVIOUS
<1>8. /\ r \in [0 .. BQ_SLOTS - 1 -> Nat] /\ r[t] = n
      /\ \A i \in 0 .. BQ_SLOTS - 1 : i # t => r[i] = ring[p][i]
  BY <1>7, QueueFacts
<1>9. ring' = [ring EXCEPT ![p] = r]
  BY <1>3, <1>4, <1>7 DEF QueuesIInv
<1>10. /\ qHead' = [qHead EXCEPT ![p] = h] /\ cur' = [cur EXCEPT ![p] = cur[p]]
       /\ processed' = [processed EXCEPT ![p] = processed[p]]
  BY <1>2, <1>3 DEF QueuesIInv
<1>11. n = processed[p] + Inside(p) + (D + 1)
  <2>1. PICK k \in {0, 1}, m \in Nat : k = Inside(p) /\ m = processed[p]
    BY QueueFacts
  <2>2. Len(Chain(p)) = k + D
    BY <1>1, <2>1, ChainInOrder
  <2>3. n = m + (k + D) + 1
    BY <1>1, <2>1, <2>2
  <2>4. n = m + k + (D + 1)
    BY <2>3
  <2> QED
    BY <2>1, <2>4
<1>12. ASSUME NEW i \in 1 .. D + 1
       PROVE  r[(h + i - 1) % BQ_SLOTS] = processed[p] + Inside(p) + i
  <2>1. CASE i = D + 1
    BY <1>6, <1>8, <1>11, <2>1
  <2>2. CASE i # D + 1
    <3>1. i \in 1 .. D
      BY <2>2
    <3>2. r[(h + i - 1) % BQ_SLOTS] = ring[p][(h + i - 1) % BQ_SLOTS]
      BY <1>6, <1>8, <3>1
    <3> QED
      BY <1>1, <1>2, <3>1, <3>2, QueueFacts DEF QueueInOrder
  <2> QED
    BY <2>1, <2>2
<1>13. \A i \in 1 .. (u - h + BQ_SLOTS) % BQ_SLOTS :
         r[(h + i - 1) % BQ_SLOTS] = processed[p] + (IF cur[p] = 0 THEN 0 ELSE 1) + i
  BY <1>6, <1>12 DEF Inside
<1>14. PICK c \in Nat, m \in Nat : c = cur[p] /\ m = processed[p] /\ (c # 0 => c = m + 1)
  BY QueueFacts DEF QueueInOrder
<1>15. /\ qHead' = [qHead EXCEPT ![p] = h] /\ qTail' = [qTail EXCEPT ![p] = u]
       /\ cur' = [cur EXCEPT ![p] = c] /\ processed' = [processed EXCEPT ![p] = m]
  BY <1>3, <1>10, <1>14
<1>16. \A i \in 1 .. (u - h + BQ_SLOTS) % BQ_SLOTS :
         r[(h + i - 1) % BQ_SLOTS] = m + (IF c = 0 THEN 0 ELSE 1) + i
  BY <1>13, <1>14
<1>17. h \in 0 .. BQ_SLOTS - 1 /\ u \in 0 .. BQ_SLOTS - 1 /\ r \in [0 .. BQ_SLOTS - 1 -> Nat]
  BY <1>5, <1>6, <1>8
<1> QED
  BY <1>9, <1>14, <1>15, <1>16, <1>17, OneQueueStep

\* The mixer takes "taken" buffers from the queue and has finished m in all; it
\* stands in the next one, c, or in none.
LEMMA TakenStep ==
  ASSUME QueuesIInv, NEW p \in Players, NEW taken \in 0 .. Depth(p), NEW g,
         g = (qHead[p] + taken) % BQ_SLOTS, NEW c \in Nat, NEW m \in Nat,
         c # 0 => c = m + 1,
         m + (IF c = 0 THEN 0 ELSE 1) = processed[p] + Inside(p) + taken,
         UNCHANGED <<ring, qTail>>, qHead' = [qHead EXCEPT ![p] = g],
         cur' = [cur EXCEPT ![p] = c], processed' = [processed EXCEPT ![p] = m]
  PROVE  QueuesIInv'
<1>1. PICK D \in Nat, h \in 0 .. BQ_SLOTS - 1, t \in 0 .. BQ_SLOTS - 1 :
        /\ D = Depth(p) /\ h = qHead[p] /\ t = qTail[p] /\ D = (t - h + BQ_SLOTS) % BQ_SLOTS
        /\ BQ_SLOTS \in Nat \ {0}
  BY QueueFacts
<1>2. taken \in 0 .. D /\ g = (h + taken) % BQ_SLOTS
  BY <1>1
<1>3. /\ g \in 0 .. BQ_SLOTS - 1 /\ (t - g + BQ_SLOTS) % BQ_SLOTS = D - taken
      /\ \A i \in 1 .. D - taken : (g + i - 1) % BQ_SLOTS = (h + (taken + i) - 1) % BQ_SLOTS
  <2>1. D = (t - h + BQ_SLOTS) % BQ_SLOTS
    BY <1>1
  <2>2. BQ_SLOTS \in Nat \ {0}
    BY <1>1
  <2>3. taken \in 0 .. D
    BY <1>2
  <2>4. g = (h + taken) % BQ_SLOTS
    BY <1>2
  <2>5. Popped(BQ_SLOTS, h, t, D, taken, g)
    BY <2>1, <2>2, <2>3, <2>4, RingPopped
  <2> QED
    BY <2>5 DEF Popped
<1>4. PICK r \in [0 .. BQ_SLOTS - 1 -> Nat] : r = ring[p]
  BY QueueFacts
<1>5. \A i \in 1 .. D : r[(h + i - 1) % BQ_SLOTS] = processed[p] + Inside(p) + i
  BY <1>1, <1>4, QueueFacts DEF QueueInOrder
<1>6. PICK b \in Nat : b = processed[p] + Inside(p)
  <2>1. PICK n \in Nat, e \in {0, 1} : n = processed[p] /\ e = Inside(p)
    BY QueueFacts
  <2>2. n + e \in Nat
    OBVIOUS
  <2> QED
    BY <2>1, <2>2
<1>7. ASSUME NEW i \in 1 .. D - taken
      PROVE  r[(g + i - 1) % BQ_SLOTS] = m + (IF c = 0 THEN 0 ELSE 1) + i
  <2>1. PICK j \in 1 .. D : j = taken + i
    BY <1>2
  <2>2. r[(h + j - 1) % BQ_SLOTS] = b + j
    BY <1>5, <1>6
  <2>3. (g + i - 1) % BQ_SLOTS = (h + j - 1) % BQ_SLOTS
    BY <1>3, <2>1
  <2>4. m + (IF c = 0 THEN 0 ELSE 1) = b + taken
    BY <1>6
  <2>5. m + (IF c = 0 THEN 0 ELSE 1) + i = b + j
    BY <1>2, <2>1, <2>4
  <2> QED
    BY <2>2, <2>3, <2>5
<1>8. \A i \in 1 .. (t - g + BQ_SLOTS) % BQ_SLOTS :
        r[(g + i - 1) % BQ_SLOTS] = m + (IF c = 0 THEN 0 ELSE 1) + i
  BY <1>3, <1>7
<1>9. ring' = [ring EXCEPT ![p] = r] /\ qTail' = [qTail EXCEPT ![p] = t]
  BY <1>1, <1>4 DEF QueuesIInv
<1>10. g \in 0 .. BQ_SLOTS - 1
  BY <1>3
<1> QED
  BY <1>8, <1>9, <1>10, OneQueueStep

LEMMA PlayStep ==
  ASSUME QueuesIInv, NEW p \in Players, NEW k \in 0 .. Len(Chain(p)), Play(p, k)
  PROVE  QueuesIInv'
<1>1. PICK D \in Nat, b \in Nat, e \in {0, 1} : D = Depth(p) /\ b = processed[p] /\ e = Inside(p)
  BY QueueFacts
<1>2. Len(Chain(p)) = e + D /\ \A i \in 1 .. e + D : Chain(p)[i] = b + i
  BY <1>1, ChainInOrder
<1>3. PICK c : c = IF k < Len(Chain(p)) THEN Chain(p)[k + 1] ELSE 0
  OBVIOUS
<1>4. PICK taken : taken = k + (IF c = 0 THEN 0 ELSE 1) - (IF cur[p] = 0 THEN 0 ELSE 1)
  OBVIOUS
<1>5. /\ cur' = [cur EXCEPT ![p] = c]
      /\ qHead' = [qHead EXCEPT ![p] = (@ + taken) % BQ_SLOTS]
      /\ processed' = [processed EXCEPT ![p] = @ + k] /\ UNCHANGED <<ring, qTail>>
  BY <1>3, <1>4 DEF Play
<1>6. c = IF k < e + D THEN b + (k + 1) ELSE 0
  BY <1>2, <1>3
<1>7. taken = k + (IF c = 0 THEN 0 ELSE 1) - e
  BY <1>1, <1>4 DEF Inside
<1>8. k \in 0 .. e + D
  BY <1>2
<1>9. c \in Nat /\ b + k \in Nat /\ (c # 0 => c = b + k + 1) /\ taken \in 0 .. D
      /\ b + k + (IF c = 0 THEN 0 ELSE 1) = b + e + taken
  BY <1>6, <1>7, <1>8
<1>10. PICK m \in Nat : m = b + k
  BY <1>9
<1>11. PICK g : g = (qHead[p] + taken) % BQ_SLOTS
  OBVIOUS
<1>12. /\ qHead' = [qHead EXCEPT ![p] = g] /\ processed' = [processed EXCEPT ![p] = m]
  BY <1>1, <1>5, <1>10, <1>11 DEF QueuesIInv
<1>13. taken \in 0 .. Depth(p) /\ c \in Nat /\ (c # 0 => c = m + 1)
       /\ m + (IF c = 0 THEN 0 ELSE 1) = processed[p] + Inside(p) + taken
  BY <1>1, <1>9, <1>10
<1> QED
  BY <1>5, <1>11, <1>12, <1>13, TakenStep

LEMMA MixUntilCallbackStep ==
  ASSUME QueuesIInv, snapshot \in Seq(Players), MixUntilCallback
  PROVE  QueuesIInv'
<1>1. PICK p : p = Head(snapshot)
  OBVIOUS
<1>2. /\ p \in Players /\ Chain(p) # <<>> /\ cur' = [cur EXCEPT ![p] = 0]
      /\ qHead' = [qHead EXCEPT ![p] = IF cur[p] = 0 THEN (@ + 1) % BQ_SLOTS ELSE @]
      /\ processed' = [processed EXCEPT ![p] = @ + 1] /\ UNCHANGED <<ring, qTail>>
  BY <1>1 DEF MixUntilCallback
<1>3. PICK D \in Nat, b \in Nat, e \in {0, 1} : D = Depth(p) /\ b = processed[p] /\ e = Inside(p)
  BY <1>2, QueueFacts
<1>4. e + D # 0
  <2>1. Len(Chain(p)) = e + D /\ DOMAIN Chain(p) = 1 .. e + D
    BY <1>2, <1>3, ChainInOrder
  <2>2. Chain(p) = (IF cur[p] = 0 THEN <<>> ELSE <<cur[p]>>)
                   \o [i \in 1 .. D |-> ring[p][(qHead[p] + i - 1) % BQ_SLOTS]]
    BY <1>3 DEF Chain
  <2>3. ASSUME e = 0, D = 0 PROVE FALSE
    <3>1. cur[p] = 0
      BY <1>3, <2>3 DEF Inside
    <3>2. [i \in 1 .. D |-> ring[p][(qHead[p] + i - 1) % BQ_SLOTS]] = <<>>
      BY <2>3
    <3>3. Chain(p) = <<>> \o <<>>
      BY <2>2, <3>1, <3>2
    <3> QED
      BY <1>2, <3>3
  <2> QED
    BY <1>3, <2>3
<1>5. PICK taken : taken = 1 - e
  OBVIOUS
<1>6. PICK g : g = (qHead[p] + taken) % BQ_SLOTS
  OBVIOUS
<1>7. taken \in 0 .. Depth(p) /\ b + 1 = processed[p] + Inside(p) + taken /\ b + 1 \in Nat
  BY <1>3, <1>4, <1>5
<1>8. qHead' = [qHead EXCEPT ![p] = g]
  <2>1. CASE cur[p] = 0
    BY <1>2, <1>3, <1>5, <1>6, <2>1 DEF QueuesIInv, Inside
  <2>2. CASE cur[p] # 0
    <3>1. PICK h \in 0 .. BQ_SLOTS - 1 : h = qHead[p] /\ BQ_SLOTS \in Nat \ {0}
      BY <1>2, QueueFacts
    <3>a. taken = 0
      BY <1>3, <1>5, <2>2 DEF Inside
    <3>b. h % BQ_SLOTS = h
      BY <3>1
    <3>2. taken = 0 /\ g = h
      BY <1>6, <3>1, <3>a, <3>b
    <3> QED
      BY <1>2, <2>2, <3>1, <3>2 DEF QueuesIInv
  <2> QED
    BY <2>1, <2>2
<1>9. PICK m \in Nat, c \in Nat : m = b + 1 /\ c = 0
  BY <1>7
<1>10. /\ processed' = [processed EXCEPT ![p] = m] /\ cur' = [cur EXCEPT ![p] = c]
       /\ (c # 0 => c = m + 1)
       /\ m + (IF c = 0 THEN 0 ELSE 1) = processed[p] + Inside(p) + taken
  BY <1>2, <1>3, <1>7, <1>9 DEF QueuesIInv
<1>11. UNCHANGED <<ring, qTail>>
  BY <1>2
<1>12. p \in Players /\ taken \in 0 .. Depth(p)
  BY <1>2, <1>7
<1> QED
  BY <1>6, <1>8, <1>10, <1>11, <1>12, TakenStep

LEMMA QueuesInitial == AudioInit => QueuesIInv
<1> SUFFICES ASSUME AudioInit PROVE QueuesIInv
  OBVIOUS
<1>1. /\ ring = [p \in Players |-> EmptyRing] /\ qHead = [p \in Players |-> 0]
      /\ qTail = [p \in Players |-> 0] /\ cur = [p \in Players |-> 0]
      /\ processed = [p \in Players |-> 0]
  BY DEF AudioInit
<1>2. ASSUME NEW p \in Players PROVE QueueInOrder(p)
  <2>1. Depth(p) = 0 /\ cur[p] = 0
    BY <1>1, EmptyQueue DEF Depth
  <2> QED
    BY <2>1 DEF QueueInOrder
<1> QED
  BY <1>1, <1>2, EmptyQueue DEF QueuesIInv

LEMMA QueuesStep ==
  ASSUME QueuesIInv, snapshot \in Seq(Players), [AudioNext]_audioVars
  PROVE  QueuesIInv'
<1>1. ASSUME UNCHANGED queueVars PROVE QueuesIInv'
  BY <1>1 DEF queueVars, QueuesIInv, QueueInOrder, Inside, Depth
<1>2. ASSUME NEW p \in Players, CreatePlayer(p) \/ Clear(p) \/ DestroyPlayer(p) PROVE QueuesIInv'
  <2>1. ClearQueue(p)
    BY <1>2 DEF CreatePlayer, Clear, DestroyPlayer
  <2> QED
    BY <2>1, ClearQueueStep
<1>3. ASSUME NEW p \in Players, EnqueueBuffer(p) PROVE QueuesIInv'
  BY <1>3, EnqueueStep
<1>4. ASSUME NEW p \in Players,
             RegisterPlayer(p) \/ RegisterCallback(p) \/ \E play \in BOOLEAN : SetPlayState(p, play)
      PROVE  QueuesIInv'
  <2>1. UNCHANGED queueVars
    BY <1>4 DEF RegisterPlayer, RegisterCallback, SetPlayState
  <2> QED
    BY <1>1, <2>1
<1>5. CASE TakeSnapshot \/ MixIdle \/ ShutdownBegin \/ CloseDevice \/ ShutdownEnd
  <2>1. UNCHANGED queueVars
    BY <1>5 DEF TakeSnapshot, MixIdle, ShutdownBegin, CloseDevice, ShutdownEnd
  <2> QED
    BY <1>1, <2>1
<1>6. CASE MixBlock
  <2>1. PICK p \in Players : \E k \in IF p \in hasCb THEN {0} ELSE 0 .. Len(Chain(p)) : Play(p, k)
    BY <1>6 DEF MixBlock
  <2>2. Len(Chain(p)) \in Nat
    BY QueueFacts, ChainInOrder
  <2>3. PICK k \in 0 .. Len(Chain(p)) : Play(p, k)
    BY <2>1, <2>2
  <2> QED
    BY <2>3, PlayStep
<1>7. CASE MixUntilCallback
  BY <1>7, MixUntilCallbackStep
<1>8. CASE UNCHANGED audioVars
  BY <1>1, <1>8 DEF audioVars
<1> QED
  BY <1>2, <1>3, <1>4, <1>5, <1>6, <1>7, <1>8 DEF AudioNext

\* References.
LEMMA PlayersInitial == AudioInit => PlayersIInv
<1> SUFFICES ASSUME AudioInit PROVE PlayersIInv
  OBVIOUS
<1>1. /\ refs = [p \in Players |-> 0] /\ doomed = {} /\ making = {} /\ gPlayers = <<>>
      /\ snapshot = <<>>
  BY DEF AudioInit
<1> QED
  BY <1>1 DEF PlayersIInv, IsRegistered, IsPinned

LEMMA RegisteredMeans ==
  ASSUME NEW p \in Players
  PROVE  p \in Registered <=> IsRegistered(p)
BY AudioAssumption DEF Registered, IsRegistered

LEMMA PlayersStay ==
  ASSUME PlayersIInv, UNCHANGED <<refs, doomed, gPlayers, making, snapshot>>
  PROVE  PlayersIInv'
BY DEF PlayersIInv, IsRegistered, IsPinned

LEMMA CreatePlayerStep ==
  ASSUME PlayersIInv, NEW p \in Players, CreatePlayer(p)
  PROVE  PlayersIInv'
<1>1. /\ refs[p] = 0 /\ refs' = [refs EXCEPT ![p] = 1] /\ making' = making \union {p}
      /\ UNCHANGED <<doomed, gPlayers, snapshot>>
  BY DEF CreatePlayer
<1>2. ~IsPinned(p) /\ ~IsRegistered(p) /\ p \notin making /\ p \notin doomed
  BY <1>1 DEF PlayersIInv
<1>3. \A q \in Players : /\ IsPinned(q)' <=> IsPinned(q) 
                         /\ IsRegistered(q)' <=> IsRegistered(q)
  BY <1>1 DEF IsPinned, IsRegistered
<1>4. /\ refs' = [q \in Players |-> refs'[q]]
      /\ \A q \in Players : refs'[q] = IF q = p THEN 1 ELSE refs[q]
  BY <1>1 DEF PlayersIInv
<1> QED
  BY <1>1, <1>2, <1>3, <1>4 DEF PlayersIInv

LEMMA LeastSlot ==
  ASSUME NEW S, S \subseteq Nat, S # {}
  PROVE  \E i \in S : \A j \in S : i <= j
<1> DEFINE R == OpToRel(<, Nat)
<1>1. IsWellFoundedOn(R, Nat)
  BY NatLessThanWellFounded
<1>2. \A x, y \in Nat : <<y, x>> \in R <=> y < x
  BY DEF OpToRel
<1> HIDE DEF R
<1>3. \E x \in S : \A y \in S : ~ (<<y, x>> \in R)
  BY <1>1, WFMin
<1>4. PICK x \in S : \A y \in S : ~ (<<y, x>> \in R)
  BY <1>3
<1>5. \A y \in S : x \in Nat /\ y \in Nat /\ ~ (y < x)
  BY <1>2, <1>4
<1> QED
  BY <1>5

\* A player gets a slot of its own, or goes again.
LEMMA RegisterPlayerStep ==
  ASSUME PlayersIInv, NEW p \in Players, RegisterPlayer(p)
  PROVE  PlayersIInv'
<1>1. p \in making /\ making' = making \ {p} /\ UNCHANGED <<doomed, snapshot>>
  BY DEF RegisterPlayer
<1>2. ~IsPinned(p) /\ ~IsRegistered(p) /\ p \notin doomed /\ refs[p] = 1
  BY <1>1 DEF PlayersIInv
<1>3. \A q \in Players : IsPinned(q)' <=> IsPinned(q)
  BY <1>1 DEF IsPinned
<1>4. CASE FreeSlots = {}
  <2>1. refs' = [refs EXCEPT ![p] = 0] /\ UNCHANGED gPlayers
    BY <1>4 DEF RegisterPlayer
  <2>2. \A q \in Players : IsRegistered(q)' <=> IsRegistered(q)
    BY <2>1 DEF IsRegistered
  <2>3. /\ refs' = [q \in Players |-> refs'[q]]
        /\ \A q \in Players : refs'[q] = IF q = p THEN 0 ELSE refs[q]
    BY <2>1 DEF PlayersIInv
  <2> QED
    BY <1>1, <1>2, <1>3, <2>1, <2>2, <2>3 DEF PlayersIInv
<1>5. CASE FreeSlots # {}
  <2>1. PICK slot : slot = CHOOSE i \in FreeSlots : \A j \in FreeSlots : i <= j
    OBVIOUS
  <2>2. FreeSlots \subseteq Nat
    BY AudioAssumption DEF FreeSlots
  <2>3. slot \in FreeSlots
    BY <1>5, <2>1, <2>2, LeastSlot
  <2>4. /\ gPlayers' = IF slot > Len(gPlayers) THEN Append(gPlayers, p)
                       ELSE [gPlayers EXCEPT ![slot] = p]
        /\ UNCHANGED refs
    BY <1>5, <2>1 DEF RegisterPlayer
  <2>5. gPlayers \in Seq(Players \union {NoPlayer}) /\ slot \in Nat /\ slot > 0
        /\ (slot > Len(gPlayers) \/ gPlayers[slot] = NoPlayer)
    BY <2>2, <2>3, AudioAssumption DEF FreeSlots, PlayersIInv
  <2>6. PICK s : /\ s \in DOMAIN gPlayers' /\ gPlayers'[s] = p
                 /\ s \notin DOMAIN gPlayers \/ gPlayers[s] = NoPlayer
                 /\ gPlayers' \in Seq(Players \union {NoPlayer})
                 /\ DOMAIN gPlayers' = DOMAIN gPlayers \union {s}
                 /\ \A i \in DOMAIN gPlayers : i # s => gPlayers'[i] = gPlayers[i]
    <3>1. CASE slot > Len(gPlayers)
      <4>1. gPlayers' = Append(gPlayers, p)
        BY <2>4, <3>1
      <4>2. /\ Len(gPlayers) + 1 \in DOMAIN gPlayers' /\ gPlayers'[Len(gPlayers) + 1] = p
            /\ Len(gPlayers) + 1 \notin DOMAIN gPlayers
            /\ gPlayers' \in Seq(Players \union {NoPlayer})
            /\ DOMAIN gPlayers' = DOMAIN gPlayers \union {Len(gPlayers) + 1}
            /\ \A i \in DOMAIN gPlayers : gPlayers'[i] = gPlayers[i]
        BY <2>5, <4>1
      <4> QED
        BY <4>2
    <3>2. CASE ~(slot > Len(gPlayers))
      <4>1. gPlayers' = [gPlayers EXCEPT ![slot] = p]
        BY <2>4, <3>2
      <4>2. slot \in DOMAIN gPlayers /\ gPlayers[slot] = NoPlayer
        BY <2>5, <3>2
      <4>3. /\ gPlayers'[slot] = p /\ gPlayers' \in Seq(Players \union {NoPlayer})
            /\ DOMAIN gPlayers' = DOMAIN gPlayers
            /\ \A i \in DOMAIN gPlayers : i # slot => gPlayers'[i] = gPlayers[i]
        BY <2>5, <4>1, <4>2
      <4> QED
        BY <4>2, <4>3
    <3> QED
      BY <3>1, <3>2
  <2>7. IsRegistered(p)' /\ \A q \in Players : q # p => (IsRegistered(q)' <=> IsRegistered(q))
    BY <2>6, AudioAssumption DEF IsRegistered
  <2>8. \A i, j \in DOMAIN gPlayers' : gPlayers'[i] = gPlayers'[j] /\ gPlayers'[i] # NoPlayer => i = j
    BY <1>2, <2>6 DEF PlayersIInv, IsRegistered
  <2> QED
    BY <1>1, <1>2, <1>3, <2>4, <2>6, <2>7, <2>8 DEF PlayersIInv
<1> QED
  BY <1>4, <1>5

LEMMA DestroyPlayerStep ==
  ASSUME PlayersIInv, NEW p \in Players, DestroyPlayer(p)
  PROVE  PlayersIInv'
<1>1. /\ p \in Registered /\ p \notin doomed
      /\ gPlayers' = [i \in DOMAIN gPlayers |-> IF gPlayers[i] = p THEN NoPlayer ELSE gPlayers[i]]
      /\ refs' = [refs EXCEPT ![p] = refs[p] - 1]
      /\ doomed' = IF refs[p] - 1 = 0 THEN doomed \ {p} ELSE doomed \union {p}
      /\ UNCHANGED <<making, snapshot>>
  BY DEF DestroyPlayer, Callable, Dropped, PlayersIInv
<1>2. IsRegistered(p) /\ p \notin making /\ refs[p] = (IF IsPinned(p) THEN 1 ELSE 0) + 1
  BY <1>1, RegisteredMeans DEF PlayersIInv
<1>3. \A q \in Players : IsPinned(q)' <=> IsPinned(q)
  BY <1>1 DEF IsPinned
<1>4. gPlayers' \in Seq(Players \union {NoPlayer}) /\ DOMAIN gPlayers' = DOMAIN gPlayers
  BY <1>1 DEF PlayersIInv
<1>5. ~IsRegistered(p)' /\ \A q \in Players : q # p => (IsRegistered(q)' <=> IsRegistered(q))
  BY <1>1, <1>4, AudioAssumption DEF IsRegistered
<1>6. \A i, j \in DOMAIN gPlayers' : gPlayers'[i] = gPlayers'[j] /\ gPlayers'[i] # NoPlayer => i = j
  BY <1>1, <1>4 DEF PlayersIInv
<1>7. /\ refs' = [q \in Players |-> refs'[q]]
      /\ \A q \in Players : refs'[q] = IF q = p THEN refs[p] - 1 ELSE refs[q]
  BY <1>1 DEF PlayersIInv
<1>8. refs'[p] = (IF IsPinned(p) THEN 1 ELSE 0) /\ (p \in doomed' <=> IsPinned(p))
      /\ \A q \in Players : q # p => (q \in doomed' <=> q \in doomed)
  BY <1>1, <1>2, <1>7
<1>9. doomed' \subseteq Players
  BY <1>1 DEF PlayersIInv
<1>10. ASSUME NEW q \in Players
       PROVE  /\ q \in making' => ~IsRegistered(q)' /\ ~IsPinned(q)'
              /\ q \in doomed' => ~IsRegistered(q)' /\ q \notin making' /\ IsPinned(q)'
              /\ refs'[q] = (IF IsPinned(q)' THEN 1 ELSE 0)
                            + (IF IsRegistered(q)' \/ q \in making' THEN 1 ELSE 0)
  <2>1. CASE q = p
    BY <1>1, <1>2, <1>3, <1>5, <1>8, <2>1
  <2>2. CASE q # p
    BY <1>1, <1>3, <1>5, <1>7, <1>8, <2>2 DEF PlayersIInv
  <2> QED
    BY <2>1, <2>2
<1>11. making' \subseteq Players /\ snapshot' \in Seq(Players)
       /\ \A i, j \in DOMAIN snapshot' : snapshot'[i] = snapshot'[j] => i = j
  BY <1>1 DEF PlayersIInv
<1> QED
  BY <1>4, <1>6, <1>7, <1>9, <1>10, <1>11 DEF PlayersIInv

\* The audio thread pins the registered players, each once.
LEMMA TakeSnapshotStep ==
  ASSUME PlayersIInv, TakeSnapshot
  PROVE  PlayersIInv'
<1>1. /\ snapshot = <<>> /\ UNCHANGED <<doomed, gPlayers, making>>
      /\ refs' = [p \in Players |-> IF p \in Retained THEN refs[p] + 1 ELSE refs[p]]
      /\ \E n \in 1 .. Len(gPlayers) : \E chosen \in [1 .. n -> Retained] :
           /\ \A p \in Retained : \E i \in 1 .. n : chosen[i] = p
           /\ InSlotOrder(chosen) /\ snapshot' = chosen
  BY DEF TakeSnapshot
<1>2. PICK n \in Nat : /\ snapshot' \in [1 .. n -> Retained] /\ InSlotOrder(snapshot')
                       /\ \A p \in Retained : \E i \in 1 .. n : snapshot'[i] = p
  BY <1>1 DEF PlayersIInv
<1>3. \A p \in Players : p \in Retained <=> IsRegistered(p)
  BY RegisteredMeans DEF Retained, PlayersIInv
<1>4. Retained \subseteq Players
  BY AudioAssumption DEF Retained, Registered, PlayersIInv
<1>5. snapshot' \in Seq(Players) /\ DOMAIN snapshot' = 1 .. n
  BY <1>2, <1>4
<1>6. ASSUME NEW i \in DOMAIN snapshot', NEW j \in DOMAIN snapshot', i < j
      PROVE  snapshot'[i] # snapshot'[j]
  <2>1. PICK k \in DOMAIN gPlayers, l \in DOMAIN gPlayers :
          k < l /\ gPlayers[k] = snapshot'[i] /\ gPlayers[l] = snapshot'[j]
    BY <1>2, <1>6 DEF InSlotOrder
  <2>2. gPlayers[k] # NoPlayer
    BY <1>4, <1>5, <2>1, <1>6, AudioAssumption
  <2>3. k # l
    <3>1. k \in Nat /\ l \in Nat
      BY DEF PlayersIInv
    <3> QED
      BY <2>1, <3>1
  <2> QED
    BY <2>1, <2>2, <2>3 DEF PlayersIInv
<1>7. \A i, j \in DOMAIN snapshot' : snapshot'[i] = snapshot'[j] => i = j
  BY <1>5, <1>6
<1>8. ASSUME NEW p \in Players
      PROVE  /\ ~IsPinned(p) /\ (IsPinned(p)' <=> IsRegistered(p))
             /\ (IsRegistered(p)' <=> IsRegistered(p))
  <2>1. ~IsPinned(p)
    BY <1>1 DEF IsPinned
  <2>2. IsPinned(p)' <=> \E i \in 1 .. n : snapshot'[i] = p
    BY <1>5 DEF IsPinned
  <2>3. (\E i \in 1 .. n : snapshot'[i] = p) <=> p \in Retained
    BY <1>2
  <2>4. IsRegistered(p)' <=> IsRegistered(p)
    BY <1>1 DEF IsRegistered
  <2> QED
    BY <1>3, <2>1, <2>2, <2>3, <2>4
<1>9. /\ refs' = [p \in Players |-> refs'[p]]
      /\ \A p \in Players : refs'[p] = IF IsRegistered(p) THEN refs[p] + 1 ELSE refs[p]
  BY <1>1, <1>3
<1>10. ASSUME NEW p \in Players
       PROVE  /\ p \in making' => ~IsRegistered(p)' /\ ~IsPinned(p)'
              /\ p \in doomed' => ~IsRegistered(p)' /\ p \notin making' /\ IsPinned(p)'
              /\ refs'[p] = (IF IsPinned(p)' THEN 1 ELSE 0)
                            + (IF IsRegistered(p)' \/ p \in making' THEN 1 ELSE 0)
  BY <1>1, <1>8, <1>9 DEF PlayersIInv
<1> QED
  BY <1>1, <1>5, <1>7, <1>9, <1>10 DEF PlayersIInv

\* The mixer is done with the first player of the snapshot.
LEMMA UnpinStep ==
  ASSUME PlayersIInv, snapshot # <<>>, NEW p, p = Head(snapshot), Unpin(p)
  PROVE  PlayersIInv'
<1>1. /\ snapshot' = Tail(snapshot) /\ refs' = [refs EXCEPT ![p] = refs[p] - 1]
      /\ doomed' = IF p \in doomed /\ refs[p] - 1 = 0 THEN doomed \ {p} ELSE doomed
      /\ UNCHANGED <<gPlayers, making>>
  BY DEF Unpin, Dropped
<1>2. snapshot \in Seq(Players) /\ p \in Players /\ p = snapshot[1] /\ 1 \in DOMAIN snapshot
  BY DEF PlayersIInv
<1>3. /\ snapshot' \in Seq(Players)
      /\ \A i \in DOMAIN snapshot' : i + 1 \in DOMAIN snapshot /\ snapshot'[i] = snapshot[i + 1]
                                     /\ i + 1 # 1
      /\ \A i \in DOMAIN snapshot : i # 1 => i - 1 \in DOMAIN snapshot' /\ snapshot'[i - 1] = snapshot[i]
  BY <1>1, <1>2
<1>4. \A i, j \in DOMAIN snapshot' : snapshot'[i] = snapshot'[j] => i = j
  <2>1. \A i, j \in DOMAIN snapshot : snapshot[i] = snapshot[j] => i = j
    BY DEF PlayersIInv
  <2>2. ASSUME NEW i \in DOMAIN snapshot', NEW j \in DOMAIN snapshot', snapshot'[i] = snapshot'[j]
        PROVE  i = j
    <3>1. i + 1 = j + 1 /\ i \in Nat /\ j \in Nat
      BY <1>3, <2>1, <2>2
    <3> QED
      BY <3>1
  <2> QED
    BY <2>2
<1>5. IsPinned(p) /\ ~IsPinned(p)'
  <2>1. \A i \in DOMAIN snapshot' : snapshot'[i] # p
    BY <1>2, <1>3 DEF PlayersIInv
  <2> QED
    BY <1>2, <2>1 DEF IsPinned
<1>6. ASSUME NEW q \in Players, q # p PROVE IsPinned(q)' <=> IsPinned(q)
  BY <1>2, <1>3, <1>6 DEF IsPinned
<1>7. \A q \in Players : IsRegistered(q)' <=> IsRegistered(q)
  BY <1>1 DEF IsRegistered
<1>8. /\ refs' = [q \in Players |-> refs'[q]]
      /\ \A q \in Players : refs'[q] = IF q = p THEN refs[p] - 1 ELSE refs[q]
  BY <1>1, <1>2 DEF PlayersIInv
<1>9. refs[p] = 1 + (IF IsRegistered(p) \/ p \in making THEN 1 ELSE 0) /\ p \notin making
      /\ (p \in doomed => ~IsRegistered(p)) /\ doomed \subseteq Players
  BY <1>2, <1>5 DEF PlayersIInv
<1>10. p \notin doomed' /\ doomed' \subseteq doomed /\ \A q \in doomed : q # p => q \in doomed'
  BY <1>1, <1>9
<1>11. ASSUME NEW q \in Players
       PROVE  /\ q \in making' => ~IsRegistered(q)' /\ ~IsPinned(q)'
              /\ q \in doomed' => ~IsRegistered(q)' /\ q \notin making' /\ IsPinned(q)'
              /\ refs'[q] = (IF IsPinned(q)' THEN 1 ELSE 0)
                            + (IF IsRegistered(q)' \/ q \in making' THEN 1 ELSE 0)
  <2>1. CASE q = p
    BY <1>1, <1>5, <1>7, <1>8, <1>9, <1>10, <2>1
  <2>2. CASE q # p
    BY <1>1, <1>6, <1>7, <1>8, <1>10, <2>2 DEF PlayersIInv
  <2> QED
    BY <2>1, <2>2
<1>12. /\ gPlayers' \in Seq(Players \union {NoPlayer}) /\ making' \subseteq Players
       /\ doomed' \subseteq Players
       /\ \A i, j \in DOMAIN gPlayers' :
            gPlayers'[i] = gPlayers'[j] /\ gPlayers'[i] # NoPlayer => i = j
  BY <1>1, <1>9, <1>10 DEF PlayersIInv
<1> QED
  BY <1>3, <1>4, <1>8, <1>11, <1>12 DEF PlayersIInv

LEMMA PlayersStep ==
  ASSUME PlayersIInv, [AudioNext]_audioVars
  PROVE  PlayersIInv'
<1>1. ASSUME NEW p \in Players, CreatePlayer(p) \/ RegisterPlayer(p) \/ DestroyPlayer(p)
      PROVE  PlayersIInv'
  BY <1>1, CreatePlayerStep, RegisterPlayerStep, DestroyPlayerStep
<1>2. ASSUME NEW p \in Players,
             EnqueueBuffer(p) \/ Clear(p) \/ RegisterCallback(p)
               \/ \E play \in BOOLEAN : SetPlayState(p, play)
      PROVE  PlayersIInv'
  <2>1. UNCHANGED <<refs, doomed, gPlayers, making, snapshot>>
    BY <1>2 DEF EnqueueBuffer, Clear, RegisterCallback, SetPlayState
  <2> QED
    BY <2>1, PlayersStay
<1>3. CASE TakeSnapshot
  BY <1>3, TakeSnapshotStep
<1>4. CASE MixIdle \/ MixBlock
  <2>1. PICK p : p = Head(snapshot)
    OBVIOUS
  <2>2. snapshot # <<>> /\ Unpin(p)
    BY <1>4, <2>1 DEF MixIdle, MixBlock
  <2> QED
    BY <2>1, <2>2, UnpinStep
<1>5. CASE MixUntilCallback \/ ShutdownBegin \/ CloseDevice \/ ShutdownEnd
  <2>1. UNCHANGED <<refs, doomed, gPlayers, making, snapshot>>
    BY <1>5 DEF MixUntilCallback, ShutdownBegin, CloseDevice, ShutdownEnd
  <2> QED
    BY <2>1, PlayersStay
<1>6. CASE UNCHANGED audioVars
  BY <1>6, PlayersStay DEF audioVars
<1> QED
  BY <1>1, <1>2, <1>3, <1>4, <1>5, <1>6 DEF AudioNext

AudioIInv == PlayersIInv /\ QueuesIInv /\ DevicesIInv

(* A player is kept while the game or the mixer refers to it and no longer,  *)
(* its buffers are finished once and in order, and a second device is not    *)
(* opened while the first is being closed, whatever the game calls between   *)
(* two steps of the audio thread (player_retain_locked, player_Destroy,      *)
(* mix_player, ensure_device, opensles_shutdown).                            *)
THEOREM AudioSafety == AudioSpec => []AudioSound
<1>1. AudioInit => AudioIInv
  BY PlayersInitial, QueuesInitial, DevicesInitial DEF AudioIInv
<1>2. AudioIInv /\ [AudioNext]_audioVars => AudioIInv'
  BY PlayersStep, QueuesStep, DevicesStep DEF AudioIInv, PlayersIInv
<1>3. AudioIInv => AudioSound
  <2> SUFFICES ASSUME AudioIInv PROVE AudioSound
    OBVIOUS
  <2>1. ReferencesHeld
    <3> SUFFICES ASSUME NEW p \in Players
                 PROVE  /\ refs[p] = SnapshotPins(p) + (IF p \in Registered \union making THEN 1 ELSE 0)
                        /\ p \in doomed => refs[p] > 0
      BY DEF ReferencesHeld
    <3>1. SnapshotPins(p) = IF IsPinned(p) THEN 1 ELSE 0
      BY DEF SnapshotPins, IsPinned
    <3>2. p \in Registered \union making <=> IsRegistered(p) \/ p \in making
      BY RegisteredMeans
    <3>3. /\ refs[p] = (IF IsPinned(p) THEN 1 ELSE 0)
                       + (IF IsRegistered(p) \/ p \in making THEN 1 ELSE 0)
          /\ p \in doomed => IsPinned(p)
      BY DEF AudioIInv, PlayersIInv
    <3> QED
      BY <3>1, <3>2, <3>3
  <2>2. BuffersInOrder
    <3>1. \A p \in Players : \A i \in DOMAIN Chain(p) : Chain(p)[i] = processed[p] + i
      BY ChainInOrder DEF AudioIInv
    <3> QED
      BY <3>1 DEF BuffersInOrder, AllocatedPlayers
  <2>3. OneDevice
    BY DeviceIsOne DEF AudioIInv
  <2> QED
    BY <2>1, <2>2, <2>3 DEF AudioSound
<1>4. AudioSpec => []AudioIInv
  BY <1>1, <1>2, PTL DEF AudioSpec
<1> QED
  BY <1>3, <1>4, PTL

(***************************************************************************)
(* 5. The frame loop.  One table says what holds at each place of the loop *)
(* and in the call it is in; only a focused bridge drains; an attempt to   *)
(* log in keeps its slot and what its next step needs.                     *)
(***************************************************************************)

LoopCalls == {"pause", "resume", "surfaceDestroyed", "surfaceCreated", "inject", "render"}

Frame == [kind : {"guest", "drain"}, call : LoopCalls \union {"none"}, left : Int, sent : Indices \union {OneWay}]

\* The stack: guest code at its bottom, drains above it, each with an event of its own.
StackShape ==
  /\ frames \in Seq(Frame)
  /\ \A k \in 1 .. Len(frames) :
       IF frames[k].kind = "guest" THEN k = Len(frames) /\ frames[k].sent = OneWay ELSE bridgeFocus
  /\ \A j, k \in 1 .. Len(frames) :
       frames[j].sent = frames[k].sent /\ frames[j].sent # OneWay => j = k

Bottom == frames[Len(frames)]

\* The call after which the loop goes on at a place.
CallBefore(place) ==
  CASE place \in {"lost", "destroySurface", "input", "shutdown"} -> "pause"
    [] place \in {"gained", "recreated", "inputEnds"} -> "resume"
    [] place \in {"geometry", "done"} -> "surfaceDestroyed"
    [] place = "recreateResume" -> "surfaceCreated"
    [] place = "render" -> "inject"
    [] place = "rendered" -> "render"
    [] OTHER -> "no call"

InCall ==
  frames # <<>> =>
    IF Bottom.kind = "guest" THEN Bottom.call = CallBefore(at) /\ Bottom.call # "no call"
    ELSE at = "login"

Active == bridgeFocus /\ unityActive /\ resumed /\ surface /\ focused
Paused == ~bridgeFocus /\ ~resumed /\ focused

Places ==
  /\ focused \in BOOLEAN /\ unityActive \in BOOLEAN /\ recreate \in BOOLEAN
  /\ resumed \in BOOLEAN /\ surface \in BOOLEAN /\ bridgeFocus \in BOOLEAN
  /\ at \in {"inject", "render", "rendered", "login", "network"} => Active
  /\ at = "focus" => surface /\ bridgeFocus = unityActive /\ resumed = unityActive /\ focused = unityActive
  /\ at = "recreate" => /\ surface /\ bridgeFocus = unityActive /\ resumed = unityActive
                        /\ focused = unityActive \/ (focused /\ recreate)
  /\ at \in {"lostPause", "lost"} => ~bridgeFocus /\ unityActive /\ surface /\ ~focused
  /\ at = "lost" => ~resumed
  /\ at = "gainedResume" => Paused /\ ~unityActive /\ surface
  /\ at = "gained" => ~bridgeFocus /\ ~unityActive /\ surface /\ focused
  /\ at \in {"recreatePause", "inputPause"} => ~bridgeFocus /\ unityActive /\ resumed /\ surface /\ focused
  /\ at = "destroySurface" => Paused /\ surface
  /\ at \in {"geometry", "createSurface"} => Paused /\ ~surface
  /\ at = "recreateResume" => Paused
  /\ at = "recreated" => ~bridgeFocus /\ surface /\ focused
  /\ at \in {"input", "geetest", "inputResume"} => Paused /\ unityActive /\ surface
  /\ at = "inputEnds" => ~bridgeFocus /\ unityActive /\ surface /\ focused
  /\ frames = <<>> /\ at \in {"gained", "recreated", "inputEnds"} => resumed
  /\ frames = <<>> /\ at = "recreateResume" => surface
  /\ at \in {"leaving", "shutdown", "lastSurface", "done", "exited", "fatal"} => ~bridgeFocus
  /\ at \in {"lastSurface", "done", "exited"} => ~accepting
  /\ at \notin {"lastSurface", "done", "exited"} => accepting
  /\ at = "geetest" => frames = <<>>

LoopShape == InCall /\ Places

QueueShape ==
  /\ asked \in [Indices -> {"free", "login_login", "other"}]
  /\ events \in Seq(Indices) /\ answered \subseteq Indices
  /\ \A j, k \in DOMAIN events : events[j] = events[k] => j = k
  /\ AnsweredOnce

Verifying == {"VERIFIER_INFO_QUEUED", "VERIFIER_METHOD_QUEUED", "VERIFIER_CAPTCHA_QUEUED",
              "VERIFIER_INPUT_QUEUED", "VERIFIER_VERIFY_QUEUED"}
Captcha   == {"GEETEST_QUEUED", "GEETEST_RUNNING"}
Phases    == Terminal \union Verifying \union Captcha
               \union {"PREFLIGHT_QUEUED", "INPUT_QUEUED", "PASSPORT_QUEUED", "COMBO_QUEUED"}

\* What an attempt holds in each phase: the needs of this step, and of the later ones.
HeldShape ==
  /\ phase \in Terminal \union {"PREFLIGHT_QUEUED", "INPUT_QUEUED"} => held = {}
  /\ phase \in Verifying \union Captcha \union {"PASSPORT_QUEUED"} => LoginText \subseteq held
  /\ phase \in Verifying \union {"PASSPORT_QUEUED"} => ("aigisRetry" \in held => "aigisResult" \in held)
  /\ phase \in Verifying => {"verify", "ticket"} \subseteq held
  /\ phase = "PASSPORT_QUEUED" => ("verifyRetry" \in held => "verify" \in held)
  /\ phase \in Captcha => "aigisParams" \in held /\ "verifyRetry" \notin held
  /\ phase = "COMBO_QUEUED" => "token" \in held
  /\ phase = "VERIFIER_CAPTCHA_QUEUED" => method = "code"
  /\ phase \in {"VERIFIER_INPUT_QUEUED", "VERIFIER_VERIFY_QUEUED"} => method # "none"
  /\ phase = "VERIFIER_VERIFY_QUEUED" => "factor" \in held

\* The login under way has its slot and no answer yet; every other that was
\* accepted, and found room when it ended, is answered until Unity has the answer.
OwedShape ==
  /\ owed \subseteq Indices
  /\ phase \notin Terminal =>
       index \in owed /\ asked[index] = "login_login" /\ index \notin answered
  /\ \A j \in owed :
       asked[j] = "login_login" => j \in answered \/ (phase \notin Terminal /\ j = index)

LoginShape ==
  /\ phase \in Phases /\ held \subseteq AttemptSecrets
  /\ phase = "GEETEST_RUNNING" <=> at = "geetest"
  /\ accepting => HeldShape /\ OwedShape

FrameIInv == StackShape /\ LoopShape /\ QueueShape /\ LoginShape

-----------------------------------------------------------------------------
LEMMA Frames ==
  ASSUME NEW c \in LoopCalls PROVE Guest(c) \in Frame /\ Guest(c).kind = "guest" /\ Guest(c).call = c /\ Guest(c).sent = OneWay
BY DEF Guest, Frame, OneWay

\* The stack is empty, or holds a call of the loop alone.
Calm == frames = <<>> \/ \E c \in LoopCalls : frames = <<Guest(c)>>

LEMMA CalmStack == Calm => Sent = {} /\ StackShape
<1>1. ASSUME frames = <<>> PROVE Sent = {} /\ StackShape
  BY <1>1 DEF Sent, StackShape
<1>2. ASSUME NEW c \in LoopCalls, frames = <<Guest(c)>> PROVE Sent = {} /\ StackShape
  <2>1. /\ frames \in Seq(Frame) /\ Len(frames) = 1 /\ DOMAIN frames = 1 .. 1
        /\ frames[1].kind = "guest" /\ frames[1].sent = OneWay
    BY <1>2, Frames
  <2> QED
    BY <2>1 DEF Sent, StackShape
<1> QED
  BY <1>1, <1>2 DEF Calm

LEMMA CalmNext == Calm' => (Sent = {})' /\ StackShape'
BY CalmStack, PTL

LEMMA FrameInitial == FrameInit => FrameIInv
<1> SUFFICES ASSUME FrameInit PROVE FrameIInv
  OBVIOUS
<1>1. /\ asked = [i \in Indices |-> "free"] /\ answered = {} /\ events = <<>> /\ frames = <<>>
      /\ phase = "IDLE" /\ held = {} /\ owed = {} /\ at = "focus"
  BY DEF FrameInit, QueueInit, LoginInit
<1>2. StackShape /\ Sent = {}
  BY <1>1, CalmStack DEF Calm
<1>3. LoopShape
  BY <1>1 DEF FrameInit, QueueInit, LoopShape, Places, InCall
<1>4. QueueShape
  <2>1. Queued = {} /\ Cardinality({}) = 0 /\ Len(events) = 0
    BY <1>1, FS_EmptySet DEF Queued
  <2>2. AnsweredOnce
    <3>1. Cardinality(Queued) = Len(events)
      BY <2>1
    <3>2. answered = Queued \union Sent
      BY <1>1, <1>2, <2>1
    <3>3. Queued \intersect Sent = {}
      BY <2>1
    <3>4. answered \subseteq ActiveIn(asked)
      BY <1>1
    <3> QED
      BY <3>1, <3>2, <3>3, <3>4 DEF AnsweredOnce
  <2> QED
    BY <1>1, <2>2 DEF QueueShape
<1>5. LoginShape
  BY <1>1 DEF LoginShape, HeldShape, OwedShape, Terminal, Phases, Verifying, Captcha
<1> QED
  BY <1>2, <1>3, <1>4, <1>5 DEF FrameIInv

-----------------------------------------------------------------------------
(* Steps of the loop that leave the answers and the login alone.            *)

Untouched == UNCHANGED <<accepting, asked, answered, events, loginVars>>

LEMMA EnterCall ==
  ASSUME NEW c \in LoopCalls, NEW next, Enter(c, next), CallBefore(next) = c, c # "no call"
  PROVE  Calm' /\ InCall' /\ frames' # <<>>
<1>1. frames' = <<Guest(c)>> /\ at' = next
  BY DEF Enter
<1>2. Len(frames') = 1 /\ frames'[1] = Guest(c) /\ frames' # <<>>
  BY <1>1
<1>3. Calm'
  BY <1>1 DEF Calm
<1>4. InCall'
  BY <1>1, <1>2, Frames, ZenonT(30) DEF InCall, Bottom
<1> QED
  BY <1>2, <1>3, <1>4

LEMMA UntouchedKeeps ==
  ASSUME FrameIInv, Sent = {}, Calm', Untouched, LoopShape', at # "geetest", at' # "geetest"
  PROVE  FrameIInv'
<1>1. StackShape' /\ Sent = {} /\ Sent' = {}
  BY CalmNext
<1>2. QueueShape'
  BY <1>1 DEF FrameIInv, QueueShape, AnsweredOnce, Queued, Untouched
<1>3. LoginShape'
  BY DEF FrameIInv, LoginShape, HeldShape, OwedShape, Untouched, loginVars
<1> QED
  BY <1>1, <1>2, <1>3 DEF FrameIInv

\* The loop on its way, not in a call.
Strolls == SeeFocus \/ Lost \/ Gained \/ Recreate \/ Geometry \/ Recreated \/ Leave
             \/ NextAction \/ InputEnds
Calls   == LostPause \/ GainedResume \/ RecreatePause \/ DestroySurface \/ CreateSurface
             \/ RecreateResume \/ Inject \/ Render \/ InputPause \/ InputResume \/ Leaving
             \/ LastSurface

LEMMA StrollKeeps == ASSUME FrameIInv, Strolls PROVE FrameIInv'
<1>1. Places /\ LoginShape
  BY DEF FrameIInv, LoopShape
<1>2. frames = <<>> /\ frames' = <<>> /\ Untouched /\ at # "geetest" /\ at' # "geetest"
  BY DEF Strolls, SeeFocus, Lost, Gained, Recreate, Geometry, Recreated, Leave, NextAction,
         InputEnds, LoopAt, Quiet, QuietQueue, Untouched, FocusOff, SetFocus
<1>b. /\ focused \in BOOLEAN /\ unityActive \in BOOLEAN /\ recreate \in BOOLEAN
      /\ resumed \in BOOLEAN /\ surface \in BOOLEAN /\ bridgeFocus \in BOOLEAN
  BY <1>1 DEF Places
<1>c. accepting /\ accepting'
  <2>1. at \notin {"lastSurface", "done", "exited"}
    BY DEF Strolls, SeeFocus, Lost, Gained, Recreate, Geometry, Recreated, Leave, NextAction, InputEnds, LoopAt
  <2> QED
    BY <1>1, <1>2, <2>1 DEF Places, Untouched
<1>3. SeeFocus => Places'
  <2> SUFFICES ASSUME SeeFocus PROVE Places'
    OBVIOUS
  <2>1. surface /\ bridgeFocus = unityActive /\ resumed = unityActive /\ focused = unityActive
    BY <1>1 DEF SeeFocus, LoopAt, Places, Active, Paused
  <2>2. \/ at' = "recreate" /\ recreate' \in BOOLEAN /\ UNCHANGED <<focused, unityActive, resumed, surface, bridgeFocus>>
        \/ /\ at' = "lostPause" /\ ~bridgeFocus' /\ bridgeFocus' \in BOOLEAN /\ unityActive /\ focused' = FALSE
           /\ recreate' \in BOOLEAN /\ UNCHANGED <<unityActive, resumed, surface>>
        \/ /\ at' = "recreate" /\ focused' = TRUE /\ ~focused /\ recreate' = TRUE
           /\ UNCHANGED <<unityActive, resumed, surface, bridgeFocus>>
        \/ /\ at' = "gainedResume" /\ focused' = TRUE /\ ~focused /\ recreate' \in BOOLEAN
           /\ UNCHANGED <<unityActive, resumed, surface, bridgeFocus>>
    BY <1>1, <1>2, <1>b, <2>1 DEF SeeFocus, Quiet, FocusOff, SetFocus
  <2>3. CASE at' = "recreate" /\ recreate' \in BOOLEAN /\ UNCHANGED <<focused, unityActive, resumed, surface, bridgeFocus>>
    BY <1>b, <1>c, <1>2, <2>1, <2>3 DEF Places, Active, Paused
  <2>4. CASE /\ at' = "lostPause" /\ ~bridgeFocus' /\ bridgeFocus' \in BOOLEAN /\ unityActive /\ focused' = FALSE
           /\ recreate' \in BOOLEAN /\ UNCHANGED <<unityActive, resumed, surface>>
    BY <1>b, <1>c, <1>2, <2>1, <2>4 DEF Places, Active, Paused
  <2>5. CASE /\ at' = "recreate" /\ focused' = TRUE /\ ~focused /\ recreate' = TRUE
           /\ UNCHANGED <<unityActive, resumed, surface, bridgeFocus>>
    BY <1>b, <1>c, <1>2, <2>1, <2>5 DEF Places, Active, Paused
  <2>6. CASE /\ at' = "gainedResume" /\ focused' = TRUE /\ ~focused /\ recreate' \in BOOLEAN
           /\ UNCHANGED <<unityActive, resumed, surface, bridgeFocus>>
    BY <1>b, <1>c, <1>2, <2>1, <2>6 DEF Places, Active, Paused
  <2> QED
    BY <2>2, <2>3, <2>4, <2>5, <2>6
<1>4. Lost => Places'
  <2> SUFFICES ASSUME Lost PROVE Places'
    OBVIOUS
  <2>1. ~bridgeFocus /\ unityActive /\ surface /\ ~focused /\ ~resumed
    BY <1>1 DEF Lost, LoopAt, Places
  <2>2. /\ at' = "recreate" /\ unityActive' = FALSE /\ frames' = <<>>
        /\ UNCHANGED <<bridgeFocus, focused, recreate, resumed, surface>>
    BY <1>2 DEF Lost, Quiet
  <2> QED
    BY <1>b, <1>c, <2>1, <2>2 DEF Places
<1>5. Gained => Places'
  BY <1>1, <1>2 DEF Places, Gained, LoopAt, Quiet, QuietQueue, FocusOff, SetFocus, Active, Paused
<1>6. Recreate => Places'
  <2> SUFFICES ASSUME Recreate PROVE Places'
    OBVIOUS
  <2>1. surface /\ bridgeFocus = unityActive /\ resumed = unityActive /\ (focused = unityActive \/ (focused /\ recreate))
    BY <1>1 DEF Recreate, LoopAt, Places, Active, Paused
  <2>2. \/ /\ focused /\ bridgeFocus' = FALSE /\ at' = "recreatePause" /\ unityActive
           /\ UNCHANGED <<focused, unityActive, recreate, resumed, surface>>
        \/ /\ focused /\ bridgeFocus' = FALSE /\ at' = "destroySurface" /\ ~unityActive
           /\ UNCHANGED <<focused, unityActive, recreate, resumed, surface>>
        \/ /\ ~(recreate /\ focused) /\ at' = (IF focused THEN "inject" ELSE "focus")
           /\ UNCHANGED <<focused, unityActive, recreate, resumed, surface, bridgeFocus>>
    BY <1>1, <1>2, <1>b, <2>1 DEF Recreate, Quiet, Stays, FocusOff, SetFocus
  <2>3. CASE /\ focused /\ bridgeFocus' = FALSE /\ at' = "recreatePause" /\ unityActive
           /\ UNCHANGED <<focused, unityActive, recreate, resumed, surface>>
    BY <1>b, <1>c, <1>2, <2>1, <2>3 DEF Places, Active, Paused
  <2>4. CASE /\ focused /\ bridgeFocus' = FALSE /\ at' = "destroySurface" /\ ~unityActive
           /\ UNCHANGED <<focused, unityActive, recreate, resumed, surface>>
    BY <1>b, <1>c, <1>2, <2>1, <2>4 DEF Places, Active, Paused
  <2>5. CASE /\ ~(recreate /\ focused) /\ at' = (IF focused THEN "inject" ELSE "focus")
           /\ UNCHANGED <<focused, unityActive, recreate, resumed, surface, bridgeFocus>>
    BY <1>b, <1>c, <1>2, <2>1, <2>5 DEF Places, Active, Paused
  <2> QED
    BY <2>2, <2>3, <2>4, <2>5
<1>7. Geometry => Places'
  <2> SUFFICES ASSUME Geometry PROVE Places'
    OBVIOUS
  <2>1. Paused /\ ~surface
    BY <1>1 DEF Geometry, LoopAt, Places, Active, Paused
  <2>2. at' \in {"createSurface", "fatal"} /\ UNCHANGED <<focused, unityActive, recreate, resumed, surface, bridgeFocus>>
    BY <1>1, <1>2, <2>1 DEF Geometry, Quiet, Stays
  <2> QED
    BY <1>b, <1>c, <2>1, <2>2 DEF Places, Active, Paused
<1>8. Recreated => Places'
  <2> SUFFICES ASSUME Recreated PROVE Places'
    OBVIOUS
  <2>1. surface /\ focused /\ resumed
    BY <1>1 DEF Recreated, LoopAt, Places, Active, Paused
  <2>2. /\ at' = "inject" /\ unityActive' = TRUE /\ recreate' = FALSE /\ bridgeFocus' = TRUE
        /\ UNCHANGED <<focused, resumed, surface>>
    BY <1>1, <1>2, <2>1 DEF Recreated, SetFocus
  <2> QED
    BY <1>b, <1>c, <2>1, <2>2 DEF Places, Active, Paused
<1>9. Leave => Places'
  BY <1>1, <1>2, <1>c DEF Places, Leave, Stays, LoopAt, Quiet, QuietQueue, FocusOff, SetFocus, Active, Paused
<1>10. NextAction => Places'
  <2> SUFFICES ASSUME NextAction PROVE Places'
    OBVIOUS
  <2>1. Active
    BY <1>1 DEF NextAction, LoopAt, Places, Active, Paused
  <2>2. \/ at' = "inputPause" /\ bridgeFocus' = FALSE /\ UNCHANGED <<focused, unityActive, recreate, resumed, surface>>
        \/ at' \in {"network", "focus"} /\ UNCHANGED <<focused, unityActive, recreate, resumed, surface, bridgeFocus>>
    BY <1>1, <1>2, <1>b, <2>1 DEF NextAction, Stays, FocusOff, SetFocus
  <2>3. CASE at' = "inputPause" /\ bridgeFocus' = FALSE /\ UNCHANGED <<focused, unityActive, recreate, resumed, surface>>
    BY <1>b, <1>c, <1>2, <2>1, <2>3 DEF Places, Active, Paused
  <2>4. CASE at' \in {"network", "focus"} /\ UNCHANGED <<focused, unityActive, recreate, resumed, surface, bridgeFocus>>
    BY <1>b, <1>c, <1>2, <2>1, <2>4 DEF Places, Active, Paused
  <2> QED
    BY <2>2, <2>3, <2>4
<1>11. InputEnds => Places'
  BY <1>1, <1>2 DEF Places, InputEnds, Stays, LoopAt, Quiet, QuietQueue, FocusOff, SetFocus, Active, Paused
<1>12. Sent = {} /\ Calm' /\ InCall'
  BY <1>2, CalmStack DEF Calm, InCall
<1> QED
  BY <1>1, <1>2, <1>3, <1>4, <1>5, <1>6, <1>7, <1>8, <1>9, <1>10, <1>11, <1>12, UntouchedKeeps DEF Strolls, LoopShape

LEMMA CallKeeps == ASSUME FrameIInv, Calls PROVE FrameIInv'
<1>1. Places /\ LoginShape
  BY DEF FrameIInv, LoopShape
<1>2. /\ frames = <<>> /\ Untouched /\ at # "geetest" /\ at' # "geetest"
      /\ UNCHANGED <<bridgeFocus, focused, unityActive, recreate>>
  BY DEF Calls, LostPause, GainedResume, RecreatePause, DestroySurface, CreateSurface, RecreateResume,
         Inject, Render, InputPause, InputResume, Leaving, LastSurface, LoopAt, Quiet, QuietQueue,
         Untouched, Enter, Stays
<1>3. LostPause => Calm' /\ InCall' /\ Places'
  <2> SUFFICES ASSUME LostPause PROVE Calm' /\ InCall' /\ Places'
    OBVIOUS
  <2>1. Enter("pause", "lost") /\ LoopAt("lostPause")
    BY DEF LostPause
  <2>2. Calm' /\ InCall' /\ frames' # <<>>
    <3>1. CallBefore("lost") = "pause" /\ "pause" # "no call" /\ "pause" \in LoopCalls
      BY DEF CallBefore, LoopCalls
    <3> QED
      BY <2>1, <3>1, EnterCall
  <2>3. Places'
    BY <1>1, <1>2, <2>1, <2>2 DEF Places, LoopAt, Enter, Active, Paused, Untouched
  <2> QED
    BY <2>2, <2>3
<1>4. GainedResume => Calm' /\ InCall' /\ Places'
  <2> SUFFICES ASSUME GainedResume PROVE Calm' /\ InCall' /\ Places'
    OBVIOUS
  <2>1. Enter("resume", "gained") /\ LoopAt("gainedResume")
    BY DEF GainedResume
  <2>2. Calm' /\ InCall' /\ frames' # <<>>
    <3>1. CallBefore("gained") = "resume" /\ "resume" # "no call" /\ "resume" \in LoopCalls
      BY DEF CallBefore, LoopCalls
    <3> QED
      BY <2>1, <3>1, EnterCall
  <2>3. Places'
    BY <1>1, <1>2, <2>1, <2>2 DEF Places, LoopAt, Enter, Active, Paused, Untouched
  <2> QED
    BY <2>2, <2>3
<1>5. RecreatePause => Calm' /\ InCall' /\ Places'
  <2> SUFFICES ASSUME RecreatePause PROVE Calm' /\ InCall' /\ Places'
    OBVIOUS
  <2>1. Enter("pause", "destroySurface") /\ LoopAt("recreatePause")
    BY DEF RecreatePause
  <2>2. Calm' /\ InCall' /\ frames' # <<>>
    <3>1. CallBefore("destroySurface") = "pause" /\ "pause" # "no call" /\ "pause" \in LoopCalls
      BY DEF CallBefore, LoopCalls
    <3> QED
      BY <2>1, <3>1, EnterCall
  <2>3. Places'
    BY <1>1, <1>2, <2>1, <2>2 DEF Places, LoopAt, Enter, Active, Paused, Untouched
  <2> QED
    BY <2>2, <2>3
<1>6. DestroySurface => Calm' /\ InCall' /\ Places'
  <2> SUFFICES ASSUME DestroySurface PROVE Calm' /\ InCall' /\ Places'
    OBVIOUS
  <2>1. Enter("surfaceDestroyed", "geometry") /\ LoopAt("destroySurface")
    BY DEF DestroySurface
  <2>2. Calm' /\ InCall' /\ frames' # <<>>
    <3>1. CallBefore("geometry") = "surfaceDestroyed" /\ "surfaceDestroyed" # "no call" /\ "surfaceDestroyed" \in LoopCalls
      BY DEF CallBefore, LoopCalls
    <3> QED
      BY <2>1, <3>1, EnterCall
  <2>3. Places'
    BY <1>1, <1>2, <2>1, <2>2 DEF Places, LoopAt, Enter, Active, Paused, Untouched
  <2> QED
    BY <2>2, <2>3
<1>7. CreateSurface => Calm' /\ InCall' /\ Places'
  <2> SUFFICES ASSUME CreateSurface PROVE Calm' /\ InCall' /\ Places'
    OBVIOUS
  <2>1. Enter("surfaceCreated", "recreateResume") /\ LoopAt("createSurface")
    BY DEF CreateSurface
  <2>2. Calm' /\ InCall' /\ frames' # <<>>
    <3>1. CallBefore("recreateResume") = "surfaceCreated" /\ "surfaceCreated" # "no call" /\ "surfaceCreated" \in LoopCalls
      BY DEF CallBefore, LoopCalls
    <3> QED
      BY <2>1, <3>1, EnterCall
  <2>3. Places'
    BY <1>1, <1>2, <2>1, <2>2 DEF Places, LoopAt, Enter, Active, Paused, Untouched
  <2> QED
    BY <2>2, <2>3
<1>8. RecreateResume => Calm' /\ InCall' /\ Places'
  <2> SUFFICES ASSUME RecreateResume PROVE Calm' /\ InCall' /\ Places'
    OBVIOUS
  <2>1. Enter("resume", "recreated") /\ LoopAt("recreateResume")
    BY DEF RecreateResume
  <2>2. Calm' /\ InCall' /\ frames' # <<>>
    <3>1. CallBefore("recreated") = "resume" /\ "resume" # "no call" /\ "resume" \in LoopCalls
      BY DEF CallBefore, LoopCalls
    <3> QED
      BY <2>1, <3>1, EnterCall
  <2>3. Places'
    BY <1>1, <1>2, <2>1, <2>2 DEF Places, LoopAt, Enter, Active, Paused, Untouched
  <2> QED
    BY <2>2, <2>3
<1>9. Inject => Calm' /\ InCall' /\ Places'
  <2> SUFFICES ASSUME Inject PROVE Calm' /\ InCall' /\ Places'
    OBVIOUS
  <2>1. Enter("inject", "render") /\ LoopAt("inject")
    BY DEF Inject
  <2>2. Calm' /\ InCall' /\ frames' # <<>>
    <3>1. CallBefore("render") = "inject" /\ "inject" # "no call" /\ "inject" \in LoopCalls
      BY DEF CallBefore, LoopCalls
    <3> QED
      BY <2>1, <3>1, EnterCall
  <2>3. Places'
    BY <1>1, <1>2, <2>1, <2>2 DEF Places, LoopAt, Enter, Active, Paused, Untouched
  <2> QED
    BY <2>2, <2>3
<1>10. Render => Calm' /\ InCall' /\ Places'
  <2> SUFFICES ASSUME Render PROVE Calm' /\ InCall' /\ Places'
    OBVIOUS
  <2>1. Enter("render", "rendered") /\ LoopAt("render")
    BY DEF Render
  <2>2. Calm' /\ InCall' /\ frames' # <<>>
    <3>1. CallBefore("rendered") = "render" /\ "render" # "no call" /\ "render" \in LoopCalls
      BY DEF CallBefore, LoopCalls
    <3> QED
      BY <2>1, <3>1, EnterCall
  <2>3. Places'
    BY <1>1, <1>2, <2>1, <2>2 DEF Places, LoopAt, Enter, Active, Paused, Untouched
  <2> QED
    BY <2>2, <2>3
<1>11. InputPause => Calm' /\ InCall' /\ Places'
  <2> SUFFICES ASSUME InputPause PROVE Calm' /\ InCall' /\ Places'
    OBVIOUS
  <2>1. Enter("pause", "input") /\ LoopAt("inputPause")
    BY DEF InputPause
  <2>2. Calm' /\ InCall' /\ frames' # <<>>
    <3>1. CallBefore("input") = "pause" /\ "pause" # "no call" /\ "pause" \in LoopCalls
      BY DEF CallBefore, LoopCalls
    <3> QED
      BY <2>1, <3>1, EnterCall
  <2>3. Places'
    BY <1>1, <1>2, <2>1, <2>2 DEF Places, LoopAt, Enter, Active, Paused, Untouched
  <2> QED
    BY <2>2, <2>3
<1>12. InputResume => Calm' /\ InCall' /\ Places'
  <2> SUFFICES ASSUME InputResume PROVE Calm' /\ InCall' /\ Places'
    OBVIOUS
  <2>1. Enter("resume", "inputEnds") /\ LoopAt("inputResume")
    BY DEF InputResume
  <2>2. Calm' /\ InCall' /\ frames' # <<>>
    <3>1. CallBefore("inputEnds") = "resume" /\ "resume" # "no call" /\ "resume" \in LoopCalls
      BY DEF CallBefore, LoopCalls
    <3> QED
      BY <2>1, <3>1, EnterCall
  <2>3. Places'
    BY <1>1, <1>2, <2>1, <2>2 DEF Places, LoopAt, Enter, Active, Paused, Untouched
  <2> QED
    BY <2>2, <2>3
<1>13. Leaving => Calm' /\ InCall' /\ Places'
  <2> SUFFICES ASSUME Leaving PROVE Calm' /\ InCall' /\ Places'
    OBVIOUS
  <2>1. Enter("pause", "shutdown") /\ LoopAt("leaving")
    BY DEF Leaving
  <2>2. Calm' /\ InCall' /\ frames' # <<>>
    <3>1. CallBefore("shutdown") = "pause" /\ "pause" # "no call" /\ "pause" \in LoopCalls
      BY DEF CallBefore, LoopCalls
    <3> QED
      BY <2>1, <3>1, EnterCall
  <2>3. Places'
    BY <1>1, <1>2, <2>1, <2>2 DEF Places, LoopAt, Enter, Active, Paused, Untouched
  <2> QED
    BY <2>2, <2>3
<1>14. LastSurface => Calm' /\ InCall' /\ Places'
  <2> SUFFICES ASSUME LastSurface PROVE Calm' /\ InCall' /\ Places'
    OBVIOUS
  <2>1. Enter("surfaceDestroyed", "done") /\ LoopAt("lastSurface")
    BY DEF LastSurface
  <2>2. Calm' /\ InCall' /\ frames' # <<>>
    <3>1. CallBefore("done") = "surfaceDestroyed" /\ "surfaceDestroyed" # "no call" /\ "surfaceDestroyed" \in LoopCalls
      BY DEF CallBefore, LoopCalls
    <3> QED
      BY <2>1, <3>1, EnterCall
  <2>3. Places'
    BY <1>1, <1>2, <2>1, <2>2 DEF Places, LoopAt, Enter, Active, Paused, Untouched
  <2> QED
    BY <2>2, <2>3
<1>15. Sent = {}
  BY <1>2, CalmStack DEF Calm
<1> QED
  BY <1>2, <1>3, <1>4, <1>5, <1>6, <1>7, <1>8, <1>9, <1>10, <1>11, <1>12, <1>13, <1>14, <1>15, UntouchedKeeps DEF Calls, LoopShape

LEMMA ReturnKeeps == ASSUME FrameIInv, CallReturns PROVE FrameIInv'
<1>1. StackShape /\ InCall /\ Places
  BY DEF FrameIInv, LoopShape
<1>2. /\ Len(frames) = 1 /\ frames[1].kind = "guest" /\ frames # <<>> /\ frames' = <<>>
      /\ resumed' = (resumed \/ frames[1].call = "resume")
      /\ surface' = (surface \/ frames[1].call = "surfaceCreated")
      /\ UNCHANGED <<at, focused, unityActive, recreate, bridgeFocus>> /\ Untouched
  BY DEF CallReturns, Stays, Quiet, QuietQueue, Untouched
<1>3. /\ frames[1].call = CallBefore(at) /\ CallBefore(at) # "no call" /\ at # "geetest"
  BY <1>1, <1>2 DEF InCall, Bottom, CallBefore
<1>4. Sent = {}
  <2>1. DOMAIN frames = 1 .. 1
    BY <1>1, <1>2 DEF StackShape
  <2> QED
    BY <1>2, <2>1 DEF Sent
<1>5. Calm' /\ InCall'
  BY <1>2 DEF Calm, InCall
<1>6. /\ resumed' \in BOOLEAN /\ surface' \in BOOLEAN
      /\ resumed => resumed'
      /\ surface => surface'
      /\ at \in {"gained", "recreated", "inputEnds"} => resumed'
      /\ at = "recreateResume" => surface'
      /\ at \notin {"gained", "recreated", "inputEnds"} => resumed' = resumed
      /\ at # "recreateResume" => surface' = surface
  BY <1>1, <1>2, <1>3 DEF CallBefore, Places
<1>7. at \notin {"inject", "focus", "recreate", "login", "network", "gainedResume", "createSurface"}
  BY <1>3 DEF CallBefore
<1>8. Places'
  BY <1>1, <1>2, <1>3, <1>6, <1>7 DEF Places, Active, Paused, Untouched
<1> QED
  BY <1>2, <1>3, <1>4, <1>5, <1>8, UntouchedKeeps DEF LoopShape

-----------------------------------------------------------------------------
(* Drains, and what they do to the stack.                                   *)

\* What is under UnitySendMessage: calls of the loop send nothing.
SentOnStack ==
  /\ \A i \in Sent : i # OneWay /\ \E k \in 1 .. Len(frames) : frames[k].sent = i
  /\ \A k \in 1 .. Len(frames) : frames[k].sent # OneWay => frames[k].sent \in Sent
  /\ frames # <<>> => Bottom \in Frame
  /\ \A k \in 1 .. Len(frames) : frames[k] \in Frame

LEMMA StackFacts == StackShape => SentOnStack
<1> SUFFICES ASSUME StackShape PROVE SentOnStack
  OBVIOUS
<1>1. /\ DOMAIN frames = 1 .. Len(frames) /\ frames \in Seq(Frame) /\ Len(frames) \in Nat
      /\ \A k \in 1 .. Len(frames) : frames[k] \in Frame
  BY DEF StackShape
<1>2. \A k \in 1 .. Len(frames) : frames[k].kind \in {"guest", "drain"}
  BY <1>1 DEF Frame
<1>3. \A k \in 1 .. Len(frames) : frames[k].sent # OneWay => frames[k].kind = "drain"
  BY <1>2 DEF StackShape
<1>4. frames # <<>> => Bottom \in Frame
  BY <1>1 DEF Bottom
<1> QED
  BY <1>1, <1>3, <1>4 DEF Sent, SentOnStack

LEMMA StackNext == StackShape' => SentOnStack'
BY StackFacts, PTL

LEMMA LoopStays ==
  ASSUME LoopShape, UNCHANGED <<loopVars, bridgeFocus, accepting>>, frames # <<>>,
         \/ frames' # <<>> /\ Bottom'.kind = Bottom.kind /\ (Bottom.kind = "guest" => Bottom'.call = Bottom.call)
         \/ frames' = <<>> /\ Bottom.kind # "guest"
  PROVE  LoopShape'
<1>1. InCall'
  BY DEF LoopShape, InCall, loopVars
<1>2. frames' = <<>> => at = "login"
  BY DEF LoopShape, InCall
<1>3. Places'
  BY <1>2 DEF LoopShape, Places, loopVars, Active, Paused
<1> QED
  BY <1>1, <1>3 DEF LoopShape

LEMMA PushKeeps ==
  ASSUME StackShape, bridgeFocus, bridgeFocus' = bridgeFocus,
         frames' = <<Drain(DrainPerFrame)>> \o frames
  PROVE  /\ StackShape' /\ Sent' = Sent /\ frames' # <<>>
         /\ frames # <<>> => Bottom' = Bottom
         /\ frames = <<>> => Bottom'.kind = "drain"
<1>1. PICK d : d = Drain(DrainPerFrame)
  OBVIOUS
<1>2. d \in Frame /\ d.kind = "drain" /\ d.sent = OneWay
  BY <1>1, QueueAssumption DEF Drain, Frame, OneWay
<1>3. frames \in Seq(Frame) /\ Len(frames) \in Nat
  BY DEF StackShape
<1>4. /\ frames' \in Seq(Frame) /\ Len(frames') = Len(frames) + 1 /\ frames'[1] = d
      /\ \A k \in 1 .. Len(frames) : frames'[k + 1] = frames[k]
      /\ \A k \in 2 .. Len(frames') : k - 1 \in 1 .. Len(frames) /\ frames'[k] = frames[k - 1]
  BY <1>1, <1>2, <1>3
<1>5. StackShape'
  <2>1. \A k \in 1 .. Len(frames') :
          IF frames'[k].kind = "guest" THEN k = Len(frames') /\ frames'[k].sent = OneWay ELSE bridgeFocus'
    <3> SUFFICES ASSUME NEW k \in 1 .. Len(frames')
                 PROVE IF frames'[k].kind = "guest" THEN k = Len(frames') /\ frames'[k].sent = OneWay ELSE bridgeFocus'
      OBVIOUS
    <3>1. CASE k = 1
      BY <1>2, <1>4, <3>1
    <3>2. CASE k # 1
      <4>1. k \in 2 .. Len(frames')
        BY <1>3, <1>4, <3>2
      <4> QED
        BY <1>3, <1>4, <4>1 DEF StackShape
    <3> QED
      BY <3>1, <3>2
  <2>2. \A j, k \in 1 .. Len(frames') :
          frames'[j].sent = frames'[k].sent /\ frames'[j].sent # OneWay => j = k
    <3> SUFFICES ASSUME NEW j \in 1 .. Len(frames'), NEW k \in 1 .. Len(frames'),
                        frames'[j].sent = frames'[k].sent, frames'[j].sent # OneWay
                 PROVE j = k
      OBVIOUS
    <3>1. j # 1 /\ k # 1
      BY <1>2, <1>4
    <3>2. j \in 2 .. Len(frames') /\ k \in 2 .. Len(frames')
      BY <1>3, <1>4, <3>1
    <3>3. j - 1 = k - 1
      BY <1>4, <3>2 DEF StackShape
    <3> QED
      BY <3>2, <3>3
  <2> QED
    BY <1>4, <2>1, <2>2 DEF StackShape
<1>6. Sent' = Sent
  <2>1. ASSUME NEW i PROVE i \in Sent' <=> i \in Sent
    <3>1. ASSUME i \in Sent' PROVE i \in Sent
      <4>1. PICK k \in 1 .. Len(frames') : frames'[k].sent = i /\ i # OneWay
        BY <1>5, <3>1, StackNext DEF SentOnStack
      <4>2. k \in 2 .. Len(frames')
        BY <1>2, <1>3, <1>4, <4>1
      <4> QED
        BY <1>4, <4>1, <4>2, StackFacts DEF SentOnStack
    <3>2. ASSUME i \in Sent PROVE i \in Sent'
      <4>1. PICK k \in 1 .. Len(frames) : frames[k].sent = i /\ i # OneWay
        BY <3>2, StackFacts DEF SentOnStack
      <4>2. k + 1 \in 1 .. Len(frames') /\ frames'[k + 1].sent = i
        BY <1>3, <1>4, <4>1
      <4> QED
        BY <1>5, <4>1, <4>2, StackNext DEF SentOnStack
    <3> QED
      BY <3>1, <3>2
  <2> QED
    BY <2>1
<1>7. frames' # <<>> /\ (frames # <<>> => Bottom' = Bottom) /\ (frames = <<>> => Bottom'.kind = "drain")
  <2>1. frames' # <<>>
    BY <1>3, <1>4
  <2>2. frames # <<>> => Bottom' = Bottom
    BY <1>3, <1>4 DEF Bottom
  <2>3. frames = <<>> => Bottom'.kind = "drain"
    BY <1>2, <1>4 DEF Bottom
  <2> QED
    BY <2>1, <2>2, <2>3
<1> QED
  BY <1>5, <1>6, <1>7

\* A step of the drain on top leaves its frame, with another event or none.
LEMMA TopKeeps ==
  ASSUME StackShape, TopDrain, bridgeFocus' = bridgeFocus, NEW d \in Frame, d.kind = "drain",
         frames' = [frames EXCEPT ![1] = d], d.sent = OneWay \/ d.sent \notin Sent
  PROVE  /\ StackShape' /\ frames' # <<>> /\ Bottom'.kind = Bottom.kind
         /\ Bottom.kind = "guest" => Bottom'.call = Bottom.call
         /\ Sent' = (Sent \ {frames[1].sent}) \union ({d.sent} \ {OneWay})
<1>1. /\ frames \in Seq(Frame) /\ Len(frames) \in Nat \ {0} /\ frames[1].kind = "drain" /\ bridgeFocus
      /\ 1 \in 1 .. Len(frames)
  BY DEF StackShape, TopDrain
<1>2. /\ frames' \in Seq(Frame) /\ Len(frames') = Len(frames) /\ frames'[1] = d
      /\ \A k \in 2 .. Len(frames) : frames'[k] = frames[k]
  BY <1>1
<1>3. StackShape'
  <2>1. \A k \in 1 .. Len(frames') :
          IF frames'[k].kind = "guest" THEN k = Len(frames') /\ frames'[k].sent = OneWay ELSE bridgeFocus'
    <3> SUFFICES ASSUME NEW k \in 1 .. Len(frames')
                 PROVE IF frames'[k].kind = "guest" THEN k = Len(frames') /\ frames'[k].sent = OneWay ELSE bridgeFocus'
      OBVIOUS
    <3>1. CASE k = 1
      BY <1>1, <1>2, <3>1
    <3>2. CASE k # 1
      <4>1. k \in 2 .. Len(frames) /\ k \in 1 .. Len(frames)
        BY <1>1, <1>2, <3>2
      <4>2. frames'[k] = frames[k]
        BY <1>2, <4>1
      <4> QED
        BY <1>1, <1>2, <4>1, <4>2 DEF StackShape
    <3> QED
      BY <3>1, <3>2
  <2>2. ASSUME NEW j \in 1 .. Len(frames'), NEW k \in 1 .. Len(frames'),
               frames'[j].sent = frames'[k].sent, frames'[j].sent # OneWay
        PROVE  j = k
    <3>1. ASSUME NEW i \in 2 .. Len(frames), frames[i].sent = d.sent PROVE d.sent = OneWay
      BY <1>1, <3>1, StackFacts DEF SentOnStack
    <3>2. CASE j # 1 /\ k # 1
      <4>1. /\ j \in 2 .. Len(frames) /\ j \in 1 .. Len(frames)
            /\ k \in 2 .. Len(frames) /\ k \in 1 .. Len(frames)
        BY <1>1, <1>2, <3>2
      <4>2. frames'[k] = frames[k] /\ frames'[j] = frames[j]
        BY <1>2, <4>1
      <4> QED
        BY <2>2, <4>1, <4>2 DEF StackShape
    <3>3. CASE j = 1 /\ k # 1
      BY <1>1, <1>2, <2>2, <3>1, <3>3
    <3>4. CASE j # 1 /\ k = 1
      BY <1>1, <1>2, <2>2, <3>1, <3>4
    <3> QED
      BY <3>2, <3>3, <3>4
  <2> QED
    BY <1>2, <2>1, <2>2 DEF StackShape
<1>4. Sent' = (Sent \ {frames[1].sent}) \union ({d.sent} \ {OneWay})
  <2>1. ASSUME NEW i \in Sent' PROVE i \in (Sent \ {frames[1].sent}) \union ({d.sent} \ {OneWay})
    <3>1. PICK k \in 1 .. Len(frames') : frames'[k].sent = i /\ i # OneWay
      BY <1>3, <2>1, StackNext DEF SentOnStack
    <3>2. CASE k = 1
      BY <1>2, <3>1, <3>2
    <3>3. CASE k # 1
      <4>1. frames[k].sent = i /\ k \in 1 .. Len(frames)
        BY <1>1, <1>2, <3>1, <3>3
      <4>2. i \in Sent
        BY <3>1, <4>1, StackFacts DEF SentOnStack
      <4>3. i # frames[1].sent
        BY <1>1, <3>1, <3>3, <4>1 DEF StackShape
      <4> QED
        BY <4>2, <4>3
    <3> QED
      BY <3>2, <3>3
  <2>2. ASSUME NEW i \in Sent, i # frames[1].sent PROVE i \in Sent'
    <3>1. PICK k \in 1 .. Len(frames) : frames[k].sent = i /\ i # OneWay
      BY <2>2, StackFacts DEF SentOnStack
    <3>2. k \in 2 .. Len(frames)
      BY <1>1, <2>2, <3>1
    <3>3. frames'[k].sent = i /\ k \in 1 .. Len(frames')
      BY <1>1, <1>2, <3>1, <3>2
    <3> QED
      BY <1>3, <3>1, <3>3, StackNext DEF SentOnStack
  <2>3. d.sent # OneWay => d.sent \in Sent'
    BY <1>1, <1>2, <1>3, StackNext DEF SentOnStack
  <2> QED
    BY <2>1, <2>2, <2>3
<1>5. /\ frames' # <<>> /\ Bottom'.kind = Bottom.kind
      /\ Bottom.kind = "guest" => Bottom'.call = Bottom.call
  <2>1. CASE Len(frames) = 1
    BY <1>1, <1>2, <2>1 DEF Bottom
  <2>2. CASE Len(frames) # 1
    BY <1>1, <1>2, <2>2 DEF Bottom
  <2> QED
    BY <2>1, <2>2
<1> QED
  BY <1>3, <1>4, <1>5

LEMMA SendKeeps == ASSUME FrameIInv, Send, UNCHANGED <<loginVars, loopVars>> PROVE FrameIInv'
<1>1. StackShape /\ LoopShape /\ QueueShape /\ LoginShape
  BY DEF FrameIInv
<1>2. PICK h : h = Head(events)
  OBVIOUS
<1>3. /\ events \in Seq(Indices) /\ events # <<>> /\ Len(events) \in Nat \ {0} /\ DOMAIN events = 1 .. Len(events)
      /\ h = events[1] /\ h \in Indices /\ h # OneWay
  BY <1>1, <1>2, QueueAssumption DEF QueueShape, Send, CanPop, OneWay
<1>4. /\ TopDrain /\ frames[1].sent = OneWay /\ frames # <<>> /\ frames[1].kind = "drain"
      /\ UNCHANGED <<accepting, bridgeFocus, asked, answered>> /\ events' = Tail(events)
  BY DEF Send, TopDrain
<1>5. PICK d : d = [frames[1] EXCEPT !.sent = h]
  OBVIOUS
<1>6. /\ d \in Frame /\ d.kind = "drain" /\ d.sent = h /\ frames' = [frames EXCEPT ![1] = d]
  <2>1. frames[1] \in Frame
    BY <1>1, <1>4 DEF StackShape
  <2>2. d \in Frame /\ d.kind = "drain" /\ d.sent = h
    BY <1>3, <1>4, <1>5, <2>1 DEF Frame
  <2>3. frames' = [frames EXCEPT ![1] = d]
    BY <1>1, <1>2, <1>4, <1>5 DEF Send, StackShape
  <2> QED
    BY <2>2, <2>3
<1>7. h \in Queued /\ h \notin Sent
  <2>1. Queued \intersect Sent = {}
    BY <1>1 DEF QueueShape, AnsweredOnce
  <2>2. h \in Queued
    BY <1>3 DEF Queued
  <2> QED
    BY <2>1, <2>2
<1>8. /\ StackShape' /\ frames' # <<>> /\ Bottom'.kind = Bottom.kind
      /\ Bottom.kind = "guest" => Bottom'.call = Bottom.call
      /\ Sent' = (Sent \ {OneWay}) \union ({h} \ {OneWay})
  BY <1>1, <1>4, <1>6, <1>7, TopKeeps
<1>9. Sent' = Sent \union {h}
  BY <1>1, <1>3, <1>8 DEF Sent
<1>10. LoopShape'
  BY <1>1, <1>4, <1>8, LoopStays
<1>11. /\ events' \in Seq(Indices) /\ Len(events') = Len(events) - 1 /\ DOMAIN events' = 1 .. Len(events')
       /\ \A k \in 1 .. Len(events') : k + 1 \in 1 .. Len(events) /\ events'[k] = events[k + 1]
       /\ \A k \in 2 .. Len(events) : k - 1 \in 1 .. Len(events') /\ events'[k - 1] = events[k]
  BY <1>3, <1>4
<1>12. \A j, k \in DOMAIN events' : events'[j] = events'[k] => j = k
  <2> SUFFICES ASSUME NEW j \in DOMAIN events', NEW k \in DOMAIN events', events'[j] = events'[k] PROVE j = k
    OBVIOUS
  <2>a. \A m, n \in DOMAIN events : events[m] = events[n] => m = n
    BY <1>1 DEF QueueShape
  <2>b. j + 1 \in DOMAIN events /\ k + 1 \in DOMAIN events /\ events[j + 1] = events[k + 1]
    BY <1>3, <1>11
  <2>1. j + 1 = k + 1
    BY <2>a, <2>b
  <2> QED
    BY <1>11, <2>1
<1>13. Queued' = Queued \ {h}
  <2>1. ASSUME NEW i \in Queued' PROVE i \in Queued \ {h}
    <3>1. PICK k \in 1 .. Len(events') : events'[k] = i
      BY <1>11, <2>1 DEF Queued
    <3>2. k + 1 \in 1 .. Len(events) /\ events[k + 1] = i /\ k + 1 # 1
      BY <1>11, <3>1
    <3> QED
      BY <1>1, <1>3, <3>2 DEF Queued, QueueShape
  <2>2. ASSUME NEW i \in Queued, i # h PROVE i \in Queued'
    <3>1. PICK k \in 1 .. Len(events) : events[k] = i
      BY <1>3, <2>2 DEF Queued
    <3>2. k \in 2 .. Len(events)
      BY <1>3, <2>2, <3>1
    <3> QED
      BY <1>11, <3>1, <3>2 DEF Queued
  <2> QED
    BY <2>1, <2>2
<1>14. Cardinality(Queued') = Len(events')
  <2>1. IsFiniteSet(Queued) /\ Cardinality(Queued) = Len(events)
    <3>1. Cardinality(Queued) = Len(events)
      BY <1>1 DEF QueueShape, AnsweredOnce
    <3>2. IsFiniteSet(1 .. Len(events))
      BY <1>3, FS_Interval
    <3>3. Queued = {events[k] : k \in 1 .. Len(events)}
      BY <1>3 DEF Queued
    <3>4. IsFiniteSet(Queued)
      <4>1. events \in [1 .. Len(events) -> Queued]
        BY <1>3, <3>3
      <4>2. events \in Surjection(1 .. Len(events), Queued)
        BY <3>3, <4>1 DEF Surjection
      <4> QED
        BY <3>2, <4>2, FS_Surjection
    <3> QED
      BY <3>1, <3>4
  <2>2. Cardinality(Queued \ {h}) = Cardinality(Queued) - 1
    BY <1>7, <2>1, FS_RemoveElement
  <2> QED
    BY <1>11, <1>13, <2>1, <2>2
<1>15. AnsweredOnce'
  <2>1. /\ answered = Queued \union Sent /\ Queued \intersect Sent = {} /\ answered \subseteq ActiveIn(asked)
    BY <1>1 DEF QueueShape, AnsweredOnce
  <2>2. answered' = Queued' \union Sent' /\ Queued' \intersect Sent' = {}
    BY <1>4, <1>7, <1>9, <1>13, <2>1
  <2>3. answered' \subseteq ActiveIn(asked')
    BY <1>4, <2>1
  <2> QED
    BY <1>14, <2>2, <2>3 DEF AnsweredOnce
<1>16. QueueShape'
  BY <1>1, <1>4, <1>11, <1>12, <1>15 DEF QueueShape
<1>17. LoginShape'
  BY <1>1, <1>4 DEF LoginShape, HeldShape, OwedShape, loginVars, loopVars
<1> QED
  BY <1>8, <1>10, <1>16, <1>17 DEF FrameIInv

LEMMA CompleteKeeps == ASSUME FrameIInv, CompleteEvent, UNCHANGED <<loginVars, loopVars>> PROVE FrameIInv'
<1>1. StackShape /\ LoopShape /\ QueueShape /\ LoginShape
  BY DEF FrameIInv
<1>2. PICK s : s = frames[1].sent
  OBVIOUS
<1>3. /\ TopDrain /\ s # OneWay /\ frames # <<>> /\ frames[1].kind = "drain"
      /\ UNCHANGED <<accepting, bridgeFocus, events>>
      /\ asked' = [asked EXCEPT ![s] = "free"] /\ answered' = answered \ {s}
  BY <1>2 DEF CompleteEvent, TopDrain
<1>4. PICK d : d = Drain(frames[1].left - 1)
  OBVIOUS
<1>5. /\ d \in Frame /\ d.kind = "drain" /\ d.sent = OneWay /\ frames' = [frames EXCEPT ![1] = d]
      /\ 1 \in 1 .. Len(frames) /\ frames[1] \in Frame
  <2>1. frames[1] \in Frame /\ 1 \in 1 .. Len(frames)
    BY <1>1, <1>3 DEF StackShape
  <2>2. frames[1].left - 1 \in Int
    BY <2>1 DEF Frame
  <2>3. d \in Frame /\ d.kind = "drain" /\ d.sent = OneWay
    BY <1>4, <2>2 DEF Frame, Drain
  <2>4. frames' = [frames EXCEPT ![1] = d]
    BY <1>1, <1>3, <1>4 DEF CompleteEvent, StackShape
  <2> QED
    BY <2>1, <2>3, <2>4
<1>6. s \in Sent /\ s \in Indices
  BY <1>1, <1>2, <1>3, <1>5, StackFacts DEF SentOnStack, Frame
<1>7. /\ StackShape' /\ frames' # <<>> /\ Bottom'.kind = Bottom.kind
      /\ Bottom.kind = "guest" => Bottom'.call = Bottom.call
      /\ Sent' = (Sent \ {s}) \union ({OneWay} \ {OneWay})
  <2>1. d.sent = OneWay \/ d.sent \notin Sent
    BY <1>5
  <2> QED
    BY <1>1, <1>2, <1>3, <1>5, <2>1, TopKeeps
<1>8. Sent' = Sent \ {s}
  BY <1>7
<1>9. LoopShape'
  BY <1>1, <1>3, <1>7, LoopStays
<1>10. Queued' = Queued
  BY <1>3 DEF Queued
<1>11. /\ answered = Queued \union Sent /\ Queued \intersect Sent = {} /\ answered \subseteq ActiveIn(asked)
       /\ Cardinality(Queued) = Len(events)
  BY <1>1 DEF QueueShape, AnsweredOnce
<1>12. AnsweredOnce'
  <2>1. answered' = Queued' \union Sent' /\ Queued' \intersect Sent' = {}
    BY <1>3, <1>6, <1>8, <1>10, <1>11
  <2>2. answered' \subseteq ActiveIn(asked')
    BY <1>1, <1>3, <1>11 DEF ActiveIn, QueueShape
  <2>3. Cardinality(Queued') = Len(events')
    BY <1>3, <1>10, <1>11
  <2> QED
    BY <2>1, <2>2, <2>3 DEF AnsweredOnce
<1>13. QueueShape'
  <2>1. asked' \in [Indices -> {"free", "login_login", "other"}] /\ answered' \subseteq Indices
    BY <1>1, <1>3 DEF QueueShape
  <2> QED
    BY <1>1, <1>3, <1>12, <2>1 DEF QueueShape
<1>14. LoginShape'
  <2>1. s \in answered
    BY <1>6, <1>11
  <2>2. accepting => OwedShape'
    <3> SUFFICES ASSUME accepting PROVE OwedShape'
      OBVIOUS
    <3>1. phase \notin Terminal => asked'[index] = asked[index] /\ index \notin answered'
      BY <1>1, <1>3, <2>1 DEF LoginShape, OwedShape, QueueShape
    <3>2. OwedShape /\ UNCHANGED <<owed, phase, index>>
      BY <1>1 DEF LoginShape, loginVars
    <3>3. ASSUME NEW j \in owed', asked'[j] = "login_login"
          PROVE  j \in answered' \/ (phase' \notin Terminal /\ j = index')
      <4>1. j \in owed /\ j \in Indices
        BY <3>2, <3>3 DEF OwedShape
      <4>2. j # s /\ asked[j] = "login_login" /\ (j \in answered => j \in answered')
        BY <1>1, <1>3, <3>3, <4>1 DEF QueueShape
      <4> QED
        BY <3>2, <4>1, <4>2 DEF OwedShape
    <3> QED
      BY <3>1, <3>2, <3>3 DEF OwedShape
  <2> QED
    BY <1>1, <1>3, <2>2 DEF LoginShape, HeldShape, loginVars, loopVars
<1> QED
  BY <1>7, <1>9, <1>13, <1>14 DEF FrameIInv

LEMMA DrainDoneKeeps == ASSUME FrameIInv, DrainDone, UNCHANGED <<loginVars, loopVars>> PROVE FrameIInv'
<1>1. StackShape /\ LoopShape /\ QueueShape /\ LoginShape
  BY DEF FrameIInv
<1>2. /\ frames # <<>> /\ frames[1].kind = "drain" /\ frames[1].sent = OneWay
      /\ frames' = Tail(frames) /\ UNCHANGED <<accepting, bridgeFocus, asked, answered, events>>
  BY DEF DrainDone, TopDrain
<1>3. /\ frames \in Seq(Frame) /\ Len(frames) \in Nat \ {0}
      /\ frames' \in Seq(Frame) /\ Len(frames') = Len(frames) - 1
      /\ \A k \in 1 .. Len(frames') : k + 1 \in 1 .. Len(frames) /\ frames'[k] = frames[k + 1]
      /\ \A k \in 2 .. Len(frames) : k - 1 \in 1 .. Len(frames') /\ frames'[k - 1] = frames[k]
  BY <1>1, <1>2 DEF StackShape
<1>4. StackShape'
  <2>1. \A k \in 1 .. Len(frames') :
          IF frames'[k].kind = "guest" THEN k = Len(frames') /\ frames'[k].sent = OneWay ELSE bridgeFocus'
    <3> SUFFICES ASSUME NEW k \in 1 .. Len(frames')
                 PROVE IF frames'[k].kind = "guest" THEN k = Len(frames') /\ frames'[k].sent = OneWay ELSE bridgeFocus'
      OBVIOUS
    <3>1. k + 1 \in 1 .. Len(frames) /\ frames'[k] = frames[k + 1]
      BY <1>3
    <3>2. IF frames[k + 1].kind = "guest" THEN k + 1 = Len(frames) /\ frames[k + 1].sent = OneWay ELSE bridgeFocus
      BY <1>1, <3>1 DEF StackShape
    <3>3. k + 1 = Len(frames) => k = Len(frames')
      BY <1>3
    <3> QED
      BY <1>2, <3>1, <3>2, <3>3
  <2>2. ASSUME NEW j \in 1 .. Len(frames'), NEW k \in 1 .. Len(frames'),
               frames'[j].sent = frames'[k].sent, frames'[j].sent # OneWay
        PROVE  j = k
    <3>1. /\ j + 1 \in 1 .. Len(frames) /\ frames'[j] = frames[j + 1]
          /\ k + 1 \in 1 .. Len(frames) /\ frames'[k] = frames[k + 1]
      BY <1>3
    <3>2. j + 1 = k + 1
      BY <1>1, <2>2, <3>1 DEF StackShape
    <3> QED
      BY <3>2
  <2> QED
    BY <1>3, <2>1, <2>2 DEF StackShape
<1>5. Sent' = Sent
  <2>1. ASSUME NEW i \in Sent' PROVE i \in Sent
    <3>1. PICK k \in 1 .. Len(frames') : frames'[k].sent = i /\ i # OneWay
      BY <1>4, <2>1, StackNext DEF SentOnStack
    <3>2. k + 1 \in 1 .. Len(frames) /\ frames[k + 1].sent = i
      BY <1>3, <3>1
    <3> QED
      BY <1>1, <3>1, <3>2, StackFacts DEF SentOnStack
  <2>2. ASSUME NEW i \in Sent PROVE i \in Sent'
    <3>1. PICK k \in 1 .. Len(frames) : frames[k].sent = i /\ i # OneWay
      BY <1>1, <2>2, StackFacts DEF SentOnStack
    <3>2. k \in 2 .. Len(frames)
      BY <1>2, <1>3, <3>1
    <3>3. k - 1 \in 1 .. Len(frames') /\ frames'[k - 1].sent = i
      BY <1>3, <3>1, <3>2
    <3> QED
      BY <1>4, <3>1, <3>3, StackNext DEF SentOnStack
  <2> QED
    BY <2>1, <2>2
<1>6. LoopShape'
  <2>1. CASE Len(frames) = 1
    <3>1. frames' = <<>> /\ Bottom = frames[1]
      BY <1>3, <2>1 DEF Bottom
    <3> QED
      BY <1>1, <1>2, <3>1, LoopStays
  <2>2. CASE Len(frames) # 1
    <3>1. frames' # <<>> /\ Len(frames) \in 2 .. Len(frames)
      BY <1>3, <2>2
    <3>2. Bottom' = Bottom
      BY <1>3, <3>1 DEF Bottom
    <3> QED
      BY <1>1, <1>2, <3>1, <3>2, LoopStays
  <2> QED
    BY <2>1, <2>2
<1>7. QueueShape'
  BY <1>1, <1>2, <1>5 DEF QueueShape, AnsweredOnce, Queued
<1>8. LoginShape'
  BY <1>1, <1>2 DEF LoginShape, HeldShape, OwedShape, loginVars, loopVars
<1> QED
  BY <1>4, <1>6, <1>7, <1>8 DEF FrameIInv

LEMMA RenderedKeeps == ASSUME FrameIInv, Rendered PROVE FrameIInv'
<1>1. StackShape /\ LoopShape /\ QueueShape /\ LoginShape /\ Places
  BY DEF FrameIInv, LoopShape
<1>2. /\ frames = <<>> /\ at = "rendered" /\ at' = "login" /\ AfterRender(<<>>)
      /\ UNCHANGED <<bridgeFocus, accepting, asked, answered, events, loginVars, resumed, surface,
                     focused, unityActive, recreate>>
  BY DEF Rendered, LoopAt, Stays, QuietQueue
<1>3. Active
  BY <1>1, <1>2 DEF Places
<1>4. Sent = {}
  BY <1>2, CalmStack DEF Calm
<1>5. StackShape' /\ Sent' = Sent /\ (frames' # <<>> => Bottom'.kind = "drain")
  <2>1. CASE frames' = <<>>
    BY <2>1, <1>4, CalmNext DEF Calm
  <2>2. CASE frames' # <<>>
    <3>1. frames' = <<Drain(DrainPerFrame)>> \o frames
      BY <1>2, <2>2 DEF AfterRender
    <3> QED
      BY <1>1, <1>2, <1>3, <3>1, PushKeeps DEF Active
  <2> QED
    BY <2>1, <2>2
<1>6. LoopShape'
  <2>1. InCall'
    BY <1>2, <1>5 DEF InCall
  <2>2. Places'
    BY <1>1, <1>2, <1>3 DEF Places, Active, Paused
  <2> QED
    BY <2>1, <2>2 DEF LoopShape
<1>7. QueueShape'
  BY <1>1, <1>2, <1>5 DEF QueueShape, AnsweredOnce, Queued
<1>8. LoginShape'
  BY <1>1, <1>2 DEF LoginShape, HeldShape, OwedShape, loginVars
<1> QED
  BY <1>5, <1>6, <1>7, <1>8 DEF FrameIInv

\* An answer joins the queue: of an index that waits, and has none.
LEMMA EnqueueKeeps ==
  ASSUME QueueShape, NEW table \in [Indices -> {"free", "login_login", "other"}],
         ActiveIn(asked) \subseteq ActiveIn(table), NEW i,
         asked' = table, EnqueueAnswer(table, i), Sent' = Sent
  PROVE  /\ QueueShape' /\ answered \subseteq answered' /\ answered' \subseteq answered \union {i}
         /\ ~Accepts(table, i) => answered' = answered
<1>1. /\ answered = Queued \union Sent /\ Queued \intersect Sent = {} /\ answered \subseteq ActiveIn(asked)
      /\ Cardinality(Queued) = Len(events)
  BY DEF QueueShape, AnsweredOnce
<1>2. CASE Accepts(table, i)
  <2>1. /\ i \in Indices /\ i \in ActiveIn(table) /\ i \notin answered
        /\ events' = Append(events, i) /\ answered' = answered \union {i}
    BY <1>2 DEF Accepts, EnqueueAnswer, ActiveIn
  <2>2. events \in Seq(Indices) /\ Len(events) \in Nat /\ DOMAIN events = 1 .. Len(events)
    BY DEF QueueShape
  <2>3. /\ events' \in Seq(Indices) /\ Len(events') = Len(events) + 1 /\ DOMAIN events' = 1 .. Len(events')
        /\ events'[Len(events')] = i
        /\ \A k \in 1 .. Len(events) : k \in 1 .. Len(events') /\ events'[k] = events[k]
    BY <2>1, <2>2
  <2>4. \A k \in 1 .. Len(events') : k \in 1 .. Len(events) \/ k = Len(events')
    BY <2>2, <2>3
  <2>5. Queued' = Queued \union {i}
    <3>1. ASSUME NEW x \in Queued' PROVE x \in Queued \union {i}
      <4>1. PICK k \in 1 .. Len(events') : events'[k] = x
        BY <2>3, <3>1 DEF Queued
      <4> QED
        BY <2>2, <2>3, <2>4, <4>1 DEF Queued
    <3>2. ASSUME NEW x \in Queued PROVE x \in Queued'
      <4>1. PICK k \in 1 .. Len(events) : events[k] = x
        BY <2>2, <3>2 DEF Queued
      <4> QED
        BY <2>3, <4>1 DEF Queued
    <3>3. i \in Queued'
      <4>1. Len(events') \in DOMAIN events'
        BY <2>2, <2>3
      <4> QED
        BY <2>3, <4>1 DEF Queued
    <3> QED
      BY <3>1, <3>2, <3>3
  <2>6. \A j, k \in DOMAIN events' : events'[j] = events'[k] => j = k
    <3>a. \A m, n \in DOMAIN events : events[m] = events[n] => m = n
      BY DEF QueueShape
    <3>b. \A m \in DOMAIN events : events[m] # i
      BY <1>1, <2>1 DEF Queued
    <3> QED
      BY <2>2, <2>3, <2>4, <3>a, <3>b
  <2>7. Cardinality(Queued') = Len(events')
    <3>1. IsFiniteSet(Queued)
      <4>1. events \in [1 .. Len(events) -> Queued]
        BY <2>2 DEF Queued
      <4>2. events \in Surjection(1 .. Len(events), Queued)
        BY <2>2, <4>1 DEF Surjection, Queued
      <4>3. IsFiniteSet(1 .. Len(events))
        BY <2>2, FS_Interval
      <4> QED
        BY <4>2, <4>3, FS_Surjection
    <3>2. i \notin Queued
      BY <1>1, <2>1
    <3>3. Cardinality(Queued \union {i}) = Cardinality(Queued) + 1
      BY <3>1, <3>2, FS_AddElement
    <3> QED
      BY <1>1, <2>3, <2>5, <3>3
  <2>8. AnsweredOnce'
    <3>1. answered' = Queued' \union Sent' /\ Queued' \intersect Sent' = {}
      BY <1>1, <2>1, <2>5
    <3>2. answered' \subseteq ActiveIn(table)
      BY <1>1, <2>1
    <3>3. ActiveIn(asked') = ActiveIn(table)
      OBVIOUS
    <3> QED
      BY <2>7, <3>1, <3>2, <3>3 DEF AnsweredOnce
  <2>9. answered' \subseteq Indices
    BY <2>1 DEF QueueShape
  <2> QED
    BY <1>2, <2>1, <2>3, <2>6, <2>8, <2>9 DEF QueueShape
<1>3. CASE ~Accepts(table, i)
  <2>1. UNCHANGED <<events, answered>>
    BY <1>3 DEF EnqueueAnswer
  <2>2. Queued' = Queued
    BY <2>1 DEF Queued
  <2>3. AnsweredOnce'
    <3>1. answered' \subseteq ActiveIn(asked')
      BY <1>1, <2>1
    <3> QED
      BY <1>1, <2>1, <2>2, <3>1 DEF AnsweredOnce
  <2> QED
    BY <2>1, <2>3 DEF QueueShape
<1> QED
  BY <1>2, <1>3

-----------------------------------------------------------------------------
(* The login: an attempt ends with its answer, or goes on with what the     *)
(* next step needs.                                                         *)

\* A step of an attempt under way.
Ends ==
  /\ EnqueueAnswer(asked, index) /\ phase' \in Terminal /\ held' = held \ AttemptSecrets
  /\ owed' = IF QueueRoom THEN owed ELSE owed \ {index}
GoesOn ==
  /\ phase' \in Phases \ Terminal /\ UNCHANGED <<events, answered, index, owed>>
  /\ held' \subseteq AttemptSecrets /\ HeldShape'

LEMMA EndStep ==
  ASSUME NEW p \in {"CANCELED", "FAILED", "CHALLENGE_REQUIRED", "PASSPORT_REJECTED",
                    "COMBO_REJECTED", "VERIFIER_UNSUPPORTED"}, End(p)
  PROVE  Ends
BY DEF End, Over, Ends, Terminal

LEMMA HostKeeps ==
  ASSUME FrameIInv, frames = <<>>, UNCHANGED <<accepting, bridgeFocus, asked, frames>>, LoopShape',
         phase \notin Terminal, accepting, phase' = "GEETEST_RUNNING" <=> at' = "geetest", Ends \/ GoesOn
  PROVE  FrameIInv'
<1>1. StackShape /\ QueueShape /\ LoginShape /\ held \subseteq AttemptSecrets /\ HeldShape /\ OwedShape
  BY DEF FrameIInv, LoginShape
<1>2. StackShape' /\ Sent' = Sent
  BY <1>1 DEF StackShape, Sent
<1>3. CASE Ends
  <2>1. QueueShape'
    <3>1. asked \in [Indices -> {"free", "login_login", "other"}] /\ EnqueueAnswer(asked, index)
      BY <1>1, <1>3 DEF QueueShape, Ends
    <3> QED
      BY <1>1, <1>2, <3>1, EnqueueKeeps
  <2>2. phase' \in Terminal /\ held' = {}
    BY <1>1, <1>3 DEF Ends
  <2>3. OwedShape'
    <3>1. /\ index \in Indices /\ asked[index] = "login_login" /\ index \notin answered
          /\ \A j \in owed : asked[j] = "login_login" => j \in answered \/ j = index
      BY <1>1 DEF OwedShape
    <3>2. owed' = IF QueueRoom THEN owed ELSE owed \ {index}
      BY <1>3 DEF Ends
    <3>3. answered \subseteq answered' /\ (QueueRoom => index \in answered')
      <4>1. QueueRoom => Accepts(asked, index)
        BY <3>1 DEF QueueRoom, Accepts, ActiveIn
      <4> QED
        BY <1>3, <4>1 DEF Ends, EnqueueAnswer
    <3>4. ASSUME NEW j \in owed', asked'[j] = "login_login" PROVE j \in answered'
      <4>1. j \in owed /\ asked[j] = "login_login" /\ (j = index => QueueRoom)
        BY <3>2, <3>4
      <4> QED
        BY <3>1, <3>3, <4>1
    <3>5. owed' \subseteq Indices
      BY <1>1, <3>2 DEF OwedShape
    <3> QED
      BY <2>2, <3>4, <3>5 DEF OwedShape
  <2>4. HeldShape'
    BY <2>2 DEF HeldShape, Terminal, Verifying, Captcha
  <2>5. phase' \in Phases
    BY <2>2 DEF Phases
  <2>6. LoginShape'
    BY <2>2, <2>3, <2>4, <2>5 DEF LoginShape
  <2> QED
    BY <1>2, <2>1, <2>6 DEF FrameIInv
<1>4. CASE GoesOn
  <2>1. QueueShape'
    BY <1>1, <1>2, <1>4 DEF QueueShape, AnsweredOnce, Queued, GoesOn
  <2>2. OwedShape'
    BY <1>1, <1>4 DEF OwedShape, GoesOn
  <2>3. LoginShape'
    BY <1>4, <2>2 DEF LoginShape, GoesOn
  <2> QED
    BY <1>2, <2>1, <2>3 DEF FrameIInv
<1> QED
  BY <1>3, <1>4

\* What a handler is about to do, and the phase that a step of the loop finds.
Going(p, h) == phase' = p /\ held' = h /\ UNCHANGED <<events, answered, index, owed>>

LEMMA GoOnStep == ASSUME NEW p, NEW h, GoOn(p, h) PROVE Going(p, h)
BY DEF GoOn, Going

LEMMA PreflightStep == ASSUME FrameIInv, accepting, RunPreflight PROVE Ends \/ GoesOn
<1>1. HeldShape /\ held \subseteq AttemptSecrets /\ phase = "PREFLIGHT_QUEUED"
  BY DEF FrameIInv, LoginShape, RunPreflight
<1>2. CASE End("FAILED")
  BY <1>2, EndStep
<1>3. CASE phase' = "INPUT_QUEUED" /\ UNCHANGED <<events, answered, index, held, owed>>
  BY <1>1, <1>3 DEF GoesOn, HeldShape, Phases, Terminal, Verifying, Captcha
<1> QED
  BY <1>2, <1>3 DEF RunPreflight

LEMMA CredentialsStep == ASSUME FrameIInv, accepting, CollectCredentials PROVE Ends \/ GoesOn
<1>1. HeldShape /\ held = {} /\ phase = "INPUT_QUEUED"
  BY DEF FrameIInv, LoginShape, HeldShape, CollectCredentials
<1>2. CASE End("CANCELED") \/ End("FAILED")
  BY <1>2, EndStep
<1>3. CASE GoOn("PASSPORT_QUEUED", held \union LoginText)
  <2>1. Going("PASSPORT_QUEUED", LoginText)
    BY <1>1, <1>3, GoOnStep
  <2> QED
    BY <2>1 DEF Going, GoesOn, HeldShape, Phases, Terminal, Verifying, Captcha, LoginText, AttemptSecrets
<1> QED
  BY <1>2, <1>3 DEF CollectCredentials

LEMMA PassportStep == ASSUME FrameIInv, accepting, RunPassport PROVE Ends \/ GoesOn
<1>1. HeldShape /\ LoginText \subseteq held /\ held \subseteq AttemptSecrets /\ phase = "PASSPORT_QUEUED"
  BY DEF FrameIInv, LoginShape, HeldShape, RunPassport
<1>2. CASE End("CHALLENGE_REQUIRED") \/ End("PASSPORT_REJECTED") \/ End("FAILED")
  BY <1>2, EndStep
<1>3. CASE GoOn("COMBO_QUEUED", (held \ (LoginText \union VerifierSecrets)) \union {"token"})
  <2>1. Going("COMBO_QUEUED", (held \ (LoginText \union VerifierSecrets)) \union {"token"})
    BY <1>3, GoOnStep
  <2> QED
    BY <1>1, <2>1 DEF Going, GoesOn, HeldShape, Phases, Terminal, Verifying, Captcha, AttemptSecrets
<1>4. CASE GoOn("INPUT_QUEUED", held \ AttemptSecrets)
  <2>1. Going("INPUT_QUEUED", {})
    BY <1>1, <1>4, GoOnStep
  <2> QED
    BY <2>1 DEF Going, GoesOn, HeldShape, Phases, Terminal, Verifying, Captcha
<1>5. CASE GoOn("GEETEST_QUEUED", (held \ VerifierSecrets) \union {"aigisParams"})
  <2>1. Going("GEETEST_QUEUED", (held \ VerifierSecrets) \union {"aigisParams"})
    BY <1>5, GoOnStep
  <2> QED
    BY <1>1, <2>1 DEF Going, GoesOn, HeldShape, Phases, Terminal, Verifying, Captcha, LoginText,
                      VerifierSecrets, AttemptSecrets
<1>6. CASE GoOn("VERIFIER_INFO_QUEUED", (held \ VerifierSecrets) \union {"verify", "ticket"})
  <2>1. Going("VERIFIER_INFO_QUEUED", (held \ VerifierSecrets) \union {"verify", "ticket"})
    BY <1>6, GoOnStep
  <2> QED
    BY <1>1, <2>1 DEF Going, GoesOn, HeldShape, Phases, Terminal, Verifying, Captcha, LoginText,
                      VerifierSecrets, AttemptSecrets
<1> QED
  BY <1>2, <1>3, <1>4, <1>5, <1>6 DEF RunPassport

LEMMA ComboStep == ASSUME FrameIInv, accepting, RunCombo PROVE Ends \/ GoesOn
<1>1. CASE End("COMBO_REJECTED") \/ End("FAILED")
  BY <1>1, EndStep
<1>2. CASE /\ Accepts(asked, index) /\ EnqueueAnswer(asked, index) /\ phase' = "SUCCEEDED" /\ UNCHANGED owed
           /\ held' = held \ AttemptSecrets
  <2>1. QueueRoom
    BY <1>2 DEF QueueRoom, Accepts
  <2> QED
    BY <1>2, <2>1 DEF Ends, Terminal
<1> QED
  BY <1>1, <1>2 DEF RunCombo

LEMMA VerifierFacts ==
  ASSUME FrameIInv, accepting, phase \in Verifying
  PROVE  /\ held \subseteq AttemptSecrets /\ LoginText \subseteq held /\ {"verify", "ticket"} \subseteq held
         /\ "aigisRetry" \in held => "aigisResult" \in held
         /\ phase \in {"VERIFIER_INPUT_QUEUED", "VERIFIER_VERIFY_QUEUED"} => method # "none"
         /\ phase = "VERIFIER_VERIFY_QUEUED" => "factor" \in held
BY DEF FrameIInv, LoginShape, HeldShape

\* The identity check goes on; nothing that it has is lost, but the factor.
LEMMA VerifierGoes ==
  ASSUME FrameIInv, accepting, phase \in Verifying, NEW p \in Verifying, NEW h, Going(p, h),
         h \in {held, held \union {"factor"}, held \ {"factor"}},
         p = "VERIFIER_CAPTCHA_QUEUED" => method' = "code",
         p \in {"VERIFIER_INPUT_QUEUED", "VERIFIER_VERIFY_QUEUED"} => method' # "none",
         p = "VERIFIER_VERIFY_QUEUED" => "factor" \in h
  PROVE  GoesOn
<1>1. /\ h \subseteq AttemptSecrets /\ LoginText \subseteq h /\ {"verify", "ticket"} \subseteq h
      /\ "aigisRetry" \in h => "aigisResult" \in h
  BY VerifierFacts DEF AttemptSecrets, VerifierSecrets, LoginText
<1>2. phase' = p /\ held' = h /\ UNCHANGED <<events, answered, index, owed>>
  BY DEF Going
<1>3. p \in Phases \ Terminal /\ p \notin Captcha
      /\ p \notin {"PREFLIGHT_QUEUED", "INPUT_QUEUED", "PASSPORT_QUEUED", "COMBO_QUEUED"}
  BY DEF Phases, Terminal, Verifying, Captcha
<1>4. HeldShape'
  BY <1>1, <1>2, <1>3 DEF HeldShape
<1> QED
  BY <1>1, <1>2, <1>3, <1>4 DEF GoesOn

LEMMA FactorStep ==
  ASSUME FrameIInv, accepting, phase \in Verifying, NEW m \in {"code", "password"}, NEW sent \in BOOLEAN,
         QueueFactor(m, sent, held)
  PROVE  Ends \/ GoesOn
<1>1. CASE steps = MaxSteps
  BY <1>1, EndStep DEF QueueFactor
<1>2. CASE steps # MaxSteps
  <2>1. PICK p : p = IF m = "code" /\ ~sent THEN "VERIFIER_CAPTCHA_QUEUED" ELSE "VERIFIER_INPUT_QUEUED"
    OBVIOUS
  <2>2. GoOn(p, held) /\ method' = m
    BY <1>2, <2>1 DEF QueueFactor
  <2>3. Going(p, held)
    BY <2>2, GoOnStep
  <2>4. p \in Verifying /\ p # "VERIFIER_VERIFY_QUEUED" /\ (p = "VERIFIER_CAPTCHA_QUEUED" => m = "code")
    BY <2>1 DEF Verifying
  <2> QED
    BY <2>2, <2>3, <2>4, VerifierGoes
<1> QED
  BY <1>1, <1>2

LEMMA InfoStep == ASSUME FrameIInv, accepting, RunVerifierInfo PROVE Ends \/ GoesOn
<1>1. phase \in Verifying
  BY DEF RunVerifierInfo, Verifying
<1>2. CASE End("VERIFIER_UNSUPPORTED") \/ End("PASSPORT_REJECTED") \/ End("FAILED")
  BY <1>2, EndStep
<1>3. CASE GoOn("PASSPORT_QUEUED", held \union {"verifyRetry"})
  <2>1. Going("PASSPORT_QUEUED", held \union {"verifyRetry"})
    BY <1>3, GoOnStep
  <2>2. /\ held \subseteq AttemptSecrets /\ LoginText \subseteq held /\ {"verify", "ticket"} \subseteq held
        /\ "aigisRetry" \in held => "aigisResult" \in held
    BY <1>1, VerifierFacts
  <2> QED
    BY <2>1, <2>2 DEF Going, GoesOn, HeldShape, Phases, Terminal, Verifying, Captcha,
                      VerifierSecrets, AttemptSecrets
<1>4. ASSUME NEW m \in {"code", "password"}, NEW sent \in BOOLEAN, QueueFactor(m, sent, held)
      PROVE  Ends \/ GoesOn
  BY <1>1, <1>4, FactorStep
<1>5. ASSUME NEW m \in {"code", "password"}, GoOn("VERIFIER_METHOD_QUEUED", held)
      PROVE  GoesOn
  <2>1. Going("VERIFIER_METHOD_QUEUED", held)
    BY <1>5, GoOnStep
  <2>2. "VERIFIER_METHOD_QUEUED" \in Verifying
    BY DEF Verifying
  <2> QED
    BY <1>1, <2>1, <2>2, VerifierGoes
<1> QED
  BY <1>2, <1>3, <1>4, <1>5 DEF RunVerifierInfo

LEMMA MethodStep == ASSUME FrameIInv, accepting, RunVerifierMethod PROVE Ends \/ GoesOn
<1>1. phase \in Verifying /\ "VERIFIER_INFO_QUEUED" \in Verifying
  BY DEF RunVerifierMethod, Verifying
<1>2. CASE End("PASSPORT_REJECTED") \/ End("FAILED")
  BY <1>2, EndStep
<1>3. CASE GoOn("VERIFIER_INFO_QUEUED", held)
  <2>1. Going("VERIFIER_INFO_QUEUED", held)
    BY <1>3, GoOnStep
  <2> QED
    BY <1>1, <2>1, VerifierGoes
<1> QED
  BY <1>2, <1>3 DEF RunVerifierMethod

LEMMA CaptchaStep == ASSUME FrameIInv, accepting, RunVerifierCaptcha PROVE Ends \/ GoesOn
<1>1. phase \in Verifying /\ "VERIFIER_INPUT_QUEUED" \in Verifying /\ phase = "VERIFIER_CAPTCHA_QUEUED"
  BY DEF RunVerifierCaptcha, Verifying
<1>2. CASE End("PASSPORT_REJECTED") \/ End("FAILED")
  BY <1>2, EndStep
<1>3. CASE GoOn("VERIFIER_INPUT_QUEUED", held) /\ method' = method
  <2>1. Going("VERIFIER_INPUT_QUEUED", held)
    BY <1>3, GoOnStep
  <2>2. method = "code"
    BY <1>1 DEF FrameIInv, LoginShape, HeldShape
  <2> QED
    BY <1>1, <1>3, <2>1, <2>2, VerifierGoes
<1> QED
  BY <1>2, <1>3 DEF RunVerifierCaptcha

LEMMA VerificationStep == ASSUME FrameIInv, accepting, CollectVerification PROVE Ends \/ GoesOn
<1>1. /\ phase \in Verifying /\ phase = "VERIFIER_INPUT_QUEUED"
      /\ "VERIFIER_INPUT_QUEUED" \in Verifying /\ "VERIFIER_VERIFY_QUEUED" \in Verifying
  BY DEF CollectVerification, Verifying
<1>2. method # "none"
  BY <1>1, VerifierFacts
<1>3. CASE End("CANCELED") \/ End("FAILED")
  BY <1>3, EndStep
<1>4. CASE GoOn("VERIFIER_VERIFY_QUEUED", held \union {"factor"}) /\ method' = method
  <2>1. Going("VERIFIER_VERIFY_QUEUED", held \union {"factor"})
    BY <1>4, GoOnStep
  <2> QED
    BY <1>1, <1>2, <1>4, <2>1, VerifierGoes
<1>5. CASE GoOn("VERIFIER_INPUT_QUEUED", held \ {"factor"}) /\ method' = method
  <2>1. Going("VERIFIER_INPUT_QUEUED", held \ {"factor"})
    BY <1>5, GoOnStep
  <2> QED
    BY <1>1, <1>2, <1>5, <2>1, VerifierGoes
<1> QED
  BY <1>3, <1>4, <1>5 DEF CollectVerification

LEMMA VerifyStep == ASSUME FrameIInv, accepting, RunVerifierVerify PROVE Ends \/ GoesOn
<1>1. /\ phase \in Verifying /\ phase = "VERIFIER_VERIFY_QUEUED"
      /\ "VERIFIER_INPUT_QUEUED" \in Verifying /\ "VERIFIER_INFO_QUEUED" \in Verifying
  BY DEF RunVerifierVerify, Verifying
<1>2. method # "none"
  BY <1>1, VerifierFacts
<1>3. CASE End("PASSPORT_REJECTED") \/ End("FAILED")
  BY <1>3, EndStep
<1>4. ASSUME NEW p \in {"VERIFIER_INFO_QUEUED", "VERIFIER_INPUT_QUEUED"},
             GoOn(p, held \ {"factor"}), method' = method
      PROVE  GoesOn
  <2>1. Going(p, held \ {"factor"})
    BY <1>4, GoOnStep
  <2> QED
    BY <1>1, <1>2, <1>4, <2>1, VerifierGoes
<1> QED
  BY <1>3, <1>4 DEF RunVerifierVerify

\* The captcha: the worker may bring its result, and is joined before the next step.
CaptchaWorks == PhoneConnects \/ PhoneServed \/ PromptEnds \/ StopServer \/ StopServing

LEMMA CaptchaFacts ==
  ASSUME FrameIInv, accepting, phase \in Captcha
  PROVE  /\ held \subseteq AttemptSecrets /\ LoginText \subseteq held
         /\ "aigisParams" \in held /\ "verifyRetry" \notin held
BY DEF FrameIInv, LoginShape, HeldShape

LEMMA CaptchaGoes ==
  ASSUME FrameIInv, accepting, phase \in Captcha, phase' \in Captcha,
         UNCHANGED <<events, answered, index, owed>>, held' \in {held, held \union {"aigisResult"}}
  PROVE  GoesOn
<1>1. /\ held' \subseteq AttemptSecrets /\ LoginText \subseteq held'
      /\ "aigisParams" \in held' /\ "verifyRetry" \notin held'
  BY CaptchaFacts DEF AttemptSecrets, VerifierSecrets
<1>2. phase' \in Phases \ Terminal
  BY DEF Phases, Terminal, Captcha
<1>3. HeldShape'
  BY <1>1 DEF HeldShape, Terminal, Captcha, Verifying
<1> QED
  BY <1>1, <1>2, <1>3 DEF GoesOn

LEMMA WorkerStep == ASSUME FrameIInv, accepting, phase = "GEETEST_RUNNING", CaptchaWorks PROVE GoesOn /\ phase' = phase
<1>1. phase \in Captcha
  BY DEF Captcha
<1>2. /\ phase' = phase /\ UNCHANGED <<events, answered, index, owed>>
      /\ held' \in {held, held \union {"aigisResult"}}
  BY DEF CaptchaWorks, PhoneConnects, PhoneServed, PromptEnds, StopServer, StopServing
<1> QED
  BY <1>1, <1>2, CaptchaGoes

LEMMA BeginsStep == ASSUME FrameIInv, accepting, GeetestBegins PROVE Ends \/ GoesOn
<1>1. phase \in Captcha /\ "GEETEST_RUNNING" \in Captcha
  BY DEF GeetestBegins, Captcha
<1>2. CASE End("CHALLENGE_REQUIRED")
  BY <1>2, EndStep
<1>3. CASE phase' = "GEETEST_RUNNING" /\ UNCHANGED <<events, answered, index, held, owed>>
  BY <1>1, <1>3, CaptchaGoes
<1> QED
  BY <1>2, <1>3 DEF GeetestBegins

LEMMA EndsStep == ASSUME FrameIInv, accepting, phase = "GEETEST_RUNNING", GeetestEnds PROVE Ends \/ GoesOn
<1>1. phase \in Captcha /\ "GEETEST_QUEUED" \in Captcha
  BY DEF Captcha
<1>2. CASE End("CHALLENGE_REQUIRED") \/ End("CANCELED")
  BY <1>2, EndStep
<1>3. CASE "aigisResult" \in held /\ GoOn("PASSPORT_QUEUED", (held \ {"aigisParams"}) \union {"aigisRetry"})
  <2>1. Going("PASSPORT_QUEUED", (held \ {"aigisParams"}) \union {"aigisRetry"})
    BY <1>3, GoOnStep
  <2>2. /\ held \subseteq AttemptSecrets /\ LoginText \subseteq held /\ "verifyRetry" \notin held
    BY <1>1, CaptchaFacts
  <2> QED
    BY <1>3, <2>1, <2>2 DEF Going, GoesOn, HeldShape, Phases, Terminal, Verifying, Captcha,
                      VerifierSecrets, AttemptSecrets, LoginText
<1>4. CASE GoOn("GEETEST_QUEUED", held)
  <2>1. Going("GEETEST_QUEUED", held)
    BY <1>4, GoOnStep
  <2> QED
    BY <1>1, <2>1, CaptchaGoes DEF Going
<1> QED
  BY <1>2, <1>3, <1>4 DEF GeetestEnds

LEMMA HandlerLoop ==
  ASSUME FrameIInv, Input \/ Geetest \/ Tick
  PROVE  /\ LoopShape' /\ accepting /\ frames = <<>>
         /\ UNCHANGED <<accepting, bridgeFocus, asked, frames>>
<1>1. Places /\ LoginShape
  BY DEF FrameIInv, LoopShape
<1>2. /\ frames = <<>> /\ UNCHANGED <<accepting, bridgeFocus, asked, frames, resumed, surface>>
      /\ UNCHANGED <<focused, unityActive, recreate>>
  BY DEF Input, Geetest, Tick, LoopAt, HostOnly, Stays
<1>3. accepting
  BY <1>1 DEF Input, Geetest, Tick, LoopAt, Places
<1>4. InCall'
  BY <1>2 DEF InCall
<1>5. \/ at \in {"input", "geetest"} /\ at' \in {"geetest", "inputResume"}
      \/ at = "network" /\ at' = "focus"
  BY DEF Input, Geetest, Tick, LoopAt, InputDone
<1>6. CASE at \in {"input", "geetest"} /\ at' \in {"geetest", "inputResume"}
  <2>1. Paused /\ unityActive /\ surface
    BY <1>1, <1>6 DEF Places
  <2> QED
    BY <1>1, <1>2, <1>3, <1>4, <1>6, <2>1 DEF LoopShape, Places, Paused, Active
<1>7. CASE at = "network" /\ at' = "focus"
  <2>1. Active
    BY <1>1, <1>7 DEF Places
  <2> QED
    BY <1>1, <1>2, <1>3, <1>4, <1>7, <2>1 DEF LoopShape, Places, Paused, Active
<1> QED
  BY <1>2, <1>3, <1>5, <1>6, <1>7

LEMMA InputKeeps == ASSUME FrameIInv, Input PROVE FrameIInv'
<1>1. /\ LoopShape' /\ accepting /\ frames = <<>>
      /\ UNCHANGED <<accepting, bridgeFocus, asked, frames>>
  BY HandlerLoop
<1>2. Ends \/ GoesOn
  BY <1>1, CredentialsStep, VerificationStep, BeginsStep DEF Input
<1>3. phase \notin Terminal
  BY DEF Input, CollectCredentials, CollectVerification, GeetestBegins, Terminal
<1>4. phase' = "GEETEST_RUNNING" <=> at' = "geetest"
  BY DEF Input, InputDone
<1> QED
  BY <1>1, <1>2, <1>3, <1>4, HostKeeps

LEMMA GeetestKeeps == ASSUME FrameIInv, Geetest PROVE FrameIInv'
<1>1. /\ LoopShape' /\ accepting /\ frames = <<>>
      /\ UNCHANGED <<accepting, bridgeFocus, asked, frames>>
  BY HandlerLoop
<1>2. phase = "GEETEST_RUNNING" /\ phase \notin Terminal
  BY DEF Geetest, LoopAt, FrameIInv, LoginShape, Terminal
<1>3. CASE CaptchaWorks /\ at' = at
  <2>1. GoesOn /\ phase' = phase
    BY <1>1, <1>2, <1>3, WorkerStep
  <2>2. phase' = "GEETEST_RUNNING" <=> at' = "geetest"
    BY <1>2, <1>3, <2>1 DEF Geetest, LoopAt
  <2> QED
    BY <1>1, <1>2, <2>1, <2>2, HostKeeps
<1>4. CASE GeetestEnds /\ InputDone
  <2>1. Ends \/ GoesOn
    BY <1>1, <1>2, <1>4, EndsStep
  <2>2. phase' = "GEETEST_RUNNING" <=> at' = "geetest"
    BY <1>4 DEF InputDone
  <2> QED
    BY <1>1, <1>2, <2>1, <2>2, HostKeeps
<1> QED
  BY <1>3, <1>4 DEF Geetest, CaptchaWorks

LEMMA TickKeeps == ASSUME FrameIInv, Tick PROVE FrameIInv'
<1>1. /\ LoopShape' /\ accepting /\ frames = <<>>
      /\ UNCHANGED <<accepting, bridgeFocus, asked, frames>>
  BY HandlerLoop
<1>2. /\ at' = "focus"
      /\ \/ RunPreflight \/ RunPassport \/ RunCombo \/ RunVerifierInfo \/ RunVerifierMethod
         \/ RunVerifierCaptcha \/ RunVerifierVerify
  BY DEF Tick
<1>3. Ends \/ GoesOn
  BY <1>1, <1>2, PreflightStep, PassportStep, ComboStep, InfoStep, MethodStep, CaptchaStep, VerifyStep
<1>4. phase \notin Terminal
  BY <1>2 DEF RunPreflight, RunPassport, RunCombo, RunVerifierInfo, RunVerifierMethod,
              RunVerifierCaptcha, RunVerifierVerify, Terminal
<1>5. phase' # "GEETEST_RUNNING"
  <2>1. ASSUME RunPreflight \/ RunPassport \/ RunCombo PROVE phase' # "GEETEST_RUNNING"
    BY <2>1 DEF RunPreflight, RunPassport, RunCombo, GoOn, End
  <2>2. ASSUME RunVerifierInfo PROVE phase' # "GEETEST_RUNNING"
    BY <2>2 DEF RunVerifierInfo, QueueFactor, GoOn, End
  <2>3. ASSUME RunVerifierMethod \/ RunVerifierCaptcha \/ RunVerifierVerify PROVE phase' # "GEETEST_RUNNING"
    BY <2>3 DEF RunVerifierMethod, RunVerifierCaptcha, RunVerifierVerify, GoOn, End
  <2> QED
    BY <1>2, <2>1, <2>2, <2>3
<1> QED
  BY <1>1, <1>2, <1>3, <1>4, <1>5, HostKeeps

LEMMA ShutdownKeeps == ASSUME FrameIInv, BridgeShutdown PROVE FrameIInv'
<1>1. Places /\ LoginShape
  BY DEF FrameIInv, LoopShape
<1>2. /\ frames = <<>> /\ frames' = <<>> /\ at = "shutdown" /\ at' = "lastSurface"
      /\ accepting' = FALSE /\ bridgeFocus' = FALSE
      /\ asked' = [i \in Indices |-> "free"] /\ answered' = {} /\ events' = <<>>
      /\ UNCHANGED <<loginVars, resumed, surface, focused, unityActive, recreate>>
  BY DEF BridgeShutdown, LoopAt, ShutDown, Stays
<1>3. StackShape' /\ Sent' = {}
  BY <1>2, CalmNext DEF Calm
<1>4. LoopShape'
  BY <1>1, <1>2 DEF LoopShape, InCall, Places
<1>5. QueueShape'
  <2>1. Queued' = {} /\ Cardinality({}) = 0 /\ Len(events') = 0
    BY <1>2, FS_EmptySet DEF Queued
  <2>2. AnsweredOnce'
    <3>1. Cardinality(Queued') = Len(events')
      BY <2>1
    <3>2. answered' = Queued' \union Sent' /\ Queued' \intersect Sent' = {}
      BY <1>2, <1>3, <2>1
    <3>3. answered' \subseteq ActiveIn(asked')
      BY <1>2
    <3> QED
      BY <3>1, <3>2, <3>3 DEF AnsweredOnce
  <2> QED
    BY <1>2, <2>2 DEF QueueShape
<1>6. LoginShape'
  BY <1>1, <1>2 DEF LoginShape, loginVars
<1> QED
  BY <1>3, <1>4, <1>5, <1>6 DEF FrameIInv

LEMMA DoneKeeps == ASSUME FrameIInv, Done PROVE FrameIInv'
<1>1. Places /\ LoginShape /\ QueueShape
  BY DEF FrameIInv, LoopShape
<1>2. /\ frames = <<>> /\ frames' = <<>> /\ at = "done" /\ at' = "exited" /\ held' = {}
      /\ UNCHANGED <<accepting, bridgeFocus, asked, answered, events, phase, resumed, surface,
                     focused, unityActive, recreate>>
  BY DEF Done, LoopAt, Stays, Quiet, QuietQueue
<1>3. StackShape' /\ Sent' = Sent
  BY <1>2, CalmNext, CalmStack DEF Calm
<1>4. LoopShape'
  BY <1>1, <1>2 DEF LoopShape, InCall, Places
<1>5. QueueShape'
  BY <1>1, <1>2, <1>3 DEF QueueShape, AnsweredOnce, Queued
<1>6. LoginShape'
  <2>1. ~accepting
    BY <1>1, <1>2 DEF Places
  <2> QED
    BY <1>1, <1>2, <2>1 DEF LoginShape
<1> QED
  BY <1>3, <1>4, <1>5, <1>6 DEF FrameIInv

-----------------------------------------------------------------------------
(* Guest code invokes: its index was free, so it is not that of the attempt *)
(* under way, and no answer for it waits.                                   *)

LEMMA AskedFacts ==
  ASSUME FrameIInv, NEW i \in Indices \union {OneWay}, NEW name, Observed(i)
  PROVE  /\ AskedBy(name, i) \in [Indices -> {"free", "login_login", "other"}]
         /\ ActiveIn(asked) \subseteq ActiveIn(AskedBy(name, i))
         /\ i \notin answered
         /\ phase \notin Terminal => index # i /\ AskedBy(name, i)[index] = "login_login"
         /\ i # OneWay /\ name = "login_login" => i \in Indices /\ AskedBy(name, i)[i] = "login_login"
         /\ \A j \in Indices : j # i => AskedBy(name, i)[j] = asked[j]
         /\ i # OneWay /\ name # "login_login" => AskedBy(name, i)[i] # "login_login"
<1>1. /\ asked \in [Indices -> {"free", "login_login", "other"}] /\ answered \subseteq ActiveIn(asked)
      /\ accepting /\ i \notin ActiveIn(asked)
  BY DEF FrameIInv, QueueShape, AnsweredOnce, Observed
<1>2. phase \notin Terminal => index \in Indices /\ asked[index] = "login_login" /\ index \in ActiveIn(asked)
  BY <1>1 DEF FrameIInv, LoginShape, OwedShape, ActiveIn
<1>3. CASE i = OneWay
  BY <1>1, <1>2, <1>3 DEF AskedBy
<1>4. CASE i # OneWay
  <2>1. i \in Indices
    BY <1>4
  <2>2. PICK table : table = AskedBy(name, i)
    OBVIOUS
  <2>3. PICK v \in {"login_login", "other"} : table = [asked EXCEPT ![i] = v] /\ (name = "login_login" <=> v = "login_login")
    BY <1>4, <2>2 DEF AskedBy
  <2>4. table \in [Indices -> {"free", "login_login", "other"}] /\ table[i] = v
        /\ \A j \in Indices : j # i => table[j] = asked[j]
    BY <1>1, <2>1, <2>3
  <2>5. ActiveIn(asked) \subseteq ActiveIn(table)
    BY <2>4 DEF ActiveIn
  <2> QED
    BY <1>1, <1>2, <2>1, <2>2, <2>3, <2>4, <2>5
<1> QED
  BY <1>3, <1>4

LEMMA InvokeKeeps ==
  ASSUME FrameIInv, NEW i \in Indices \union {OneWay}, NEW name, Invoke(name, i), UNCHANGED loopVars
  PROVE  FrameIInv'
<1>1. StackShape /\ LoopShape /\ QueueShape /\ LoginShape /\ InCall /\ Places /\ accepting
  BY DEF FrameIInv, LoopShape, Invoke, Observed
<1>2. PICK table : table = AskedBy(name, i)
  OBVIOUS
<1>3. /\ table \in [Indices -> {"free", "login_login", "other"}]
      /\ ActiveIn(asked) \subseteq ActiveIn(table) /\ i \notin answered
      /\ phase \notin Terminal => index # i /\ table[index] = "login_login"
      /\ i # OneWay /\ name = "login_login" => i \in Indices /\ table[i] = "login_login"
      /\ \A j \in Indices : j # i => table[j] = asked[j]
      /\ i # OneWay /\ name # "login_login" => table[i] # "login_login"
  BY <1>2, AskedFacts DEF Invoke
<1>4. /\ frames # <<>> /\ asked' = table /\ UNCHANGED <<accepting, bridgeFocus>> /\ at' = at
      /\ UNCHANGED loopVars
  BY <1>2 DEF Invoke, InGuest, loopVars
<1>5. at # "geetest" /\ phase # "GEETEST_RUNNING"
  BY <1>1, <1>4 DEF Places, LoginShape
<1>6. /\ held \subseteq AttemptSecrets /\ HeldShape /\ OwedShape /\ phase \in Phases
  BY <1>1 DEF LoginShape
<1>7. ASSUME frames' = frames PROVE StackShape' /\ Sent' = Sent /\ LoopShape'
  <2>1. Bottom' = Bottom
    BY <1>7 DEF Bottom
  <2> QED
    BY <1>1, <1>4, <1>7, <2>1, LoopStays DEF StackShape, Sent
<1>8. ASSUME EnqueueAnswer(table, i), Sent' = Sent
      PROVE  QueueShape' /\ (phase \notin Terminal => index \notin answered') /\ answered \subseteq answered'
  <2>1. QueueShape' /\ answered' \subseteq answered \union {i}
    BY <1>1, <1>3, <1>4, <1>8, EnqueueKeeps
  <2>2. answered \subseteq answered'
    BY <1>8 DEF EnqueueAnswer
  <2> QED
    BY <1>3, <1>6, <2>1, <2>2 DEF OwedShape
<1>9. ASSUME UNCHANGED <<events, answered>>, Sent' = Sent PROVE QueueShape'
  <2>1. Queued' = Queued /\ ActiveIn(asked') = ActiveIn(table)
    BY <1>4, <1>9 DEF Queued
  <2>2. AnsweredOnce'
    BY <1>1, <1>3, <1>9, <2>1 DEF QueueShape, AnsweredOnce
  <2> QED
    BY <1>1, <1>3, <1>4, <1>9, <2>2 DEF QueueShape
<1>10. ASSUME UNCHANGED loginVars, phase \notin Terminal => index \notin answered',
              answered \subseteq answered', name # "login_login"
       PROVE  LoginShape'
  <2>1. ASSUME NEW j \in owed', asked'[j] = "login_login"
        PROVE  j \in answered' \/ (phase \notin Terminal /\ j = index)
    <3>1. j \in owed /\ j \in Indices /\ j # OneWay /\ table[j] = "login_login"
      BY <1>4, <1>6, <1>10, <2>1, QueueAssumption DEF OwedShape, loginVars, OneWay
    <3>2. asked[j] = "login_login"
      BY <1>3, <1>10, <3>1
    <3> QED
      BY <1>6, <1>10, <3>1, <3>2 DEF OwedShape
  <2>2. OwedShape'
    BY <1>3, <1>4, <1>6, <1>10, <2>1 DEF OwedShape, loginVars
  <2> QED
    BY <1>1, <1>4, <1>10, <2>2 DEF LoginShape, HeldShape, loginVars
<1>11. CASE name = "login_login" /\ Accepted(i) /\ RequestLogin(table, i) /\ UNCHANGED frames
  <2>1. phase \in Terminal /\ i # OneWay /\ i \in Indices /\ table[i] = "login_login" /\ held = {}
    BY <1>3, <1>6, <1>11 DEF Accepted, HeldShape
  <2>2. held' = {} /\ index' = i /\ owed' = owed \union {i}
    BY <2>1, <1>11 DEF RequestLogin
  <2>3. \/ phase' = "SUCCEEDED" /\ EnqueueAnswer(table, i) /\ Accepts(table, i)
        \/ /\ phase' \in {"INPUT_QUEUED", "PREFLIGHT_QUEUED"}
           /\ UNCHANGED <<events, answered>>
    BY <1>11, <2>1 DEF RequestLogin
  <2>4. QueueShape'
    BY <1>7, <1>8, <1>9, <1>11, <2>3
  <2>5. phase' \in Phases \ {"GEETEST_RUNNING"} /\ HeldShape'
    BY <2>2, <2>3 DEF Phases, Terminal, HeldShape, Verifying, Captcha
  <2>6. OwedShape'
    <3>1. /\ answered \subseteq answered'
          /\ i \in answered' \/ (phase' \notin Terminal /\ i \notin answered')
          /\ phase' \notin Terminal => i \notin answered'
      BY <1>3, <2>3 DEF EnqueueAnswer, Terminal
    <3>2. ASSUME NEW j \in owed', asked'[j] = "login_login", j # i PROVE j \in answered'
      <4>1. j \in owed /\ j \in Indices /\ asked[j] = "login_login"
        BY <1>3, <1>4, <1>6, <2>2, <3>2 DEF OwedShape
      <4> QED
        BY <1>6, <2>1, <3>1, <4>1 DEF OwedShape
    <3>3. owed' \subseteq Indices
      BY <1>6, <2>1, <2>2 DEF OwedShape
    <3> QED
      BY <1>4, <2>1, <2>2, <3>1, <3>2, <3>3 DEF OwedShape
  <2>7. LoginShape'
    BY <1>4, <1>5, <2>2, <2>5, <2>6 DEF LoginShape
  <2> QED
    BY <1>7, <1>11, <2>4, <2>7 DEF FrameIInv
<1>12. CASE /\ UNCHANGED <<events, answered, phase, index, held, method, frames>>
            /\ owed' = owed \ {i}
  <2>1. phase \notin Terminal => index # i /\ table[index] = "login_login" /\ index \notin answered
    BY <1>3, <1>6 DEF OwedShape
  <2>2. ASSUME NEW j \in owed', asked'[j] = "login_login"
        PROVE  j \in answered' \/ (phase' \notin Terminal /\ j = index')
    <3>1. j \in owed /\ asked[j] = "login_login"
      BY <1>3, <1>4, <1>6, <1>12, <2>2 DEF OwedShape
    <3> QED
      BY <1>6, <1>12, <3>1 DEF OwedShape
  <2>3. OwedShape'
    BY <1>4, <1>6, <1>12, <2>1, <2>2 DEF OwedShape
  <2>4. LoginShape'
    BY <1>1, <1>4, <1>12, <2>3 DEF LoginShape, HeldShape, loopVars
  <2> QED
    BY <1>7, <1>9, <1>12, <2>4 DEF FrameIInv
<1>13. CASE InvalidateSession /\ UNCHANGED frames /\ name # "login_login"
  <2>1. /\ UNCHANGED <<events, answered, index, held, method, owed>>
        /\ phase' = phase \/ (phase = "SUCCEEDED" /\ phase' = "IDLE")
    BY <1>13 DEF InvalidateSession
  <2>2. HeldShape' /\ phase' \in Phases /\ phase' # "GEETEST_RUNNING"
    BY <1>5, <1>6, <2>1 DEF HeldShape, Phases, Terminal, Verifying, Captcha
  <2>3. OwedShape'
    <3>1. phase' \notin Terminal <=> phase \notin Terminal
      BY <2>1 DEF Terminal
    <3>2. ASSUME NEW j \in owed', asked'[j] = "login_login"
          PROVE  j \in answered' \/ (phase' \notin Terminal /\ j = index')
      <4>1. j \in owed /\ j \in Indices /\ j # OneWay /\ table[j] = "login_login"
        BY <1>4, <1>6, <2>1, <3>2, QueueAssumption DEF OwedShape, OneWay
      <4>2. asked[j] = "login_login"
        BY <1>3, <1>13, <4>1
      <4> QED
        BY <1>6, <2>1, <3>1, <4>1, <4>2 DEF OwedShape
    <3> QED
      BY <1>3, <1>4, <1>6, <2>1, <3>1, <3>2 DEF OwedShape
  <2>4. LoginShape'
    BY <1>4, <1>5, <1>6, <2>1, <2>2, <2>3 DEF LoginShape
  <2> QED
    BY <1>7, <1>9, <1>13, <2>1, <2>4 DEF FrameIInv
<1>14. CASE EnqueueAnswer(table, i) /\ UNCHANGED <<frames, loginVars>> /\ name # "login_login"
  BY <1>7, <1>8, <1>10, <1>14 DEF FrameIInv
<1>15. CASE EnqueueAnswer(table, i) /\ AfterRender(frames) /\ UNCHANGED loginVars /\ name # "login_login"
  <2>1. CASE accepting /\ bridgeFocus
    <3>1. frames' = <<Drain(DrainPerFrame)>> \o frames
      BY <1>15, <2>1 DEF AfterRender
    <3>2. StackShape' /\ Sent' = Sent /\ frames' # <<>> /\ Bottom' = Bottom
      BY <1>1, <1>4, <2>1, <3>1, PushKeeps
    <3>3. LoopShape'
      BY <1>1, <1>4, <3>2, LoopStays
    <3> QED
      BY <1>8, <1>10, <1>15, <3>2, <3>3 DEF FrameIInv
  <2>2. CASE ~(accepting /\ bridgeFocus)
    <3>1. frames' = frames
      BY <1>15, <2>2 DEF AfterRender
    <3> QED
      BY <1>7, <1>8, <1>10, <1>15, <3>1 DEF FrameIInv
  <2> QED
    BY <2>1, <2>2
<1>16. \/ name = "login_login" /\ Accepted(i) /\ RequestLogin(table, i) /\ UNCHANGED frames
       \/ UNCHANGED <<events, answered, phase, index, held, method, frames>> /\ owed' = owed \ {i}
       \/ InvalidateSession /\ UNCHANGED frames /\ name # "login_login"
       \/ EnqueueAnswer(table, i) /\ UNCHANGED <<frames, loginVars>> /\ name # "login_login"
       \/ EnqueueAnswer(table, i) /\ AfterRender(frames) /\ UNCHANGED loginVars /\ name # "login_login"
  BY <1>2 DEF Invoke
<1> QED
  BY <1>11, <1>12, <1>13, <1>14, <1>15, <1>16

LEMMA FrameStutter == ASSUME FrameIInv, UNCHANGED frameVars PROVE FrameIInv'
<1>1. UNCHANGED <<bridgeVars, loginVars, loopVars>>
  BY DEF frameVars
<1>2. StackShape'
  BY <1>1 DEF FrameIInv, StackShape, bridgeVars
<1>3. LoopShape'
  <2>1. InCall'
    BY <1>1 DEF FrameIInv, LoopShape, InCall, Bottom, bridgeVars, loopVars
  <2>2. UNCHANGED <<focused, unityActive, recreate, resumed, surface, bridgeFocus, at, frames, accepting>>
    BY <1>1 DEF bridgeVars, loopVars
  <2>3. Places'
    BY <2>2 DEF FrameIInv, LoopShape, Places, Active, Paused
  <2> QED
    BY <2>1, <2>3 DEF LoopShape
<1>4. QueueShape'
  BY <1>1 DEF FrameIInv, QueueShape, AnsweredOnce, Queued, Sent, bridgeVars
<1>5. LoginShape'
  BY <1>1 DEF FrameIInv, LoginShape, HeldShape, OwedShape, bridgeVars, loginVars, loopVars
<1> QED
  BY <1>2, <1>3, <1>4, <1>5 DEF FrameIInv

LEMMA FrameStep == FrameIInv /\ [FrameNext]_frameVars => FrameIInv'
<1> SUFFICES ASSUME FrameIInv, [FrameNext]_frameVars PROVE FrameIInv'
  OBVIOUS
<1>1. CASE UNCHANGED frameVars
  BY <1>1, FrameStutter
<1>2. CASE Strolls
  BY <1>2, StrollKeeps
<1>3. CASE Calls
  BY <1>3, CallKeeps
<1>4. CASE CallReturns
  BY <1>4, ReturnKeeps
<1>5. CASE Rendered
  BY <1>5, RenderedKeeps
<1>6. CASE Input
  BY <1>6, InputKeeps
<1>7. CASE Geetest
  BY <1>7, GeetestKeeps
<1>8. CASE Tick
  BY <1>8, TickKeeps
<1>9. CASE BridgeShutdown
  BY <1>9, ShutdownKeeps
<1>10. CASE Done
  BY <1>10, DoneKeeps
<1>11. CASE Invoked
  BY <1>11, InvokeKeeps DEF Invoked
<1>12. CASE Drained
  BY <1>12, SendKeeps, CompleteKeeps, DrainDoneKeeps DEF Drained
<1>13. CASE Exited
  BY <1>13, FrameStutter DEF Exited
<1> QED
  BY <1>1, <1>2, <1>3, <1>4, <1>5, <1>6, <1>7, <1>8, <1>9, <1>10, <1>11, <1>12, <1>13
     DEF FrameNext, Strolls, Calls

LEMMA FrameImplies == FrameIInv => FramesSound
<1> SUFFICES ASSUME FrameIInv PROVE FramesSound
  OBVIOUS
<1>1. StackShape /\ InCall /\ Places /\ QueueShape /\ LoginShape
  BY DEF FrameIInv, LoopShape
<1>2. StepsSupplied
  <2> SUFFICES ASSUME accepting PROVE Supplied
    BY DEF StepsSupplied
  <2>1. HeldShape /\ phase \in Phases
    BY <1>1 DEF LoginShape
  <2>2. CASE phase \in Terminal
    BY <2>1, <2>2 DEF Supplied, HeldShape, Terminal
  <2>3. CASE phase \in Verifying
    BY <2>1, <2>3 DEF Supplied, HeldShape, Terminal, Verifying
  <2>4. CASE phase \in Captcha
    BY <2>1, <2>4 DEF Supplied, HeldShape, Terminal, Verifying, Captcha
  <2>5. CASE phase \in {"PREFLIGHT_QUEUED", "INPUT_QUEUED", "COMBO_QUEUED"}
    BY <2>1, <2>5 DEF Supplied, HeldShape, Terminal, Verifying, Captcha
  <2>6. CASE phase = "PASSPORT_QUEUED"
    BY <2>1, <2>6 DEF Supplied, HeldShape, Terminal, Verifying, Captcha
  <2> QED
    BY <2>1, <2>2, <2>3, <2>4, <2>5, <2>6 DEF Phases
<1>3. AttemptAnswered
  <2>1. AnsweredOnce /\ answered = Queued \union Sent
    BY <1>1 DEF QueueShape, AnsweredOnce
  <2>2. ASSUME accepting, NEW j \in owed, asked[j] = "login_login", ~UnderWay(j) PROVE j \in Queued \union Sent
    BY <1>1, <2>1, <2>2 DEF LoginShape, OwedShape, UnderWay
  <2> QED
    BY <1>1, <2>1, <2>2 DEF AttemptAnswered, LoginShape, OwedShape
<1>4. CallbacksWhileActive
  <2>1. \A i \in Sent : bridgeFocus /\ frames # <<>>
    <3> SUFFICES ASSUME NEW i \in Sent PROVE bridgeFocus /\ frames # <<>>
      OBVIOUS
    <3>1. PICK k \in 1 .. Len(frames) : frames[k].sent # OneWay
      BY <1>1, StackFacts DEF SentOnStack
    <3> QED
      BY <1>1, <3>1 DEF StackShape
  <2>2. bridgeFocus /\ frames # <<>> => resumed /\ surface
    <3> SUFFICES ASSUME bridgeFocus, frames # <<>> PROVE resumed /\ surface
      OBVIOUS
    <3>1. CASE Bottom.kind = "guest"
      <4>1. CallBefore(at) # "no call"
        BY <1>1, <3>1 DEF InCall
      <4>2. at \in {"render", "rendered"}
        BY <1>1, <4>1 DEF Places, CallBefore, Paused
      <4> QED
        BY <1>1, <4>2 DEF Places, Active
    <3>2. CASE Bottom.kind # "guest"
      BY <1>1, <3>2 DEF InCall, Places, Active
    <3> QED
      BY <3>1, <3>2
  <2>3. frames # <<>> /\ Bottom.call \in {"inject", "render"} =>
          resumed /\ surface /\ unityActive /\ focused /\ bridgeFocus
    <3> SUFFICES ASSUME frames # <<>>, Bottom.call \in {"inject", "render"} PROVE Active
      BY DEF Active
    <3>1. CASE Bottom.kind = "guest"
      <4>1. CallBefore(at) \in {"inject", "render"}
        BY <1>1, <3>1 DEF InCall
      <4>2. at \in {"render", "rendered"}
        BY <4>1 DEF CallBefore
      <4> QED
        BY <1>1, <4>2 DEF Places
    <3>2. CASE Bottom.kind # "guest"
      BY <1>1, <3>2 DEF InCall, Places
    <3> QED
      BY <3>1, <3>2
  <2>4. at \in {"input", "geetest"} /\ frames = <<>> => ~resumed /\ ~bridgeFocus
    BY <1>1 DEF Places, Paused
  <2>5. frames = <<>> /\ at \in {"focus", "login", "network"} =>
          (bridgeFocus <=> unityActive) /\ (unityActive <=> resumed)
    BY <1>1 DEF Places, Active
  <2> QED
    BY <2>1, <2>2, <2>3, <2>4, <2>5 DEF CallbacksWhileActive, Bottom
<1> QED
  BY <1>2, <1>3, <1>4 DEF FramesSound

(* The loop of main.c, the queue of combo_bridge.c and the login of          *)
(* combo_auth.c together, for every number of indices, slots, drained events *)
(* and nested drains: a callback runs only in a resumed Unity that has its   *)
(* surface; an accepted login that is over has its answer queued or sent,    *)
(* unless the queue was full when it ended, and none is answered twice; no   *)
(* step finds that what its request needs was lost.                          *)
THEOREM FrameSafety == FrameSpec => []FramesSound
<1>1. FrameSpec => []FrameIInv
  BY FrameInitial, FrameStep, PTL DEF FrameSpec
<1> QED
  BY <1>1, FrameImplies, PTL

(***************************************************************************)
(* 6. Sockets.  A call that is promised a report either knows how long the *)
(* data has been waiting by the idle times of the stream's numbers and by  *)
(* the time since its number was last asked, or somebody is about to ask.  *)
(***************************************************************************)

NetStates == {"idle", "native", "scan", "probe", "bad", "record", "closing"}
TrackRec == [active : BOOLEAN, gen : Nat, desc : Nat, level : {0, 1, 2}, idle : Nat, probed : Nat]
WaitRec == [at : NetStates, fd : NetFds \union {0}, obj : Nat, gen : Nat, guard : Nat,
            left : Nat, tries : Nat, late : Nat, proved : BOOLEAN]

NetTypes ==
  /\ number \in [NetFds -> Nat] /\ gens \in Nat /\ route \subseteq NetFds
  /\ track \in [NetFds -> TrackRec] /\ wait \in [NetThreads -> WaitRec]
  /\ \A t \in NetThreads : wait[t].at # "idle" => wait[t].fd \in NetFds

\* The records say which numbers are open, and what was received through them.
Tracked ==
  \A f \in NetFds :
    /\ track[f].active <=> number[f] # 0 /\ f \notin route
    /\ track[f].active => track[f].desc = number[f]
    /\ f \in heard => f \in route \/ (track[f].active /\ track[f].level > 0)

\* A number is closed by one call at a time.
Closers ==
  \A t, u \in NetThreads :
    /\ wait[t].at = "closing" => wait[t].fd \in route
    /\ wait[t].at = "closing" /\ wait[u].at = "closing" /\ t # u => wait[t].fd # wait[u].fd

\* Somebody is about to ask for queued bytes through f.
Asking(f) ==
  \E v \in NetThreads : wait[v].at = "probe" /\ wait[v].fd = f /\ wait[v].gen = track[f].gen

\* A call that is promised a report polls an open number with progress, in slices.
PollsSliced(t) ==
  LET f == wait[t].fd IN
  /\ wait[t].at \in {"native", "scan", "probe"} /\ f \in NetFds
  /\ number[f] = wait[t].obj /\ track[f].active /\ track[f].level > 0
  /\ wait[t].guard \in 1 .. TlsInterval /\ wait[t].left <= wait[t].guard
  /\ wait[t].late < 2 * TlsInterval
  /\ wait[t].late > 0 => wait[t].obj \in queued
  /\ wait[t].at = "probe" => wait[t].gen = track[f].gen

\* As long as data has been waiting no number of the stream has received and nobody has
\* asked, unless somebody asks now; and the slice ends in time.
AskedInTime(t) ==
  /\ \A g \in NetFds : number[g] = wait[t].obj /\ track[g].active /\ track[g].level > 0 =>
       track[g].idle >= MinIdle \/ track[g].idle >= wait[t].late
  /\ \/ Asking(wait[t].fd)
     \/ /\ \/ track[wait[t].fd].probed >= TlsInterval
           \/ track[wait[t].fd].probed >= wait[t].late
        /\ wait[t].late + wait[t].left < 2 * TlsInterval

PollsInTime == \A t \in NetThreads : wait[t].proved => PollsSliced(t) /\ AskedInTime(t)

\* Nobody has waited since bytes were received that are yet to be recorded.
Records ==
  /\ 0 \notin queued
  /\ \A t \in NetThreads : wait[t].at = "record" =>
       /\ wait[t].fd \in NetFds /\ wait[t].obj # 0
       /\ \A u \in NetThreads : wait[u].proved /\ wait[u].obj = wait[t].obj => wait[u].late = 0

NetIInv == NetTypes /\ Tracked /\ Closers /\ PollsInTime /\ Records

LEMMA NetFollows == NetIInv => QueuedDataIsSeen
BY DEF NetIInv, PollsInTime, PollsSliced, QueuedDataIsSeen

LEMMA NetInitial == NetInit => NetIInv
<1> SUFFICES ASSUME NetInit PROVE NetIInv
  OBVIOUS
<1>1. Untracked \in TrackRec /\ ~Untracked.active /\ NoWait \in WaitRec
      /\ NoWait.at = "idle" /\ ~NoWait.proved
  BY DEF Untracked, TrackRec, NoWait, WaitRec, NetStates
<1>2. NetTypes
  BY <1>1 DEF NetInit, NetTypes
<1> QED BY <1>1, <1>2 DEF NetIInv, NetInit, Tracked, Closers, PollsInTime, Records

\* What a step of another thread does to a call at most.
Follows(u) ==
  /\ wait'[u].at = wait[u].at /\ wait'[u].fd = wait[u].fd /\ wait'[u].obj = wait[u].obj
  /\ wait'[u].gen = wait[u].gen /\ wait'[u].guard = wait[u].guard
  /\ wait'[u].left = wait[u].left /\ wait'[u].late \in {wait[u].late, 0}
  /\ wait'[u].proved => wait[u].proved

LEMMA ToldCalls ==
  ASSUME NetTypes, NEW d
  PROVE  /\ Told(wait, d) \in [NetThreads -> WaitRec]
         /\ \A u \in NetThreads : LET w == Told(wait, d)[u] IN
              /\ w.at = wait[u].at /\ w.fd = wait[u].fd /\ w.obj = wait[u].obj
              /\ w.gen = wait[u].gen /\ w.guard = wait[u].guard /\ w.left = wait[u].left
              /\ w.proved = wait[u].proved
              /\ w.late = IF wait[u].obj = d THEN 0 ELSE wait[u].late
<1> SUFFICES ASSUME NEW u \in NetThreads
             PROVE  LET w == Told(wait, d)[u] IN
                    /\ w \in WaitRec
                    /\ w.at = wait[u].at /\ w.fd = wait[u].fd /\ w.obj = wait[u].obj
                    /\ w.gen = wait[u].gen /\ w.guard = wait[u].guard /\ w.left = wait[u].left
                    /\ w.proved = wait[u].proved
                    /\ w.late = IF wait[u].obj = d THEN 0 ELSE wait[u].late
  BY DEF Told
<1>1. wait[u] \in WaitRec
  BY DEF NetTypes
<1>2. Told(wait, d)[u] = IF wait[u].obj = d THEN [wait[u] EXCEPT !.late = 0] ELSE wait[u]
  BY DEF Told
<1> QED BY <1>1, <1>2 DEF WaitRec

LEMMA DoubtedCalls ==
  ASSUME NetTypes, NEW fds
  PROVE  /\ Doubted(wait, fds) \in [NetThreads -> WaitRec]
         /\ \A u \in NetThreads : LET w == Doubted(wait, fds)[u] IN
              /\ w.at = wait[u].at /\ w.fd = wait[u].fd /\ w.obj = wait[u].obj
              /\ w.gen = wait[u].gen /\ w.guard = wait[u].guard /\ w.left = wait[u].left
              /\ w.late = wait[u].late
              /\ w.proved <=> wait[u].proved /\ wait[u].fd \notin fds
<1> SUFFICES ASSUME NEW u \in NetThreads
             PROVE  LET w == Doubted(wait, fds)[u] IN
                    /\ w \in WaitRec
                    /\ w.at = wait[u].at /\ w.fd = wait[u].fd /\ w.obj = wait[u].obj
                    /\ w.gen = wait[u].gen /\ w.guard = wait[u].guard /\ w.left = wait[u].left
                    /\ w.late = wait[u].late
                    /\ w.proved <=> wait[u].proved /\ wait[u].fd \notin fds
  BY DEF Doubted
<1>1. wait[u] \in WaitRec
  BY DEF NetTypes
<1>2. Doubted(wait, fds)[u] = IF wait[u].fd \in fds THEN [wait[u] EXCEPT !.proved = FALSE] ELSE wait[u]
  BY DEF Doubted
<1> QED BY <1>1, <1>2 DEF WaitRec

\* A call that another thread's step leaves waiting keeps what it was promised.
LEMMA OthersPoll ==
  ASSUME NetIInv, NEW u \in NetThreads, NEW f, f = wait[u].fd, Follows(u), wait'[u].proved,
         number'[f] = number[f], track'[f].active, track'[f].level > 0,
         track'[f].gen = track[f].gen,
         wait'[u].late > 0 =>
           /\ wait[u].obj \in queued'
           /\ \A g \in NetFds :
                number'[g] = wait[u].obj /\ track'[g].active /\ track'[g].level > 0 =>
                  track'[g].idle >= MinIdle \/ track'[g].idle >= wait[u].late
           /\ Asking(f)' \/ (~Asking(f) /\ track'[f].probed = track[f].probed),
         \A g \in NetFds : track'[g].idle \in Nat /\ track'[g].probed \in Nat
  PROVE  PollsSliced(u)' /\ AskedInTime(u)'
<1>1. PollsSliced(u) /\ AskedInTime(u) /\ wait[u] \in WaitRec
  BY DEF NetIInv, PollsInTime, NetTypes, Follows
<1>2. /\ wait'[u].fd = f /\ wait'[u].obj = wait[u].obj /\ wait'[u].at = wait[u].at
      /\ wait'[u].guard = wait[u].guard /\ wait'[u].left = wait[u].left
      /\ wait'[u].late \in {wait[u].late, 0} /\ wait'[u].gen = wait[u].gen
  BY DEF Follows
<1>3. f \in NetFds /\ wait[u].late \in Nat /\ wait[u].left \in Nat /\ TlsInterval \in Nat \ {0}
      /\ MinIdle \in Nat /\ wait[u].left <= TlsInterval
  BY <1>1, NetAssumption DEF PollsSliced, WaitRec
<1>4. PollsSliced(u)'
  BY <1>1, <1>2, <1>3 DEF PollsSliced
<1>5. AskedInTime(u)'
  <2>1. CASE wait'[u].late = 0
    <3>1. \A g \in NetFds : track'[g].idle >= wait'[u].late /\ track'[g].probed >= wait'[u].late
      BY <2>1
    <3>2. wait'[u].late + wait'[u].left < 2 * TlsInterval
      BY <1>2, <1>3, <2>1
    <3> QED BY <1>2, <1>3, <3>1, <3>2 DEF AskedInTime
  <2>2. CASE wait'[u].late # 0
    <3>1. wait'[u].late = wait[u].late /\ wait'[u].late > 0
      BY <1>2, <1>3, <2>2
    <3>2. Asking(f)' \/ (~Asking(f) /\ track'[f].probed = track[f].probed)
      BY <3>1
    <3>3. \A g \in NetFds :
            number'[g] = wait'[u].obj /\ track'[g].active /\ track'[g].level > 0 =>
              track'[g].idle >= MinIdle \/ track'[g].idle >= wait'[u].late
      BY <1>2, <3>1
    <3>4. CASE Asking(f)'
      BY <1>2, <3>3, <3>4 DEF AskedInTime
    <3>5. CASE ~Asking(f) /\ track'[f].probed = track[f].probed
      <4>1. /\ track[f].probed >= TlsInterval \/ track[f].probed >= wait[u].late
            /\ wait[u].late + wait[u].left < 2 * TlsInterval
        BY <1>1, <3>5 DEF AskedInTime
      <4> QED BY <1>2, <3>1, <3>3, <3>5, <4>1 DEF AskedInTime
    <3> QED BY <3>2, <3>4, <3>5
  <2> QED BY <2>1, <2>2
<1> QED BY <1>4, <1>5

\* Whether somebody asks, after a step of a thread that neither asks nor asked.
LEMMA AskKept ==
  ASSUME NEW f, NEW t \in NetThreads, wait[t].at # "probe", wait'[t].at # "probe",
         \A v \in NetThreads \ {t} : Follows(v), track'[f].gen = track[f].gen
  PROVE  Asking(f)' <=> Asking(f)
BY DEF Asking, Follows

\* What a promise says of the number.
LEMMA PromisedPoll ==
  ASSUME NetIInv, NEW u \in NetThreads, wait[u].proved
  PROVE  LET f == wait[u].fd IN
         /\ f \in NetFds /\ f \notin route /\ number[f] = wait[u].obj /\ number[f] # 0
         /\ track[f].active /\ track[f].level > 0
         /\ wait[u].at \in {"native", "scan", "probe"} /\ wait[u].late \in Nat
         /\ wait[u].guard \in 1 .. TlsInterval /\ wait[u].left <= wait[u].guard
         /\ wait[u].late < 2 * TlsInterval /\ (wait[u].late > 0 => wait[u].obj \in queued)
         /\ wait[u].at = "probe" => wait[u].gen = track[f].gen
         /\ \A g \in NetFds : number[g] = wait[u].obj /\ track[g].active /\ track[g].level > 0 =>
              track[g].idle >= MinIdle \/ track[g].idle >= wait[u].late
<1>1. PollsSliced(u) /\ AskedInTime(u) /\ wait[u] \in WaitRec
  BY DEF NetIInv, PollsInTime, NetTypes
<1>2. wait[u].fd \in NetFds /\ track[wait[u].fd].active
  BY <1>1 DEF PollsSliced
<1>3. number[wait[u].fd] # 0 /\ wait[u].fd \notin route
  BY <1>2 DEF NetIInv, Tracked
<1> QED BY <1>1, <1>3 DEF PollsSliced, AskedInTime, WaitRec

\* What a step shows of every call keeps the invariant.
LEMMA NetKept ==
  ASSUME NetTypes', Tracked', Closers', Records',
         \A u \in NetThreads : wait'[u].proved => PollsSliced(u)' /\ AskedInTime(u)'
  PROVE  NetIInv'
BY DEF NetIInv, PollsInTime

LEMMA OpenKeeps ==
  ASSUME NetIInv, NEW t \in NetThreads, OpenSocket(t)
  PROVE  NetIInv'
<1> PICK f \in Free :
      /\ number' = [number EXCEPT ![f] = gens']
      /\ track' = [track EXCEPT ![f] =
            [Untracked EXCEPT !.active = TRUE, !.gen = gens', !.desc = gens', !.probed = TlsInterval]]
      /\ heard' = heard \ {f}
  BY DEF OpenSocket
<1>1. /\ f \in NetFds /\ number[f] = 0 /\ f \notin route /\ gens' = gens + 1 /\ gens \in Nat
      /\ NetTypes /\ wait' = wait /\ route' = route /\ queued' = queued
  BY DEF Free, OpenSocket, NetIInv, NetTypes
<1>2. /\ number'[f] = gens' /\ track'[f] \in TrackRec /\ track'[f].active /\ track'[f].desc = gens'
      /\ track'[f].level = 0 /\ gens' \in Nat /\ gens' # 0
      /\ \A g \in NetFds \ {f} : number'[g] = number[g] /\ track'[g] = track[g]
  <2> PICK k : k = gens'
    OBVIOUS
  <2> DEFINE r == [Untracked EXCEPT !.active = TRUE, !.gen = k, !.desc = k, !.probed = TlsInterval]
  <2>1. k \in Nat /\ k # 0 /\ TlsInterval \in Nat
    BY <1>1, NetAssumption
  <2>2. r \in TrackRec /\ r.active /\ r.desc = k /\ r.level = 0
    BY <2>1 DEF TrackRec, Untracked
  <2>3. /\ track'[f] = r /\ number'[f] = k
        /\ \A g \in NetFds \ {f} : number'[g] = number[g] /\ track'[g] = track[g]
    BY <1>1 DEF NetTypes
  <2> QED BY <2>1, <2>2, <2>3
<1>3. NetTypes'
  BY <1>1, <1>2 DEF NetTypes
<1>4. Tracked'
  <2> SUFFICES ASSUME NEW g \in NetFds
               PROVE  /\ track'[g].active <=> number'[g] # 0 /\ g \notin route
                      /\ track'[g].active => track'[g].desc = number'[g]
                      /\ g \in heard \ {f} => g \in route \/ (track'[g].active /\ track'[g].level > 0)
    BY <1>1 DEF Tracked
  <2>1. CASE g = f
    BY <1>1, <1>2, <2>1
  <2>2. CASE g # f
    BY <1>2, <2>2 DEF NetIInv, Tracked
  <2> QED BY <2>1, <2>2
<1>5. Closers' /\ Records'
  BY <1>1 DEF NetIInv, Closers, Records
<1>6. ASSUME NEW u \in NetThreads, wait'[u].proved PROVE PollsSliced(u)' /\ AskedInTime(u)'
  <2> PICK h : h = wait[u].fd
    OBVIOUS
  <2>1. /\ h \in NetFds /\ h # f /\ number[h] = wait[u].obj /\ track[h].active /\ track[h].level > 0
        /\ (wait[u].late > 0 => wait[u].obj \in queued)
        /\ \A g \in NetFds : number[g] = wait[u].obj /\ track[g].active /\ track[g].level > 0 =>
              track[g].idle >= MinIdle \/ track[g].idle >= wait[u].late
    BY <1>1, <1>6, PromisedPoll
  <2>2. Follows(u) /\ (Asking(h)' <=> Asking(h))
    BY <1>1, <1>2, <1>6, <2>1 DEF Follows, Asking
  <2>3. \A g \in NetFds : track'[g].idle \in Nat /\ track'[g].probed \in Nat
    BY <1>3 DEF NetTypes, TrackRec
  <2>4. \A g \in NetFds :
           number'[g] = wait[u].obj /\ track'[g].active /\ track'[g].level > 0 =>
             track'[g].idle >= MinIdle \/ track'[g].idle >= wait[u].late
    BY <1>2, <2>1
  <2>5. number'[h] = number[h] /\ track'[h] = track[h]
    BY <1>2, <2>1
  <2> QED BY <1>1, <1>6, <2>1, <2>2, <2>3, <2>4, <2>5, OthersPoll
<1> QED BY <1>3, <1>4, <1>5, <1>6, NetKept

LEMMA DuplicateKeeps ==
  ASSUME NetIInv, NEW t \in NetThreads, Duplicate(t)
  PROVE  NetIInv'
<1> PICK s \in NetFds \ (Free \union route), f \in Free :
      /\ number[s] # 0
      /\ number' = [number EXCEPT ![f] = number[s]]
      /\ track' = [track EXCEPT ![f] = DuplicateOf(s)]
      /\ heard' = IF s \in heard THEN heard \union {f} ELSE heard \ {f}
  BY DEF Duplicate
<1>1. /\ f \in NetFds /\ number[f] = 0 /\ f \notin route /\ gens' = gens + 1 /\ gens \in Nat
      /\ NetTypes /\ wait' = wait /\ route' = route /\ queued' = queued /\ s \notin route
  BY DEF Free, Duplicate, NetIInv, NetTypes
<1>2. /\ track[s] \in TrackRec /\ track[s].active /\ track[s].desc = number[s] /\ s # f
      /\ number[s] \in Nat /\ (s \in heard => track[s].level > 0)
  BY <1>1 DEF NetTypes, NetIInv, Tracked
<1>3. /\ DuplicateOf(s) \in TrackRec /\ DuplicateOf(s).active /\ DuplicateOf(s).desc = number[s]
      /\ DuplicateOf(s).level = track[s].level /\ DuplicateOf(s).idle = track[s].idle
  <2> PICK k, n, l, i : k = gens + 1 /\ n = number[s] /\ l = track[s].level /\ i = track[s].idle
    OBVIOUS
  <2> DEFINE r == [Untracked EXCEPT !.active = TRUE, !.gen = k, !.desc = n, !.level = l,
                                    !.idle = i, !.probed = TlsInterval]
  <2>1. k \in Nat /\ n \in Nat /\ l \in {0, 1, 2} /\ i \in Nat /\ TlsInterval \in Nat
    BY <1>1, <1>2, NetAssumption DEF TrackRec
  <2>2. r \in TrackRec /\ r.active /\ r.desc = n /\ r.level = l /\ r.idle = i
    BY <2>1 DEF TrackRec, Untracked
  <2>3. track[s].active = TRUE
    BY <1>2 DEF TrackRec
  <2>4. DuplicateOf(s) = r
    BY <1>2, <2>3 DEF DuplicateOf
  <2> QED BY <2>2, <2>4
<1>4. /\ number'[f] = number[s] /\ track'[f] = DuplicateOf(s)
      /\ \A g \in NetFds \ {f} : number'[g] = number[g] /\ track'[g] = track[g]
  BY <1>1 DEF NetTypes
<1>5. NetTypes'
  BY <1>1, <1>2, <1>3, <1>4 DEF NetTypes
<1>6. Tracked'
  <2> SUFFICES ASSUME NEW g \in NetFds
               PROVE  /\ track'[g].active <=> number'[g] # 0 /\ g \notin route
                      /\ track'[g].active => track'[g].desc = number'[g]
                      /\ g \in heard' => g \in route \/ (track'[g].active /\ track'[g].level > 0)
    BY <1>1 DEF Tracked
  <2>1. CASE g = f
    BY <1>1, <1>2, <1>3, <1>4, <2>1
  <2>2. CASE g # f
    BY <1>4, <2>2 DEF NetIInv, Tracked
  <2> QED BY <2>1, <2>2
<1>7. Closers' /\ Records'
  BY <1>1 DEF NetIInv, Closers, Records
<1>8. ASSUME NEW u \in NetThreads, wait'[u].proved PROVE PollsSliced(u)' /\ AskedInTime(u)'
  <2> PICK h : h = wait[u].fd
    OBVIOUS
  <2>1. /\ h \in NetFds /\ h # f /\ number[h] = wait[u].obj /\ track[h].active /\ track[h].level > 0
        /\ (wait[u].late > 0 => wait[u].obj \in queued)
        /\ \A g \in NetFds : number[g] = wait[u].obj /\ track[g].active /\ track[g].level > 0 =>
              track[g].idle >= MinIdle \/ track[g].idle >= wait[u].late
    BY <1>1, <1>8, PromisedPoll
  <2>2. number'[h] = number[h] /\ track'[h] = track[h]
    BY <1>4, <2>1
  <2>3. Follows(u) /\ (Asking(h)' <=> Asking(h))
    BY <1>1, <1>8, <2>2 DEF Follows, Asking
  <2>4. \A g \in NetFds : track'[g].idle \in Nat /\ track'[g].probed \in Nat
    BY <1>5 DEF NetTypes, TrackRec
  <2>5. ASSUME NEW g \in NetFds, number'[g] = wait[u].obj, track'[g].active, track'[g].level > 0
        PROVE  track'[g].idle >= MinIdle \/ track'[g].idle >= wait[u].late
    <3>1. CASE g = f
      BY <1>2, <1>3, <1>4, <2>1, <2>5, <3>1
    <3>2. CASE g # f
      BY <1>4, <2>1, <2>5, <3>2
    <3> QED BY <3>1, <3>2
  <2> QED BY <1>1, <1>8, <2>1, <2>2, <2>3, <2>4, <2>5, OthersPoll
<1> QED BY <1>5, <1>6, <1>7, <1>8, NetKept

\* The calls that replace an entry of a table.
LEMMA NetMoved ==
  ASSUME NEW W \in [NetThreads -> WaitRec], NEW t \in NetThreads, NEW r \in WaitRec,
         wait' = [W EXCEPT ![t] = r]
  PROVE  /\ wait' \in [NetThreads -> WaitRec] /\ wait'[t] = r
         /\ \A u \in NetThreads \ {t} : wait'[u] = W[u]
OBVIOUS

LEMMA NoWaitFacts ==
  /\ NoWait \in WaitRec /\ NoWait.at = "idle" /\ NoWait.proved = FALSE
  /\ \A f \in NetFds, d \in Nat :
       /\ [NoWait EXCEPT !.at = "closing", !.fd = f] \in WaitRec
       /\ [NoWait EXCEPT !.at = "closing", !.fd = f].at = "closing"
       /\ [NoWait EXCEPT !.at = "closing", !.fd = f].fd = f
       /\ [NoWait EXCEPT !.at = "closing", !.fd = f].proved = FALSE
       /\ [NoWait EXCEPT !.at = "record", !.fd = f, !.obj = d] \in WaitRec
       /\ [NoWait EXCEPT !.at = "record", !.fd = f, !.obj = d].at = "record"
       /\ [NoWait EXCEPT !.at = "record", !.fd = f, !.obj = d].fd = f
       /\ [NoWait EXCEPT !.at = "record", !.fd = f, !.obj = d].obj = d
       /\ [NoWait EXCEPT !.at = "record", !.fd = f, !.obj = d].proved = FALSE
BY DEF NoWait, WaitRec, NetStates

\* The other calls, beside one that closes and records nothing after its step.
LEMMA ClosersKept ==
  ASSUME NetIInv, NEW t \in NetThreads, \A u \in NetThreads \ {t} : Follows(u),
         wait'[t].at # "closing",
         route' = route \/ (wait[t].at = "closing" /\ route' = route \ {wait[t].fd})
  PROVE  Closers'
<1> SUFFICES ASSUME NEW u \in NetThreads, wait'[u].at = "closing"
             PROVE  /\ wait'[u].fd \in route'
                    /\ \A v \in NetThreads : wait'[v].at = "closing" /\ u # v =>
                         wait'[u].fd # wait'[v].fd
  BY DEF Closers
<1>1. u # t /\ wait[u].at = "closing" /\ wait'[u].fd = wait[u].fd
  BY DEF Follows
<1>2. /\ wait[u].fd \in route
      /\ \A v \in NetThreads : wait[v].at = "closing" /\ u # v => wait[u].fd # wait[v].fd
  BY <1>1 DEF NetIInv, Closers
<1>3. wait'[u].fd \in route'
  BY <1>1, <1>2
<1>4. ASSUME NEW v \in NetThreads, wait'[v].at = "closing", u # v
      PROVE  wait'[u].fd # wait'[v].fd
  BY <1>1, <1>2, <1>4 DEF Follows
<1> QED BY <1>3, <1>4

LEMMA RecordsKept ==
  ASSUME NetIInv, NEW t \in NetThreads, \A u \in NetThreads \ {t} : Follows(u),
         wait'[t].at # "record", 0 \notin queued',
         wait'[t].proved =>
           wait'[t].late = 0 \/ (wait[t].proved /\ wait'[t].late = wait[t].late /\ wait'[t].obj = wait[t].obj)
  PROVE  Records'
<1> SUFFICES ASSUME NEW v \in NetThreads, wait'[v].at = "record"
             PROVE  /\ wait'[v].fd \in NetFds /\ wait'[v].obj # 0
                    /\ \A u \in NetThreads : wait'[u].proved /\ wait'[u].obj = wait'[v].obj => wait'[u].late = 0
  BY DEF Records
<1>1. v # t /\ wait[v].at = "record" /\ wait'[v].fd = wait[v].fd /\ wait'[v].obj = wait[v].obj
  BY DEF Follows
<1>2. /\ wait[v].fd \in NetFds /\ wait[v].obj # 0
      /\ \A u \in NetThreads : wait[u].proved /\ wait[u].obj = wait[v].obj => wait[u].late = 0
  BY <1>1 DEF NetIInv, Records
<1>3. ASSUME NEW u \in NetThreads, wait'[u].proved, wait'[u].obj = wait'[v].obj
      PROVE  wait'[u].late = 0
  <2>1. CASE u = t
    BY <1>1, <1>2, <1>3, <2>1
  <2>2. CASE u # t
    BY <1>1, <1>2, <1>3, <2>2 DEF Follows
  <2> QED BY <2>1, <2>2
<1> QED BY <1>1, <1>2, <1>3

\* One more call closes a number that nobody closes.
LEMMA ClosersJoined ==
  ASSUME NetIInv, NEW t \in NetThreads, \A u \in NetThreads \ {t} : Follows(u),
         NEW f, f \notin route, route' = route \union {f}, wait'[t].fd = f
  PROVE  Closers'
<1> SUFFICES ASSUME NEW u \in NetThreads, wait'[u].at = "closing"
             PROVE  /\ wait'[u].fd \in route'
                    /\ \A v \in NetThreads : wait'[v].at = "closing" /\ u # v =>
                         wait'[u].fd # wait'[v].fd
  BY DEF Closers
<1>1. \A v \in NetThreads \ {t} : wait'[v].at = "closing" =>
        wait[v].at = "closing" /\ wait'[v].fd = wait[v].fd /\ wait'[v].fd \in route
  BY DEF NetIInv, Closers, Follows
<1>2. CASE u = t
  <2>1. wait'[u].fd = f
    BY <1>2
  <2>2. \A v \in NetThreads : wait'[v].at = "closing" /\ u # v => wait'[v].fd \in route
    BY <1>1, <1>2
  <2> QED BY <2>1, <2>2
<1>3. CASE u # t
  <2>0. /\ wait'[u].fd = wait[u].fd /\ wait'[u].fd \in route
        /\ \A v \in NetThreads \ {t} : wait'[v].at = "closing" => wait'[v].fd = wait[v].fd
    BY <1>1, <1>3
  <2>1. \A v \in NetThreads : wait[v].at = "closing" /\ u # v => wait[u].fd # wait[v].fd
    BY <1>1, <1>3 DEF NetIInv, Closers
  <2>2. \A v \in NetThreads \ {t} : wait'[v].at = "closing" /\ u # v => wait'[u].fd # wait'[v].fd
    BY <1>1, <2>0, <2>1
  <2>3. wait'[u].fd # wait'[t].fd
    BY <2>0
  <2> QED BY <2>0, <2>2, <2>3
<1> QED BY <1>2, <1>3

LEMMA TrackCloseKeeps ==
  ASSUME NetIInv, NEW t \in NetThreads, TrackClose(t)
  PROVE  NetIInv'
<1> PICK f \in NetFds \ route :
      /\ number[f] # 0 /\ route' = route \union {f}
      /\ track' = [track EXCEPT ![f] = [Untracked EXCEPT !.gen = track[f].gen]]
      /\ wait' = [Doubted(wait, {f}) EXCEPT ![t] = [NoWait EXCEPT !.at = "closing", !.fd = f]]
  BY DEF TrackClose
<1>1. /\ NetTypes /\ wait[t].at = "idle" /\ number' = number /\ gens' = gens /\ queued' = queued
      /\ heard' = heard
  BY DEF TrackClose, NetIdle, NetIInv
<1>2. /\ track'[f] \in TrackRec /\ ~track'[f].active
      /\ \A g \in NetFds \ {f} : track'[g] = track[g]
  <2> PICK k : k = track[f].gen
    OBVIOUS
  <2>1. k \in Nat
    BY <1>1 DEF NetTypes, TrackRec
  <2>2. [Untracked EXCEPT !.gen = k] \in TrackRec /\ ~[Untracked EXCEPT !.gen = k].active
    BY <2>1 DEF TrackRec, Untracked
  <2> QED BY <1>1, <2>2 DEF NetTypes
<1>3. /\ wait' \in [NetThreads -> WaitRec] /\ wait'[t].at = "closing" /\ wait'[t].fd = f
      /\ wait'[t].proved = FALSE
      /\ \A u \in NetThreads \ {t} :
           Follows(u) /\ (wait'[u].proved => wait[u].fd # f) /\ wait'[u].late = wait[u].late
  <2>1. Doubted(wait, {f}) \in [NetThreads -> WaitRec]
    BY <1>1, DoubtedCalls
  <2>2. /\ wait' \in [NetThreads -> WaitRec]
        /\ wait'[t] = [NoWait EXCEPT !.at = "closing", !.fd = f]
        /\ \A u \in NetThreads \ {t} : wait'[u] = Doubted(wait, {f})[u]
    <3>1. [NoWait EXCEPT !.at = "closing", !.fd = f] \in WaitRec
      BY NoWaitFacts DEF NoWait, WaitRec, NetStates
    <3> QED BY <2>1, <3>1
  <2>3. ASSUME NEW u \in NetThreads \ {t}
        PROVE  Follows(u) /\ (wait'[u].proved => wait[u].fd # f) /\ wait'[u].late = wait[u].late
    <3> PICK w : w = Doubted(wait, {f})[u]
      OBVIOUS
    <3>1. wait'[u] = w
      BY <2>2
    <3>2. /\ w.at = wait[u].at /\ w.fd = wait[u].fd /\ w.obj = wait[u].obj
          /\ w.gen = wait[u].gen /\ w.guard = wait[u].guard /\ w.left = wait[u].left
          /\ w.late = wait[u].late
          /\ w.proved <=> wait[u].proved /\ wait[u].fd \notin {f}
      BY <1>1, DoubtedCalls
    <3> QED BY <3>1, <3>2 DEF Follows
  <2>4. wait'[t].at = "closing" /\ wait'[t].fd = f /\ wait'[t].proved = FALSE
    BY <2>2, NoWaitFacts
  <2> QED BY <2>2, <2>3, <2>4
<1>4. NetTypes'
  <2>1. ASSUME NEW u \in NetThreads, wait'[u].at # "idle" PROVE wait'[u].fd \in NetFds
    <3>1. CASE u = t
      BY <1>3, <3>1
    <3>2. CASE u # t
      <4>1. wait'[u].at = wait[u].at /\ wait'[u].fd = wait[u].fd
        BY <1>3, <3>2 DEF Follows
      <4> QED BY <1>1, <2>1, <4>1 DEF NetTypes
    <3> QED BY <3>1, <3>2
  <2>2. track' \in [NetFds -> TrackRec]
    <3>1. track \in [NetFds -> TrackRec] /\ DOMAIN track' = DOMAIN track
      BY <1>1 DEF NetTypes
    <3>2. track' = [g \in NetFds |-> track'[g]]
      BY <1>1, <3>1
    <3> QED BY <1>2, <3>1, <3>2
  <2>3. number' \in [NetFds -> Nat] /\ gens' \in Nat /\ route' \subseteq NetFds
    BY <1>1 DEF NetTypes
  <2>4. wait' \in [NetThreads -> WaitRec]
    BY <1>3
  <2> QED BY <2>1, <2>2, <2>3, <2>4 DEF NetTypes
<1>5. Tracked'
  <2> SUFFICES ASSUME NEW g \in NetFds
               PROVE  /\ track'[g].active <=> number[g] # 0 /\ g \notin route'
                      /\ track'[g].active => track'[g].desc = number[g]
                      /\ g \in heard => g \in route' \/ (track'[g].active /\ track'[g].level > 0)
    BY <1>1 DEF Tracked
  <2>1. CASE g = f
    BY <1>2, <2>1
  <2>2. CASE g # f
    BY <1>2, <2>2 DEF NetIInv, Tracked
  <2> QED BY <2>1, <2>2
<1>6. Closers'
  BY <1>3, ClosersJoined
<1>7. Records'
  BY <1>1, <1>3, RecordsKept DEF NetIInv, Records
<1>8. ASSUME NEW u \in NetThreads, wait'[u].proved PROVE PollsSliced(u)' /\ AskedInTime(u)'
  <2> PICK h : h = wait[u].fd
    OBVIOUS
  <2>0. u # t /\ Follows(u) /\ wait[u].proved /\ h # f /\ wait'[u].late = wait[u].late
    BY <1>3, <1>8 DEF Follows
  <2>1. /\ h \in NetFds /\ number[h] = wait[u].obj /\ track[h].active /\ track[h].level > 0
        /\ (wait[u].late > 0 => wait[u].obj \in queued)
        /\ \A g \in NetFds : number[g] = wait[u].obj /\ track[g].active /\ track[g].level > 0 =>
              track[g].idle >= MinIdle \/ track[g].idle >= wait[u].late
    BY <2>0, PromisedPoll
  <2>2. number'[h] = number[h] /\ track'[h] = track[h]
    BY <1>1, <1>2, <2>0, <2>1
  <2>3. Asking(h)' <=> Asking(h)
    BY <1>1, <1>3, <2>2, AskKept
  <2>4. \A g \in NetFds : track'[g].idle \in Nat /\ track'[g].probed \in Nat
    BY <1>4 DEF NetTypes, TrackRec
  <2>5. \A g \in NetFds :
           number'[g] = wait[u].obj /\ track'[g].active /\ track'[g].level > 0 =>
             track'[g].idle >= MinIdle \/ track'[g].idle >= wait[u].late
    BY <1>1, <1>2, <2>1
  <2> QED BY <1>1, <1>8, <2>0, <2>1, <2>2, <2>3, <2>4, <2>5, OthersPoll
<1> QED BY <1>4, <1>5, <1>6, <1>7, <1>8, NetKept

LEMMA CloseKeeps ==
  ASSUME NetIInv, NEW t \in NetThreads, CloseSocket(t)
  PROVE  NetIInv'
<1> PICK f : f = wait[t].fd
  OBVIOUS
<1>1. /\ NetTypes /\ wait[t].at = "closing" /\ wait' = [wait EXCEPT ![t] = NoWait]
      /\ number' = [number EXCEPT ![f] = 0]
      /\ queued' = {d \in queued : \E g \in NetFds : number'[g] = d}
      /\ route' = route \ {f} /\ heard' = heard \ {f} /\ track' = track /\ gens' = gens
  BY DEF CloseSocket, Move, NetIInv
<1>2. f \in NetFds /\ f \in route /\ ~track[f].active
  BY <1>1 DEF NetTypes, NetIInv, Closers, Tracked
<1>3. number'[f] = 0 /\ \A g \in NetFds \ {f} : number'[g] = number[g]
  BY <1>1, <1>2 DEF NetTypes
<1>4. /\ wait' \in [NetThreads -> WaitRec] /\ wait'[t] = NoWait
      /\ \A u \in NetThreads \ {t} : wait'[u] = wait[u]
  <2>1. wait \in [NetThreads -> WaitRec] /\ wait' = [wait EXCEPT ![t] = NoWait]
    BY <1>1 DEF NetTypes
  <2>2. NoWait \in WaitRec
    BY NoWaitFacts
  <2> QED BY <2>1, <2>2
<1>5. NetTypes'
  <2>1. number' \in [NetFds -> Nat] /\ gens' \in Nat /\ route' \subseteq NetFds
    BY <1>1, <1>2 DEF NetTypes
  <2>2. track' \in [NetFds -> TrackRec]
    BY <1>1 DEF NetTypes
  <2>3. ASSUME NEW u \in NetThreads, wait'[u].at # "idle" PROVE wait'[u].fd \in NetFds
    <3>1. u # t
      BY <1>4, <2>3, NoWaitFacts
    <3>2. wait'[u] = wait[u]
      BY <1>4, <3>1
    <3> QED BY <1>1, <2>3, <3>2 DEF NetTypes
  <2>4. wait' \in [NetThreads -> WaitRec]
    BY <1>4
  <2> QED BY <2>1, <2>2, <2>3, <2>4 DEF NetTypes
<1>6. Tracked'
  <2> SUFFICES ASSUME NEW g \in NetFds
               PROVE  /\ track[g].active <=> number'[g] # 0 /\ g \notin route'
                      /\ track[g].active => track[g].desc = number'[g]
                      /\ g \in heard' => g \in route' \/ (track[g].active /\ track[g].level > 0)
    BY <1>1 DEF Tracked
  <2>1. CASE g = f
    BY <1>1, <1>2, <1>3, <2>1
  <2>2. CASE g # f
    BY <1>1, <1>3, <2>2 DEF NetIInv, Tracked
  <2> QED BY <2>1, <2>2
<1>7. Closers' /\ Records'
  <2>1. \A u \in NetThreads \ {t} : Follows(u)
    BY <1>4 DEF Follows
  <2>2. 0 \notin queued'
    BY <1>1 DEF NetIInv, Records
  <2>3. wait'[t].at = "idle" /\ wait'[t].proved = FALSE
    BY <1>4, NoWaitFacts
  <2> QED BY <1>1, <2>1, <2>2, <2>3, ClosersKept, RecordsKept
<1>8. ASSUME NEW u \in NetThreads, wait'[u].proved PROVE PollsSliced(u)' /\ AskedInTime(u)'
  <2> PICK h : h = wait[u].fd
    OBVIOUS
  <2>0. u # t /\ wait'[u] = wait[u] /\ wait[u].proved
    BY <1>4, <1>8, NoWaitFacts
  <2>1. /\ h \in NetFds /\ number[h] = wait[u].obj /\ track[h].active /\ track[h].level > 0
        /\ (wait[u].late > 0 => wait[u].obj \in queued)
        /\ \A g \in NetFds : number[g] = wait[u].obj /\ track[g].active /\ track[g].level > 0 =>
              track[g].idle >= MinIdle \/ track[g].idle >= wait[u].late
    BY <2>0, PromisedPoll
  <2>2. number'[h] = number[h] /\ (wait[u].late > 0 => wait[u].obj \in queued')
    BY <1>1, <1>2, <1>3, <2>1
  <2>3. (Asking(h)' <=> Asking(h)) /\ Follows(u)
    BY <1>1, <1>4, <2>0, NoWaitFacts DEF Asking, Follows
  <2>4. \A g \in NetFds : track'[g].idle \in Nat /\ track'[g].probed \in Nat
    BY <1>5 DEF NetTypes, TrackRec
  <2>5. \A g \in NetFds :
           number'[g] = wait[u].obj /\ track'[g].active /\ track'[g].level > 0 =>
             track'[g].idle >= MinIdle \/ track'[g].idle >= wait[u].late
    BY <1>1, <1>2, <1>3, <2>1
  <2> QED BY <1>1, <1>8, <2>0, <2>1, <2>2, <2>3, <2>4, <2>5, OthersPoll
<1> QED BY <1>5, <1>6, <1>7, <1>8, NetKept

\* A step that only ends, begins or moves the wait of one thread.
LEMMA WaitsOnly ==
  ASSUME NetIInv, NEW t \in NetThreads,
         UNCHANGED <<number, track, gens, route, queued, heard>>,
         wait' \in [NetThreads -> WaitRec], wait'[t].at # "idle" => wait'[t].fd \in NetFds,
         wait'[t].at # "closing", wait'[t].at # "record",
         \A u \in NetThreads \ {t} : Follows(u),
         \A u \in NetThreads \ {t}, f \in NetFds :
           wait'[u].proved /\ wait'[u].late > 0 /\ f = wait[u].fd => Asking(f)' \/ ~Asking(f),
         wait'[t].proved =>
           /\ PollsSliced(t)' /\ AskedInTime(t)'
           /\ \/ wait'[t].late = 0
              \/ wait[t].proved /\ wait'[t].late = wait[t].late /\ wait'[t].obj = wait[t].obj
  PROVE  NetIInv'
<1>1. NetTypes' /\ Tracked'
  BY DEF NetIInv, NetTypes, Tracked, Follows
<1>2. 0 \notin queued'
  BY DEF NetIInv, Records
<1>3. Closers' /\ Records'
  BY <1>2, ClosersKept, RecordsKept
<1>4. ASSUME NEW u \in NetThreads \ {t}, wait'[u].proved PROVE PollsSliced(u)' /\ AskedInTime(u)'
  <2> PICK h : h = wait[u].fd
    OBVIOUS
  <2>0. Follows(u) /\ wait[u].proved
    BY <1>4 DEF Follows
  <2>1. /\ h \in NetFds /\ number[h] = wait[u].obj /\ track[h].active /\ track[h].level > 0
        /\ (wait[u].late > 0 => wait[u].obj \in queued) /\ wait[u].late \in Nat
        /\ \A g \in NetFds : number[g] = wait[u].obj /\ track[g].active /\ track[g].level > 0 =>
              track[g].idle >= MinIdle \/ track[g].idle >= wait[u].late
    BY <2>0, PromisedPoll
  <2>2. wait'[u].late > 0 => Asking(h)' \/ ~Asking(h)
    BY <1>4, <2>1
  <2>3. wait'[u].late > 0 => wait[u].late > 0
    BY <2>0, <2>1 DEF Follows
  <2>4. \A g \in NetFds : track'[g].idle \in Nat /\ track'[g].probed \in Nat
    BY <1>1 DEF NetTypes, TrackRec
  <2> QED BY <1>4, <2>0, <2>1, <2>2, <2>3, <2>4, OthersPoll
<1> QED BY <1>1, <1>3, <1>4, NetKept

\* The level of an open number, and how often a number with that level asks.
LEMMA LevelOf ==
  ASSUME NetIInv, NEW f \in NetFds, track[f].active
  PROVE  /\ Level(f) \in {0, 1, 2} /\ Interval(Level(f)) \in 0 .. TlsInterval
         /\ track[f].level > 0 => Level(f) > 0 /\ Interval(Level(f)) > 0
<1> DEFINE L == {track[g].level : g \in Aliases(f)}
<1>1. NetTypes /\ track[f].desc = number[f] /\ number[f] # 0
  BY DEF NetIInv, Tracked
<1>2. L \subseteq {0, 1, 2} /\ track[f].level \in L
  BY <1>1 DEF Aliases, NetTypes, TrackRec
<1>3. Max(L) \in L /\ \A n \in L : Max(L) >= n
  <2> HIDE DEF L
  <2>1. \E m \in L : \A n \in L : m >= n
    <3>1. CASE 2 \in L
      BY <1>2, <3>1
    <3>2. CASE 2 \notin L /\ 1 \in L
      BY <1>2, <3>2
    <3>3. CASE 2 \notin L /\ 1 \notin L
      <4>1. L = {0}
        BY <1>2, <3>3
      <4> QED BY <4>1
    <3> QED BY <3>1, <3>2, <3>3
  <2> QED BY <2>1 DEF Max
<1>4. Level(f) = Max(L)
  BY <1>1 DEF Level
<1> HIDE DEF L
<1>5. Level(f) \in {0, 1, 2} /\ (track[f].level > 0 => Level(f) > 0)
  <2> PICK m, l : m = Level(f) /\ l = track[f].level
    OBVIOUS
  <2>1. m \in L /\ l \in L /\ m >= l
    BY <1>2, <1>3, <1>4
  <2>2. m \in {0, 1, 2} /\ l \in {0, 1, 2}
    BY <1>2, <2>1
  <2> QED BY <2>1, <2>2
<1>6. /\ Interval(Level(f)) \in 0 .. TlsInterval
      /\ Level(f) > 0 => Interval(Level(f)) > 0
  BY <1>5, NetAssumption DEF Interval
<1> QED BY <1>5, <1>6

\* A set of numbers that is not empty has a least element.
LEMMA LeastIdle ==
  ASSUME NEW S, S \subseteq Nat, S # {}
  PROVE  \E p \in S : \A q \in S : p <= q
<1> DEFINE R == OpToRel(<, Nat)
<1>1. IsWellFoundedOn(R, Nat)
  BY NatLessThanWellFounded
<1>2. \A x, y \in Nat : <<y, x>> \in R <=> y < x
  BY DEF OpToRel
<1> HIDE DEF R
<1>3. \E x \in S : \A y \in S : ~ (<<y, x>> \in R)
  BY <1>1, WFMin
<1>4. PICK x \in S : \A y \in S : ~ (<<y, x>> \in R)
  BY <1>3
<1>5. \A y \in S : x \in Nat /\ y \in Nat /\ ~ (y < x)
  BY <1>2, <1>4
<1> QED
  BY <1>5

\* How long the most recent receive is ago.
LEMMA IdleOf ==
  ASSUME NetIInv, NEW f \in NetFds, track[f].active, track[f].level > 0
  PROVE  \E g \in NetFds : number[g] = number[f] /\ track[g].active /\ track[g].level > 0
                           /\ track[g].idle = IdleFor(f)
<1> DEFINE I == {track[g].idle : g \in {a \in Aliases(f) : track[a].level > 0}}
<1>1. NetTypes /\ track[f].desc = number[f]
  BY DEF NetIInv, Tracked
<1>2. I \subseteq Nat /\ track[f].idle \in I
  BY <1>1 DEF Aliases, NetTypes, TrackRec
<1>3. Min(I) \in I
  <2>1. \E m \in I : \A n \in I : m <= n
    BY <1>2, LeastIdle
  <2> HIDE DEF I
  <2> QED BY <2>1 DEF Min
<1>4. PICK g \in Aliases(f) : track[g].level > 0 /\ track[g].idle = IdleFor(f)
  BY <1>3 DEF IdleFor
<1> QED BY <1>1, <1>4 DEF Aliases, NetIInv, Tracked

\* A wait keeps its type when a native wait rewrites its fields.
LEMMA WaitRecChanged ==
  ASSUME NEW w \in WaitRec, NEW d \in Nat, NEW g \in Nat, NEW n \in Nat, NEW l \in Nat,
         NEW b \in BOOLEAN
  PROVE  [w EXCEPT !.at = "native", !.obj = d, !.gen = g, !.left = n, !.late = l, !.proved = b]
           \in WaitRec
<1>1. PICK x : x = [w EXCEPT !.at = "native", !.obj = d]
  OBVIOUS
<1>2. PICK y : y = [x EXCEPT !.gen = g, !.left = n]
  OBVIOUS
<1>3. "native" \in NetStates
  BY DEF NetStates
<1>4. x \in WaitRec
  BY <1>1, <1>3 DEF WaitRec
<1>5. y \in WaitRec
  BY <1>2, <1>4 DEF WaitRec
<1>6. [y EXCEPT !.late = l, !.proved = b] \in WaitRec
  BY <1>5 DEF WaitRec
<1>7. [w EXCEPT !.at = "native", !.obj = d, !.gen = g, !.left = n, !.late = l, !.proved = b]
        = [y EXCEPT !.late = l, !.proved = b]
  BY <1>1, <1>2 DEF WaitRec
<1> QED BY <1>6, <1>7

\* One native wait.
LEMMA WaitingFacts ==
  ASSUME NetTypes, NEW w \in WaitRec, w.fd \in NetFds
  PROVE  /\ Waiting(w) \in WaitRec /\ Waiting(w).at = "native" /\ Waiting(w).fd = w.fd
         /\ Waiting(w).obj = number[w.fd] /\ Waiting(w).guard = w.guard
         /\ Waiting(w).left = w.guard /\ Waiting(w).late \in {w.late, 0}
         /\ Waiting(w).proved <=> w.proved /\ number[w.fd] = w.obj
<1>0. PICK f, d, g, n, l, b : f = w.fd /\ d = number[f] /\ g = track[f].gen /\ n = w.guard
       /\ l = (IF d = w.obj THEN w.late ELSE 0) /\ b = (w.proved /\ d = w.obj)
  OBVIOUS
<1> DEFINE v == [w EXCEPT !.at = "native", !.obj = d, !.gen = g, !.left = n, !.late = l, !.proved = b]
<1>1. /\ d \in Nat /\ g \in Nat /\ n \in Nat /\ l \in Nat /\ l \in {w.late, 0} /\ b \in BOOLEAN
      /\ f \in NetFds /\ f = w.fd /\ n = w.guard
  BY <1>0 DEF NetTypes, TrackRec, WaitRec
<1>2. /\ v \in WaitRec /\ v.at = "native" /\ v.fd = f /\ v.obj = d /\ v.guard = w.guard
      /\ v.left = n /\ v.late = l /\ v.proved = b
  <2>1. v.at = "native" /\ v.obj = d /\ v.left = n /\ v.late = l /\ v.proved = b
    BY DEF WaitRec
  <2>2. v.fd = f /\ v.guard = w.guard
    BY <1>1 DEF WaitRec
  <2>3. v \in WaitRec
    <3>1. w \in WaitRec /\ d \in Nat /\ g \in Nat /\ n \in Nat /\ l \in Nat /\ b \in BOOLEAN
      BY <1>1
    <3> HIDE DEF v
    <3>2. [w EXCEPT !.at = "native", !.obj = d, !.gen = g, !.left = n, !.late = l, !.proved = b]
             \in WaitRec
      BY <3>1, WaitRecChanged
    <3> QED BY <3>2 DEF v
  <2> QED BY <2>1, <2>2, <2>3
<1>3. Waiting(w) = v
  BY <1>0 DEF Waiting
<1> HIDE DEF v
<1> QED BY <1>0, <1>1, <1>2, <1>3

LEMMA EnterPollKeeps ==
  ASSUME NetIInv, NEW t \in NetThreads, EnterPoll(t)
  PROVE  NetIInv'
<1> PICK f \in NetFds :
      /\ number[f] # 0 /\ f \notin route
      /\ Move(t, Waiting([NoWait EXCEPT !.fd = f, !.obj = number[f],
                               !.guard = Interval(Level(f)), !.proved = f \in heard]))
  BY DEF EnterPoll
<1>1. /\ NetTypes /\ wait[t].at = "idle" /\ UNCHANGED <<number, track, gens, route, queued, heard>>
  BY DEF EnterPoll, NetIdle, NetIInv
<1>2. track[f].active /\ (f \in heard => track[f].level > 0)
  BY DEF NetIInv, Tracked
<1> PICK d, n : d = number[f] /\ n = Interval(Level(f))
  OBVIOUS
<1> PICK b \in BOOLEAN : b = (f \in heard)
  <2>1. (TRUE = (f \in heard)) \/ (FALSE = (f \in heard))
    OBVIOUS
  <2> QED BY <2>1
<1> DEFINE w == [NoWait EXCEPT !.fd = f, !.obj = d, !.guard = n, !.proved = b]
<1>3. /\ n \in 0 .. TlsInterval /\ n \in Nat /\ (b => n > 0) /\ b \in BOOLEAN /\ d \in Nat
      /\ TlsInterval \in Nat \ {0}
  <2>1. n \in 0 .. TlsInterval /\ (track[f].level > 0 => n > 0)
    BY <1>2, LevelOf
  <2>2. d \in Nat /\ TlsInterval \in Nat \ {0}
    BY <1>1, NetAssumption DEF NetTypes
  <2>3. b \in BOOLEAN /\ (b => track[f].level > 0)
    <3>1. b = (f \in heard)
      OBVIOUS
    <3>2. (f \in heard) => track[f].level > 0
      BY <1>2
    <3>3. b \in BOOLEAN
      OBVIOUS
    <3>4. b => f \in heard
      BY <3>1, Zenon
    <3> QED BY <3>2, <3>3, <3>4
  <2> QED BY <2>1, <2>2, <2>3
<1>4. /\ w \in WaitRec /\ w.fd = f /\ w.obj = d /\ w.guard = n /\ w.late = 0 /\ w.proved = b
  BY <1>3 DEF WaitRec, NoWait, NetStates
<1>5. Move(t, Waiting(w))
  OBVIOUS
<1> HIDE DEF w
<1>6. /\ Waiting(w) \in WaitRec /\ Waiting(w).at = "native" /\ Waiting(w).fd = f
      /\ Waiting(w).obj = d /\ Waiting(w).guard = n /\ Waiting(w).left = n
      /\ Waiting(w).late = 0 /\ Waiting(w).proved = b
  <2>1. /\ Waiting(w) \in WaitRec /\ Waiting(w).at = "native" /\ Waiting(w).fd = f
        /\ Waiting(w).obj = d /\ Waiting(w).guard = n /\ Waiting(w).left = n
        /\ Waiting(w).late \in {0, 0} /\ (Waiting(w).proved <=> b)
    BY <1>1, <1>4, WaitingFacts
  <2> QED BY <1>3, <2>1 DEF WaitRec
<1>7. /\ wait' \in [NetThreads -> WaitRec] /\ wait'[t] = Waiting(w)
      /\ \A u \in NetThreads \ {t} : wait'[u] = wait[u]
  BY <1>1, <1>5, <1>6 DEF Move, NetTypes
<1>8. \A u \in NetThreads \ {t} : Follows(u)
  BY <1>7 DEF Follows
<1>9. \A h : Asking(h)' <=> Asking(h)
  BY <1>1, <1>6, <1>7, <1>8, AskKept
<1>10. wait'[t].proved => PollsSliced(t)' /\ AskedInTime(t)'
  <2> SUFFICES ASSUME b
               PROVE  PollsSliced(t)' /\ AskedInTime(t)'
    BY <1>6, <1>7
  <2>1. n \in 1 .. TlsInterval /\ n < 2 * TlsInterval
    BY <1>3
  <2>2. PollsSliced(t)'
    <3>1. /\ wait'[t].at = "native" /\ wait'[t].fd = f /\ wait'[t].obj = d /\ wait'[t].guard = n
          /\ wait'[t].left = n /\ wait'[t].late = 0
      BY <1>6, <1>7
    <3>2. number'[f] = d /\ track'[f].active /\ track'[f].level > 0
      BY <1>1, <1>2
    <3>3. n \in 1 .. TlsInterval /\ n <= n /\ 0 < 2 * TlsInterval
      BY <1>3, <2>1
    <3> QED BY <3>1, <3>2, <3>3 DEF PollsSliced
  <2>3. /\ \A g \in NetFds : track'[g].idle >= 0 /\ track'[g].probed >= 0
        /\ 0 + n < 2 * TlsInterval
    BY <1>1, <1>3, <2>1 DEF NetTypes, TrackRec
  <2>4. wait'[t].late = 0 /\ wait'[t].left = n /\ wait'[t].fd = f
    BY <1>6, <1>7
  <2> QED BY <2>2, <2>3, <2>4 DEF AskedInTime
<1> QED BY <1>1, <1>6, <1>7, <1>8, <1>9, <1>10, WaitsOnly

LEMMA ReadyKeeps ==
  ASSUME NetIInv, NEW t \in NetThreads, Ready(t)
  PROVE  NetIInv'
<1>1. /\ NetTypes /\ wait[t].at = "native" /\ wait' = [Told(wait, wait[t].obj) EXCEPT ![t] = NoWait]
      /\ UNCHANGED <<number, track, gens, route, queued, heard>>
  BY DEF Ready, Notified, NetIInv
<1>2. /\ wait' \in [NetThreads -> WaitRec] /\ wait'[t] = NoWait
      /\ \A u \in NetThreads \ {t} : Follows(u)
  <2>1. Told(wait, wait[t].obj) \in [NetThreads -> WaitRec]
    BY <1>1, ToldCalls
  <2>2. /\ wait' \in [NetThreads -> WaitRec] /\ wait'[t] = NoWait
        /\ \A u \in NetThreads \ {t} : wait'[u] = Told(wait, wait[t].obj)[u]
    <3>1. NoWait \in WaitRec
      BY NoWaitFacts
    <3> QED BY <1>1, <2>1, <3>1
  <2> QED BY <1>1, <2>2, ToldCalls DEF Follows
<1>3. wait'[t].at = "idle" /\ ~wait'[t].proved
  BY <1>2, NoWaitFacts
<1>4. \A h : Asking(h)' <=> Asking(h)
  BY <1>1, <1>2, <1>3, AskKept
<1> QED BY <1>1, <1>2, <1>3, <1>4, WaitsOnly

LEMMA SliceEndsKeeps ==
  ASSUME NetIInv, NEW t \in NetThreads, SliceEnds(t)
  PROVE  NetIInv'
<1>1. /\ NetTypes /\ wait[t].at = "native" /\ wait[t].left = 0 /\ wait[t] \in WaitRec
      /\ wait' = [wait EXCEPT ![t] = [wait[t] EXCEPT !.at = "scan", !.tries = 0]]
      /\ UNCHANGED <<number, track, gens, route, queued, heard>> /\ wait[t].fd \in NetFds
  BY DEF SliceEnds, Move, NetIInv, NetTypes
<1>2. /\ wait'[t].at = "scan" /\ wait'[t] \in WaitRec /\ wait'[t].fd = wait[t].fd
      /\ wait'[t].obj = wait[t].obj /\ wait'[t].guard = wait[t].guard /\ wait'[t].left = wait[t].left
      /\ wait'[t].late = wait[t].late /\ wait'[t].proved = wait[t].proved
      /\ wait' \in [NetThreads -> WaitRec] /\ \A u \in NetThreads \ {t} : wait'[u] = wait[u]
  <2> PICK v : v = [wait[t] EXCEPT !.at = "scan", !.tries = 0]
    OBVIOUS
  <2>1. /\ v.at = "scan" /\ v \in WaitRec /\ v.fd = wait[t].fd
        /\ v.obj = wait[t].obj /\ v.guard = wait[t].guard /\ v.left = wait[t].left
        /\ v.late = wait[t].late /\ v.proved = wait[t].proved
    BY <1>1 DEF WaitRec, NetStates
  <2>2. wait' = [wait EXCEPT ![t] = v] /\ wait \in [NetThreads -> WaitRec]
    BY <1>1 DEF NetTypes
  <2> QED BY <2>1, <2>2
<1>3. \A u \in NetThreads \ {t} : Follows(u)
  BY <1>2 DEF Follows
<1>4. \A h : Asking(h)' <=> Asking(h)
  BY <1>1, <1>2, <1>3, AskKept
<1>5. wait'[t].proved => PollsSliced(t)' /\ AskedInTime(t)'
  <2> SUFFICES ASSUME wait[t].proved
               PROVE  PollsSliced(t)' /\ AskedInTime(t)'
    BY <1>2
  <2> PICK f : f = wait[t].fd
    OBVIOUS
  <2>1. PollsSliced(t) /\ AskedInTime(t)
    BY DEF NetIInv, PollsInTime
  <2>2. PollsSliced(t)'
    BY <1>1, <1>2, <2>1 DEF PollsSliced
  <2>3. Asking(f)' <=> Asking(f)
    BY <1>4
  <2>4. wait'[t].fd = f /\ track' = track /\ number' = number
    BY <1>1, <1>2
  <2> QED BY <1>2, <2>1, <2>2, <2>3, <2>4 DEF AskedInTime
<1> QED BY <1>1, <1>2, <1>3, <1>4, <1>5, WaitsOnly

LEMMA BatchFailsKeeps ==
  ASSUME NetIInv, NEW t \in NetThreads, BatchFails(t)
  PROVE  NetIInv'
<1>1. /\ NetTypes /\ wait[t].at = "native" /\ ~Live(t) /\ wait[t] \in WaitRec
      /\ wait' = [wait EXCEPT ![t] = [wait[t] EXCEPT !.at = "bad"]]
      /\ UNCHANGED <<number, track, gens, route, queued, heard>> /\ wait[t].fd \in NetFds
  BY DEF BatchFails, Move, NetIInv, NetTypes
<1>2. ~wait[t].proved
  BY <1>1, PromisedPoll DEF Live
<1>3. /\ wait'[t].at = "bad" /\ wait'[t].fd = wait[t].fd /\ ~wait'[t].proved
      /\ wait' \in [NetThreads -> WaitRec] /\ \A u \in NetThreads \ {t} : wait'[u] = wait[u]
  <2> PICK v : v = [wait[t] EXCEPT !.at = "bad"]
    OBVIOUS
  <2>1. v.at = "bad" /\ v \in WaitRec /\ v.fd = wait[t].fd /\ v.proved = wait[t].proved
    BY <1>1 DEF WaitRec, NetStates
  <2>2. wait' = [wait EXCEPT ![t] = v] /\ wait \in [NetThreads -> WaitRec]
    BY <1>1 DEF NetTypes
  <2> QED BY <1>2, <2>1, <2>2
<1>4. \A u \in NetThreads \ {t} : Follows(u)
  BY <1>3 DEF Follows
<1>5. \A h : Asking(h)' <=> Asking(h)
  BY <1>1, <1>3, <1>4, AskKept
<1> QED BY <1>1, <1>3, <1>4, <1>5, WaitsOnly

LEMMA MarkInvalidKeeps ==
  ASSUME NetIInv, NEW t \in NetThreads, MarkInvalid(t)
  PROVE  NetIInv'
<1>1. /\ NetTypes /\ wait[t].at = "bad" /\ wait[t] \in WaitRec /\ wait[t].fd \in NetFds
      /\ UNCHANGED <<number, track, gens, route, queued, heard>>
  BY DEF MarkInvalid, NetIInv, NetTypes
<1>2. PICK v \in WaitRec : /\ wait' = [wait EXCEPT ![t] = v] /\ ~v.proved
                           /\ v = NoWait \/ (v.at = "native" /\ v.fd = wait[t].fd)
  <2>1. CASE Move(t, NoWait)
    BY <2>1, NoWaitFacts DEF Move
  <2>2. CASE Move(t, Waiting([wait[t] EXCEPT !.tries = wait[t].tries + 1]))
    <3> PICK w : w = [wait[t] EXCEPT !.tries = wait[t].tries + 1]
      OBVIOUS
    <3>1. wait[t].tries + 1 \in Nat
      BY <1>1 DEF WaitRec
    <3>2. w \in WaitRec /\ w.fd = wait[t].fd /\ w.proved = wait[t].proved
      BY <1>1, <3>1 DEF WaitRec
    <3>3. ~wait[t].proved
      BY <1>1, PromisedPoll
    <3>4. Waiting(w) \in WaitRec /\ Waiting(w).at = "native" /\ Waiting(w).fd = w.fd /\ ~Waiting(w).proved
      BY <1>1, <3>2, <3>3, WaitingFacts
    <3>5. wait' = [wait EXCEPT ![t] = Waiting(w)]
      BY <2>2 DEF Move
    <3> QED BY <3>2, <3>4, <3>5
  <2> QED BY <2>1, <2>2 DEF MarkInvalid
<1>3. /\ wait'[t] = v /\ wait' \in [NetThreads -> WaitRec]
      /\ \A u \in NetThreads \ {t} : wait'[u] = wait[u]
  BY <1>1, <1>2 DEF NetTypes
<1>4. /\ wait'[t].at \in {"idle", "native"} /\ ~wait'[t].proved
      /\ wait'[t].at # "idle" => wait'[t].fd \in NetFds
  BY <1>1, <1>2, <1>3, NoWaitFacts
<1>5. \A u \in NetThreads \ {t} : Follows(u)
  BY <1>3 DEF Follows
<1>6. \A h : Asking(h)' <=> Asking(h)
  BY <1>1, <1>4, <1>5, AskKept
<1> QED BY <1>1, <1>3, <1>4, <1>5, <1>6, WaitsOnly

LEMMA ReceiveKeeps ==
  ASSUME NetIInv, NEW t \in NetThreads, Receive(t)
  PROVE  NetIInv'
<1> PICK f \in NetFds, d \in queued : d = number[f]
      /\ \/ queued' = queued \ {d} /\ missed' = missed \ {d}
         \/ UNCHANGED queued /\ missed' \in {missed \ {d}, missed \union {d}}
      /\ wait' = [Told(wait, d) EXCEPT ![t] = [NoWait EXCEPT !.at = "record", !.fd = f, !.obj = d]]
  BY DEF Receive
<1>1. /\ NetTypes /\ wait[t].at = "idle" /\ UNCHANGED <<number, track, gens, route, heard>>
      /\ d \in Nat /\ d # 0 /\ (queued' = queued \ {d} \/ queued' = queued)
  BY DEF Receive, NetIdle, NetIInv, NetTypes, Records
<1> PICK r : r = [NoWait EXCEPT !.at = "record", !.fd = f, !.obj = d]
  OBVIOUS
<1>2. r \in WaitRec /\ r.at = "record" /\ r.fd = f /\ r.obj = d /\ r.proved = FALSE
  BY <1>1 DEF WaitRec, NoWait, NetStates
<1>3. /\ wait' \in [NetThreads -> WaitRec] /\ wait'[t] = r
      /\ \A u \in NetThreads \ {t} :
           /\ Follows(u) /\ wait'[u].late = IF wait[u].obj = d THEN 0 ELSE wait[u].late
           /\ wait'[u].proved = wait[u].proved
  <2>1. Told(wait, d) \in [NetThreads -> WaitRec]
    BY <1>1, ToldCalls
  <2>2. wait' = [Told(wait, d) EXCEPT ![t] = r]
    OBVIOUS
  <2>3. /\ wait' \in [NetThreads -> WaitRec] /\ wait'[t] = r
        /\ \A u \in NetThreads \ {t} : wait'[u] = Told(wait, d)[u]
    BY <1>2, <2>1, <2>2
  <2> QED BY <1>1, <2>3, ToldCalls DEF Follows
<1>4. NetTypes' /\ Tracked'
  <2>1. \A u \in NetThreads : wait'[u].at # "idle" => wait'[u].fd \in NetFds
    BY <1>1, <1>2, <1>3 DEF NetTypes, Follows
  <2> QED BY <1>1, <1>3, <2>1 DEF NetIInv, NetTypes, Tracked
<1>5. Closers'
  BY <1>1, <1>2, <1>3, ClosersKept
<1>6. Records'
  <2>1. 0 \notin queued'
    BY <1>1 DEF NetIInv, Records
  <2>2. ASSUME NEW v \in NetThreads, wait'[v].at = "record"
        PROVE  /\ wait'[v].fd \in NetFds /\ wait'[v].obj # 0
               /\ \A u \in NetThreads : wait'[u].proved /\ wait'[u].obj = wait'[v].obj => wait'[u].late = 0
    <3>1. CASE v = t
      <4>1. wait'[v].fd = f /\ wait'[v].obj = d
        BY <1>2, <1>3, <3>1
      <4>2. \A u \in NetThreads : wait'[u].proved /\ wait'[u].obj = d => wait'[u].late = 0
        BY <1>2, <1>3 DEF Follows
      <4> QED BY <1>1, <4>1, <4>2
    <3>2. CASE v # t
      <4>1. /\ wait[v].at = "record" /\ wait'[v].fd = wait[v].fd /\ wait'[v].obj = wait[v].obj
        BY <1>3, <2>2, <3>2 DEF Follows
      <4>2. /\ wait[v].fd \in NetFds /\ wait[v].obj # 0
            /\ \A u \in NetThreads : wait[u].proved /\ wait[u].obj = wait[v].obj => wait[u].late = 0
        BY <4>1 DEF NetIInv, Records
      <4>3. \A u \in NetThreads : wait'[u].proved /\ wait'[u].obj = wait[v].obj => wait'[u].late = 0
        BY <1>2, <1>3, <4>2 DEF Follows
      <4> QED BY <4>1, <4>2, <4>3
    <3> QED BY <3>1, <3>2
  <2> QED BY <2>1, <2>2 DEF Records
<1>7. ASSUME NEW u \in NetThreads, wait'[u].proved PROVE PollsSliced(u)' /\ AskedInTime(u)'
  <2> PICK h : h = wait[u].fd
    OBVIOUS
  <2>0. u # t /\ Follows(u) /\ wait[u].proved /\ (wait'[u].late > 0 => wait[u].obj # d /\ wait[u].late > 0)
    BY <1>2, <1>3, <1>7
  <2>1. /\ h \in NetFds /\ number[h] = wait[u].obj /\ track[h].active /\ track[h].level > 0
        /\ (wait[u].late > 0 => wait[u].obj \in queued)
        /\ \A g \in NetFds : number[g] = wait[u].obj /\ track[g].active /\ track[g].level > 0 =>
              track[g].idle >= MinIdle \/ track[g].idle >= wait[u].late
    BY <2>0, PromisedPoll
  <2>2. wait'[u].late > 0 => wait[u].obj \in queued'
    BY <1>1, <2>0, <2>1
  <2>3. Asking(h)' <=> Asking(h)
    BY <1>1, <1>2, <1>3, AskKept
  <2>4. \A g \in NetFds : track'[g].idle \in Nat /\ track'[g].probed \in Nat
    BY <1>4 DEF NetTypes, TrackRec
  <2> QED BY <1>1, <1>7, <2>0, <2>1, <2>2, <2>3, <2>4, OthersPoll
<1> QED BY <1>4, <1>5, <1>6, <1>7, NetKept

LEMMA RecordKeeps ==
  ASSUME NetIInv, NEW t \in NetThreads, Record(t)
  PROVE  NetIInv'
<1> PICK f, o, cs : f = wait[t].fd /\ o = wait[t].obj
      /\ cs = IF number[f] = o THEN {} ELSE {g \in NetFds : number[g] = number[f]}
  OBVIOUS
<1>1. /\ NetTypes /\ wait[t].at = "record" /\ wait' = [Doubted(wait, cs) EXCEPT ![t] = NoWait]
      /\ UNCHANGED <<number, gens, route, queued>>
      /\ heard' = IF number[f] = o THEN heard \union {f} ELSE heard
  BY DEF Record, NetIInv
<1>2. /\ f \in NetFds /\ o # 0
      /\ \A u \in NetThreads : wait[u].proved /\ wait[u].obj = o => wait[u].late = 0
  BY <1>1 DEF NetIInv, Records
<1>3. /\ track' \in [NetFds -> TrackRec] /\ \A g \in NetFds \ {f} : track'[g] = track[g]
      /\ track'[f].active = track[f].active /\ track'[f].desc = track[f].desc
      /\ track'[f].gen = track[f].gen /\ track'[f].probed = track[f].probed
      /\ track'[f].level >= track[f].level /\ (track[f].active => track'[f].level > 0)
  <2>1. CASE track[f].active
    <3> PICK l \in {1, 2} : l >= track[f].level /\ track' = [track EXCEPT ![f].level = l, ![f].idle = 0]
      BY <1>1, <2>1 DEF Record
    <3> PICK R, k : R = track /\ k = track[f]
      OBVIOUS
    <3>1. k \in TrackRec /\ R \in [NetFds -> TrackRec]
      BY <1>1, <1>2 DEF NetTypes
    <3> PICK r : r = [k EXCEPT !.level = l, !.idle = 0]
      OBVIOUS
    <3>2. /\ r \in TrackRec /\ r.active = k.active /\ r.desc = k.desc
          /\ r.gen = k.gen /\ r.probed = k.probed /\ r.level = l
      BY <3>1 DEF TrackRec
    <3>3. track' = [R EXCEPT ![f] = r]
      BY <1>2, <3>1
    <3>4. track'[f] = r /\ \A g \in NetFds \ {f} : track'[g] = R[g]
      BY <1>2, <3>1, <3>3
    <3>5. track' \in [NetFds -> TrackRec]
      BY <1>2, <3>1, <3>2, <3>3
    <3>6. k.level \in Nat /\ l > 0 /\ l >= k.level
      BY <3>1 DEF TrackRec
    <3> QED BY <3>2, <3>4, <3>5, <3>6
  <2>2. CASE ~track[f].active
    <3>1. track' = track
      BY <1>1, <2>2 DEF Record
    <3>2. track[f] \in TrackRec
      BY <1>1, <1>2 DEF NetTypes
    <3> QED BY <1>1, <2>2, <3>1, <3>2 DEF NetTypes, TrackRec
  <2> QED BY <2>1, <2>2
<1>4. /\ wait' \in [NetThreads -> WaitRec] /\ wait'[t] = NoWait
      /\ \A u \in NetThreads \ {t} :
           Follows(u) /\ wait'[u].late = wait[u].late /\ (wait'[u].proved => wait[u].fd \notin cs)
  <2>1. Doubted(wait, cs) \in [NetThreads -> WaitRec] /\ NoWait \in WaitRec
    BY <1>1, DoubtedCalls, NoWaitFacts
  <2>2. /\ wait' \in [NetThreads -> WaitRec] /\ wait'[t] = NoWait
        /\ \A u \in NetThreads \ {t} : wait'[u] = Doubted(wait, cs)[u]
    BY <1>1, <2>1
  <2>3. ASSUME NEW u \in NetThreads \ {t}
        PROVE  Follows(u) /\ wait'[u].late = wait[u].late
               /\ (wait'[u].proved => wait[u].fd \notin cs)
    <3> PICK w : w = Doubted(wait, cs)[u]
      OBVIOUS
    <3>1. wait'[u] = w
      BY <2>2
    <3>2. /\ w.at = wait[u].at /\ w.fd = wait[u].fd /\ w.obj = wait[u].obj
          /\ w.gen = wait[u].gen /\ w.guard = wait[u].guard /\ w.left = wait[u].left
          /\ w.late = wait[u].late
          /\ w.proved <=> wait[u].proved /\ wait[u].fd \notin cs
      BY <1>1, DoubtedCalls
    <3> QED BY <3>1, <3>2 DEF Follows
  <2> QED BY <2>2, <2>3
<1>5. wait'[t].at = "idle" /\ ~wait'[t].proved
  BY <1>4, NoWaitFacts
<1>6. NetTypes'
  <2>1. \A u \in NetThreads : wait'[u].at # "idle" => wait'[u].fd \in NetFds
    <3>1. \A u \in NetThreads \ {t} : Follows(u)
      BY <1>4
    <3>2. \A u \in NetThreads : wait[u].at # "idle" => wait[u].fd \in NetFds
      BY <1>1 DEF NetTypes
    <3> QED BY <1>5, <3>1, <3>2 DEF Follows
  <2> QED BY <1>1, <1>3, <1>4, <2>1 DEF NetTypes
<1>7. Tracked'
  <2> SUFFICES ASSUME NEW g \in NetFds
               PROVE  /\ track'[g].active <=> number[g] # 0 /\ g \notin route
                      /\ track'[g].active => track'[g].desc = number[g]
                      /\ g \in heard' => g \in route \/ (track'[g].active /\ track'[g].level > 0)
    BY <1>1 DEF Tracked
  <2>1. /\ track[g].active <=> number[g] # 0 /\ g \notin route
        /\ track[g].active => track[g].desc = number[g]
        /\ g \in heard => g \in route \/ (track[g].active /\ track[g].level > 0)
    BY DEF NetIInv, Tracked
  <2>2. CASE g = f
    BY <1>1, <1>2, <1>3, <2>1, <2>2
  <2>3. CASE g # f
    BY <1>1, <1>3, <2>1, <2>3
  <2> QED BY <2>2, <2>3
<1>8. Closers' /\ Records'
  <2>1. 0 \notin queued'
    BY <1>1 DEF NetIInv, Records
  <2> QED BY <1>1, <1>4, <1>5, <2>1, ClosersKept, RecordsKept
<1>9. ASSUME NEW u \in NetThreads, wait'[u].proved PROVE PollsSliced(u)' /\ AskedInTime(u)'
  <2> PICK h : h = wait[u].fd
    OBVIOUS
  <2>0. u # t /\ Follows(u) /\ wait[u].proved /\ h \notin cs /\ wait'[u].late = wait[u].late
    BY <1>4, <1>5, <1>9 DEF Follows
  <2>1. /\ h \in NetFds /\ number[h] = wait[u].obj /\ track[h].active /\ track[h].level > 0
        /\ (wait[u].late > 0 => wait[u].obj \in queued)
        /\ \A g \in NetFds : number[g] = wait[u].obj /\ track[g].active /\ track[g].level > 0 =>
              track[g].idle >= MinIdle \/ track[g].idle >= wait[u].late
    BY <2>0, PromisedPoll
  <2>2. track'[h].active /\ track'[h].level > 0 /\ track'[h].gen = track[h].gen /\ track'[h].probed = track[h].probed
    BY <1>3, <2>1
  <2>3. Asking(h)' <=> Asking(h)
    BY <1>1, <1>4, <1>5, <2>2, AskKept
  <2>4. \A g \in NetFds : track'[g].idle \in Nat /\ track'[g].probed \in Nat
    BY <1>3 DEF TrackRec
  <2>5. wait[u].late > 0 => number[f] # wait[u].obj
    <3>1. CASE number[f] = o
      BY <1>2, <2>0, <3>1
    <3>2. CASE number[f] # o
      <4>1. cs = {g \in NetFds : number[g] = number[f]}
        BY <3>2
      <4> QED BY <2>0, <2>1, <4>1
    <3> QED BY <3>1, <3>2
  <2>6. wait'[u].late > 0 => \A g \in NetFds :
           number'[g] = wait[u].obj /\ track'[g].active /\ track'[g].level > 0 =>
             track'[g].idle >= MinIdle \/ track'[g].idle >= wait[u].late
    BY <1>1, <1>3, <2>0, <2>1, <2>5
  <2> QED BY <1>1, <1>9, <2>0, <2>1, <2>2, <2>3, <2>4, <2>6, OthersPoll
<1> QED BY <1>6, <1>7, <1>8, <1>9, NetKept

LEMMA ArriveKeeps ==
  ASSUME NetIInv, Arrive
  PROVE  NetIInv'
<1> PICK d \in {number[f] : f \in NetFds} \ (queued \union {0}) : queued' = queued \union {d}
  BY DEF Arrive
<1>1. NetTypes /\ UNCHANGED <<number, track, gens, route, heard, wait>> /\ d # 0
  BY DEF Arrive, NetIInv
<1>2. NetTypes' /\ Tracked' /\ Closers' /\ Records'
  BY <1>1 DEF NetIInv, NetTypes, Tracked, Closers, Records
<1>3. PollsInTime'
  BY <1>1 DEF NetIInv, PollsInTime, PollsSliced, AskedInTime, Asking
<1> QED BY <1>2, <1>3 DEF NetIInv

\* What a step that starts another native wait, or asks in vain, leaves of the call.
LEMMA AgainFacts ==
  ASSUME NetIInv, NEW t \in NetThreads, wait[t].at # "idle", Again(t)
  PROVE  /\ wait' \in [NetThreads -> WaitRec] /\ wait'[t].at = "native"
         /\ wait'[t].fd = wait[t].fd /\ wait'[t].fd \in NetFds /\ wait'[t].obj = number[wait[t].fd]
         /\ wait'[t].guard = wait[t].guard /\ wait'[t].left = wait[t].guard
         /\ wait'[t].late \in {wait[t].late, 0}
         /\ wait'[t].proved => wait[t].proved /\ number[wait[t].fd] = wait[t].obj
         /\ \A u \in NetThreads \ {t} : wait'[u] = wait[u] /\ Follows(u)
<1>1. NetTypes /\ wait[t] \in WaitRec /\ wait[t].fd \in NetFds /\ wait \in [NetThreads -> WaitRec]
  BY DEF NetIInv, NetTypes
<1> PICK w : w = Waiting(wait[t])
  OBVIOUS
<1>2. /\ w \in WaitRec /\ w.at = "native" /\ w.fd = wait[t].fd
      /\ w.obj = number[wait[t].fd] /\ w.guard = wait[t].guard
      /\ w.left = wait[t].guard /\ w.late \in {wait[t].late, 0}
      /\ w.proved <=> wait[t].proved /\ number[wait[t].fd] = wait[t].obj
  BY <1>1, WaitingFacts
<1>3. wait' = [wait EXCEPT ![t] = w]
  BY DEF Again, Move
<1>4. wait' \in [NetThreads -> WaitRec] /\ wait'[t] = w /\ \A u \in NetThreads \ {t} : wait'[u] = wait[u]
  BY <1>1, <1>2, <1>3
<1>5. \A u \in NetThreads \ {t} : Follows(u)
  BY <1>4 DEF Follows
<1> QED BY <1>1, <1>2, <1>4, <1>5

LEMMA ProbeKeeps ==
  ASSUME NetIInv, NEW t \in NetThreads, Probe(t)
  PROVE  NetIInv'
<1> PICK f, d : f = wait[t].fd /\ d = number[f]
  OBVIOUS
<1>1. /\ NetTypes /\ wait[t].at = "probe" /\ f \in NetFds
      /\ UNCHANGED <<number, track, gens, route, queued, heard>>
  BY DEF Probe, NetIInv, NetTypes
<1>2. CASE track[f].active /\ track[f].gen = wait[t].gen /\ d \in queued
  <2>1. wait' = [Told(wait, d) EXCEPT ![t] = NoWait]
    BY <1>2 DEF Probe
  <2>2. Told(wait, d) \in [NetThreads -> WaitRec] /\ NoWait \in WaitRec
    BY <1>1, ToldCalls, NoWaitFacts
  <2>3. /\ wait' \in [NetThreads -> WaitRec] /\ wait'[t] = NoWait
        /\ \A u \in NetThreads \ {t} : wait'[u] = Told(wait, d)[u]
    BY <2>1, <2>2
  <2>4. /\ wait'[t].at = "idle" /\ ~wait'[t].proved
        /\ \A u \in NetThreads \ {t} :
             Follows(u) /\ wait'[u].late = IF wait[u].obj = d THEN 0 ELSE wait[u].late
    <3>1. wait'[t].at = "idle" /\ ~wait'[t].proved
      BY <2>3, NoWaitFacts
    <3>2. \A u \in NetThreads \ {t} :
            Follows(u) /\ wait'[u].late = IF wait[u].obj = d THEN 0 ELSE wait[u].late
      BY <1>1, <2>3, ToldCalls DEF Follows
    <3> QED BY <3>1, <3>2
  <2>5. ASSUME NEW u \in NetThreads \ {t}, NEW h \in NetFds, wait'[u].proved,
               wait'[u].late > 0, h = wait[u].fd, Asking(h)
        PROVE  Asking(h)'
    <3>1. wait[u].proved /\ wait[u].obj # d
      BY <2>4, <2>5 DEF Follows
    <3>2. number[h] = wait[u].obj
      BY <2>5, <3>1, PromisedPoll
    <3> PICK v \in NetThreads : wait[v].at = "probe" /\ wait[v].fd = h /\ wait[v].gen = track[h].gen
      BY <2>5 DEF Asking
    <3>3. v # t
      BY <3>1, <3>2
    <3> QED BY <1>1, <2>4, <3>3 DEF Asking, Follows
  <2> QED BY <1>1, <2>3, <2>4, <2>5, WaitsOnly
<1>3. CASE ~(track[f].active /\ track[f].gen = wait[t].gen /\ d \in queued)
  <2>1. Again(t)
    BY <1>3 DEF Probe
  <2>2. /\ wait' \in [NetThreads -> WaitRec] /\ wait'[t].at = "native"
        /\ wait'[t].fd = f /\ wait'[t].obj = d
        /\ wait'[t].guard = wait[t].guard /\ wait'[t].left = wait[t].guard
        /\ wait'[t].late \in {wait[t].late, 0}
        /\ wait'[t].proved => wait[t].proved /\ d = wait[t].obj
        /\ \A u \in NetThreads \ {t} : wait'[u] = wait[u] /\ Follows(u)
    BY <1>1, <2>1, AgainFacts
  <2>3. ASSUME NEW u \in NetThreads \ {t}, NEW h \in NetFds, wait'[u].proved,
               wait'[u].late > 0, h = wait[u].fd, Asking(h)
        PROVE  Asking(h)'
    <3>1. wait[u].proved /\ wait[u].late > 0
      BY <2>2, <2>3
    <3>2. number[h] = wait[u].obj /\ track[h].active /\ wait[u].obj \in queued
      BY <2>3, <3>1, PromisedPoll
    <3> PICK v \in NetThreads : wait[v].at = "probe" /\ wait[v].fd = h /\ wait[v].gen = track[h].gen
      BY <2>3 DEF Asking
    <3>3. v # t
      BY <1>3, <3>2
    <3> QED BY <1>1, <2>2, <3>3 DEF Asking
  <2>4. ASSUME wait'[t].proved
        PROVE  PollsSliced(t)' /\ AskedInTime(t)' /\ wait'[t].late = 0
    <3>1. /\ wait[t].proved /\ track[f].active /\ track[f].level > 0 /\ wait[t].obj = d
          /\ wait[t].guard \in 1 .. TlsInterval /\ wait[t].gen = track[f].gen
          /\ (wait[t].late > 0 => d \in queued) /\ wait[t].late \in Nat
      BY <1>1, <2>2, <2>4, PromisedPoll
    <3>2. wait'[t].late = 0
      BY <1>3, <2>2, <3>1
    <3> PICK n : n = wait[t].guard
      OBVIOUS
    <3>3. n \in 1 .. TlsInterval /\ n <= n /\ 0 < 2 * TlsInterval /\ 0 + n < 2 * TlsInterval
      BY <3>1, NetAssumption
    <3>4. number'[f] = d /\ track'[f].active /\ track'[f].level > 0
      BY <1>1, <3>1
    <3>5. PollsSliced(t)'
      BY <1>1, <2>2, <3>2, <3>3, <3>4 DEF PollsSliced
    <3>6. \A g \in NetFds : track'[g].idle >= 0 /\ track'[g].probed >= 0
      BY <1>1 DEF NetTypes, TrackRec
    <3>7. AskedInTime(t)'
      BY <1>1, <2>2, <3>2, <3>3, <3>6 DEF AskedInTime
    <3> QED BY <3>2, <3>5, <3>7
  <2>5. wait'[t].fd \in NetFds
    BY <1>1, <2>2
  <2> QED BY <1>1, <2>2, <2>3, <2>4, <2>5, WaitsOnly
<1> QED BY <1>2, <1>3

LEMMA ScanKeeps ==
  ASSUME NetIInv, NEW t \in NetThreads, ScanSockets(t)
  PROVE  NetIInv'
<1> PICK f : f = wait[t].fd
  OBVIOUS
<1>1. /\ NetTypes /\ wait[t].at = "scan" /\ f \in NetFds /\ wait[t] \in WaitRec
      /\ UNCHANGED <<number, gens, route, queued, heard>>
  BY DEF ScanSockets, NetIInv, NetTypes
<1>2. CASE Due(f)
  <2> PICK g : g = track[f].gen
    OBVIOUS
  <2>1. /\ track' = [track EXCEPT ![f].probed = 0]
        /\ wait' = [wait EXCEPT ![t] = [wait[t] EXCEPT !.at = "probe", !.gen = g]]
    BY <1>2 DEF ScanSockets, Move
  <2>2. /\ track' \in [NetFds -> TrackRec] /\ \A h \in NetFds \ {f} : track'[h] = track[h]
        /\ \A h \in NetFds :
             /\ track'[h].active = track[h].active /\ track'[h].desc = track[h].desc
             /\ track'[h].gen = track[h].gen /\ track'[h].level = track[h].level
             /\ track'[h].idle = track[h].idle
    <3>1. track[f] \in TrackRec /\ track \in [NetFds -> TrackRec]
      BY <1>1 DEF NetTypes
    <3> PICK r : r = [track[f] EXCEPT !.probed = 0]
      OBVIOUS
    <3>2. /\ r \in TrackRec /\ r.active = track[f].active /\ r.desc = track[f].desc
          /\ r.gen = track[f].gen /\ r.level = track[f].level /\ r.idle = track[f].idle
      BY <3>1 DEF TrackRec
    <3>3. track' = [track EXCEPT ![f] = r]
      BY <2>1, <3>1
    <3>4. track' \in [NetFds -> TrackRec] /\ track'[f] = r /\ \A h \in NetFds \ {f} : track'[h] = track[h]
      BY <1>1, <3>1, <3>2, <3>3
    <3> QED BY <3>2, <3>4
  <2>3. /\ wait'[t].at = "probe" /\ wait'[t].gen = g /\ wait'[t].fd = f
        /\ wait'[t].obj = wait[t].obj /\ wait'[t].guard = wait[t].guard /\ wait'[t].left = wait[t].left
        /\ wait'[t].late = wait[t].late /\ wait'[t].proved = wait[t].proved
        /\ wait' \in [NetThreads -> WaitRec] /\ \A u \in NetThreads \ {t} : wait'[u] = wait[u]
    <3> PICK v : v = [wait[t] EXCEPT !.at = "probe", !.gen = g]
      OBVIOUS
    <3>1. g \in Nat /\ wait \in [NetThreads -> WaitRec]
      BY <1>1 DEF NetTypes, TrackRec
    <3>2. /\ v.at = "probe" /\ v \in WaitRec /\ v.fd = f /\ v.gen = g
          /\ v.obj = wait[t].obj /\ v.guard = wait[t].guard /\ v.left = wait[t].left
          /\ v.late = wait[t].late /\ v.proved = wait[t].proved
      BY <1>1, <3>1 DEF WaitRec, NetStates
    <3>3. wait' = [wait EXCEPT ![t] = v]
      BY <2>1
    <3> QED BY <3>1, <3>2, <3>3
  <2>4. \A u \in NetThreads \ {t} : Follows(u)
    BY <2>3 DEF Follows
  <2>5. NetTypes' /\ Tracked'
    <3>1. \A u \in NetThreads : wait'[u].at # "idle" => wait'[u].fd \in NetFds
      BY <1>1, <2>3 DEF NetTypes
    <3> QED BY <1>1, <2>2, <2>3, <3>1 DEF NetIInv, NetTypes, Tracked
  <2>6. Closers' /\ Records'
    <3>1. 0 \notin queued'
      BY <1>1 DEF NetIInv, Records
    <3> QED BY <1>1, <2>3, <2>4, <3>1, ClosersKept, RecordsKept
  <2>7. Asking(f)'
    BY <2>2, <2>3, <1>1 DEF Asking
  <2>8. \A h \in NetFds : track'[h].idle \in Nat /\ track'[h].probed \in Nat
    BY <2>2 DEF TrackRec
  <2>9. ASSUME NEW u \in NetThreads \ {t}, wait'[u].proved PROVE PollsSliced(u)' /\ AskedInTime(u)'
    <3> PICK h : h = wait[u].fd
      OBVIOUS
    <3>0. wait[u].proved /\ wait'[u] = wait[u] /\ Follows(u)
      BY <2>3, <2>4, <2>9
    <3>1. /\ h \in NetFds /\ number[h] = wait[u].obj /\ track[h].active /\ track[h].level > 0
          /\ (wait[u].late > 0 => wait[u].obj \in queued)
          /\ \A k \in NetFds : number[k] = wait[u].obj /\ track[k].active /\ track[k].level > 0 =>
                track[k].idle >= MinIdle \/ track[k].idle >= wait[u].late
      BY <3>0, PromisedPoll
    <3>2. Asking(h)' \/ (~Asking(h) /\ track'[h].probed = track[h].probed)
      <4>1. CASE h = f
        BY <2>7, <4>1
      <4>2. CASE h # f
        <5>1. Asking(h)' <=> Asking(h)
          BY <1>1, <2>2, <2>3, <3>1, <4>2 DEF Asking
        <5> QED BY <2>2, <3>1, <4>2, <5>1
      <4> QED BY <4>1, <4>2
    <3>3. /\ number'[h] = number[h] /\ track'[h].active /\ track'[h].level > 0
          /\ track'[h].gen = track[h].gen
      BY <1>1, <2>2, <3>1
    <3>4. \A k \in NetFds : number'[k] = wait[u].obj /\ track'[k].active /\ track'[k].level > 0 =>
                track'[k].idle >= MinIdle \/ track'[k].idle >= wait[u].late
      BY <1>1, <2>2, <3>1
    <3>5. wait'[u].late > 0 => wait[u].obj \in queued'
      BY <1>1, <3>0, <3>1
    <3> QED BY <2>8, <2>9, <3>0, <3>1, <3>2, <3>3, <3>4, <3>5, OthersPoll
  <2>10. ASSUME wait'[t].proved PROVE PollsSliced(t)' /\ AskedInTime(t)'
    <3>1. PollsSliced(t) /\ AskedInTime(t)
      BY <2>3, <2>10 DEF NetIInv, PollsInTime
    <3>2. PollsSliced(t)'
      <4>1. number' = number /\ queued' = queued
        BY <1>1
      <4>2. track'[f].active /\ track'[f].level > 0 /\ track'[f].gen = g
        BY <1>1, <2>2, <3>1 DEF PollsSliced
      <4> QED BY <2>3, <3>1, <4>1, <4>2 DEF PollsSliced
    <3>3. \A k \in NetFds : number'[k] = wait'[t].obj /\ track'[k].active /\ track'[k].level > 0 =>
                track'[k].idle >= MinIdle \/ track'[k].idle >= wait'[t].late
      BY <1>1, <2>2, <2>3, <3>1 DEF AskedInTime
    <3>4. wait'[t].fd = f
      BY <2>3
    <3> QED BY <2>7, <3>2, <3>3, <3>4 DEF AskedInTime
  <2> QED BY <2>5, <2>6, <2>9, <2>10, NetKept
<1>3. CASE ~Due(f)
  <2>1. Again(t) /\ track' = track
    BY <1>3 DEF ScanSockets
  <2>2. /\ wait' \in [NetThreads -> WaitRec] /\ wait'[t].at = "native"
        /\ wait'[t].fd = f /\ wait'[t].obj = number[f]
        /\ wait'[t].guard = wait[t].guard /\ wait'[t].left = wait[t].guard
        /\ wait'[t].late \in {wait[t].late, 0}
        /\ wait'[t].proved => wait[t].proved /\ number[f] = wait[t].obj
        /\ \A u \in NetThreads \ {t} : wait'[u] = wait[u] /\ Follows(u)
    BY <1>1, <2>1, AgainFacts
  <2>3. \A h : Asking(h)' <=> Asking(h)
    BY <1>1, <2>1, <2>2, AskKept
  <2>4. ASSUME wait'[t].proved
        PROVE  /\ PollsSliced(t)' /\ AskedInTime(t)'
               /\ wait'[t].late = 0 \/ (wait[t].proved /\ wait'[t].late = wait[t].late
                                        /\ wait'[t].obj = wait[t].obj)
    <3> PICK n, l : n = wait[t].guard /\ l = wait'[t].late
      OBVIOUS
    <3>1. /\ wait[t].proved /\ track[f].active /\ track[f].level > 0 /\ wait[t].obj = number[f]
          /\ n \in 1 .. TlsInterval
          /\ (wait[t].late > 0 => number[f] \in queued) /\ wait[t].late \in Nat
          /\ wait[t].late < 2 * TlsInterval
          /\ \A k \in NetFds : number[k] = wait[t].obj /\ track[k].active /\ track[k].level > 0 =>
                track[k].idle >= MinIdle \/ track[k].idle >= wait[t].late
      BY <1>1, <2>2, <2>4, PromisedPoll
    <3>2. /\ l \in {wait[t].late, 0} /\ l \in Nat /\ l <= wait[t].late /\ TlsInterval \in Nat \ {0}
          /\ MinIdle \in 1 .. TlsInterval
      BY <2>2, <3>1, NetAssumption
    <3>3. number'[f] = number[f] /\ track'[f].active /\ track'[f].level > 0 /\ queued' = queued
      BY <1>1, <2>1, <3>1
    <3>4. n <= n /\ l < 2 * TlsInterval /\ (l > 0 => number[f] \in queued)
      BY <3>1, <3>2
    <3>5. PollsSliced(t)'
      BY <1>1, <2>2, <3>1, <3>3, <3>4 DEF PollsSliced
    <3>6. \A k \in NetFds : track[k].idle \in Nat /\ track[k].probed \in Nat
      BY <1>1 DEF NetTypes, TrackRec
    <3>7. \A k \in NetFds : number'[k] = wait'[t].obj /\ track'[k].active /\ track'[k].level > 0 =>
                track'[k].idle >= MinIdle \/ track'[k].idle >= wait'[t].late
      BY <1>1, <2>1, <2>2, <3>1, <3>2, <3>6
    <3>8. Asking(f)' \/ (/\ track[f].probed >= TlsInterval \/ track[f].probed >= l
                         /\ l + n < 2 * TlsInterval)
      <4>1. CASE Asking(f)
        BY <2>3, <4>1
      <4>2. CASE ~Asking(f)
        <5>1. AskedInTime(t)
          BY <3>1 DEF NetIInv, PollsInTime
        <5>2. track[f].probed >= TlsInterval \/ track[f].probed >= wait[t].late
          BY <4>2, <5>1 DEF AskedInTime
        <5>3. track[f].probed >= TlsInterval \/ track[f].probed >= l
          BY <3>2, <3>6, <1>1, <5>2, <3>1
        <5>4. Level(f) > 0 /\ Interval(Level(f)) \in 0 .. TlsInterval
          BY <1>1, <3>1, LevelOf
        <5> PICK i, m : i = Interval(Level(f)) /\ m = IdleFor(f)
          OBVIOUS
        <5>5. ~(m >= MinIdle) \/ ~(track[f].probed >= i)
          BY <1>3, <5>4 DEF Due
        <5>6. l < TlsInterval
          <6>1. CASE ~(m >= MinIdle)
            <7> PICK k \in NetFds : number[k] = number[f] /\ track[k].active /\ track[k].level > 0
                                    /\ track[k].idle = m
              BY <1>1, <3>1, IdleOf
            <7>1. m >= wait[t].late /\ m \in Nat
              BY <3>1, <3>6, <6>1
            <7> QED BY <3>1, <3>2, <6>1, <7>1
          <6>2. CASE ~(track[f].probed >= i)
            <7>1. track[f].probed \in Nat /\ i \in 0 .. TlsInterval
              BY <1>1, <3>6, <5>4
            <7> QED BY <3>2, <5>3, <6>2, <7>1
          <6> QED BY <5>5, <6>1, <6>2
        <5>7. l + n < 2 * TlsInterval
          BY <3>1, <3>2, <5>6
        <5> QED BY <5>3, <5>7
      <4> QED BY <4>1, <4>2
    <3>9. /\ wait'[t].fd = f /\ wait'[t].late = l /\ wait'[t].left = n
          /\ wait'[t].obj = wait[t].obj
      BY <2>2, <3>1
    <3>10. AskedInTime(t)'
      BY <2>1, <3>7, <3>8, <3>9 DEF AskedInTime
    <3> QED BY <2>2, <3>1, <3>5, <3>9, <3>10
  <2>5. wait'[t].fd \in NetFds
    BY <1>1, <2>2
  <2> QED BY <1>1, <2>1, <2>2, <2>3, <2>4, <2>5, WaitsOnly
<1> QED BY <1>2, <1>3

LEMMA NetTickKeeps ==
  ASSUME NetIInv, NetTick
  PROVE  NetIInv'
<1>1. /\ NetTypes /\ UNCHANGED <<number, gens, route, queued, missed, heard>>
      /\ \A t \in NetThreads : NetIdle(t) \/ Sleeping(t)
      /\ TlsInterval \in Nat \ {0} /\ MinIdle \in Nat
  <2>1. TlsInterval \in Nat \ {0} /\ MinIdle \in Nat
    BY NetAssumption
  <2> QED BY <2>1 DEF NetIInv, NetTick
<1>2. /\ track' \in [NetFds -> TrackRec]
      /\ \A g \in NetFds :
           /\ track'[g].active = track[g].active /\ track'[g].desc = track[g].desc
           /\ track'[g].gen = track[g].gen /\ track'[g].level = track[g].level
           /\ track[g].active => /\ track'[g].probed = Later(track[g].probed, TlsInterval)
                                 /\ track[g].level > 0 => track'[g].idle = Later(track[g].idle, MinIdle)
  <2> DEFINE r(g) == IF ~track[g].active THEN track[g] ELSE
       [track[g] EXCEPT !.idle = IF track[g].level > 0 THEN Later(@, MinIdle) ELSE 0,
                        !.probed = Later(@, TlsInterval)]
  <2>1. track' = [g \in NetFds |-> r(g)]
    BY DEF NetTick
  <2>2. ASSUME NEW g \in NetFds
        PROVE  /\ r(g) \in TrackRec
               /\ r(g).active = track[g].active /\ r(g).desc = track[g].desc
               /\ r(g).gen = track[g].gen /\ r(g).level = track[g].level
               /\ track[g].active => /\ r(g).probed = Later(track[g].probed, TlsInterval)
                                     /\ track[g].level > 0 => r(g).idle = Later(track[g].idle, MinIdle)
    <3> PICK k, p, i : k = track[g] /\ p = Later(k.probed, TlsInterval)
           /\ i = IF k.level > 0 THEN Later(k.idle, MinIdle) ELSE 0
      OBVIOUS
    <3>1. k \in TrackRec /\ p \in Nat /\ i \in Nat
      BY <1>1 DEF NetTypes, TrackRec, Later
    <3>2. r(g) = IF ~k.active THEN k ELSE [k EXCEPT !.idle = i, !.probed = p]
      OBVIOUS
    <3> HIDE DEF r
    <3>3. CASE ~k.active
      BY <3>1, <3>2, <3>3
    <3>4. CASE k.active
      <4>1. r(g) = [k EXCEPT !.idle = i, !.probed = p]
        BY <3>2, <3>4
      <4>2. /\ r(g) \in TrackRec /\ r(g).active = k.active /\ r(g).desc = k.desc
            /\ r(g).gen = k.gen /\ r(g).level = k.level /\ r(g).probed = p /\ r(g).idle = i
        BY <3>1, <4>1 DEF TrackRec
      <4> QED BY <4>2
    <3> QED BY <3>3, <3>4
  <2> HIDE DEF r
  <2> QED BY <2>1, <2>2
<1>3. /\ wait' \in [NetThreads -> WaitRec]
      /\ \A t \in NetThreads :
           /\ wait'[t].at = wait[t].at /\ wait'[t].fd = wait[t].fd /\ wait'[t].obj = wait[t].obj
           /\ wait'[t].gen = wait[t].gen /\ wait'[t].guard = wait[t].guard
           /\ wait'[t].proved = wait[t].proved
           /\ ~NetIdle(t) =>
                /\ wait'[t].left = IF wait[t].left > 0 THEN wait[t].left - 1 ELSE 0
                /\ wait'[t].late = IF wait[t].proved /\ Live(t) /\ wait[t].obj \in queued
                                   THEN Later(wait[t].late, 2 * TlsInterval + 1) ELSE 0
  <2> DEFINE r(t) == IF NetIdle(t) THEN wait[t]
       ELSE [wait[t] EXCEPT !.left = IF @ > 0 THEN @ - 1 ELSE 0,
               !.late = IF wait[t].proved /\ Live(t) /\ wait[t].obj \in queued
                        THEN Later(@, 2 * TlsInterval + 1) ELSE 0]
  <2>1. wait' = [t \in NetThreads |-> r(t)]
    BY DEF NetTick
  <2>2. ASSUME NEW t \in NetThreads
        PROVE  /\ r(t) \in WaitRec
               /\ r(t).at = wait[t].at /\ r(t).fd = wait[t].fd /\ r(t).obj = wait[t].obj
               /\ r(t).gen = wait[t].gen /\ r(t).guard = wait[t].guard
               /\ r(t).proved = wait[t].proved
               /\ ~NetIdle(t) =>
                    /\ r(t).left = IF wait[t].left > 0 THEN wait[t].left - 1 ELSE 0
                    /\ r(t).late = IF wait[t].proved /\ Live(t) /\ wait[t].obj \in queued
                                   THEN Later(wait[t].late, 2 * TlsInterval + 1) ELSE 0
    <3> PICK k, n, l : k = wait[t] /\ n = (IF k.left > 0 THEN k.left - 1 ELSE 0)
           /\ l = IF wait[t].proved /\ Live(t) /\ wait[t].obj \in queued
                        THEN Later(k.late, 2 * TlsInterval + 1) ELSE 0
      OBVIOUS
    <3>1. k \in WaitRec
      BY <1>1 DEF NetTypes
    <3>2. k.left \in Nat /\ k.late \in Nat
      BY <3>1 DEF WaitRec
    <3>3. n \in Nat
      BY <3>2
    <3>4. Later(k.late, 2 * TlsInterval + 1) \in Nat
      BY <3>2 DEF Later
    <3>5. l \in Nat
      BY <3>4
    <3>6. r(t) = IF NetIdle(t) THEN k ELSE [k EXCEPT !.left = n, !.late = l]
      OBVIOUS
    <3> HIDE DEF r
    <3>7. CASE NetIdle(t)
      BY <3>1, <3>6, <3>7
    <3>8. CASE ~NetIdle(t)
      <4>1. r(t) = [k EXCEPT !.left = n, !.late = l]
        BY <3>6, <3>8
      <4>2. /\ r(t) \in WaitRec /\ r(t).at = k.at /\ r(t).fd = k.fd /\ r(t).obj = k.obj
            /\ r(t).gen = k.gen /\ r(t).guard = k.guard /\ r(t).proved = k.proved
            /\ r(t).left = n /\ r(t).late = l
        BY <3>1, <3>3, <3>5, <4>1 DEF WaitRec
      <4> QED BY <4>2
    <3> QED BY <3>7, <3>8
  <2> HIDE DEF r
  <2> QED BY <2>1, <2>2
<1>4. NetTypes' /\ Tracked' /\ Closers'
  <2>1. NetTypes'
    BY <1>1, <1>2, <1>3 DEF NetTypes
  <2>2. Tracked'
    BY <1>1, <1>2 DEF NetIInv, Tracked
  <2>3. Closers'
    BY <1>1, <1>3 DEF NetIInv, Closers
  <2> QED BY <2>1, <2>2, <2>3
<1>5. \A t \in NetThreads : wait'[t].at \in {"idle", "native"}
  BY <1>1, <1>3 DEF NetIdle, Sleeping
<1>6. Records'
  BY <1>1, <1>5 DEF NetIInv, Records
<1>7. ASSUME NEW u \in NetThreads, wait'[u].proved PROVE PollsSliced(u)' /\ AskedInTime(u)'
  <2> PICK h, n, l, m, k : h = wait[u].fd /\ n = wait[u].left /\ l = wait[u].late
                           /\ m = wait'[u].left /\ k = wait'[u].late
    OBVIOUS
  <2>1. PollsSliced(u) /\ AskedInTime(u) /\ wait[u].proved /\ wait[u] \in WaitRec
    BY <1>1, <1>3, <1>7 DEF NetIInv, PollsInTime, NetTypes
  <2>2. /\ h \in NetFds /\ number[h] = wait[u].obj /\ number[h] # 0 /\ track[h].active /\ track[h].level > 0
        /\ wait[u].at \in {"native", "scan", "probe"}
        /\ wait[u].guard \in 1 .. TlsInterval /\ n <= wait[u].guard /\ l \in Nat
        /\ (l > 0 => wait[u].obj \in queued)
        /\ \A g \in NetFds : number[g] = wait[u].obj /\ track[g].active /\ track[g].level > 0 =>
              track[g].idle >= MinIdle \/ track[g].idle >= l
    BY <2>1, PromisedPoll
  <2>3. n \in Nat
    BY <2>1 DEF WaitRec
  <2>4. ~NetIdle(u)
    BY <2>2 DEF NetIdle
  <2>5. wait[u].at = "native" /\ n > 0 /\ Live(u)
    <3>1. Sleeping(u)
      BY <1>1, <2>4
    <3> QED BY <2>2, <3>1 DEF Sleeping, Live
  <2>6. m = n - 1 /\ k = IF wait[u].obj \in queued THEN Later(l, 2 * TlsInterval + 1) ELSE 0
    BY <1>3, <2>1, <2>4, <2>5
  <2>7. ~Asking(h)
    <3>1. \A v \in NetThreads : wait[v].at # "probe"
      BY <1>1 DEF NetIdle, Sleeping
    <3> QED BY <3>1 DEF Asking
  <2>8. /\ track[h].probed >= TlsInterval \/ track[h].probed >= l
        /\ l + n < 2 * TlsInterval
    BY <2>1, <2>7 DEF AskedInTime
  <2>9. k \in {l + 1, 0}
    <3>1. l < 2 * TlsInterval + 1
      BY <1>1, <2>2, <2>3, <2>8
    <3> QED BY <2>6, <3>1 DEF Later
  <2>10. m + k < 2 * TlsInterval /\ k < 2 * TlsInterval /\ m <= wait[u].guard /\ k \in Nat /\ m \in Nat
    <3>1. n < 2 * TlsInterval
      BY <1>1, <2>2, <2>3
    <3>2. m = n - 1 /\ n > 0
      BY <2>5, <2>6
    <3>3. CASE k = 0
      BY <1>1, <2>2, <2>3, <3>1, <3>2, <3>3
    <3>4. CASE k = l + 1
      BY <1>1, <2>2, <2>3, <2>8, <3>2, <3>4
    <3> QED BY <2>9, <3>3, <3>4
  <2>11. k > 0 => wait[u].obj \in queued
    BY <2>6
  <2>12. /\ wait'[u].at = "native" /\ wait'[u].fd = h /\ wait'[u].obj = wait[u].obj
         /\ wait'[u].guard = wait[u].guard
         /\ number'[h] = number[h] /\ queued' = queued
         /\ track'[h].active /\ track'[h].level > 0
    BY <1>1, <1>2, <1>3, <2>2, <2>5
  <2>13. PollsSliced(u)'
    BY <2>2, <2>10, <2>11, <2>12 DEF PollsSliced
  <2>14. track'[h].probed >= TlsInterval \/ track'[h].probed >= k
    <3>1. track'[h].probed = Later(track[h].probed, TlsInterval) /\ track[h].probed \in Nat
      BY <1>1, <1>2, <2>2 DEF NetTypes, TrackRec
    <3> QED BY <1>1, <2>2, <2>8, <2>9, <3>1 DEF Later
  <2>15. ASSUME NEW g \in NetFds, number'[g] = wait[u].obj, track'[g].active, track'[g].level > 0
         PROVE  track'[g].idle >= MinIdle \/ track'[g].idle >= k
    <3>1. track'[g].idle = Later(track[g].idle, MinIdle) /\ track[g].idle \in Nat
      BY <1>1, <1>2, <2>15 DEF NetTypes, TrackRec
    <3>2. track[g].idle >= MinIdle \/ track[g].idle >= l
      BY <1>1, <1>2, <2>2, <2>15
    <3> QED BY <1>1, <2>2, <2>9, <3>1, <3>2 DEF Later
  <2>16. AskedInTime(u)'
    <3>1. k + m < 2 * TlsInterval
      BY <2>10
    <3> QED BY <2>12, <2>14, <2>15, <3>1 DEF AskedInTime
  <2> QED BY <2>13, <2>16
<1> QED BY <1>4, <1>6, <1>7, NetKept

LEMMA NetStep == NetIInv /\ [NetNext]_netVars => NetIInv'
<1> SUFFICES ASSUME NetIInv, [NetNext]_netVars PROVE NetIInv'
  OBVIOUS
<1>1. CASE UNCHANGED netVars
  BY <1>1 DEF netVars, NetIInv, NetTypes, Tracked, Closers, PollsInTime, PollsSliced, AskedInTime, Asking, Records
<1>2. CASE NetNext
  BY <1>2, OpenKeeps, DuplicateKeeps, TrackCloseKeeps, CloseKeeps, ReceiveKeeps, RecordKeeps,
     EnterPollKeeps, ReadyKeeps, SliceEndsKeeps, ScanKeeps, ProbeKeeps, BatchFailsKeeps,
     MarkInvalidKeeps, ArriveKeeps, NetTickKeeps DEF NetNext
<1> QED BY <1>1, <1>2

(* poll of stream sockets (poll_fake, network_poll_recover_readiness) with    *)
(* the progress records, for every number of threads, numbers and sockets and *)
(* any intervals: data that stays queued for a call that was promised it is   *)
(* reported to somebody before two intervals are over.                        *)
THEOREM SocketSafety == NetSpec => []QueuedDataIsSeen
<1>1. NetSpec => []NetIInv
  BY NetInitial, NetStep, PTL DEF NetSpec
<1> QED
  BY <1>1, NetFollows, PTL
=============================================================================
