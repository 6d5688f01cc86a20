---------------------------- MODULE NetworkPoll ----------------------------
(***************************************************************************)
(* libc_shim.c: the progress record that each socket number has, and poll  *)
(* on a stream socket.  Horizon can miss the notification of data that     *)
(* follows an earlier receive, so that a poll of a stream that has already *)
(* received wakes in slices and asks for queued bytes itself; and it can   *)
(* answer EBADF for a whole batch when a number is closed under it.  The   *)
(* model polls one number at a time without a limit of its own, in ticks   *)
(* of time.  Windows, datagrams and the counters are left out.             *)
(***************************************************************************)
EXTENDS Naturals, FiniteSets, FiniteSetsExt

CONSTANTS
  NetThreads, NetFds,
  Pollers,       \* threads that poll
  MaxSockets,    \* bound: g_network_socket_generation
  TlsInterval,   \* NETWORK_TLS_READINESS_PROBE_INTERVAL_MS, in ticks
  BulkInterval,  \* NETWORK_BULK_READINESS_PROBE_INTERVAL_MS
  MinIdle,       \* NETWORK_READINESS_PROBE_MIN_MS
  Retries        \* POLL_FAKE_EBADF_RETRIES

ASSUME NetAssumption ==
  /\ MaxSockets \in Nat /\ Retries \in Nat /\ TlsInterval \in Nat \ {0}
  /\ BulkInterval \in 1 .. TlsInterval /\ MinIdle \in 1 .. TlsInterval

VARIABLES
  number,   \* number[f]: the socket description behind number f, 0 if it is closed
  track,    \* g_network_socket_progress
  gens,     \* g_network_socket_generation
  route,    \* numbers whose stripe is marked as being replaced
  queued,   \* descriptions with data, or an end, that nobody has received
  missed,   \* descriptions whose last notification Horizon lost
  heard,    \* numbers through which, or through whose source, bytes were received
  wait      \* the call that each thread is in

netVars == <<number, track, gens, route, queued, missed, heard, wait>>

Untracked == [active |-> FALSE, gen |-> 0, desc |-> 0, level |-> 0, idle |-> 0, probed |-> 0]
NoWait == [at |-> "idle", fd |-> 0, obj |-> 0, gen |-> 0, guard |-> 0, left |-> 0,
           tries |-> 0, late |-> 0, proved |-> FALSE]

NetInit ==
  /\ number = [f \in NetFds |-> 0] /\ track = [f \in NetFds |-> Untracked]
  /\ gens = 0 /\ route = {} /\ heard = {}
  /\ queued = {} /\ missed = {}
  /\ wait = [t \in NetThreads |-> NoWait]

\* Calls that have not been told of anything for a while start again from none.
Told(w, d) == [t \in NetThreads |-> IF w[t].obj = d THEN [w[t] EXCEPT !.late = 0] ELSE w[t]]
\* Calls that are promised nothing more: through a number that closes, or of a stream
\* to which another stream's receive is credited.
Doubted(w, fds) ==
  [t \in NetThreads |-> IF w[t].fd \in fds THEN [w[t] EXCEPT !.proved = FALSE] ELSE w[t]]
NetIdle(t) == wait[t].at = "idle"
Move(t, w) == wait' = [wait EXCEPT ![t] = w]
Free == {f \in NetFds : number[f] = 0 /\ f \notin route}

-----------------------------------------------------------------------------
\* Progress records.  A level is 0 for a stream that has received nothing, 1 for one
\* that has received something, and 2 from NETWORK_BULK_MIN_BYTES on.

\* network_track_open: a description has the generation of its first number.
OpenSocket(t) ==
  /\ NetIdle(t) /\ gens < MaxSockets /\ gens' = gens + 1
  /\ \E f \in Free :
       /\ number' = [number EXCEPT ![f] = gens']
       /\ track' = [track EXCEPT ![f] =
            [Untracked EXCEPT !.active = TRUE, !.gen = gens', !.desc = gens', !.probed = TlsInterval]]
       /\ heard' = heard \ {f}
  /\ UNCHANGED <<route, queued, missed, wait>>

\* A mutant of DuplicateOf: the new number starts without the progress.
FreshDuplicate(f) ==
  [Untracked EXCEPT !.active = track[f].active, !.gen = gens + 1, !.desc = track[f].desc,
                    !.probed = TlsInterval]

\* network_track_duplicate, for a dup, whose source cannot be closed meanwhile.
DuplicateOf(f) ==
  [Untracked EXCEPT !.active = track[f].active, !.gen = gens + 1,
     !.desc = IF track[f].active THEN track[f].desc ELSE 0,
     !.level = track[f].level, !.idle = track[f].idle, !.probed = TlsInterval]
Duplicate(t) ==
  /\ NetIdle(t) /\ gens < MaxSockets /\ gens' = gens + 1
  /\ \E s \in NetFds \ (Free \union route), f \in Free :
       /\ number[s] # 0
       /\ number' = [number EXCEPT ![f] = number[s]]
       /\ track' = [track EXCEPT ![f] = DuplicateOf(s)]
       /\ heard' = IF s \in heard THEN heard \union {f} ELSE heard \ {f}
  /\ UNCHANGED <<route, queued, missed, wait>>

\* close_fake: network_track_close, and then the number.  Only the generation of an
\* inactive record is ever read.
TrackClose(t) ==
  /\ NetIdle(t)
  /\ \E f \in NetFds \ route :
       /\ number[f] # 0 /\ route' = route \union {f}
       /\ track' = [track EXCEPT ![f] = [Untracked EXCEPT !.gen = track[f].gen]]
       /\ wait' = [Doubted(wait, {f}) EXCEPT ![t] = [NoWait EXCEPT !.at = "closing", !.fd = f]]
  /\ UNCHANGED <<number, gens, queued, missed, heard>>
CloseSocket(t) ==
  /\ wait[t].at = "closing" /\ Move(t, NoWait)
  /\ number' = [number EXCEPT ![wait[t].fd] = 0]
  /\ queued' = {d \in queued : \E f \in NetFds : number'[f] = d}
  /\ missed' = missed \intersect queued' /\ route' = route \ {wait[t].fd}
  /\ heard' = heard \ {wait[t].fd} /\ UNCHANGED <<track, gens>>

\* network_track_receive_snapshot: the most progress of all open numbers of a description.
Aliases(f) == {g \in NetFds : track[g].active /\ track[g].desc = track[f].desc}
Level(f) == IF track[f].active /\ track[f].desc # 0 THEN Max({track[g].level : g \in Aliases(f)}) ELSE 0
IdleFor(f) == Min({track[g].idle : g \in {a \in Aliases(f) : track[a].level > 0}})

\* recv, and network_record_recv_result, which does not look at the generation.
Receive(t) ==
  /\ NetIdle(t)
  /\ \E f \in NetFds :
       LET d == number[f] IN
       /\ d \in queued
       /\ \/ queued' = queued \ {d} /\ missed' = missed \ {d}
          \/ UNCHANGED queued /\ missed' \in {missed \ {d}, missed \union {d}}
       /\ wait' = [Told(wait, d) EXCEPT ![t] = [NoWait EXCEPT !.at = "record", !.fd = f, !.obj = d]]
  /\ UNCHANGED <<number, track, gens, route, heard>>
Record(t) ==
  /\ wait[t].at = "record"
  /\ LET f == wait[t].fd
         credited == IF number[f] = wait[t].obj THEN {} ELSE {g \in NetFds : number[g] = number[f]} IN
     /\ wait' = [Doubted(wait, credited) EXCEPT ![t] = NoWait]
     /\ IF track[f].active
          THEN \E l \in {1, 2} : /\ l >= track[f].level
                                  /\ track' = [track EXCEPT ![f].level = l, ![f].idle = 0]
          ELSE UNCHANGED track
     /\ heard' = IF number[f] = wait[t].obj THEN heard \union {f} ELSE heard
  /\ UNCHANGED <<number, gens, route, queued, missed>>

-----------------------------------------------------------------------------
\* poll_fake
Interval(level) == CASE level = 0 -> 0 [] level = 1 -> TlsInterval [] level = 2 -> BulkInterval

\* One native wait, with the generation that the number has before it.
Waiting(w) == [w EXCEPT !.at = "native", !.obj = number[w.fd], !.gen = track[w.fd].gen,
                        !.left = w.guard, !.late = IF number[w.fd] = w.obj THEN @ ELSE 0,
                        !.proved = @ /\ number[w.fd] = w.obj]
Again(t) == Move(t, Waiting(wait[t]))

\* network_poll_guard_interval_ms, once for the call
EnterPoll(t) ==
  /\ NetIdle(t) /\ t \in Pollers
  /\ \E f \in NetFds : number[f] # 0 /\ f \notin route
       /\ Move(t, Waiting([NoWait EXCEPT !.fd = f, !.obj = number[f],
                                !.guard = Interval(Level(f)), !.proved = f \in heard]))
  /\ UNCHANGED <<number, track, gens, route, queued, missed, heard>>

Live(t) == /\ wait[t].at \in {"native", "scan", "probe"}
           /\ wait[t].obj # 0 /\ number[wait[t].fd] = wait[t].obj
Notified(t) == /\ wait[t].at = "native" /\ Live(t)
               /\ wait[t].obj \in queued \ missed

Ready(t) ==
  /\ Notified(t) /\ wait' = [Told(wait, wait[t].obj) EXCEPT ![t] = NoWait]
  /\ UNCHANGED <<number, track, gens, route, queued, missed, heard>>

SliceEnds(t) ==
  /\ wait[t].at = "native" /\ wait[t].guard > 0 /\ wait[t].left = 0
  /\ Move(t, [wait[t] EXCEPT !.at = "scan", !.tries = 0])
  /\ UNCHANGED <<number, track, gens, route, queued, missed, heard>>

\* network_poll_recover_readiness: who asks, and how often
Due(f) == Level(f) > 0 /\ IdleFor(f) >= MinIdle /\ track[f].probed >= Interval(Level(f))
ScanSockets(t) ==
  /\ wait[t].at = "scan"
  /\ LET f == wait[t].fd IN
     IF Due(f)
       THEN /\ track' = [track EXCEPT ![f].probed = 0]
            /\ Move(t, [wait[t] EXCEPT !.at = "probe", !.gen = track[f].gen])
       ELSE Again(t) /\ UNCHANGED track
  /\ UNCHANGED <<number, gens, route, queued, missed, heard>>
Probe(t) ==
  /\ wait[t].at = "probe"
  /\ LET f == wait[t].fd  d == number[f] IN
     IF track[f].active /\ track[f].gen = wait[t].gen /\ d \in queued
       THEN wait' = [Told(wait, d) EXCEPT ![t] = NoWait]
       ELSE Again(t)
  /\ UNCHANGED <<number, track, gens, route, queued, missed, heard>>

\* A batch that fails, and network_poll_mark_invalid_entries; both of its attempts may
\* meet a replacement of the number, and then the wait is tried again, Retries times.
BatchFails(t) ==
  /\ wait[t].at = "native" /\ ~Live(t)
  /\ Move(t, [wait[t] EXCEPT !.at = "bad"])
  /\ UNCHANGED <<number, track, gens, route, queued, missed, heard>>
MarkInvalid(t) ==
  /\ wait[t].at = "bad"
  /\ LET f == wait[t].fd
         stale == f \notin route /\ (number[f] = 0 \/ ~track[f].active \/ track[f].gen # wait[t].gen) IN
     \/ stale /\ Move(t, NoWait)
     \/ /\ wait[t].tries < Retries
        /\ Move(t, Waiting([wait[t] EXCEPT !.tries = wait[t].tries + 1]))
     \/ wait[t].tries = Retries /\ Move(t, NoWait)
  /\ UNCHANGED <<number, track, gens, route, queued, missed, heard>>

-----------------------------------------------------------------------------
\* The host.  Only a notification that follows an earlier receive is ever lost.
Arrive ==
  /\ \E d \in {number[f] : f \in NetFds} \ (queued \union {0}) :
       /\ queued' = queued \union {d}
       /\ missed' \in {missed} \union
            (IF \E f \in heard : number[f] = d THEN {missed \union {d}} ELSE {})
  /\ UNCHANGED <<number, track, gens, route, heard, wait>>

\* Time passes when no thread has anything to do at once.
Later(n, max) == IF n < max THEN n + 1 ELSE n
Sleeping(t) == /\ wait[t].at = "native" /\ wait[t].obj # 0 /\ ~Notified(t)
               /\ (wait[t].guard = 0 \/ wait[t].left > 0)
NetTick ==
  /\ \A t \in NetThreads : NetIdle(t) \/ Sleeping(t)
  /\ track' = [f \in NetFds |-> IF ~track[f].active THEN track[f] ELSE
       [track[f] EXCEPT !.idle = IF track[f].level > 0 THEN Later(@, MinIdle) ELSE 0,
                        !.probed = Later(@, TlsInterval)]]
  /\ wait' = [t \in NetThreads |->
       IF NetIdle(t) THEN wait[t]
       ELSE [wait[t] EXCEPT !.left = IF @ > 0 THEN @ - 1 ELSE 0,
               !.late = IF wait[t].proved /\ Live(t) /\ wait[t].obj \in queued
                        THEN Later(@, 2 * TlsInterval + 1) ELSE 0]]
  /\ UNCHANGED <<number, gens, route, queued, missed, heard>>

NetNext ==
  \/ \E t \in NetThreads :
       \/ OpenSocket(t) \/ Duplicate(t) \/ TrackClose(t) \/ CloseSocket(t)
       \/ Receive(t) \/ Record(t)
       \/ EnterPoll(t) \/ Ready(t) \/ SliceEnds(t) \/ ScanSockets(t) \/ Probe(t)
       \/ BatchFails(t) \/ MarkInvalid(t)
  \/ Arrive \/ NetTick

NetSpec == NetInit /\ [][NetNext]_netVars

(* While a call waits for a stream that has received through this number, or  *)
(* through the number it was duplicated from, data or an end that stays       *)
(* queued is reported to somebody before two intervals are over, although     *)
(* Horizon lost the notification and whichever other numbers of the stream    *)
(* are closed, opened and polled by other threads meanwhile (poll_fake,       *)
(* network_poll_recover_readiness, network_track_duplicate).  It ends with    *)
(* the number, and when a late receive is credited to the stream.             *)
QueuedDataIsSeen ==
  \A t \in NetThreads : wait[t].proved /\ Live(t) => wait[t].late < 2 * TlsInterval
=============================================================================
