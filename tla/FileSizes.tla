------------------------------ MODULE FileSizes ------------------------------
(***************************************************************************)
(* Sizes of the files that the game writes (genshin_compat.c 776-1122).    *)
(* Files below the download directory are extended in large steps, so that *)
(* the size on disk runs ahead of the size the game sees; a table of       *)
(* records keeps both, and the last close cuts the tail off.               *)
(*                                                                         *)
(* The registry lock is held while a call waits for its record's lock; the *)
(* record's lock is held across the file system's SetSize.  A file is open *)
(* under one number, whose route stripe makes calls on it take turns.      *)
(* Sizes are in units, and what a write carries is left out.               *)
(***************************************************************************)
EXTENDS Integers, FiniteSets

CONSTANTS
  Files, Bulk,      \* open files, and those with bulk_eligible
  SizeThreads, Records,
  Threshold, Extent, MaxSize, \* NX_FS_BULK_THRESHOLD, _EXTENT and a bound
  Nothing

ASSUME SizesAssumption ==
  /\ Nothing \notin Files /\ Nothing \notin SizeThreads /\ Nothing \notin Records
  /\ Extent \in Nat \ {0} /\ Threshold \in Nat /\ MaxSize \in Nat

VARIABLES
  disk,     \* size of each file in the file system
  truth,    \* the size that the game's calls which succeeded give it (history)
  refused,  \* files whose last extension was refused behind a preallocated tail (history)
  opened,   \* files that are open
  tail,     \* closed files whose tail the file system refused to cut off
  record,   \* g_file_sizes
  registry, \* owner of g_file_size_registry_lock
  owner,    \* owner of each record's lock
  job       \* the call that each thread is in

sizeVars == <<disk, truth, refused, opened, tail, record, registry, owner, job>>

UnusedRecord == [file |-> Nothing, init |-> FALSE, logical |-> 0, physical |-> 0]
NoJob == [kind |-> "none", at |-> "none", f |-> Nothing, end |-> 0, e |-> Nothing, to |-> 0]

SizesInit ==
  /\ disk = [f \in Files |-> 0] /\ truth = disk /\ refused = {} /\ opened = {} /\ tail = {}
  /\ record = [e \in Records |-> UnusedRecord]
  /\ registry = Nothing /\ owner = [e \in Records |-> Nothing]
  /\ job = [t \in SizeThreads |-> NoJob]

Busy(f) == \E t \in SizeThreads : job[t].f = f
RecordOf(f) == {e \in Records : record[e].file = f}
FreeRecord ==
  {e \in Records : record[e].file = Nothing
                   /\ \A d \in Records : record[d].file = Nothing => e <= d}
RoundUp(n) == ((n + Extent - 1) \div Extent) * Extent
Larger(m, n) == IF m > n THEN m ELSE n

-----------------------------------------------------------------------------
\* A call begins; an append takes the size on disk as its offset.
BeginJob(t, kind, f, end) ==
  /\ job[t] = NoJob /\ ~Busy(f)
  /\ job' = [job EXCEPT ![t] = [NoJob EXCEPT !.kind = kind, !.at = "start", !.f = f, !.end = end]]
CallJob(t) ==
  /\ \E f \in Files :
       \/ /\ f \notin opened /\ BeginJob(t, "open", f, 0)
          /\ truth' = [truth EXCEPT ![f] = disk[f]]
          /\ refused' = refused \ {f} /\ tail' = tail \ {f} /\ UNCHANGED disk
       \/ /\ f \in opened
          /\ \/ BeginJob(t, "close", f, 0)
             \/ \E end \in 1 .. MaxSize : BeginJob(t, "write", f, end)
             \/ f \notin Bulk /\ disk[f] < MaxSize /\ BeginJob(t, "write", f, disk[f] + 1)
          /\ UNCHANGED <<disk, truth, refused, tail>>
       \/ /\ f \in opened
          /\ \E end \in 0 .. MaxSize :
               /\ BeginJob(t, "truncate", f, end)
               /\ truth' = [truth EXCEPT ![f] = end] /\ disk' = [disk EXCEPT ![f] = end]
          /\ refused' = refused \ {f} /\ UNCHANGED tail
  /\ UNCHANGED <<opened, record, registry, owner>>

JobDone(t) == job' = [job EXCEPT ![t] = NoJob]
Closed(f) == opened' = opened \ {f}
\* The write has its room: the game's file reaches to its end.
Granted(t) == truth' = [truth EXCEPT ![job[t].f] = Larger(@, job[t].end)]

\* nx_file_size_acquire and nx_file_io_finalize_fd look the record up under the
\* registry lock; the one found, or made for an open, is locked next.
LookUp(t) ==
  /\ job[t].at = "start" /\ registry = Nothing
  /\ LET found == IF job[t].kind = "open" THEN FreeRecord ELSE RecordOf(job[t].f) IN
     \/ \E e \in found :
          /\ registry' = t /\ job' = [job EXCEPT ![t].at = "record", ![t].e = e]
          /\ UNCHANGED <<disk, truth, opened>>
     \/ /\ found = {} /\ UNCHANGED registry
        /\ \/ job[t].kind = "truncate" /\ JobDone(t) /\ UNCHANGED <<disk, truth, opened>>
           \/ /\ job[t].kind = "open" /\ opened' = opened \cup {job[t].f} /\ JobDone(t)
              /\ UNCHANGED <<disk, truth>>
           \/ job[t].kind = "close" /\ Closed(job[t].f) /\ JobDone(t) /\ UNCHANGED <<disk, truth>>
           \/ /\ job[t].kind = "write" /\ JobDone(t) /\ UNCHANGED opened
              /\ \/ disk' = [disk EXCEPT ![job[t].f] = Larger(@, job[t].end)] /\ Granted(t)
                 \/ disk[job[t].f] < job[t].end /\ UNCHANGED <<disk, truth>>
  /\ UNCHANGED <<refused, tail, record, owner>>

\* The record's lock is taken, and the registry lock given up.
RecordLocked(t) ==
  /\ job[t].at = "record" /\ owner[job[t].e] = Nothing /\ registry' = Nothing

OpenRecord(t) ==
  /\ job[t].kind = "open" /\ RecordLocked(t)
  /\ record' = [record EXCEPT ![job[t].e] = [UnusedRecord EXCEPT !.file = job[t].f]]
  /\ opened' = opened \cup {job[t].f} /\ JobDone(t)
  /\ UNCHANGED <<disk, truth, refused, tail, owner>>

\* nx_file_io_note_truncate
NoteTruncate(t) ==
  /\ job[t].kind = "truncate" /\ RecordLocked(t)
  /\ record' = [record EXCEPT ![job[t].e] =
                 [@ EXCEPT !.init = TRUE, !.logical = job[t].end, !.physical = job[t].end]]
  /\ JobDone(t) /\ UNCHANGED <<disk, truth, refused, opened, tail, owner>>

\* nx_file_io_prepare_write: the goal, and the record as it stands before the
\* file is extended.
WriteGoal(f, r, end) ==
  IF f \in Bulk /\ end > r.logical /\ end >= Threshold THEN RoundUp(end) ELSE end
PrepareWrite(t) ==
  /\ job[t].kind = "write" /\ RecordLocked(t)
  /\ LET e == job[t].e  f == job[t].f  end == job[t].end
         r == IF record[e].init THEN record[e]
              ELSE [record[e] EXCEPT !.init = TRUE, !.logical = disk[f], !.physical = disk[f]]
         goal == WriteGoal(f, r, end)
     IN /\ record' = [record EXCEPT ![e] = [r EXCEPT !.logical = Larger(@, end)]]
        /\ IF goal > r.physical
           THEN /\ job' = [job EXCEPT ![t].at = "extend", ![t].to = goal]
                /\ owner' = [owner EXCEPT ![e] = t] /\ UNCHANGED truth
           ELSE JobDone(t) /\ Granted(t) /\ UNCHANGED owner
  /\ UNCHANGED <<disk, refused, opened, tail>>

\* SetSize succeeds, or fails and is tried again for what is needed, or fails: the
\* record is cut back to what is on disk, a preallocated tail included.
Extend(t) ==
  /\ job[t].at = "extend"
  /\ LET e == job[t].e  f == job[t].f IN
     /\ disk' = [disk EXCEPT ![f] = job[t].to]
     /\ record' = [record EXCEPT ![e].physical = job[t].to]
     /\ owner' = [owner EXCEPT ![e] = Nothing] /\ JobDone(t)
     /\ Granted(t) /\ refused' = refused \ {f}
  /\ UNCHANGED <<opened, tail, registry>>
ExtendLess(t) ==
  /\ job[t].at = "extend" /\ job[t].to # job[t].end
  /\ job' = [job EXCEPT ![t].to = job[t].end]
  /\ UNCHANGED <<disk, truth, refused, opened, tail, record, registry, owner>>
CutBack(r) == [r EXCEPT !.logical = IF @ > r.physical THEN r.physical ELSE @]
ExtendFails(t) ==
  /\ job[t].at = "extend" /\ job[t].to = job[t].end
  /\ LET e == job[t].e  f == job[t].f IN
     /\ record' = [record EXCEPT ![e] = CutBack(@)]
     /\ refused' = IF truth[f] < disk[f] THEN refused \cup {f} ELSE refused
     /\ owner' = [owner EXCEPT ![e] = Nothing] /\ JobDone(t)
  /\ UNCHANGED <<disk, truth, opened, tail, registry>>

\* nx_file_io_finalize_fd retires the record, and then cuts the tail off.
NeedsTrimIfWhole(r) == r.init /\ r.physical >= r.logical + Extent
NeedsTrim(r) == r.init /\ r.physical > r.logical
RetireRecord(t) ==
  /\ job[t].kind = "close" /\ RecordLocked(t)
  /\ LET e == job[t].e IN
     /\ record' = [record EXCEPT ![e] = [@ EXCEPT !.file = Nothing, !.init = FALSE]]
     /\ IF NeedsTrim(record[e])
        THEN /\ job' = [job EXCEPT ![t].at = "trim", ![t].to = record[e].logical]
             /\ owner' = [owner EXCEPT ![e] = t] /\ UNCHANGED opened
        ELSE Closed(job[t].f) /\ JobDone(t) /\ UNCHANGED owner
  /\ UNCHANGED <<disk, truth, refused, tail>>
Trim(t) ==
  /\ job[t].at = "trim"
  /\ LET e == job[t].e  f == job[t].f IN
     /\ \/ /\ disk' = [disk EXCEPT ![f] = job[t].to]
           /\ record' = [record EXCEPT ![e].physical = job[t].to] /\ UNCHANGED tail
        \/ tail' = tail \cup {f} /\ UNCHANGED <<disk, record>>
     /\ owner' = [owner EXCEPT ![e] = Nothing] /\ Closed(f) /\ JobDone(t)
  /\ UNCHANGED <<truth, refused, registry>>

\* A file that was left too long, or is no longer wanted, is removed.
RemoveFile(f) ==
  /\ f \notin opened /\ ~Busy(f) /\ disk[f] > 0
  /\ disk' = [disk EXCEPT ![f] = 0] /\ truth' = [truth EXCEPT ![f] = 0]
  /\ refused' = refused \ {f} /\ tail' = tail \ {f}
  /\ UNCHANGED <<opened, record, registry, owner, job>>

SizesNext ==
  \/ \E t \in SizeThreads :
       \/ CallJob(t) \/ LookUp(t) \/ OpenRecord(t) \/ NoteTruncate(t) \/ PrepareWrite(t)
       \/ Extend(t) \/ ExtendLess(t) \/ ExtendFails(t) \/ RetireRecord(t) \/ Trim(t)
  \/ \E f \in Files : RemoveFile(f)

SizesSpec == SizesInit /\ [][SizesNext]_sizeVars

-----------------------------------------------------------------------------
Resting(e) == record[e].file # Nothing /\ record[e].init /\ ~Busy(record[e].file)

(* The records never lose track of a file: between calls the size the game  *)
(* sees is the one that its successful writes and truncations gave the      *)
(* file, also after an extension that was refused, and with records that    *)
(* are reused while their last file is still cut back; the larger size is   *)
(* the one on disk; and no file is left with a preallocated tail by its     *)
(* last close unless the file system refused to cut it.  After a refusal    *)
(* behind a preallocated tail the size lies between the game's and the one  *)
(* on disk, until an extension is granted again (nx_file_io_prepare_write,  *)
(* nx_file_io_finalize_fd).                                                 *)
SizesTrue ==
  /\ \A e \in Records : Resting(e) =>
       LET f == record[e].file IN
       /\ record[e].physical = disk[f] /\ RecordOf(f) = {e}
       /\ truth[f] <= record[e].logical /\ record[e].logical <= disk[f]
       /\ f \notin refused => record[e].logical = truth[f]
  /\ \A f \in Files : f \notin opened \cup tail /\ ~Busy(f) =>
       /\ truth[f] <= disk[f]
       /\ f \notin refused => disk[f] = truth[f]
=============================================================================
