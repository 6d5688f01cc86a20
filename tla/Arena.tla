------------------------------- MODULE Arena -------------------------------
(***************************************************************************)
(* The memory arena of libc_shim.c: one run of virtual pages from which    *)
(* dynamic allocations (spills of malloc) are cut from the top and sparse  *)
(* reservations (large PROT_NONE maps) from the bottom, the slab of the    *)
(* engine behind it, and the donor heap whose units back all of them.  A   *)
(* dynamic segment or a slab chunk is backed while it is in use, a sparse  *)
(* granule from its first mprotect.  Thread stacks take units directly.    *)
(*                                                                         *)
(* Every operation runs under mmap_broker_lock, so it is one action; the   *)
(* kernel may refuse a map, an unmap or a resize.  nx_alias_memory_arenas_ *)
(* prepare alone works outside the lock, in three steps.                   *)
(***************************************************************************)
EXTENDS Integers, FiniteSets, FiniteSetsExt

CONSTANTS
  DynamicPages,           \* oc_dynamic_pages
  SegmentPages,    \* pages of a dynamic segment
  GranulePages,    \* pages of a sparse granule
  SparseAlign,     \* MMAP_BIG_ALIGN, in pages
  SegmentUnits,    \* donor units behind a segment or a slab chunk
  GranuleUnits,    \* donor units behind a granule
  Units,           \* oc_donor_unit_capacity
  InitialUnits, GrowUnits, ShrinkUnits, Quantum,  \* the resize policy
  Chunks,          \* chunks of the slab
  AllocSizes, Aligns,   \* page counts and alignments of dynamic allocations
  StackUnits,      \* sizes of thread stacks, in units
  Starters,        \* threads that call nx_alias_memory_arenas_prepare
  MaxDynamic,      \* bound: dynamic allocations alive at once
  Touched          \* bound: the pages the program writes to

(* Segments hold whole granules and are whole in the alignment of sparse    *)
(* reservations; resizes are multiples of Quantum and of SegmentUnits, so    *)
(* one growth makes room for an aligned segment unless the capacity cuts it. *)

ASSUME ArenaAssumption ==
  /\ {DynamicPages, SegmentPages, GranulePages, SparseAlign} \subseteq Nat \ {0}
  /\ {SegmentUnits, GranuleUnits, Units, Quantum} \subseteq Nat \ {0}
  /\ {InitialUnits, GrowUnits, ShrinkUnits} \subseteq Nat /\ InitialUnits <= Units
  /\ SparseAlign % SegmentPages = 0
  /\ AllocSizes \cup Aligns \cup StackUnits \subseteq Nat \ {0}
  /\ Chunks \subseteq Nat

VARIABLES
  starter,   \* starter[t]: how far nx_alias_memory_arenas_prepare has come in t
  extents,   \* the free extents, as pairs <<first page, pages>>
  dynamic,   \* oc_dynamic_allocations: first page -> pages
  live,      \* oc_dynamic_segment_live_pages
  sparse,    \* oc_sparse_start_pages: first page -> pages
  written,   \* sparse pages that do not read as zero
  backing,   \* place -> its first donor unit, for every place the kernel has mapped
  used,      \* oc_donor_units_used
  active,    \* oc_donor_active_units
  stacks,    \* oc_donor_allocations: first unit -> units
  slab       \* unity_slab_state

pageVars == <<extents, dynamic, live, sparse>>
donorVars == <<used, active>>
arenaVars == <<starter, pageVars, written, backing, donorVars, stacks, slab>>

Segments == 0 .. DynamicPages \div SegmentPages - 1
Granules == 0 .. DynamicPages \div GranulePages - 1
Run(first, n) == first .. first + n - 1

\* A place is what one kernel mapping covers.
Segment(s) == <<"segment", s>>
Granule(g) == <<"granule", g>>
Chunk(c) == <<"chunk", c>>
BackingPlaces == {Segment(s) : s \in Segments} \cup {Granule(g) : g \in Granules}
                   \cup {Chunk(c) : c \in Chunks}
PlacePages(p) == CASE p[1] = "segment" -> Run(p[2] * SegmentPages, SegmentPages)
                    [] p[1] = "granule" -> Run(p[2] * GranulePages, GranulePages)
                    [] p[1] = "chunk"   -> {}
PlaceUnits(p) == IF p[1] = "granule" THEN GranuleUnits ELSE SegmentUnits
Backed(p) == p \in DOMAIN backing
\* The kernel maps a place only where nothing is mapped.
NothingBacked(P) == \A p \in DOMAIN backing : PlacePages(p) \cap P = {}

Without(f, S) == [x \in DOMAIN f \ S |-> f[x]]
With(f, x, y) == [z \in DOMAIN f \cup {x} |-> IF z = x THEN y ELSE f[z]]

Published == \E t \in Starters : starter[t] = "published"

ArenaInit ==
  /\ starter = [t \in Starters |-> "idle"]
  /\ extents = {<<0, DynamicPages>>} /\ dynamic = <<>> /\ sparse = <<>>
  /\ live = [s \in Segments |-> 0]
  /\ written = {} /\ backing = <<>> /\ stacks = <<>>
  /\ used = {} /\ active = InitialUnits
  /\ slab = "empty"

------------------------------------------------------------------------------
(* nx_alias_memory_arenas_prepare: look, build without the lock, publish. *)

PrepareBegin(t) ==
  /\ starter[t] = "idle" /\ ~Published
  /\ starter' = [starter EXCEPT ![t] = "building"]
  /\ UNCHANGED <<pageVars, written, backing, donorVars, stacks, slab>>

PrepareFails(t) ==
  /\ starter[t] = "building"
  /\ starter' = [starter EXCEPT ![t] = "idle"]
  /\ UNCHANGED <<pageVars, written, backing, donorVars, stacks, slab>>

\* The tables are filled in again when they are published.
PublishArena(t) ==
  /\ starter[t] = "building"
  /\ IF Published
     THEN /\ starter' = [starter EXCEPT ![t] = "idle"]   \* lost the race
          /\ UNCHANGED <<pageVars, donorVars>>
     ELSE /\ starter' = [starter EXCEPT ![t] = "published"]
          /\ extents' = {<<0, DynamicPages>>} /\ dynamic' = <<>> /\ sparse' = <<>>
          /\ live' = [s \in Segments |-> 0]
          /\ used' = {} /\ active' = InitialUnits
  /\ UNCHANGED <<written, backing, stacks, slab>>
------------------------------------------------------------------------------
(* The donor heap *)

FreeUnits(u, n, align, limit) ==
  {f \in 0 .. limit - n : f % align = 0 /\ Run(f, n) \cap u = {}}

\* oc_donor_grow_locked, when the kernel agrees.
Grown(a, n) ==
  LET target == Min({Units, a + Max({n, GrowUnits})})
  IN  (target \div Quantum) * Quantum

\* oc_donor_allocate_locked: the units to take and the size of the heap then.
Takings(u, a, n, align, high) ==
  LET a2 == IF FreeUnits(u, n, align, a) # {} THEN a ELSE Max({a, Grown(a, n)})
      fits == FreeUnits(u, n, align, a2)
  IN  {[first |-> f, active |-> a2] :
         f \in {x \in fits : \A y \in fits : IF high THEN y <= x ELSE x <= y}}

Highest(u) == IF u = {} THEN 0 ELSE Max(u) + 1
\* oc_donor_try_shrink_locked after each release: the kernel may refuse.
ShrinkTarget(u) ==
  LET floor == Max({Highest(u), Min({InitialUnits, Units})})
  IN  Min({Units, ((floor + Quantum - 1) \div Quantum) * Quantum})
SettledSizes(u) ==
  {active} \cup {a \in 0 .. active : /\ a % Quantum = 0
                                     /\ ShrinkTarget(u) <= a
                                     /\ active - a >= ShrinkUnits}
\* A transaction that was rolled back may have grown the heap and shrunk it again.
RolledBack == {active} \cup {a \in ShrinkTarget(used) .. Units : a % Quantum = 0}

\* oc_backing_map_locked gives p the units from first on, when those in u are taken and
\* the heap has a units; then it has size units.
MapPlace(p, u, a, first, size) ==
  /\ NothingBacked(PlacePages(p))
  /\ [first |-> first, active |-> size] \in
       Takings(u, a, PlaceUnits(p), PlaceUnits(p), p[1] # "granule")

UnitsBehind(P, first) == UNION {Run(first[p], PlaceUnits(p)) : p \in P}
Largest(a, P, size) == Max({a} \cup {size[p] : p \in P})
\* The places in P are mapped from low to high addresses.
MapInOrder(P, first, size) ==
  \A p \in P :
    LET below == {q \in P : q[2] < p[2]} IN
    MapPlace(p, used \cup UnitsBehind(below, first), Largest(active, below, size), first[p], size[p])

MapAll(P) ==
  LET new == {p \in P : ~Backed(p)} IN
  \E first \in [new -> (0 .. Units - 1) \ used], size \in [new -> active .. Units] :
    /\ MapInOrder(new, first, size)
    /\ used' = used \cup UnitsBehind(new, first)
    /\ active' = Largest(active, new, size)
    /\ backing' = [p \in DOMAIN backing \cup new |->
                     IF p \in new THEN first[p] ELSE backing[p]]
\* One map fails, or the free extents cannot take the split: what was mapped is undone.
MapNothing(P) ==
  /\ \E p \in P : ~Backed(p)
  /\ active' \in RolledBack
  /\ UNCHANGED <<used, backing>>
UnmapForgets(P, stuck) ==
  LET gone == {p \in P : Backed(p)}
  IN  /\ backing' = Without(backing, gone \ stuck)
      /\ used' = used \ UNION {Run(backing[p], PlaceUnits(p)) : p \in gone}
      /\ active' \in IF gone = {} THEN {active} ELSE SettledSizes(used')

\* oc_backing_unmap_locked for some places; those in stuck the kernel refuses.
UnmapAll(P, stuck) ==
  LET gone == {p \in P : Backed(p)} \ stuck
  IN  /\ backing' = Without(backing, gone)
      /\ used' = used \ UNION {Run(backing[p], PlaceUnits(p)) : p \in gone}
      /\ active' \in IF gone = {} THEN {active} ELSE SettledSizes(used')

------------------------------------------------------------------------------
(* Free extents *)

\* oc_dynamic_consume_extent_locked
ConsumeExtent(e, first, n) ==
  extents' = (extents \ {e}) \cup
    {x \in {<<e[1], first - e[1]>>, <<first + n, e[1] + e[2] - first - n>>} : x[2] > 0}

\* oc_dynamic_return_extent_locked
ReturnExtent(first, n) ==
  LET before == {e \in extents : e[1] + e[2] = first}
      after == {e \in extents : e[1] = first + n}
      lo == Min({first} \cup {e[1] : e \in before})
      hi == Max({first + n} \cup {e[1] + e[2] : e \in after})
  IN  extents' = (extents \ (before \cup after)) \cup {<<lo, hi - lo>>}

SegmentsOf(P) == {s \in Segments : PlacePages(Segment(s)) \cap P # {}}
GranulesOf(P) == {g \in Granules : PlacePages(Granule(g)) \cap P # {}}
\* The pages of the dynamic allocations.
LivePages == UNION {Run(f, dynamic[f]) : f \in DOMAIN dynamic}
Overlap(s, P) == Cardinality(PlacePages(Segment(s)) \cap P)

------------------------------------------------------------------------------
(* Dynamic allocations: oc_pool_owned_alloc and oc_pool_owned_release *)

\* The tightest extent, and in it the highest aligned run.
LatestIn(e, n, align) == ((e[1] + e[2] - n) \div align) * align
FittingExtents(n, align) ==
  {e \in extents : e[2] >= n /\ LatestIn(e, n, align) >= e[1]}
Best(n, align) ==
  CHOOSE e \in FittingExtents(n, align) :
    \A f \in FittingExtents(n, align) :
      \/ e[2] < f[2]
      \/ e[2] = f[2] /\ e[1] >= f[1]

AllocDynamic(n, align) ==
  /\ Published
  /\ Cardinality(DOMAIN dynamic) < MaxDynamic
  /\ FittingExtents(n, align) # {}
  /\ LET e == Best(n, align)
         first == LatestIn(e, n, align)
         P == Run(first, n)
         places == {Segment(s) : s \in SegmentsOf(P)}
     IN  /\ MapAll(places)
         /\ ConsumeExtent(e, first, n)
         /\ live' = [s \in Segments |-> live[s] + Overlap(s, P)]
         /\ dynamic' = With(dynamic, first, n)
  /\ UNCHANGED <<starter, sparse, written, stacks, slab>>

AllocDynamicFails(n, align) ==
  /\ Published
  /\ FittingExtents(n, align) # {}
  /\ LET first == LatestIn(Best(n, align), n, align)
     IN  MapNothing({Segment(s) : s \in SegmentsOf(Run(first, n))})
  /\ UNCHANGED <<starter, pageVars, written, stacks, slab>>

ReleaseDynamic(first) ==
  /\ first \in DOMAIN dynamic
  /\ LET n == dynamic[first]
         P == Run(first, n)
         emptied == {Segment(s) : s \in {x \in SegmentsOf(P) : live'[x] = 0}}
     IN  /\ live' = [s \in Segments |-> live[s] - Overlap(s, P)]
         /\ ReturnExtent(first, n)
         /\ \E stuck \in SUBSET emptied : UnmapAll(emptied, stuck)
  /\ dynamic' = Without(dynamic, {first})
  /\ UNCHANGED <<starter, sparse, written, stacks, slab>>

\* A thread's stack is a run of donor units outside the arena.
StackAlloc(n) ==
  /\ Published
  /\ \E t \in Takings(used, active, n, 1, TRUE) :
        /\ used' = used \cup Run(t.first, n)
        /\ active' = t.active
        /\ stacks' = With(stacks, t.first, n)
  /\ UNCHANGED <<starter, pageVars, written, backing, slab>>

StackFree(first) ==
  /\ first \in DOMAIN stacks
  /\ used' = used \ Run(first, stacks[first])
  /\ active' \in SettledSizes(used')
  /\ stacks' = Without(stacks, {first})
  /\ UNCHANGED <<starter, pageVars, written, backing, slab>>

------------------------------------------------------------------------------
(* Sparse reservations *)

\* The pages of the reservations.
Reserved == UNION {Run(f, sparse[f]) : f \in DOMAIN sparse}

\* oc_sparse_find_extent_locked: the lowest aligned run without a mapping in it.
SparseFits(n) ==
  {f \in 0 .. DynamicPages - n : /\ f % SparseAlign = 0
                          /\ \E e \in extents : e[1] <= f /\ f + n <= e[1] + e[2]
                          /\ NothingBacked(Run(f, n))}

\* oc_alloc_locked: a whole number of segments.
ReserveSparse(n) ==
  /\ Published
  /\ SparseFits(n) # {}
  /\ LET first == Min(SparseFits(n))
         e == CHOOSE x \in extents : x[1] <= first /\ first + n <= x[1] + x[2]
     IN  /\ ConsumeExtent(e, first, n)
         /\ sparse' = With(sparse, first, n)
  /\ UNCHANGED <<starter, dynamic, live, written, backing, donorVars, stacks, slab>>

\* oc_commit_coarse_locked widens a range to whole granules; a first touch reads zero.
ProtectSparse(P) ==
  /\ P \subseteq Reserved
  /\ LET places == {Granule(g) : g \in GranulesOf(P)}
     IN  \/ MapAll(places)
         \/ MapNothing(places)
  /\ UNCHANGED <<starter, pageVars, written, stacks, slab>>

\* The program writes to a page it has committed.
WritePage(p) ==
  /\ p \in Reserved
  /\ \E g \in Granules : Backed(Granule(g)) /\ p \in PlacePages(Granule(g))
  /\ written' = written \cup {p}
  /\ UNCHANGED <<starter, pageVars, backing, donorVars, stacks, slab>>

\* oc_decommit_locked: whole granules are unmapped; what stays mapped is cleared.
Decommit(P) ==
  LET whole == {Granule(g) : g \in {x \in GranulesOf(P) : PlacePages(Granule(x)) \subseteq P}}
  IN  /\ \E stuck \in SUBSET {p \in whole : Backed(p)} : UnmapAll(whole, stuck)
      /\ written' = written \ P

\* madvise_fake with MADV_DONTNEED or MADV_FREE
DiscardPages(P) ==
  /\ Decommit(P)
  /\ UNCHANGED <<starter, pageVars, stacks, slab>>

\* oc_free_locked
FreeSparse(first) ==
  /\ first \in DOMAIN sparse
  /\ Decommit(Run(first, sparse[first]))
  /\ ReturnExtent(first, sparse[first])
  /\ sparse' = Without(sparse, {first})
  /\ UNCHANGED <<starter, dynamic, live, stacks, slab>>

------------------------------------------------------------------------------
(* The slab of the engine: reserved, claimed by its one exact mmap, retired. *)

SlabStep(from, to) == slab = from /\ slab' = to

PrepareSlab ==
  /\ Published /\ SlabStep("empty", "reserved")
  /\ UNCHANGED <<starter, pageVars, written, backing, donorVars, stacks>>

ClaimSlab ==
  /\ SlabStep("reserved", "claimed")
  /\ UNCHANGED <<starter, pageVars, written, backing, donorVars, stacks>>

\* A failed commit or discard of a chunk is fatal_error: no step.
CommitChunk(c) ==
  /\ slab = "claimed" /\ ~Backed(Chunk(c))
  /\ MapAll({Chunk(c)})
  /\ UNCHANGED <<starter, pageVars, written, stacks, slab>>

DiscardChunk(c) ==
  /\ slab \in {"reserved", "claimed"} /\ Backed(Chunk(c))
  /\ UnmapAll({Chunk(c)}, {})
  /\ UNCHANGED <<starter, pageVars, written, stacks, slab>>

\* munmap of the exact range; a chunk the kernel keeps stays accounted.
RetireSlab ==
  /\ slab \in {"reserved", "claimed"} /\ slab' = "retired"
  /\ LET chunks == {Chunk(c) : c \in Chunks}
     IN  \E stuck \in SUBSET {p \in chunks : Backed(p)} : UnmapAll(chunks, stuck)
  /\ UNCHANGED <<starter, pageVars, written, stacks>>

ArenaNext ==
  \/ \E t \in Starters : PrepareBegin(t) \/ PrepareFails(t) \/ PublishArena(t)
  \/ \E n \in AllocSizes, align \in Aligns : AllocDynamic(n, align) \/ AllocDynamicFails(n, align)
  \/ \E first \in DOMAIN dynamic : ReleaseDynamic(first)
  \/ \E n \in StackUnits : StackAlloc(n)
  \/ \E first \in DOMAIN stacks : StackFree(first)
  \/ \E n \in 1 .. DynamicPages : n % SegmentPages = 0 /\ ReserveSparse(n)
  \/ \E first \in Reserved : \E n \in AllocSizes : ProtectSparse(Run(first, n))
  \/ \E p \in Touched : WritePage(p)
  \/ \E first \in Reserved : \E n \in AllocSizes :
        Run(first, n) \subseteq 0 .. DynamicPages - 1 /\ DiscardPages(Run(first, n))
  \/ \E first \in DOMAIN sparse : FreeSparse(first)
  \/ PrepareSlab \/ ClaimSlab \/ RetireSlab
  \/ \E c \in Chunks : CommitChunk(c) \/ DiscardChunk(c)

ArenaSpec == ArenaInit /\ [][ArenaNext]_arenaVars

------------------------------------------------------------------------------
\* Runs of pages or units, as <<whose it is, where it begins, how long it is>>.
Disjoint(runs) == \A r, s \in runs : r # s => Run(r[2], r[3]) \cap Run(s[2], s[3]) = {}
Covered(runs) == UNION {Run(r[2], r[3]) : r \in runs}
PageRuns ==
  {<<"free", e[1], e[2]>> : e \in extents}
    \cup {<<"dynamic", f, dynamic[f]>> : f \in DOMAIN dynamic}
    \cup {<<"sparse", f, sparse[f]>> : f \in DOMAIN sparse}
DonorRuns ==
  {<<p, backing[p], PlaceUnits(p)>> : p \in DOMAIN backing}
    \cup {<<<<"stack", f>>, f, stacks[f]>> : f \in DOMAIN stacks}

(* Every page is in one free extent, one dynamic allocation or one sparse    *)
(* reservation, and no two free extents touch: otherwise a range is handed   *)
(* out twice, lost, or too fragmented for what comes next (libc_shim.c       *)
(* oc_dynamic_consume_extent_locked, oc_dynamic_return_extent_locked).       *)
PagesPartitioned ==
  /\ Disjoint(PageRuns) /\ Covered(PageRuns) = 0 .. DynamicPages - 1
  /\ \A e, f \in extents : e[1] + e[2] # f[1]

(* The live counts of the segments are exact, an allocation lies in mapped   *)
(* segments only, and no mapped segment reaches into a sparse reservation    *)
(* (oc_dynamic_commit_segments_locked, oc_dynamic_release_segments_locked).  *)
SegmentsExact ==
  /\ \A s \in Segments : live[s] = Overlap(s, LivePages)
  /\ \A f \in DOMAIN dynamic : \A s \in SegmentsOf(Run(f, dynamic[f])) : Backed(Segment(s))
  /\ \A s \in Segments : Backed(Segment(s)) => PlacePages(Segment(s)) \cap Reserved = {}

(* Each used donor unit stands behind exactly one mapping or stack, below    *)
(* the size of the heap, through roll-backs, refused unmaps and resizes      *)
(* (oc_donor_allocate_locked, oc_donor_release_locked).                      *)
DonorExact ==
  /\ Disjoint(DonorRuns) /\ Covered(DonorRuns) = used
  /\ used \subseteq 0 .. active - 1
  /\ active <= Units

(* A page that has been given back reads as zero when it is committed again, *)
(* also where the kernel refused to unmap it (oc_decommit_locked,            *)
(* libc_shim.c:3936).                                                        *)
FreshIsZero == written \subseteq Reserved

ArenaTypeOK ==
  /\ starter \in [Starters -> {"idle", "building", "published"}]
  /\ Cardinality({t \in Starters : starter[t] = "published"}) <= 1
  /\ extents \subseteq (0 .. DynamicPages - 1) \X (1 .. DynamicPages)
  /\ DOMAIN dynamic \cup DOMAIN sparse \subseteq 0 .. DynamicPages - 1
  /\ live \in [Segments -> 0 .. SegmentPages]
  /\ DOMAIN backing \subseteq BackingPlaces /\ used \subseteq 0 .. Units - 1
  /\ slab \in {"empty", "reserved", "claimed", "retired"}

ArenaSound == ArenaTypeOK /\ PagesPartitioned /\ SegmentsExact /\ DonorExact /\ FreshIsZero
==============================================================================
