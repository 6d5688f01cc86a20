------------------------------ MODULE FileMaps ------------------------------
(***************************************************************************)
(* Mappings of files (mmap_fake and munmap_fake).  There is no paging: a   *)
(* mapping is memory of the small arena or of the heap into which the file *)
(* is read.  What is stored to a shared mapping reaches the file when      *)
(* msync or munmap writes the mapping back.  Read-only mappings on the     *)
(* heap are kept in a cache for the life of the process and shared by all  *)
(* who map the same part of the same file.                                 *)
(*                                                                         *)
(* Each thread has one mapping of one page at a time; a page is written    *)
(* back by as many writes as it takes, under the lock or on memory that    *)
(* nobody else can reach, and so in one step.                              *)
(***************************************************************************)
EXTENDS Integers, FiniteSets

CONSTANTS
  MapThreads, MapFiles,
  ArenaPlaces,   \* pages of the arena for small mappings
  HeapPlaces,    \* pages that memalign can give
  FallbackMax,   \* MMAP_FALLBACK_MAX
  CacheMax,      \* MAPC_N
  SharedMax,     \* MMAP_SHARED_MAX
  MaxStores      \* bound on the stores to mappings

ASSUME MapAssumption ==
  ArenaPlaces \union HeapPlaces \subseteq Nat /\ ArenaPlaces \intersect HeapPlaces = {}

VARIABLES
  content,   \* [MapFiles -> the store whose bytes the file holds]
  memory,    \* [places -> the bytes there, or Unmapped]
  fallback,  \* g_fb: heap places that munmap gives back
  pinned,    \* g_mapc: the file and place of each cached mapping
  shared,    \* g_shared_maps: the file and place of each writable mapping
  mapStep,   \* [MapThreads -> the step of its mmap or munmap]
  mapping,   \* [MapThreads -> its mapping]
  unsaved,   \* [MapThreads -> it stored what the file has not had since]
  stores

mapVars == <<content, memory, fallback, pinned, shared, mapStep, mapping, unsaved, stores>>

AllPlaces == ArenaPlaces \union HeapPlaces
Unmapped  == -1
NoMapping == [file |-> "none", place |-> Unmapped, kind |-> "none"]
MapKinds     == {"read", "shared"}

MapInit ==
  /\ content = [f \in MapFiles |-> 0]
  /\ memory = [p \in AllPlaces |-> Unmapped]
  /\ fallback = {} /\ pinned = {} /\ shared = {}
  /\ mapStep = [t \in MapThreads |-> "idle"]
  /\ mapping = [t \in MapThreads |-> NoMapping]
  /\ unsaved = [t \in MapThreads |-> FALSE]
  /\ stores = 0

FreeIn(places) == {p \in places : memory[p] = Unmapped}
First(places)  == CHOOSE p \in places : \A q \in places : p <= q
Cached(f)      == {c.place : c \in {d \in pinned : d.file = f}}
Step(t, s)     == mapStep' = [mapStep EXCEPT ![t] = s]
MappingDone(t)      == Step(t, "idle") /\ mapping' = [mapping EXCEPT ![t] = NoMapping]

(***************************************************************************)
(* mmap: a place in the arena; else the cached mapping, for a reader; else *)
(* a place on the heap.  The place is filled and then entered where it     *)
(* belongs: in the cache, or in the table of shared mappings.              *)
(***************************************************************************)
Take(t, f, kind, place, step) ==
  /\ mapping' = [mapping EXCEPT ![t] = [file |-> f, place |-> place, kind |-> kind]]
  /\ Step(t, step)

Mmap(t, f, kind) ==
  /\ mapStep[t] = "idle"
  /\ IF FreeIn(ArenaPlaces) # {}
       THEN /\ Take(t, f, kind, First(FreeIn(ArenaPlaces)), "reading")
            /\ memory' = [memory EXCEPT ![First(FreeIn(ArenaPlaces))] = 0]
     ELSE IF kind = "read" /\ Cached(f) # {}
       THEN Take(t, f, kind, First(Cached(f)), "mapped") /\ UNCHANGED memory
     ELSE /\ FreeIn(HeapPlaces) # {}
          /\ Take(t, f, kind, First(FreeIn(HeapPlaces)), "reading")
          /\ memory' = [memory EXCEPT ![First(FreeIn(HeapPlaces))] = 0]
  /\ UNCHANGED <<content, fallback, pinned, shared, unsaved, stores>>

OnHeap(t) == mapping[t].place \in HeapPlaces

\* The memory of a mapping that is not handed out.
AbandonMapping(t) ==
  /\ memory' = [memory EXCEPT ![mapping[t].place] = Unmapped]
  /\ fallback' = fallback \ {mapping[t].place}
  /\ MappingDone(t)

\* A failed read leaves zeroes in a reader's mapping and ends a shared one.
ReadMapping(t) ==
  /\ mapStep[t] = "reading"
  /\ IF OnHeap(t) /\ Cardinality(fallback) >= FallbackMax
       THEN AbandonMapping(t)
       ELSE \E got \in BOOLEAN :
              IF ~got /\ mapping[t].kind = "shared" THEN AbandonMapping(t)
              ELSE /\ memory' = [memory EXCEPT ![mapping[t].place] =
                                   IF got THEN content[mapping[t].file] ELSE 0]
                   /\ fallback' = IF OnHeap(t) THEN fallback \union {mapping[t].place}
                                              ELSE fallback
                   /\ Step(t, "read") /\ UNCHANGED mapping
  /\ UNCHANGED <<content, pinned, shared, unsaved, stores>>

Mapped(t, place) ==
  /\ mapping' = [mapping EXCEPT ![t].place = place]
  /\ Step(t, "mapped")

\* A mutant of the next definition: the cached place stays among those that munmap
\* gives back.
PinAlsoListed(t) ==
  /\ pinned' = pinned \union {[file |-> mapping[t].file, place |-> mapping[t].place]}
  /\ UNCHANGED <<fallback, memory>>
  /\ Mapped(t, mapping[t].place)

Pin(t) ==
  /\ pinned' = pinned \union {[file |-> mapping[t].file, place |-> mapping[t].place]}
  /\ fallback' = fallback \ {mapping[t].place}
  /\ UNCHANGED memory
  /\ Mapped(t, mapping[t].place)

\* mapcache_put: whoever was first has the cached mapping, and another's is freed.
CacheRead(t) ==
  /\ mapStep[t] = "read" /\ mapping[t].kind = "read"
  /\ IF OnHeap(t) /\ Cached(mapping[t].file) # {}
       THEN /\ memory' = [memory EXCEPT ![mapping[t].place] = Unmapped]
            /\ fallback' = fallback \ {mapping[t].place}
            /\ Mapped(t, First(Cached(mapping[t].file)))
            /\ UNCHANGED pinned
     ELSE IF OnHeap(t) /\ Cardinality(pinned) < CacheMax
       THEN Pin(t)
     ELSE Mapped(t, mapping[t].place) /\ UNCHANGED <<memory, fallback, pinned>>
  /\ UNCHANGED <<content, shared, unsaved, stores>>

SharedRecord(t) == [file |-> mapping[t].file, place |-> mapping[t].place]

\* mmap_shared_register; without a descriptor or a record there is no mapping.
RegisterShared(t) ==
  /\ mapStep[t] = "read" /\ mapping[t].kind = "shared"
  /\ \/ /\ Cardinality(shared) < SharedMax
        /\ shared' = shared \union {SharedRecord(t)}
        /\ Mapped(t, mapping[t].place)
        /\ UNCHANGED <<memory, fallback>>
     \/ AbandonMapping(t) /\ UNCHANGED shared
  /\ UNCHANGED <<content, pinned, unsaved, stores>>

\* The guest stores to its shared mapping.
StoreToMapping(t) ==
  /\ mapStep[t] = "mapped" /\ mapping[t].kind = "shared" /\ stores < MaxStores
  /\ memory' = [memory EXCEPT ![mapping[t].place] = stores + 1]
  /\ stores' = stores + 1
  /\ unsaved' = [unsaved EXCEPT ![t] = TRUE]
  /\ UNCHANGED <<content, fallback, pinned, shared, mapStep, mapping>>

\* The whole mapping is written, changed or not, and whatever was in the file.
WriteBack(t) ==
  /\ content' = [content EXCEPT ![mapping[t].file] = memory[mapping[t].place]]
  /\ unsaved' = [unsaved EXCEPT ![t] = FALSE]

\* msync from any thread, under the lock of the table.
Msync(t) ==
  /\ SharedRecord(t) \in shared /\ WriteBack(t)
  /\ UNCHANGED <<memory, fallback, pinned, shared, mapStep, mapping, stores>>

(***************************************************************************)
(* munmap: the record goes first, so that nobody else writes the memory    *)
(* back, then the memory is written, and only then is it given back.       *)
(***************************************************************************)
RetireMapping(t) ==
  /\ mapStep[t] = "mapped"
  /\ shared' = shared \ {SharedRecord(t)}
  /\ Step(t, IF SharedRecord(t) \in shared THEN "writing" ELSE "freeing")
  /\ UNCHANGED <<content, memory, fallback, pinned, mapping, unsaved, stores>>

\* When the write fails munmap answers -1, and what was stored is lost.
LastWrite(t) ==
  /\ mapStep[t] = "writing"
  /\ WriteBack(t) \/ (UNCHANGED content /\ unsaved' = [unsaved EXCEPT ![t] = FALSE])
  /\ Step(t, "freeing")
  /\ UNCHANGED <<memory, fallback, pinned, shared, mapping, stores>>

GiveBack(t) ==
  /\ mapStep[t] = "freeing"
  /\ IF mapping[t].place \in fallback \union ArenaPlaces
       THEN /\ memory' = [memory EXCEPT ![mapping[t].place] = Unmapped]
            /\ fallback' = fallback \ {mapping[t].place}
       ELSE UNCHANGED <<memory, fallback>>
  /\ MappingDone(t)
  /\ UNCHANGED <<content, pinned, shared, unsaved, stores>>

MapNext ==
  \E t \in MapThreads :
    \/ \E f \in MapFiles, kind \in MapKinds : Mmap(t, f, kind)
    \/ ReadMapping(t) \/ CacheRead(t) \/ RegisterShared(t)
    \/ StoreToMapping(t) \/ Msync(t)
    \/ RetireMapping(t) \/ LastWrite(t) \/ GiveBack(t)

MapSpec == MapInit /\ [][MapNext]_mapVars

-----------------------------------------------------------------------------
Active   == {t \in MapThreads : mapStep[t] # "idle"}
Filling  == {t \in MapThreads : mapStep[t] \in {"reading", "read"}}
PinnedAt == {c.place : c \in pinned}

\* munmap races mmap, msync and other munmaps (libc_shim.c:4441-4483, 4497-4525):
\* every mapping that the program has is backed by memory of its own or by a cached
\* one, which is never given back; no memory is leaked or listed twice; the table of
\* shared mappings names only memory that is mapped; and what was stored is in the
\* file before the memory goes, unless munmap fails.
MappingsSound ==
  /\ \A t \in Active : memory[mapping[t].place] # Unmapped
  /\ \A t, u \in Active : t # u /\ mapping[t].place = mapping[u].place =>
       mapping[t].place \in PinnedAt
  /\ fallback \intersect PinnedAt = {}
  /\ \A p \in HeapPlaces : memory[p] # Unmapped =>
       \/ p \in fallback \union PinnedAt
       \/ \E t \in Filling : mapping[t].place = p
  /\ \A c, d \in pinned : c.file = d.file => c = d
  /\ \A r \in shared : \E t \in MapThreads : mapStep[t] = "mapped" /\ SharedRecord(t) = r
  /\ \A t \in MapThreads : unsaved[t] =>
       SharedRecord(t) \in shared \/ mapStep[t] = "writing"
=============================================================================
