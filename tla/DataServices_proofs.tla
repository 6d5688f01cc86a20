------------------------ MODULE DataServices_proofs ------------------------
(***************************************************************************)
(* Theorems about what the program keeps for the game - the saved session, *)
(* its memory and its files - for any sizes, files and threads.            *)
(***************************************************************************)
EXTENDS SessionStore, MemoryBroker, FileMaps, FileSizes, GameData, AssetPack, PluginLoader,
        Arena, FiniteSetTheorems, WellFoundedInduction, TLAPS

(***************************************************************************)
(* 1. The saved session.  What a rename puts under the loaded name is      *)
(* whole, because the steps before it only touch the temporary name.       *)
(***************************************************************************)

Stores   == {"open", "write", "rename", "replace", "rename2", "failed"}
Installs == {"rename", "replace", "rename2"}
Forgets  == {"unlinkTemp", "unlinkOld"}

\* A store has its version: the older release's, or one that is newer than all before it.
Storing ==
  /\ step \in Installs => tempFile = writing
  /\ step \in Stores /\ migrating => writing = 1 /\ mainFile = NoFile /\ legacyFile = 1
  /\ step \in Stores /\ ~migrating => writing > stored
  /\ step \in {"replace", "rename2"} => ~migrating
  /\ step = "rename2" => mainFile = NoFile /\ gap
  /\ step = "unlinkLegacy" => mainFile # NoFile

SessionIInv ==
  /\ writing \in Int /\ writing > 0 /\ tried \in Int /\ stored \in Int
  /\ tried >= writing /\ tried >= stored /\ tried > 0
  /\ mainFile \in Int \ {Torn} /\ legacyFile \in {NoFile, 1}
  /\ Storing
  /\ gap => mainFile \in {NoFile, 1} /\ step \notin Forgets
  /\ step \in Forgets => stored = NoFile /\ (cut \/ mainFile = NoFile)
  /\ step \notin Forgets /\ ~gap /\ ~cut => Loaded = stored

LEMMA SessionInitial == SessionInit => SessionIInv
BY DEF SessionInit, SessionIInv, Storing, Stores, Installs, Forgets, Loaded, NoFile, Torn

LEMMA SessionStep ==
  ASSUME SessionIInv, [SessionNext]_sessionVars
  PROVE  SessionIInv'
<1> USE DEF SessionIInv, Storing, Stores, Installs, Forgets, Loaded, NoFile, Torn, history
<1>1. ASSUME NEW v \in Versions, StoreSession(v) PROVE SessionIInv'
  BY <1>1, SessionAssumption DEF StoreSession
<1>2. CASE OpenTemp \/ WriteTemp
  BY <1>2 DEF OpenTemp, WriteTemp
<1>3. CASE Rename
  BY <1>3 DEF Rename, TakesName
<1>4. CASE ReplaceFile \/ StoreFails
  BY <1>4 DEF ReplaceFile, StoreFails
<1>5. CASE RenameAgain
  <2>1. step = "rename2" /\ ~migrating /\ mainFile = NoFile /\ gap /\ tempFile = writing
    BY <1>5 DEF RenameAgain
  <2>2. CASE TakesName
    BY <1>5, <2>1, <2>2 DEF RenameAgain, TakesName
  <2>3. CASE step' = "failed" /\ UNCHANGED <<mainFile, tempFile, stored, gap, cut>>
    BY <1>5, <2>1, <2>3 DEF RenameAgain
  <2> QED
    BY <1>5, <2>2, <2>3 DEF RenameAgain
<1>6. CASE LoadLegacy \/ UnlinkLegacy
  BY <1>6 DEF LoadLegacy, UnlinkLegacy
<1>7. CASE Invalidate \/ UnlinkTemp
  BY <1>7 DEF Invalidate, UnlinkTemp
<1>8. CASE UnlinkOld
  BY <1>8 DEF UnlinkOld
<1>9. CASE Crash \/ UNCHANGED sessionVars
  BY <1>9 DEF Crash, sessionVars
<1> QED
  BY <1>1, <1>2, <1>3, <1>4, <1>5, <1>6, <1>7, <1>8, <1>9 DEF SessionNext

(* A crash or a failure at any step of a store, a migration or an            *)
(* invalidation leaves no torn session where the next start loads it; what   *)
(* is loaded is the newest session stored, and nothing once it was           *)
(* invalidated, save for an invalidation that was cut short and for a        *)
(* replacement that lost the old session, which leaves at most the one of    *)
(* the older release (combo_session_store, combo_session_load,               *)
(* combo_session_invalidate).                                                *)
THEOREM SessionSafety == SessionSpec => []SessionSound
<1>1. SessionIInv => SessionSound
  BY DEF SessionIInv, SessionSound, Loaded, Forgets, NoFile, Torn
<1>2. SessionIInv /\ [SessionNext]_sessionVars => SessionIInv'
  BY SessionStep
<1> QED
  BY <1>1, <1>2, SessionInitial, PTL DEF SessionSpec

-----------------------------------------------------------------------------
(***************************************************************************)
(* 2. The memory broker.  A block in the pool fits the pages that were     *)
(* recorded for it, so a copy of all that they hold misses nothing.        *)
(***************************************************************************)

\* A block that is in use, as the broker keeps it.
BlockSound(k) ==
  /\ k \in Block
  /\ k.place = "pool" => k.size <= PagesOf(k.asked) * PageBytes
  /\ k.held => k.whole
  /\ ~k.held => k.why # "none"

BrokerIInv ==
  /\ DOMAIN block = Blocks /\ block = [b \in Blocks |-> block[b]]
  /\ \A b \in Blocks : block[b] = UnusedBlock \/ BlockSound(block[b])
  /\ extensions \in 0 .. MaxExtensions
  /\ ~spoilt

LEMMA UnusedIsNoBlock == UnusedBlock.place = "none" /\ UnusedBlock \notin Block
BY DEF UnusedBlock, Block, Places

LEMMA PagesSuffice ==
  ASSUME NEW n \in Nat
  PROVE  PagesOf(n) \in Int /\ n <= PagesOf(n) * PageBytes
<1> DEFINE q == (n + PageBytes - 1) \div PageBytes
           r == (n + PageBytes - 1) % PageBytes
<1>1. PageBytes \in Nat /\ PageBytes > 0
  BY BrokerAssumption
<1>2. q \in Int /\ r \in 0 .. PageBytes - 1 /\ n + PageBytes - 1 = PageBytes * q + r
  BY <1>1
<1>3. q * PageBytes = PageBytes * q /\ q * PageBytes \in Int
  BY <1>1, <1>2
<1> HIDE DEF q, r
<1>4. n <= q * PageBytes
  BY <1>1, <1>2, <1>3
<1> QED
  BY <1>2, <1>4 DEF PagesOf, q

\* What the allocators offer for a request.
LEMMA ServedSound ==
  ASSUME NEW abi, NEW n, NEW inside, NEW but, NEW s,
         \/ s \in Served(abi, n, inside) \/ s \in FromPool(n, inside)
         \/ s \in NewlibServes(n, inside, but)
  PROVE  /\ s.place \in Places /\ s.grown \in {0, 1}
         /\ s.grown = 1 => extensions < MaxExtensions
<1>1. ASSUME NEW x, NEW all, x \in NewlibServes(n, inside, all)
      PROVE  /\ x.place \in Places /\ x.grown \in {0, 1}
             /\ x.grown = 1 => extensions < MaxExtensions
  BY <1>1 DEF NewlibServes, CanExtend, Places
<1>2. ASSUME NEW x \in FromPool(n, inside)
      PROVE  x.place \in Places /\ x.grown = 0
  BY <1>2 DEF FromPool, Places
<1>3. s \in FromPool(n, inside) \/ (\E all : s \in NewlibServes(n, inside, all))
  BY DEF Served, FirstOf
<1> QED
  BY <1>1, <1>2, <1>3

\* What changes one block to a sound one, or to none, keeps the invariant.
LEMMA BlockChanged ==
  ASSUME BrokerIInv, NEW b, NEW k, k = UnusedBlock \/ BlockSound(k),
         block' = [block EXCEPT ![b] = k],
         extensions' \in 0 .. MaxExtensions, ~spoilt'
  PROVE  BrokerIInv'
<1>1. block' = [c \in Blocks |-> IF c = b THEN k ELSE block[c]]
  BY DEF BrokerIInv
<1>2. DOMAIN block' = Blocks /\ block' = [c \in Blocks |-> block'[c]]
  BY <1>1
<1>3. ASSUME NEW c \in Blocks
      PROVE  block'[c] = UnusedBlock \/ BlockSound(block'[c])
  BY <1>1 DEF BrokerIInv
<1> QED
  BY <1>2, <1>3 DEF BrokerIInv

LEMMA HeldSound ==
  ASSUME BrokerIInv, NEW b \in HeldNow
  PROVE  b \in Blocks /\ BlockSound(block[b]) /\ block[b].whole
BY DEF BrokerIInv, HeldNow, FreeBlocks, BlockSound

LEMMA FreshSound ==
  ASSUME NEW s, s.place \in Places, NEW n \in Sizes, NEW abi \in Abis \union {"thread"}
  PROVE  BlockSound(Fresh(s, n, abi))
<1>1. n \in Nat
  BY BrokerAssumption
<1>2. n <= PagesOf(n) * PageBytes
  BY <1>1, PagesSuffice
<1> QED
  BY <1>2 DEF BlockSound, Fresh, Block

LEMMA MovedSound ==
  ASSUME BrokerIInv, NEW b \in HeldNow, NEW s, s.place \in Places, NEW n \in Sizes,
         NEW abi \in Abis
  PROVE  BlockSound(Moved(b, n, s, abi))
<1> DEFINE whole == block[b].whole /\ Copied(b, n) >= Lower(block[b].size, n)
<1>1. BlockSound(block[b]) /\ block[b].whole
  BY HeldSound
<1>2. block[b].size \in Nat /\ block[b].asked \in Nat /\ n \in Nat
  BY <1>1, BrokerAssumption DEF BlockSound, Block
<1>3. PagesOf(block[b].asked) * PageBytes \in Int
  BY <1>2, PagesSuffice, BrokerAssumption
<1>4. Usable(b) \in Int /\ Usable(b) >= block[b].size
  BY <1>1, <1>2, <1>3 DEF Usable, PoolPagesOf, BlockSound
<1>5. Copied(b, n) >= Lower(block[b].size, n)
  BY <1>2, <1>4 DEF Copied, Lower
<1>6. whole = TRUE
  BY <1>1, <1>5
<1>7. Moved(b, n, s, abi) = [Fresh(s, n, abi) EXCEPT !.whole = whole]
  BY DEF Moved
<1> HIDE DEF whole
<1>8. Moved(b, n, s, abi) = Fresh(s, n, abi)
  BY <1>6, <1>7 DEF Fresh
<1> QED
  BY <1>8, FreshSound

LEMMA MoveStep ==
  ASSUME BrokerIInv, NEW b \in HeldNow, NEW s, s.place \in Places, s.grown \in {0, 1},
         s.grown = 1 => extensions < MaxExtensions,
         NEW n \in Sizes, NEW abi \in Abis, MoveBlock(b, n, s, abi), UNCHANGED spoilt
  PROVE  BrokerIInv'
<1>1. BlockSound(Moved(b, n, s, abi))
  BY MovedSound
<1>2. extensions' \in 0 .. MaxExtensions /\ ~spoilt'
  BY BrokerAssumption DEF MoveBlock, BrokerIInv
<1> QED
  BY <1>1, <1>2, BlockChanged DEF MoveBlock

LEMMA ReleaseStep ==
  ASSUME BrokerIInv, NEW abi \in Abis, NEW b \in HeldNow, NEW inside \in BOOLEAN,
         ReleaseBlock(abi, b, inside)
  PROVE  BrokerIInv'
<1> DEFINE why == Why(b, abi, inside)
           kept == [block[b] EXCEPT !.held = FALSE, !.why = why]
<1>1. extensions' \in 0 .. MaxExtensions
  BY DEF ReleaseBlock, BrokerIInv
<1>2. BlockSound(block[b]) /\ b \in Blocks
  BY HeldSound
<1>3. CASE Answers(b, abi, inside)
  BY <1>1, <1>3, BlockChanged DEF ReleaseBlock, BrokerIInv
<1>4. CASE ~Answers(b, abi, inside) /\ ContainsAddress(b)
  <2>1. block' = [block EXCEPT ![b] = kept] /\ ~spoilt'
    BY <1>4, <1>2 DEF ReleaseBlock, BrokerIInv
  <2>2. why \in {"none", "inside", "lent", "foreign", "extension"} /\ why # "none"
    BY <1>4 DEF Answers, ContainsAddress, Why, Abis
  <2>3. BlockSound(kept)
    <3> HIDE DEF why
    <3> QED
      BY <1>2, <2>2 DEF BlockSound, Block
  <2> HIDE DEF kept
  <2> QED
    BY <1>1, <2>1, <2>3, BlockChanged
<1>5. CASE ~Answers(b, abi, inside) /\ ~ContainsAddress(b)
  <2>1. block' = [block EXCEPT ![b] = UnusedBlock] /\ ~spoilt'
    BY <1>5 DEF ReleaseBlock, ToNewlib, ContainsAddress, BrokerIInv
  <2> QED
    BY <1>1, <2>1, BlockChanged
<1> QED
  BY <1>3, <1>4, <1>5

LEMMA GrowInPoolStep ==
  ASSUME BrokerIInv, NEW abi \in Abis, NEW b \in Blocks, NEW n \in Sizes,
         NEW inside \in BOOLEAN, GrowInPool(abi, b, n, inside)
  PROVE  BrokerIInv'
<1>1. b \in HeldNow /\ block[b].place = "pool" /\ UNCHANGED spoilt
  BY DEF GrowInPool, Answers
<1>2. CASE n <= Usable(b)
  <2> DEFINE k == [block[b] EXCEPT !.size = n]
  <2>1. block' = [block EXCEPT ![b] = k] /\ UNCHANGED extensions
    BY <1>1, <1>2, HeldSound DEF GrowInPool, BrokerIInv
  <2>2. BlockSound(block[b])
    BY <1>1, HeldSound
  <2>3. n <= PagesOf(block[b].asked) * PageBytes
    BY <1>1, <1>2 DEF Usable, PoolPagesOf
  <2>4. BlockSound(k)
    BY <2>2, <2>3 DEF BlockSound, Block
  <2> HIDE DEF k
  <2> QED
    BY <1>1, <2>1, <2>4, BlockChanged DEF BrokerIInv
<1>3. CASE ~(n <= Usable(b))
  <2>1. PICK s \in Served(abi, n, inside) : MoveBlock(b, n, s, abi)
    BY <1>3 DEF GrowInPool
  <2> QED
    BY <1>1, <2>1, ServedSound, MoveStep
<1> QED
  BY <1>2, <1>3

LEMMA GrowInNewlibStep ==
  ASSUME BrokerIInv, NEW abi \in Abis, NEW b \in Blocks, NEW n \in Sizes,
         NEW inside \in BOOLEAN, GrowInNewlib(abi, b, n, inside)
  PROVE  BrokerIInv'
<1>1. b \in HeldNow /\ block[b].place # "pool"
  BY DEF GrowInNewlib, ContainsAddress
<1>2. PICK s \in Resized(abi, b, n, inside) : MoveBlock(b, n, s, abi)
  BY <1>1 DEF GrowInNewlib
<1>3. s \in NewlibServes(n, inside, {b}) \/ s \in FromPool(n, inside)
  BY <1>2 DEF Resized, FirstOf
<1>4. s.place \in Places /\ s.grown \in {0, 1} /\ (s.grown = 1 => extensions < MaxExtensions)
  BY <1>3, ServedSound
<1>5. UNCHANGED spoilt
  BY <1>1 DEF GrowInNewlib
<1> QED
  BY <1>1, <1>2, <1>4, <1>5, MoveStep

LEMMA AllocateStep ==
  ASSUME BrokerIInv, NEW abi \in Abis, NEW n \in Sizes, NEW inside \in BOOLEAN,
         AllocateBlock(abi, n, inside)
  PROVE  BrokerIInv'
<1>1. PICK s \in Served(abi, n, inside) :
        /\ block' = [block EXCEPT ![Min(FreeBlocks)] = Fresh(s, n, abi)]
        /\ extensions' = extensions + s.grown
  BY DEF AllocateBlock
<1>2. s.place \in Places /\ s.grown \in {0, 1} /\ (s.grown = 1 => extensions < MaxExtensions)
  BY ServedSound
<1>3. BlockSound(Fresh(s, n, abi))
  BY <1>2, FreshSound
<1>4. extensions' \in 0 .. MaxExtensions /\ ~spoilt'
  BY <1>1, <1>2, BrokerAssumption DEF AllocateBlock, BrokerIInv
<1> QED
  BY <1>1, <1>3, <1>4, BlockChanged

LEMMA ThreadAllocStep ==
  ASSUME BrokerIInv, NEW n \in Sizes, NEW inside \in BOOLEAN, ThreadAlloc(n, inside)
  PROVE  BrokerIInv'
<1> DEFINE s == [place |-> "pool", grown |-> 0]
<1>1. BlockSound(Fresh(s, n, "thread"))
  BY FreshSound DEF Places
<1> QED
  BY <1>1, BlockChanged DEF ThreadAlloc, BrokerIInv

LEMMA LendStep ==
  ASSUME BrokerIInv, NEW b \in Blocks, Lend(b)
  PROVE  BrokerIInv'
<1> DEFINE lent == ~block[b].lent
           k == [block[b] EXCEPT !.lent = lent]
<1>1. b \in HeldNow /\ UNCHANGED <<extensions, spoilt>>
  BY DEF Lend
<1>2. block' = [block EXCEPT ![b] = k]
  BY DEF Lend, BrokerIInv
<1>3. lent \in BOOLEAN
  OBVIOUS
<1> HIDE DEF lent
<1>4. BlockSound(block[b])
  BY <1>1, HeldSound
<1>5. BlockSound(k)
  BY <1>3, <1>4 DEF BlockSound, Block
<1> HIDE DEF k
<1> QED
  BY <1>1, <1>2, <1>5, BlockChanged DEF BrokerIInv

LEMMA BrokerStep ==
  ASSUME BrokerIInv, [BrokerNext]_brokerVars
  PROVE  BrokerIInv'
<1>1. CASE UNCHANGED brokerVars
  BY <1>1 DEF BrokerIInv, brokerVars
<1>2. ASSUME NEW inside \in BOOLEAN, NEW b \in Blocks, ThreadRelease(b, inside)
      PROVE  BrokerIInv'
  BY <1>2, BlockChanged DEF ThreadRelease, BrokerIInv
<1>3. ASSUME NEW inside \in BOOLEAN, NEW abi \in Abis, NEW b \in Blocks,
             ReleaseBlock(abi, b, inside) \/ ShrinkToNothing(abi, b, inside)
      PROVE  BrokerIInv'
  <2>1. ReleaseBlock(abi, b, inside) /\ b \in HeldNow
    BY <1>3 DEF ReleaseBlock, ShrinkToNothing
  <2> QED
    BY <2>1, ReleaseStep
<1> QED
  BY <1>1, <1>2, <1>3, GrowInPoolStep, GrowInNewlibStep, AllocateStep, ThreadAllocStep,
     LendStep DEF BrokerNext

(* Newlib is never given an address of the pool, a block keeps the bytes its  *)
(* owner stored through every realloc, and a freed block stays allocated only *)
(* for a reason the code has, for any sizes, page size and limits (imports.c  *)
(* my_free and my_realloc, memory_broker.c __wrap_free and __wrap_realloc).   *)
THEOREM BlockSafety == BrokerSpec => []BlocksKept
<1>1. BrokerInit => BrokerIInv
  BY BrokerAssumption DEF BrokerInit, BrokerIInv
<1>2. BrokerIInv /\ [BrokerNext]_brokerVars => BrokerIInv'
  BY BrokerStep
<1>3. BrokerIInv => BlocksKept
  BY DEF BrokerIInv, BlockSound, BlocksKept, HeldNow, FreeBlocks
<1> QED
  BY <1>1, <1>2, <1>3, PTL DEF BrokerSpec

-----------------------------------------------------------------------------
(***************************************************************************)
(* 3. Mappings of files.  A place that is being filled, or that a writable *)
(* mapping has, is nobody else's and is not in the cache, so that the step *)
(* that gives it back takes it from nobody.                                *)
(***************************************************************************)

\* Every set of numbers has a least one.
LEMMA LeastExists ==
  ASSUME NEW S, S \subseteq Nat, S # {}
  PROVE  \E p \in S : \A q \in S : p <= q
<1> DEFINE R == OpToRel(<, Nat)
<1>1. IsWellFoundedOn(R, Nat)
  BY NatLessThanWellFounded
<1>2. \A x, y \in Nat : <<y, x>> \in R <=> y < x
  BY DEF OpToRel
<1> HIDE DEF R
<1>3. \E x \in S : \A y \in S : ~ (<<y, x>> \in R)
  BY <1>1, WFMin
<1>4. PICK x \in S : \A y \in S : ~ (<<y, x>> \in R)
  BY <1>3
<1>5. \A y \in S : x \in Nat /\ y \in Nat /\ ~ (y < x)
  BY <1>2, <1>4
<1> QED
  BY <1>5

LEMMA FirstIsThere ==
  ASSUME NEW places, places \subseteq Nat, places # {}
  PROVE  First(places) \in places
BY LeastExists DEF First

MapSteps == {"idle", "reading", "read", "mapped", "writing", "freeing"}
Mappings == [file : MapFiles, place : AllPlaces, kind : MapKinds]
Working(t) == mapStep[t] # "idle"

MapTyped ==
  /\ content \in [MapFiles -> Nat] /\ memory \in [AllPlaces -> Nat \union {Unmapped}]
  /\ stores \in Nat
  /\ mapStep \in [MapThreads -> MapSteps]
  /\ DOMAIN mapping = MapThreads /\ mapping = [t \in MapThreads |-> mapping[t]]
  /\ \A t \in MapThreads : Working(t) => mapping[t] \in Mappings
  /\ unsaved \in [MapThreads -> BOOLEAN]

\* Cached places are of the heap, mapped, and not given back; one for each file.
CacheSound ==
  /\ \A c \in pinned : c.place \in HeapPlaces /\ memory[c.place] # Unmapped
  /\ \A c \in pinned : c.place \notin fallback
  /\ \A c, d \in pinned : c.file = d.file => c = d

IsPinned(p) == \E c \in pinned : c.place = p

\* Whose a mapping's place is.
PlacesSound ==
  /\ \A t \in MapThreads : Working(t) => memory[mapping[t].place] # Unmapped
  /\ \A t, u \in MapThreads : Working(t) /\ Working(u) /\ t # u
       /\ mapping[t].place = mapping[u].place => IsPinned(mapping[t].place)
  /\ \A t \in MapThreads :
       mapStep[t] \in {"reading", "read"} \/ (Working(t) /\ mapping[t].kind = "shared")
         => ~IsPinned(mapping[t].place)

NothingLeaks ==
  \A p \in HeapPlaces : memory[p] # Unmapped =>
    \/ p \in fallback \/ IsPinned(p)
    \/ \E t \in MapThreads : mapStep[t] \in {"reading", "read"} /\ mapping[t].place = p

ReadListed ==
  \A t \in MapThreads : mapStep[t] = "read" /\ OnHeap(t) => mapping[t].place \in fallback

\* The table of writable mappings, and what is not in the file yet.
SharedMapped(t) == mapStep[t] = "mapped" /\ mapping[t].kind = "shared"
TableSound ==
  /\ \A r \in shared : \E t \in MapThreads : mapStep[t] = "mapped" /\ SharedRecord(t) = r
  /\ \A t \in MapThreads : SharedMapped(t) => SharedRecord(t) \in shared
  /\ \A t \in MapThreads : unsaved[t] => SharedMapped(t) \/ mapStep[t] = "writing"

MapIInv ==
  MapTyped /\ CacheSound /\ PlacesSound /\ NothingLeaks /\ ReadListed /\ TableSound

\* A page that is free has no mapping and is not in the cache.
LEMMA FreePlace ==
  ASSUME MapIInv, NEW p, p \in AllPlaces, memory[p] = Unmapped
  PROVE  /\ \A t \in MapThreads : Working(t) => mapping[t].place # p
         /\ ~IsPinned(p)
BY DEF MapIInv, PlacesSound, CacheSound, IsPinned

\* A page in the cache is of the heap and no page of the arena.
LEMMA PinnedPlace ==
  ASSUME MapIInv, NEW p, IsPinned(p)
  PROVE  p \in HeapPlaces /\ p \notin ArenaPlaces /\ p \notin fallback /\ memory[p] # Unmapped
         /\ p \in AllPlaces
BY MapAssumption DEF MapIInv, CacheSound, IsPinned, AllPlaces

LEMMA MapInitial == MapInit => MapIInv
BY DEF MapInit, MapIInv, MapTyped, CacheSound, PlacesSound, NothingLeaks, ReadListed, TableSound,
       Working, SharedMapped, MapSteps, NoMapping, Unmapped, AllPlaces

\* A mapping begins at a free place, or a reader's in the cache.
LEMMA MmapStep ==
  ASSUME MapIInv, NEW t \in MapThreads, NEW f \in MapFiles, NEW kind \in MapKinds,
         Mmap(t, f, kind)
  PROVE  MapIInv'
<1>1. \E p \in AllPlaces, s \in {"reading", "mapped"} :
        /\ Take(t, f, kind, p, s)
        /\ s = "reading" => memory[p] = Unmapped /\ memory' = [memory EXCEPT ![p] = 0]
        /\ s = "mapped" => kind = "read" /\ IsPinned(p) /\ memory' = memory
  <2>1. CASE FreeIn(ArenaPlaces) # {}
    <3>1. First(FreeIn(ArenaPlaces)) \in FreeIn(ArenaPlaces)
      BY <2>1, FirstIsThere, MapAssumption DEF FreeIn
    <3> QED
      BY <2>1, <3>1 DEF Mmap, FreeIn, AllPlaces
  <2>2. CASE FreeIn(ArenaPlaces) = {} /\ kind = "read" /\ Cached(f) # {}
    <3>1. Cached(f) \subseteq Nat /\ \A p \in Cached(f) : IsPinned(p)
      BY MapAssumption DEF Cached, IsPinned, MapIInv, CacheSound
    <3>2. First(Cached(f)) \in Cached(f)
      BY <2>2, <3>1, FirstIsThere
    <3>3. Take(t, f, kind, First(Cached(f)), "mapped") /\ memory' = memory
      BY <2>2 DEF Mmap
    <3> QED
      BY <2>2, <3>1, <3>2, <3>3, PinnedPlace
  <2>3. CASE FreeIn(ArenaPlaces) = {} /\ ~(kind = "read" /\ Cached(f) # {})
    <3>1. First(FreeIn(HeapPlaces)) \in FreeIn(HeapPlaces)
      BY <2>3, FirstIsThere, MapAssumption DEF FreeIn, Mmap
    <3> QED
      BY <2>3, <3>1 DEF Mmap, FreeIn, AllPlaces
  <2> QED
    BY <2>1, <2>2, <2>3
<1>2. PICK p \in AllPlaces, s \in {"reading", "mapped"} :
        /\ Take(t, f, kind, p, s)
        /\ s = "reading" => memory[p] = Unmapped /\ memory' = [memory EXCEPT ![p] = 0]
        /\ s = "mapped" => kind = "read" /\ IsPinned(p) /\ memory' = memory
  BY <1>1
<1>3. /\ mapStep[t] = "idle"
      /\ UNCHANGED <<content, fallback, pinned, shared, unsaved, stores>>
  BY DEF Mmap
<1>4. mapping' = [u \in MapThreads |->
        IF u = t THEN [file |-> f, place |-> p, kind |-> kind] ELSE mapping[u]]
  BY <1>2 DEF Take, MapIInv, MapTyped
<1>5. mapStep' = [mapStep EXCEPT ![t] = s]
  BY <1>2 DEF Take, Step
<1>6. MapTyped'
  <2>1. memory' \in [AllPlaces -> Nat \union {Unmapped}]
    BY <1>2 DEF MapIInv, MapTyped
  <2>2. \A u \in MapThreads : Working(u)' => mapping'[u] \in Mappings
    BY <1>3, <1>4, <1>5 DEF MapIInv, MapTyped, Working, Mappings
  <2> QED
    BY <1>3, <1>4, <1>5, <2>1, <2>2 DEF MapIInv, MapTyped, MapSteps
<1>7. \A q : memory[q] # Unmapped /\ q \in AllPlaces => memory'[q] # Unmapped
  BY <1>2 DEF MapIInv, MapTyped, Unmapped
<1>8. CacheSound'
  BY <1>3, <1>7 DEF MapIInv, CacheSound, AllPlaces
<1>9. \A q : IsPinned(q)' <=> IsPinned(q)
  BY <1>3 DEF IsPinned
<1>10. \A u \in MapThreads : u # t =>
         Working(u)' = Working(u) /\ mapStep'[u] = mapStep[u] /\ mapping'[u] = mapping[u]
  BY <1>4, <1>5 DEF Working
<1>11. s = "reading" => ~IsPinned(p) /\ \A u \in MapThreads : Working(u) => mapping[u].place # p
  BY <1>2, FreePlace
<1>12. mapping'[t].place = p /\ mapping'[t].kind = kind /\ mapStep'[t] = s
  BY <1>4, <1>5 DEF MapIInv, MapTyped
<1>13. PlacesSound'
  <2>1. \A u \in MapThreads : Working(u)' => memory'[mapping'[u].place] # Unmapped
    <3>1. memory'[p] # Unmapped
      BY <1>2, PinnedPlace DEF MapIInv, MapTyped, Unmapped
    <3> QED
      BY <1>7, <1>10, <1>12, <3>1 DEF MapIInv, PlacesSound, MapTyped, Mappings
  <2>2. \A u, v \in MapThreads : Working(u)' /\ Working(v)' /\ u # v
          /\ mapping'[u].place = mapping'[v].place => IsPinned(mapping'[u].place)
    BY <1>2, <1>9, <1>10, <1>11, <1>12 DEF MapIInv, PlacesSound
  <2>3. \A u \in MapThreads :
          mapStep'[u] \in {"reading", "read"} \/ (Working(u)' /\ mapping'[u].kind = "shared")
            => ~IsPinned(mapping'[u].place)
    BY <1>2, <1>9, <1>10, <1>11, <1>12 DEF MapIInv, PlacesSound
  <2> QED
    BY <1>3, <2>1, <2>2, <2>3 DEF PlacesSound, Working, IsPinned
<1>14. NothingLeaks'
  <2> SUFFICES ASSUME NEW q \in HeapPlaces, memory'[q] # Unmapped
               PROVE  \/ q \in fallback' \/ IsPinned(q)'
                      \/ \E u \in MapThreads :
                           mapStep'[u] \in {"reading", "read"} /\ mapping'[u].place = q
    BY DEF NothingLeaks
  <2>1. CASE memory[q] = Unmapped
    <3>1. q = p /\ s = "reading"
      <4>1. q \in AllPlaces
        BY DEF AllPlaces
      <4> QED
        BY <1>2, <2>1, <4>1 DEF MapIInv, MapTyped
    <3> QED
      BY <1>12, <3>1
  <2>2. CASE memory[q] # Unmapped
    BY <1>3, <1>9, <1>10, <2>2 DEF MapIInv, NothingLeaks
  <2> QED
    BY <2>1, <2>2
<1>15. TableSound'
  <2>1. \A u \in MapThreads : u # t => SharedRecord(u)' = SharedRecord(u)
    BY <1>10 DEF SharedRecord
  <2>2. ~SharedMapped(t)'
    BY <1>2, <1>12 DEF SharedMapped
  <2>3. ~unsaved'[t]
    BY <1>3 DEF MapIInv, TableSound, SharedMapped
  <2> QED
    BY <1>3, <1>10, <2>1, <2>2, <2>3 DEF MapIInv, TableSound, SharedMapped
<1>16. ReadListed'
  BY <1>2, <1>3, <1>10, <1>12 DEF MapIInv, ReadListed, OnHeap
<1> QED
  BY <1>6, <1>8, <1>13, <1>14, <1>15, <1>16 DEF MapIInv

\* The place of a mapping that works is a page, and what is stored there is a number.
LEMMA WorkingPlace ==
  ASSUME MapIInv, NEW t \in MapThreads, Working(t)
  PROVE  /\ mapping[t] \in Mappings /\ mapping[t].place \in AllPlaces
         /\ mapping[t].file \in MapFiles /\ mapping[t].kind \in MapKinds
         /\ memory[mapping[t].place] \in Nat /\ content[mapping[t].file] \in Nat
BY DEF MapIInv, MapTyped, PlacesSound, Mappings

\* A mapping ends, and its place is given back unless another has it.
LEMMA MappingEnds ==
  ASSUME MapIInv, NEW t \in MapThreads, mapStep[t] \in {"reading", "read", "freeing"},
         MappingDone(t), UNCHANGED <<content, pinned, shared, unsaved, stores>>,
         \/ /\ memory' = [memory EXCEPT ![mapping[t].place] = Unmapped]
            /\ fallback' = fallback \ {mapping[t].place} /\ ~IsPinned(mapping[t].place)
         \/ mapStep[t] = "freeing" /\ UNCHANGED <<memory, fallback>>
  PROVE  MapIInv'
<1> DEFINE p == mapping[t].place
<1>1. Working(t) /\ p \in AllPlaces
  BY WorkingPlace DEF Working
<1>2. /\ mapStep' = [mapStep EXCEPT ![t] = "idle"]
      /\ mapping' = [u \in MapThreads |-> IF u = t THEN NoMapping ELSE mapping[u]]
  BY DEF MappingDone, Step, MapIInv, MapTyped
<1>3. MapTyped'
  <2>1. memory' \in [AllPlaces -> Nat \union {Unmapped}]
    BY DEF MapIInv, MapTyped
  <2>2. \A u \in MapThreads : Working(u)' => mapping'[u] \in Mappings
    BY <1>2 DEF MapIInv, MapTyped, Working
  <2> QED
    BY <1>2, <2>1, <2>2 DEF MapIInv, MapTyped, MapSteps
<1>4. \A u \in MapThreads : Working(u)' =>
        u # t /\ Working(u) /\ mapStep'[u] = mapStep[u] /\ mapping'[u] = mapping[u]
  BY <1>2 DEF Working, MapIInv, MapTyped
<1>5. \A u \in MapThreads : mapStep'[u] # "idle" \/ u # t =>
        mapStep'[u] = mapStep[u] /\ mapping'[u] = mapping[u]
  BY <1>2 DEF MapIInv, MapTyped
<1>6. ~Working(t)' /\ ~SharedMapped(t)' /\ mapStep'[t] = "idle"
  BY <1>2 DEF Working, SharedMapped, MapIInv, MapTyped
<1>7. CacheSound'
  <2>1. \A c \in pinned : c.place \in AllPlaces /\ memory'[c.place] = memory[c.place]
    BY DEF IsPinned, MapIInv, MapTyped, CacheSound, AllPlaces
  <2> QED
    BY <2>1 DEF MapIInv, CacheSound
<1>8. PlacesSound'
  <2>1. \A u \in MapThreads : Working(u)' => memory'[mapping'[u].place] # Unmapped
    <3> SUFFICES ASSUME NEW u \in MapThreads, Working(u)'
                 PROVE  memory'[mapping'[u].place] # Unmapped
      OBVIOUS
    <3>1. u # t /\ Working(u) /\ mapping'[u] = mapping[u] /\ mapping[u].place \in AllPlaces
      BY <1>4, WorkingPlace
    <3>2. memory[mapping[u].place] # Unmapped
      BY <3>1 DEF MapIInv, PlacesSound
    <3>3. ~IsPinned(p) => mapping[u].place # p
      BY <1>1, <3>1 DEF MapIInv, PlacesSound
    <3> QED
      BY <3>1, <3>2, <3>3 DEF MapIInv, MapTyped
  <2>2. \A u, v \in MapThreads : Working(u)' /\ Working(v)' /\ u # v
          /\ mapping'[u].place = mapping'[v].place => IsPinned(mapping'[u].place)
    BY <1>4 DEF MapIInv, PlacesSound
  <2>3. \A u \in MapThreads :
          mapStep'[u] \in {"reading", "read"} \/ (Working(u)' /\ mapping'[u].kind = "shared")
            => ~IsPinned(mapping'[u].place)
    BY <1>4, <1>5, <1>6 DEF MapIInv, PlacesSound
  <2> QED
    BY <2>1, <2>2, <2>3 DEF PlacesSound, Working, IsPinned
<1>9. NothingLeaks'
  <2> SUFFICES ASSUME NEW q \in HeapPlaces, memory'[q] # Unmapped
               PROVE  \/ q \in fallback' \/ IsPinned(q)
                      \/ \E u \in MapThreads :
                           mapStep'[u] \in {"reading", "read"} /\ mapping'[u].place = q
    BY DEF NothingLeaks, IsPinned
  <2>1. memory[q] # Unmapped /\ (q = p => mapStep[t] = "freeing" /\ fallback' = fallback)
    BY <1>1 DEF MapIInv, MapTyped, AllPlaces
  <2>2. q \in fallback => q \in fallback'
    BY <2>1
  <2>3. CASE \E u \in MapThreads : mapStep[u] \in {"reading", "read"} /\ mapping[u].place = q
    BY <1>5, <2>1, <2>3
  <2> QED
    BY <2>1, <2>2, <2>3 DEF MapIInv, NothingLeaks
<1>10. TableSound'
  <2>1. \A u \in MapThreads : u # t => SharedRecord(u)' = SharedRecord(u)
    BY <1>5 DEF SharedRecord
  <2>2. ~unsaved[t]
    BY DEF MapIInv, TableSound, SharedMapped
  <2> QED
    BY <1>5, <1>6, <2>1, <2>2 DEF MapIInv, TableSound, SharedMapped
<1>11. ReadListed'
  <2> SUFFICES ASSUME NEW u \in MapThreads, mapStep'[u] = "read",
                      mapping'[u].place \in HeapPlaces
               PROVE  mapping'[u].place \in fallback'
    BY DEF ReadListed, OnHeap
  <2>1. u # t /\ Working(u) /\ mapStep[u] = "read" /\ mapping'[u] = mapping[u]
    BY <1>5, <1>6 DEF Working
  <2>2. mapping[u].place \in fallback
    BY <2>1 DEF MapIInv, ReadListed, OnHeap
  <2>3. ~IsPinned(p) => mapping[u].place # p
    BY <1>1, <2>1 DEF MapIInv, PlacesSound
  <2> QED
    BY <2>1, <2>2, <2>3
<1> QED
  BY <1>3, <1>7, <1>8, <1>9, <1>10, <1>11 DEF MapIInv

\* Steps that neither move a mapping nor give memory back.
LEMMA MappingsStay ==
  ASSUME MapIInv, UNCHANGED <<mapping, pinned>>, MapTyped',
         \A t \in MapThreads : mapStep'[t] = mapStep[t] \/
           (Working(t) /\ mapStep'[t] # "idle" /\
              (mapStep'[t] \in {"reading", "read"} => mapStep[t] \in {"reading", "read"})),
         \A p \in AllPlaces : memory[p] # Unmapped => memory'[p] # Unmapped,
         \A p \in fallback' : p \in fallback \/ ~IsPinned(p)
  PROVE  CacheSound' /\ PlacesSound'
<1>1. \A t \in MapThreads : Working(t)' <=> Working(t)
  BY DEF Working
<1>2. CacheSound'
  BY DEF MapIInv, CacheSound, AllPlaces, IsPinned
<1>3. \A t \in MapThreads : Working(t)' => memory'[mapping'[t].place] # Unmapped
  BY <1>1, WorkingPlace DEF MapIInv, PlacesSound
<1>4. \A t, u \in MapThreads : Working(t)' /\ Working(u)' /\ t # u
        /\ mapping'[t].place = mapping'[u].place => IsPinned(mapping'[t].place)
  BY <1>1 DEF MapIInv, PlacesSound
<1>5. \A t \in MapThreads :
        mapStep'[t] \in {"reading", "read"} \/ (Working(t)' /\ mapping'[t].kind = "shared")
          => ~IsPinned(mapping'[t].place)
  BY <1>1 DEF MapIInv, PlacesSound
<1> QED
  BY <1>2, <1>3, <1>4, <1>5 DEF PlacesSound, Working, IsPinned

LEMMA ReadMappingStep ==
  ASSUME MapIInv, NEW t \in MapThreads, ReadMapping(t)
  PROVE  MapIInv'
<1> DEFINE p == mapping[t].place
<1>1. mapStep[t] = "reading" /\ Working(t) /\ p \in AllPlaces /\ ~IsPinned(p)
      /\ UNCHANGED <<content, pinned, shared, unsaved, stores>>
  BY WorkingPlace DEF ReadMapping, Working, MapIInv, PlacesSound
<1>2. CASE AbandonMapping(t)
  BY <1>1, <1>2, MappingEnds DEF AbandonMapping
<1>3. CASE ~AbandonMapping(t)
  <2>1. PICK v \in Nat : /\ memory' = [memory EXCEPT ![p] = v]
                         /\ fallback' = IF OnHeap(t) THEN fallback \union {p} ELSE fallback
                         /\ Step(t, "read") /\ UNCHANGED mapping
    BY <1>1, <1>3, WorkingPlace DEF ReadMapping
  <2>2. mapStep' = [mapStep EXCEPT ![t] = "read"]
    BY <2>1 DEF Step
  <2>3. memory' \in [AllPlaces -> Nat \union {Unmapped}]
    BY <2>1 DEF MapIInv, MapTyped
  <2>4. \A u \in MapThreads : Working(u)' <=> Working(u)
    BY <1>1, <2>2 DEF Working, MapIInv, MapTyped
  <2>5. MapTyped'
    BY <1>1, <2>1, <2>2, <2>3, <2>4 DEF MapIInv, MapTyped, MapSteps
  <2>6. \A q \in AllPlaces : memory[q] # Unmapped => memory'[q] # Unmapped
    BY <2>1 DEF MapIInv, MapTyped, Unmapped
  <2>7. \A q \in fallback' : q \in fallback \/ ~IsPinned(q)
    BY <1>1, <2>1
  <2>8. \A u \in MapThreads : mapStep'[u] = mapStep[u] \/
          (Working(u) /\ mapStep'[u] # "idle" /\
             (mapStep'[u] \in {"reading", "read"} => mapStep[u] \in {"reading", "read"}))
    BY <1>1, <2>2 DEF MapIInv, MapTyped
  <2>9. CacheSound' /\ PlacesSound'
    BY <1>1, <2>1, <2>5, <2>6, <2>7, <2>8, MappingsStay
  <2>10. NothingLeaks'
    <3> SUFFICES ASSUME NEW q \in HeapPlaces, memory'[q] # Unmapped
                 PROVE  \/ q \in fallback' \/ IsPinned(q)
                        \/ \E u \in MapThreads :
                             mapStep'[u] \in {"reading", "read"} /\ mapping'[u].place = q
      BY <1>1 DEF NothingLeaks, IsPinned
    <3>1. CASE q = p
      BY <2>1, <2>2, <3>1 DEF MapIInv, MapTyped
    <3>2. CASE q # p
      <4>1. memory[q] # Unmapped
        BY <2>1, <3>2 DEF MapIInv, MapTyped, AllPlaces
      <4> QED
        BY <2>1, <2>2, <3>2, <4>1 DEF MapIInv, MapTyped, NothingLeaks
    <3> QED
      BY <3>1, <3>2
  <2>11. TableSound'
    <3>1. \A u \in MapThreads : /\ mapStep'[u] = "mapped" <=> mapStep[u] = "mapped"
                                /\ mapStep[u] = "writing" => mapStep'[u] = "writing"
      BY <1>1, <2>2 DEF MapIInv, MapTyped
    <3> QED
      BY <1>1, <2>1, <3>1 DEF MapIInv, TableSound, SharedMapped, SharedRecord
  <2>12. ReadListed'
    BY <2>1, <2>2 DEF MapIInv, MapTyped, ReadListed, OnHeap
  <2> QED
    BY <2>5, <2>9, <2>10, <2>11, <2>12 DEF MapIInv
<1> QED
  BY <1>2, <1>3

\* The guest's stores, and what is written to the file of a mapping.
LEMMA StoreStep ==
  ASSUME MapIInv, NEW t \in MapThreads, StoreToMapping(t)
  PROVE  MapIInv'
<1>1. /\ mapStep[t] = "mapped" /\ mapping[t].kind = "shared"
      /\ memory' = [memory EXCEPT ![mapping[t].place] = stores + 1]
      /\ stores' = stores + 1 /\ unsaved' = [unsaved EXCEPT ![t] = TRUE]
      /\ UNCHANGED <<content, fallback, pinned, shared, mapStep, mapping>>
  BY DEF StoreToMapping
<1>2. mapping[t].place \in AllPlaces /\ memory[mapping[t].place] # Unmapped
  BY <1>1, WorkingPlace DEF Working, Unmapped
<1>3. stores + 1 \in Nat /\ stores + 1 # Unmapped
  BY DEF MapIInv, MapTyped, Unmapped
<1>4. MapTyped'
  BY <1>1, <1>3 DEF MapIInv, MapTyped, Working
<1>5. \A q \in AllPlaces : memory'[q] # Unmapped <=> memory[q] # Unmapped
  BY <1>1, <1>2, <1>3 DEF MapIInv, MapTyped
<1>6. CacheSound' /\ PlacesSound'
  BY <1>1, <1>4, <1>5, MappingsStay
<1>7. NothingLeaks'
  BY <1>1, <1>5 DEF MapIInv, NothingLeaks, IsPinned, AllPlaces
<1>8. TableSound'
  BY <1>1 DEF MapIInv, MapTyped, TableSound, SharedMapped, SharedRecord
<1>9. ReadListed'
  BY <1>1 DEF MapIInv, ReadListed, OnHeap
<1> QED
  BY <1>4, <1>6, <1>7, <1>8, <1>9 DEF MapIInv

LEMMA MsyncStep ==
  ASSUME MapIInv, NEW t \in MapThreads, Msync(t)
  PROVE  MapIInv'
<1>1. /\ SharedRecord(t) \in shared
      /\ content' = [content EXCEPT ![mapping[t].file] = memory[mapping[t].place]]
      /\ unsaved' = [unsaved EXCEPT ![t] = FALSE]
      /\ UNCHANGED <<memory, fallback, pinned, shared, mapStep, mapping, stores>>
  BY DEF Msync, WriteBack
<1>2. memory[mapping[t].place] \in Nat
  <2>1. PICK u \in MapThreads : mapStep[u] = "mapped" /\ SharedRecord(u) = SharedRecord(t)
    BY <1>1 DEF MapIInv, TableSound
  <2>2. mapping[u].place = mapping[t].place
    BY <2>1 DEF SharedRecord
  <2> QED
    BY <2>1, <2>2, WorkingPlace DEF Working
<1>3. MapTyped'
  BY <1>1, <1>2 DEF MapIInv, MapTyped, Working
<1>4. CacheSound' /\ PlacesSound'
  BY <1>1, <1>3, MappingsStay
<1>5. NothingLeaks'
  BY <1>1 DEF MapIInv, NothingLeaks, IsPinned
<1>6. TableSound'
  BY <1>1 DEF MapIInv, MapTyped, TableSound, SharedMapped, SharedRecord
<1>7. ReadListed'
  BY <1>1 DEF MapIInv, ReadListed, OnHeap
<1> QED
  BY <1>3, <1>4, <1>5, <1>6, <1>7 DEF MapIInv

LEMMA LastWriteStep ==
  ASSUME MapIInv, NEW t \in MapThreads, LastWrite(t)
  PROVE  MapIInv'
<1>1. /\ mapStep[t] = "writing" /\ mapStep' = [mapStep EXCEPT ![t] = "freeing"]
      /\ unsaved' = [unsaved EXCEPT ![t] = FALSE]
      /\ UNCHANGED <<memory, fallback, pinned, shared, mapping, stores>>
  BY DEF LastWrite, WriteBack, Step
<1>2. content' \in [MapFiles -> Nat]
  <2>1. memory[mapping[t].place] \in Nat
    BY <1>1, WorkingPlace DEF Working
  <2> QED
    BY <2>1 DEF LastWrite, WriteBack, MapIInv, MapTyped
<1>3. \A u \in MapThreads : Working(u)' <=> Working(u)
  BY <1>1 DEF Working, MapIInv, MapTyped
<1>4. MapTyped'
  BY <1>1, <1>2, <1>3 DEF MapIInv, MapTyped, MapSteps
<1>5. \A u \in MapThreads : mapStep'[u] = mapStep[u] \/ (Working(u) /\ mapStep'[u] = "freeing")
  BY <1>1 DEF MapIInv, MapTyped, Working
<1>6. CacheSound' /\ PlacesSound'
  BY <1>1, <1>4, <1>5, MappingsStay
<1>7. NothingLeaks'
  BY <1>1 DEF MapIInv, MapTyped, NothingLeaks, IsPinned
<1>8. TableSound'
  BY <1>1 DEF MapIInv, MapTyped, TableSound, SharedMapped, SharedRecord
<1>9. ReadListed'
  BY <1>1, <1>5 DEF MapIInv, ReadListed, OnHeap
<1> QED
  BY <1>4, <1>6, <1>7, <1>8, <1>9 DEF MapIInv

\* The record that munmap takes out is its own mapping's.
LEMMA RetireMappingStep ==
  ASSUME MapIInv, NEW t \in MapThreads, RetireMapping(t)
  PROVE  MapIInv'
<1> DEFINE s == IF SharedRecord(t) \in shared THEN "writing" ELSE "freeing"
<1>1. /\ mapStep[t] = "mapped" /\ shared' = shared \ {SharedRecord(t)}
      /\ mapStep' = [mapStep EXCEPT ![t] = s]
      /\ UNCHANGED <<content, memory, fallback, pinned, mapping, unsaved, stores>>
  BY DEF RetireMapping, Step
<1>2. s \in {"writing", "freeing"}
  OBVIOUS
<1>3. \A u \in MapThreads : mapStep'[u] = IF u = t THEN s ELSE mapStep[u]
  BY <1>1 DEF MapIInv, MapTyped
<1>4. \A u \in MapThreads : Working(u)' <=> Working(u)
  BY <1>1, <1>2, <1>3 DEF Working
<1>5. MapTyped'
  BY <1>1, <1>2, <1>4 DEF MapIInv, MapTyped, MapSteps
<1>6. CacheSound' /\ PlacesSound'
  <2>1. \A u \in MapThreads : mapStep'[u] = mapStep[u] \/ (Working(u) /\ mapStep'[u] = s)
    BY <1>1, <1>3 DEF Working
  <2> QED
    BY <1>1, <1>2, <1>5, <2>1, MappingsStay
<1>7. NothingLeaks'
  BY <1>1, <1>3 DEF MapIInv, NothingLeaks, IsPinned
<1>8. TableSound'
  <2>1. ASSUME NEW u \in MapThreads, u # t, SharedMapped(u)
        PROVE  SharedRecord(u) # SharedRecord(t)
    <3>1. Working(t) /\ Working(u) /\ ~IsPinned(mapping[u].place)
      BY <1>1, <2>1 DEF MapIInv, PlacesSound, Working, SharedMapped
    <3>2. mapping[t].place # mapping[u].place
      BY <2>1, <3>1 DEF MapIInv, PlacesSound
    <3> QED
      BY <3>2 DEF SharedRecord
  <2>2. \A u \in MapThreads : SharedRecord(u)' = SharedRecord(u)
    BY <1>1 DEF SharedRecord
  <2>3. \A u \in MapThreads : SharedMapped(u)' <=> u # t /\ SharedMapped(u)
    BY <1>1, <1>2, <1>3 DEF SharedMapped
  <2>4. \A r \in shared' : \E u \in MapThreads : mapStep'[u] = "mapped" /\ SharedRecord(u)' = r
    BY <1>1, <1>3, <2>2 DEF MapIInv, TableSound
  <2>5. \A u \in MapThreads : SharedMapped(u)' => SharedRecord(u)' \in shared'
    BY <1>1, <2>1, <2>2, <2>3 DEF MapIInv, TableSound
  <2>6. \A u \in MapThreads : unsaved'[u] => SharedMapped(u)' \/ mapStep'[u] = "writing"
    <3>1. unsaved[t] => s = "writing"
      BY <1>1 DEF MapIInv, TableSound
    <3> QED
      BY <1>1, <1>3, <2>3, <3>1 DEF MapIInv, TableSound
  <2> QED
    BY <2>4, <2>5, <2>6 DEF TableSound
<1>9. ReadListed'
  BY <1>1, <1>2, <1>3 DEF MapIInv, ReadListed, OnHeap
<1> QED
  BY <1>5, <1>6, <1>7, <1>8, <1>9 DEF MapIInv

LEMMA RegisterStep ==
  ASSUME MapIInv, NEW t \in MapThreads, RegisterShared(t)
  PROVE  MapIInv'
<1>1. /\ mapStep[t] = "read" /\ mapping[t].kind = "shared" /\ Working(t)
      /\ UNCHANGED <<content, pinned, unsaved, stores>>
  BY DEF RegisterShared, Working
<1>2. CASE AbandonMapping(t) /\ UNCHANGED shared
  <2>1. ~IsPinned(mapping[t].place)
    BY <1>1 DEF MapIInv, PlacesSound
  <2> QED
    BY <1>1, <1>2, <2>1, MappingEnds DEF AbandonMapping
<1>3. CASE /\ shared' = shared \union {SharedRecord(t)}
           /\ Mapped(t, mapping[t].place) /\ UNCHANGED <<memory, fallback>>
  <2>1. UNCHANGED mapping
    BY <1>1, <1>3, WorkingPlace DEF Mapped, MapIInv, MapTyped, Mappings
  <2>2. \A u \in MapThreads : mapStep'[u] = IF u = t THEN "mapped" ELSE mapStep[u]
    BY <1>3 DEF Mapped, Step, MapIInv, MapTyped
  <2>3. mapStep' \in [MapThreads -> MapSteps]
    BY <1>3 DEF Mapped, Step, MapIInv, MapTyped, MapSteps
  <2>4. MapTyped'
    <3>1. \A u \in MapThreads : Working(u)' <=> Working(u)
      BY <1>1, <2>2 DEF Working
    <3> QED
      BY <1>1, <1>3, <2>1, <2>3, <3>1 DEF MapIInv, MapTyped
  <2>5. CacheSound' /\ PlacesSound'
    <3>1. \A u \in MapThreads : mapStep'[u] = mapStep[u] \/ (Working(u) /\ mapStep'[u] = "mapped")
      BY <1>1, <2>2
    <3> QED
      BY <1>1, <1>3, <2>1, <2>4, <3>1, MappingsStay
  <2>6. NothingLeaks'
    <3>1. mapping[t].place \in HeapPlaces => mapping[t].place \in fallback
      BY <1>1 DEF MapIInv, ReadListed, OnHeap
    <3> QED
      BY <1>1, <1>3, <2>1, <2>2, <3>1 DEF MapIInv, NothingLeaks, IsPinned
  <2>7. TableSound'
    <3>1. \A u \in MapThreads : SharedRecord(u)' = SharedRecord(u)
      BY <2>1 DEF SharedRecord
    <3> QED
      BY <1>1, <1>3, <2>1, <2>2, <3>1 DEF MapIInv, TableSound, SharedMapped
  <2>8. ReadListed'
    BY <1>3, <2>1, <2>2 DEF MapIInv, ReadListed, OnHeap
  <2> QED
    BY <2>4, <2>5, <2>6, <2>7, <2>8 DEF MapIInv
<1> QED
  BY <1>2, <1>3 DEF RegisterShared

\* A reader's mapping is handed out: as it is, from the cache, or into the cache.
LEMMA HandedOut ==
  ASSUME MapIInv, NEW t \in MapThreads, mapStep[t] = "read", mapping[t].kind = "read",
         NEW q \in AllPlaces, memory'[q] # Unmapped, Mapped(t, q),
         UNCHANGED <<content, shared, unsaved, stores>>, MapTyped', CacheSound',
         \A p \in AllPlaces : p # mapping[t].place => memory'[p] = memory[p],
         \A p : p # mapping[t].place => (p \in fallback' <=> p \in fallback),
         \A p : IsPinned(p) => (IsPinned(p))',
         \A p : p # mapping[t].place => ((IsPinned(p))' <=> IsPinned(p)),
         q = mapping[t].place \/ IsPinned(q),
         \A p \in HeapPlaces : p = mapping[t].place /\ memory'[p] # Unmapped =>
           p \in fallback' \/ (IsPinned(p))'
  PROVE  MapIInv'
<1> DEFINE p == mapping[t].place
           now == PinnedAt'
<1>0. \A x : x \in now <=> (IsPinned(x))'
  BY DEF PinnedAt, IsPinned
<1>1. Working(t) /\ ~IsPinned(p) /\ p \in AllPlaces
  BY WorkingPlace DEF Working, MapIInv, PlacesSound
<1>2. \A u \in MapThreads : mapStep'[u] = IF u = t THEN "mapped" ELSE mapStep[u]
  BY DEF Mapped, Step, MapIInv, MapTyped
<1>3. \A u \in MapThreads : u # t => mapping'[u] = mapping[u]
  BY DEF Mapped, MapIInv, MapTyped
<1>4. mapping'[t].place = q /\ mapping'[t].kind = "read"
  BY <1>1, WorkingPlace DEF Mapped, MapIInv, MapTyped, Mappings
<1>5. ASSUME NEW u \in MapThreads, u # t, Working(u)
      PROVE  mapping[u].place # p /\ mapping[u].place \in AllPlaces
  BY <1>1, <1>5, WorkingPlace DEF MapIInv, PlacesSound
<1>6. \A u \in MapThreads : Working(u)' <=> Working(u)
  BY <1>1, <1>2 DEF Working
<1>7. \A u \in MapThreads : Working(u)' => memory'[mapping'[u].place] # Unmapped
  BY <1>3, <1>4, <1>5, <1>6 DEF MapIInv, PlacesSound
<1>8. \A x : IsPinned(x) => x \in now
  BY <1>0
<1>9. \A x : x # p => (x \in now <=> IsPinned(x))
  BY <1>0
<1> HIDE DEF now
<1>10. \A u, v \in MapThreads : Working(u)' /\ Working(v)' /\ u # v
         /\ mapping'[u].place = mapping'[v].place => mapping'[u].place \in now
  <2> SUFFICES ASSUME NEW u \in MapThreads, NEW v \in MapThreads, Working(u), Working(v),
                      u # v, mapping'[u].place = mapping'[v].place
               PROVE  mapping'[u].place \in now
    BY <1>6
  <2>1. CASE u # t /\ v # t
    BY <1>3, <1>8, <2>1 DEF MapIInv, PlacesSound
  <2>2. CASE u = t \/ v = t
    <3>1. mapping'[u].place = q /\ q # p
      BY <1>3, <1>4, <1>5, <2>2
    <3> QED
      BY <1>8, <3>1
  <2> QED
    BY <2>1, <2>2
<1>11. \A u \in MapThreads :
         mapStep'[u] \in {"reading", "read"} \/ (Working(u)' /\ mapping'[u].kind = "shared")
           => mapping'[u].place \notin now
  <2> SUFFICES ASSUME NEW u \in MapThreads,
                 mapStep'[u] \in {"reading", "read"} \/ (Working(u)' /\ mapping'[u].kind = "shared")
               PROVE  mapping'[u].place \notin now
    OBVIOUS
  <2>1. u # t /\ Working(u) /\ mapping'[u] = mapping[u]
    BY <1>2, <1>3, <1>4, <1>6 DEF Working
  <2>2. ~IsPinned(mapping[u].place)
    BY <1>2, <2>1 DEF MapIInv, PlacesSound
  <2> QED
    BY <1>5, <1>9, <2>1, <2>2
<1>12. PlacesSound'
  BY <1>7, <1>10, <1>11 DEF PlacesSound, Working, IsPinned, now, PinnedAt
<1>13. NothingLeaks'
  <2> SUFFICES ASSUME NEW x \in HeapPlaces, memory'[x] # Unmapped
               PROVE  \/ x \in fallback' \/ x \in now
                      \/ \E u \in MapThreads :
                           mapStep'[u] \in {"reading", "read"} /\ mapping'[u].place = x
    BY DEF NothingLeaks, IsPinned, now, PinnedAt
  <2>1. CASE x # p
    <3>1. memory[x] # Unmapped
      BY <2>1 DEF AllPlaces
    <3> QED
      BY <1>2, <1>3, <1>8, <2>1, <3>1 DEF MapIInv, NothingLeaks
  <2>2. CASE x = p
    BY <1>0, <2>2
  <2> QED
    BY <2>1, <2>2
<1>14. ReadListed'
  <2> SUFFICES ASSUME NEW u \in MapThreads, mapStep'[u] = "read",
                      mapping'[u].place \in HeapPlaces
               PROVE  mapping'[u].place \in fallback'
    BY DEF ReadListed, OnHeap
  <2>1. u # t /\ Working(u) /\ mapping'[u] = mapping[u] /\ mapStep[u] = "read"
    BY <1>2, <1>3 DEF Working
  <2> QED
    BY <1>5, <2>1 DEF MapIInv, ReadListed, OnHeap
<1>15. TableSound'
  <2>1. \A u \in MapThreads : u # t => SharedRecord(u)' = SharedRecord(u)
    BY <1>3 DEF SharedRecord
  <2>2. ~SharedMapped(t)' /\ ~unsaved[t]
    BY <1>4 DEF SharedMapped, MapIInv, TableSound
  <2> QED
    BY <1>2, <1>3, <2>1, <2>2 DEF MapIInv, TableSound, SharedMapped
<1> QED
  BY <1>12, <1>13, <1>14, <1>15 DEF MapIInv

LEMMA CacheReadStep ==
  ASSUME MapIInv, NEW t \in MapThreads, CacheRead(t)
  PROVE  MapIInv'
<1> DEFINE p == mapping[t].place
           f == mapping[t].file
<1>1. /\ mapStep[t] = "read" /\ mapping[t].kind = "read"
      /\ UNCHANGED <<content, shared, unsaved, stores>>
  BY DEF CacheRead
<1>2. /\ Working(t) /\ ~IsPinned(p) /\ p \in AllPlaces /\ f \in MapFiles
      /\ mapping[t] \in Mappings /\ memory[p] # Unmapped
  BY <1>1, WorkingPlace DEF Working, MapIInv, PlacesSound
<1>3. ASSUME NEW q \in AllPlaces, Mapped(t, q), memory' \in [AllPlaces -> Nat \union {Unmapped}]
      PROVE  MapTyped'
  <2>1. mapStep' \in [MapThreads -> MapSteps]
    BY <1>3 DEF Mapped, Step, MapIInv, MapTyped, MapSteps
  <2>2. mapping' = [u \in MapThreads |->
          IF u = t THEN [mapping[t] EXCEPT !.place = q] ELSE mapping[u]]
    BY <1>3 DEF Mapped, MapIInv, MapTyped
  <2>3. \A u \in MapThreads : Working(u)' => mapping'[u] \in Mappings
    <3> SUFFICES ASSUME NEW u \in MapThreads, Working(u)' PROVE mapping'[u] \in Mappings
      OBVIOUS
    <3>1. CASE u = t
      BY <1>2, <2>2, <3>1 DEF Mappings
    <3>2. CASE u # t
      <4>1. Working(u)
        BY <1>3, <3>2 DEF Working, Mapped, Step, MapIInv, MapTyped
      <4> QED
        BY <2>2, <3>2, <4>1 DEF MapIInv, MapTyped
    <3> QED
      BY <3>1, <3>2
  <2> QED
    BY <1>1, <1>3, <2>1, <2>2, <2>3 DEF MapIInv, MapTyped
<1>4. CASE OnHeap(t) /\ Cached(f) # {}
  <2> DEFINE q == First(Cached(f))
  <2>1. /\ memory' = [memory EXCEPT ![p] = Unmapped] /\ fallback' = fallback \ {p}
        /\ Mapped(t, q) /\ UNCHANGED pinned
    BY <1>4 DEF CacheRead
  <2>2. Cached(f) \subseteq Nat /\ \A x \in Cached(f) : IsPinned(x)
    BY MapAssumption DEF Cached, IsPinned, MapIInv, CacheSound
  <2>3. q \in Cached(f)
    BY <1>4, <2>2, FirstIsThere
  <2> HIDE DEF q
  <2>4. IsPinned(q) /\ q \in AllPlaces /\ memory[q] # Unmapped /\ q # p
    BY <1>2, <2>2, <2>3, PinnedPlace
  <2>5. memory' \in [AllPlaces -> Nat \union {Unmapped}]
    BY <2>1 DEF MapIInv, MapTyped
  <2>6. MapTyped'
    BY <1>3, <2>1, <2>4, <2>5
  <2>7. \A x \in AllPlaces : x # p => memory'[x] = memory[x]
    BY <2>1 DEF MapIInv, MapTyped
  <2>8. CacheSound'
    <3>1. \A c \in pinned : c.place # p /\ c.place \in AllPlaces
      BY <1>2 DEF IsPinned, MapIInv, CacheSound, AllPlaces
    <3> QED
      BY <2>1, <2>7, <3>1 DEF MapIInv, CacheSound
  <2>9. \A x : (IsPinned(x))' <=> IsPinned(x)
    BY <2>1 DEF IsPinned
  <2>10. memory'[p] = Unmapped /\ memory'[q] # Unmapped
    BY <1>2, <2>1, <2>4, <2>7 DEF MapIInv, MapTyped
  <2>11. \A x : x # p => (x \in fallback' <=> x \in fallback)
    BY <2>1
  <2> QED
    BY <1>1, <2>1, <2>4, <2>6, <2>7, <2>8, <2>9, <2>10, <2>11, HandedOut
<1>5. CASE /\ OnHeap(t) /\ Cached(f) = {} /\ Pin(t)
  <2> DEFINE c == [file |-> f, place |-> p]
  <2>1. /\ pinned' = pinned \union {c} /\ fallback' = fallback \ {p}
        /\ UNCHANGED memory /\ Mapped(t, p)
    BY <1>5 DEF Pin
  <2>2. MapTyped'
    BY <1>2, <1>3, <2>1 DEF MapIInv, MapTyped
  <2>3. c.file = f /\ c.place = p /\ p \in HeapPlaces
    BY <1>5 DEF OnHeap
  <2>4. \A d \in pinned : d.file # f
    BY <1>5 DEF Cached
  <2> HIDE DEF c
  <2>5. CacheSound'
    BY <1>2, <2>1, <2>3, <2>4 DEF MapIInv, CacheSound
  <2>6. \A x : (IsPinned(x))' <=> IsPinned(x) \/ x = p
    BY <2>1, <2>3 DEF IsPinned
  <2>7. \A x : x # p => (x \in fallback' <=> x \in fallback)
    BY <2>1
  <2> QED
    BY <1>1, <1>2, <2>1, <2>2, <2>5, <2>6, <2>7, HandedOut
<1>6. CASE Mapped(t, p) /\ UNCHANGED <<memory, fallback, pinned>>
  <2>1. MapTyped'
    BY <1>2, <1>3, <1>6 DEF MapIInv, MapTyped
  <2>2. CacheSound'
    BY <1>6 DEF MapIInv, CacheSound
  <2>3. \A x : (IsPinned(x))' <=> IsPinned(x)
    BY <1>6 DEF IsPinned
  <2>4. p \in HeapPlaces => p \in fallback'
    BY <1>1, <1>6 DEF MapIInv, ReadListed, OnHeap
  <2> QED
    BY <1>1, <1>2, <1>6, <2>1, <2>2, <2>3, <2>4, HandedOut
<1> QED
  BY <1>4, <1>5, <1>6 DEF CacheRead

LEMMA GiveBackStep ==
  ASSUME MapIInv, NEW t \in MapThreads, GiveBack(t)
  PROVE  MapIInv'
<1>1. /\ mapStep[t] = "freeing" /\ MappingDone(t)
      /\ UNCHANGED <<content, pinned, shared, unsaved, stores>>
  BY DEF GiveBack
<1>2. mapping[t].place \in fallback \union ArenaPlaces => ~IsPinned(mapping[t].place)
  BY PinnedPlace
<1> QED
  BY <1>1, <1>2, MappingEnds DEF GiveBack

LEMMA MapStays ==
  ASSUME MapIInv, UNCHANGED mapVars
  PROVE  MapIInv'
<1>1. UNCHANGED <<content, memory, fallback, pinned, shared, mapStep, mapping, unsaved, stores>>
  BY DEF mapVars
<1>2. MapTyped' /\ CacheSound' /\ NothingLeaks'
  BY <1>1 DEF MapIInv, MapTyped, CacheSound, NothingLeaks, IsPinned, Working
<1>3. PlacesSound' /\ ReadListed' /\ TableSound'
  BY <1>1 DEF MapIInv, PlacesSound, ReadListed, TableSound, IsPinned, Working, OnHeap,
              SharedMapped, SharedRecord
<1> QED
  BY <1>2, <1>3 DEF MapIInv

(* Every mapping is backed by memory of its own or by a cached mapping, which *)
(* is never given back; nothing leaks or is listed twice; the table of shared *)
(* mappings names what is mapped; and what was stored is in the file before   *)
(* the memory goes, unless munmap fails, whatever mmap, msync and munmap of   *)
(* other threads do meanwhile (libc_shim.c mmap_fake, munmap_fake).           *)
THEOREM MappingSafety == MapSpec => []MappingsSound
<1>1. MapIInv /\ [MapNext]_mapVars => MapIInv'
  BY MmapStep, ReadMappingStep, CacheReadStep, RegisterStep, StoreStep, MsyncStep,
     RetireMappingStep, LastWriteStep, GiveBackStep, MapStays DEF MapNext
<1>2. MapIInv => MappingsSound
  <2> SUFFICES ASSUME MapIInv PROVE MappingsSound
    OBVIOUS
  <2>1. \A x : x \in PinnedAt <=> IsPinned(x)
    BY DEF PinnedAt, IsPinned
  <2>2. /\ \A t \in Active : memory[mapping[t].place] # Unmapped
        /\ \A t, u \in Active : t # u /\ mapping[t].place = mapping[u].place =>
             mapping[t].place \in PinnedAt
    BY <2>1 DEF Active, MapIInv, PlacesSound, Working
  <2>3. fallback \intersect PinnedAt = {}
    BY DEF PinnedAt, MapIInv, CacheSound
  <2>4. \A p \in HeapPlaces : memory[p] # Unmapped =>
          p \in fallback \union PinnedAt \/ \E t \in Filling : mapping[t].place = p
    BY <2>1 DEF MapIInv, NothingLeaks, Filling
  <2>5. \A c, d \in pinned : c.file = d.file => c = d
    BY DEF MapIInv, CacheSound
  <2>6. /\ \A r \in shared : \E t \in MapThreads : mapStep[t] = "mapped" /\ SharedRecord(t) = r
        /\ \A t \in MapThreads : unsaved[t] => SharedRecord(t) \in shared \/ mapStep[t] = "writing"
    BY DEF MapIInv, TableSound
  <2> QED
    BY <2>2, <2>3, <2>4, <2>5, <2>6 DEF MappingsSound
<1> QED
  BY <1>1, <1>2, MapInitial, PTL DEF MapSpec

-----------------------------------------------------------------------------
(***************************************************************************)
(* 4. Sizes of files.  A call on a file leaves every other file alone; in  *)
(* the midst of an extension the record already has the end of the write.  *)
(***************************************************************************)

SizeRecords == [file : Files \union {Nothing}, init : BOOLEAN, logical : Nat, physical : Nat]
SizeJobs == [kind : {"open", "close", "write", "truncate"},
             at : {"start", "record", "extend", "trim"}, f : Files, end : Nat,
             e : Records \union {Nothing}, to : Nat]

SizesTyped ==
  /\ disk \in [Files -> Nat] /\ truth \in [Files -> Nat]
  /\ opened \subseteq Files
  /\ record \in [Records -> SizeRecords]
  /\ DOMAIN owner = Records /\ owner = [e \in Records |-> owner[e]]
  /\ DOMAIN job = SizeThreads /\ job = [t \in SizeThreads |-> job[t]]
  /\ \A t \in SizeThreads : job[t] = NoJob \/ job[t] \in SizeJobs

Keeps(e, f) == record[e].file = f /\ record[e].init

\* A file that no call is on.
FileQuiet(f) ==
  /\ truth[f] <= disk[f]
  /\ \A e \in Records : Keeps(e, f) =>
       /\ record[e].physical = disk[f]
       /\ truth[f] <= record[e].logical /\ record[e].logical <= disk[f]
       /\ f \notin refused => record[e].logical = truth[f]
  /\ \/ truth[f] = disk[f]
     \/ f \in refused
     \/ f \in tail \ opened
     \/ f \in Bulk /\ \E e \in Records : Keeps(e, f)

Extending(f, e, end, to) ==
  /\ Keeps(e, f) /\ record[e].logical = end /\ record[e].physical = disk[f]
  /\ truth[f] <= disk[f] /\ truth[f] <= end /\ end <= to
  /\ to # end => f \in Bulk

Trimming(f, e, to) ==
  /\ \A d \in Records : record[d].file # f
  /\ record[e].file = Nothing /\ truth[f] <= to /\ to <= disk[f]
  /\ f \notin refused => to = truth[f]

\* What holds of a call on file f: what it has to do and where it stands.
Promises(j) ==
  LET f == j.f IN
  /\ f \in opened <=> j.kind # "open"
  /\ j.kind = "open" => j.at \in {"start", "record"} /\ truth[f] = disk[f]
  /\ j.kind = "truncate" =>
       j.at \in {"start", "record"} /\ truth[f] = j.end /\ disk[f] = j.end
  /\ j.kind = "write" =>
       \/ j.at \in {"start", "record"} /\ FileQuiet(f)
       \/ j.at = "extend" /\ Extending(f, j.e, j.end, j.to)
  /\ j.kind = "close" =>
       \/ j.at \in {"start", "record"} /\ FileQuiet(f)
       \/ j.at = "trim" /\ Trimming(f, j.e, j.to)

Locks(t) ==
  LET j == job[t] IN
  /\ j.at = "record" =>
       /\ registry = t /\ j.e \in Records
       /\ record[j.e].file = IF j.kind = "open" THEN Nothing ELSE j.f
  /\ j.at \in {"extend", "trim"} => j.e \in Records /\ owner[j.e] = t

RecordsApart ==
  /\ \A e, d \in Records : record[e].file = record[d].file /\ e # d => record[e].file = Nothing
  /\ \A e \in Records : record[e].file \in opened \union {Nothing}

SizesIInv ==
  /\ SizesTyped /\ RecordsApart
  /\ \A t, u \in SizeThreads : t # u /\ job[t].f = job[u].f => job[t].f = Nothing
  /\ \A t \in SizeThreads : job[t] # NoJob => Promises(job[t]) /\ Locks(t)
  /\ \A f \in Files : ~Busy(f) => FileQuiet(f)

LEMMA NoJobIsNone == NoJob \notin SizeJobs /\ NoJob.f = Nothing /\ NoJob.at = "none"
BY DEF NoJob, SizeJobs

LEMMA BusyWith ==
  ASSUME SizesIInv, NEW t \in SizeThreads
  PROVE  /\ job[t] # NoJob => job[t] \in SizeJobs /\ job[t].f \in Files
         /\ job[t] = NoJob => job[t].f = Nothing
BY NoJobIsNone DEF SizesIInv, SizesTyped, SizeJobs

\* What a file is told by its sizes and records alone.
LEMMA QuietStays ==
  ASSUME NEW f \in Files, FileQuiet(f),
         truth'[f] = truth[f], disk'[f] = disk[f], f \in refused' <=> f \in refused,
         f \in tail' <=> f \in tail, f \in opened' <=> f \in opened,
         \A e \in Records : record'[e].file = f <=> record[e].file = f,
         \A e \in Records : record[e].file = f => record'[e] = record[e]
  PROVE  FileQuiet(f)'
<1>1. \A e \in Records : Keeps(e, f)' <=> Keeps(e, f)
  BY DEF Keeps
<1> QED
  BY <1>1 DEF FileQuiet, Keeps

\* The file of another call is the same to it after the step.
LEMMA PromisesStay ==
  ASSUME SizesIInv, NEW u \in SizeThreads, NEW j, j = job[u], j # NoJob,
         NEW f \in Files, f = j.f,
         truth'[f] = truth[f], disk'[f] = disk[f], f \in refused' <=> f \in refused,
         f \in tail' <=> f \in tail, f \in opened' <=> f \in opened,
         \A e \in Records : record'[e].file = f <=> record[e].file = f,
         \A e \in Records : record[e].file = f => record'[e] = record[e],
         j.at = "trim" => record'[j.e].file = Nothing
  PROVE  Promises(j)'
<1>1. Promises(j) /\ Locks(u) /\ j \in SizeJobs
  BY BusyWith DEF SizesIInv
<1>2. \A e \in Records : Keeps(e, f)' <=> Keeps(e, f)
  BY DEF Keeps
<1>3. FileQuiet(f) => FileQuiet(f)'
  BY QuietStays
<1>5. ASSUME NEW e \in Records, NEW end, NEW to, Extending(f, e, end, to)
      PROVE  Extending(f, e, end, to)'
  BY <1>2, <1>5 DEF Extending, Keeps
<1>6. ASSUME NEW e \in Records, NEW to, record'[e].file = Nothing, Trimming(f, e, to)
      PROVE  Trimming(f, e, to)'
  BY <1>6 DEF Trimming
<1>7. j.at \in {"extend", "trim"} => j.e \in Records
  BY <1>1 DEF Locks
<1> QED
  BY <1>1, <1>3, <1>5, <1>6, <1>7 DEF Promises

\* A thread that is on another file finds its locks as they were.
LEMMA LocksStay ==
  ASSUME SizesIInv, NEW t \in SizeThreads, NEW u \in SizeThreads, u # t,
         job[u] # NoJob, job'[u] = job[u],
         registry = u => registry' = u,
         \A e \in Records : owner[e] = u => owner'[e] = owner[e],
         \A e \in Records : record[e].file = job[u].f => record'[e].file = record[e].file,
         \A e \in Records : record[e].file = Nothing /\ record'[e].file # Nothing =>
           registry = t
  PROVE  Locks(u)'
<1>1. Locks(u)
  BY DEF SizesIInv
<1> QED
  BY <1>1 DEF Locks

\* What the step of a call on file f leaves as it is.
OthersLeft(t, f) ==
  /\ \A g \in Files : g # f =>
       /\ truth'[g] = truth[g] /\ disk'[g] = disk[g]
       /\ g \in refused' <=> g \in refused
       /\ g \in tail' <=> g \in tail
       /\ g \in opened' <=> g \in opened
       /\ \A d \in Records : record'[d].file = g <=> record[d].file = g
       /\ \A d \in Records : record[d].file = g => record'[d] = record[d]
  /\ registry # t =>
       registry' \in {registry, t} /\ (registry \in SizeThreads => registry' = registry)
  /\ \A d \in Records : owner[d] \in SizeThreads \ {t} => owner'[d] = owner[d]
  /\ \A d \in Records : record[d].file = Nothing /\ record'[d].file # Nothing =>
       registry = t /\ owner[d] = Nothing

\* A step of a thread's call on a file.
LEMMA FileStep ==
  ASSUME SizesIInv, NEW t \in SizeThreads, NEW f \in Files, NEW j,
         job[t].f = f \/ (job[t] = NoJob /\ ~Busy(f)),
         job' = [job EXCEPT ![t] = j], j = NoJob \/ (j \in SizeJobs /\ j.f = f),
         OthersLeft(t, f),
         SizesTyped', RecordsApart',
         j = NoJob => FileQuiet(f)',
         j # NoJob => Promises(j)' /\ Locks(t)'
  PROVE  SizesIInv'
<1>0. /\ \A g \in Files : g # f =>
           /\ truth'[g] = truth[g] /\ disk'[g] = disk[g]
           /\ g \in refused' <=> g \in refused
           /\ g \in tail' <=> g \in tail
           /\ g \in opened' <=> g \in opened
           /\ \A e \in Records : record'[e].file = g <=> record[e].file = g
           /\ \A e \in Records : record[e].file = g => record'[e] = record[e]
      /\ registry # t =>
           registry' \in {registry, t} /\ (registry \in SizeThreads => registry' = registry)
      /\ \A e \in Records : owner[e] \in SizeThreads \ {t} => owner'[e] = owner[e]
      /\ \A e \in Records : record[e].file = Nothing /\ record'[e].file # Nothing =>
           registry = t /\ owner[e] = Nothing
  BY DEF OthersLeft
<1>1. \A u \in SizeThreads : job'[u] = IF u = t THEN j ELSE job[u]
  BY DEF SizesIInv, SizesTyped
<1>2. ASSUME NEW u \in SizeThreads, u # t, job[u] # NoJob
      PROVE  job[u].f \in Files /\ job[u].f # f
  BY <1>2, BusyWith, SizesAssumption DEF SizesIInv, Busy
<1>3. \A u, v \in SizeThreads : u # v /\ job'[u].f = job'[v].f => job'[u].f = Nothing
  <2> SUFFICES ASSUME NEW u \in SizeThreads, NEW v \in SizeThreads, u # v,
                      job'[u].f = job'[v].f
               PROVE  job'[u].f = Nothing
    OBVIOUS
  <2>1. CASE u # t /\ v # t
    BY <1>1, <2>1 DEF SizesIInv
  <2>2. \A w \in SizeThreads : w # t => job'[w].f = Nothing \/ job'[w].f # f
    BY <1>1, <1>2, NoJobIsNone
  <2>3. job'[t].f \in {f, Nothing}
    BY <1>1, NoJobIsNone
  <2> QED
    BY <2>1, <2>2, <2>3
<1>4. ASSUME NEW u \in SizeThreads, NEW k, k = job'[u], k # NoJob
      PROVE  Promises(k)' /\ Locks(u)'
  <2>1. CASE u = t
    BY <1>1, <1>4, <2>1
  <2>2. CASE u # t
    <3>1. k = job[u] /\ job'[u] = job[u] /\ job[u] # NoJob /\ k.f \in Files /\ k.f # f
          /\ k \in SizeJobs
      BY <1>1, <1>2, <1>4, <2>2, BusyWith
    <3>2. Promises(k) /\ Locks(u)
      BY <3>1 DEF SizesIInv
    <3>3. k.at = "trim" => k.kind = "close" /\ Trimming(k.f, k.e, k.to)
      BY <3>1, <3>2 DEF Promises, SizeJobs
    <3>4. k.at = "trim" => k.e \in Records /\ owner[k.e] = u /\ record[k.e].file = Nothing
      BY <3>1, <3>2, <3>3 DEF Locks, Trimming
    <3>5. k.at = "trim" => record'[k.e].file = Nothing
      BY <1>0, <3>4, SizesAssumption
    <3>6. Promises(k)'
      BY <1>0, <3>1, <3>5, PromisesStay
    <3>7. registry = u => registry' = u
      BY <1>0, <2>2
    <3>8. Locks(u)'
      BY <1>0, <2>2, <3>1, <3>7, LocksStay
    <3> QED
      BY <3>6, <3>8
  <2> QED
    BY <2>1, <2>2
<1>5. ASSUME NEW g \in Files, ~Busy(g)' PROVE FileQuiet(g)'
  <2>1. CASE g = f
    <3>1. j = NoJob
      BY <1>1, <1>5, <2>1 DEF Busy
    <3> QED
      BY <2>1, <3>1
  <2>2. CASE g # f
    <3>1. ~Busy(g)
      BY <1>1, <1>5, <2>2, SizesAssumption, NoJobIsNone DEF Busy
    <3>2. FileQuiet(g)
      BY <3>1 DEF SizesIInv
    <3> QED
      BY <1>0, <2>2, <3>2, QuietStays
  <2> QED
    BY <2>1, <2>2
<1>6. \A u \in SizeThreads : job'[u] # NoJob => (Promises(job[u]) /\ Locks(u))'
  BY <1>4
<1> QED
  BY <1>3, <1>5, <1>6 DEF SizesIInv

\* A call begins.
LEMMA CallStep ==
  ASSUME SizesIInv, NEW t \in SizeThreads, CallJob(t)
  PROVE  SizesIInv'
<1>1. job[t] = NoJob /\ UNCHANGED <<opened, record, registry, owner>>
  BY DEF CallJob, BeginJob
<1>2. RecordsApart'
  BY <1>1 DEF SizesIInv, RecordsApart
<1>3. ASSUME NEW f \in Files, NEW kind \in {"open", "close", "write", "truncate"}, NEW end \in Nat,
             BeginJob(t, kind, f, end), disk' \in [Files -> Nat], truth' \in [Files -> Nat],
             \A g \in Files : g # f =>
               /\ truth'[g] = truth[g] /\ disk'[g] = disk[g]
               /\ g \in refused' <=> g \in refused
               /\ g \in tail' <=> g \in tail,
             f \in opened <=> kind # "open",
             kind = "open" => truth'[f] = disk'[f],
             kind = "truncate" => truth'[f] = end /\ disk'[f] = end,
             kind \in {"write", "close"} => FileQuiet(f)'
      PROVE  SizesIInv'
  <2> DEFINE j == [NoJob EXCEPT !.kind = kind, !.at = "start", !.f = f, !.end = end]
  <2>1. /\ j.kind = kind /\ j.at = "start" /\ j.f = f /\ j.end = end
        /\ j.e = Nothing /\ j.to = 0
    BY DEF NoJob
  <2>2. j \in SizeJobs /\ j # NoJob /\ j.f = f /\ j.at = "start" /\ j.kind = kind /\ j.end = end
    <3>1. j \in SizeJobs
      BY DEF NoJob, SizeJobs
    <3> QED
      BY <2>1, <3>1, NoJobIsNone
  <2>3. job' = [job EXCEPT ![t] = j] /\ ~Busy(f)
    BY <1>3 DEF BeginJob
  <2> HIDE DEF j
  <2>4. SizesTyped'
    BY <1>1, <1>3, <2>2, <2>3 DEF SizesIInv, SizesTyped
  <2>5. Promises(j)'
    BY <1>1, <1>3, <2>2 DEF Promises
  <2>6. Locks(t)'
    BY <2>2, <2>3 DEF Locks, SizesIInv, SizesTyped
  <2>7. OthersLeft(t, f)
    BY <1>1, <1>3 DEF OthersLeft
  <2> QED
    BY <1>1, <1>2, <2>2, <2>3, <2>4, <2>5, <2>6, <2>7, FileStep
<1>4. ASSUME NEW f \in Files, f \notin opened, BeginJob(t, "open", f, 0),
             truth' = [truth EXCEPT ![f] = disk[f]], refused' = refused \ {f},
             tail' = tail \ {f}, UNCHANGED disk
      PROVE  SizesIInv'
  <2>1. disk' \in [Files -> Nat] /\ truth' \in [Files -> Nat] /\ truth'[f] = disk'[f]
        /\ \A g \in Files : g # f => truth'[g] = truth[g]
    BY <1>4 DEF SizesIInv, SizesTyped
  <2> QED
    BY <1>3, <1>4, <2>1
<1>5. ASSUME NEW f \in Files, f \in opened, NEW kind \in {"close", "write"}, NEW end \in Nat,
             BeginJob(t, kind, f, end), UNCHANGED <<disk, truth, refused, tail>>
      PROVE  SizesIInv'
  <2>1. FileQuiet(f)
    BY <1>5 DEF BeginJob, SizesIInv
  <2>2. FileQuiet(f)'
    BY <1>1, <1>5, <2>1, QuietStays
  <2>3. disk' \in [Files -> Nat] /\ truth' \in [Files -> Nat]
    BY <1>5 DEF SizesIInv, SizesTyped
  <2> QED
    BY <1>3, <1>5, <2>2, <2>3
<1>6. ASSUME NEW f \in Files, f \in opened, NEW end \in Nat, BeginJob(t, "truncate", f, end),
             truth' = [truth EXCEPT ![f] = end], disk' = [disk EXCEPT ![f] = end],
             refused' = refused \ {f}, UNCHANGED tail
      PROVE  SizesIInv'
  <2>1. /\ disk' \in [Files -> Nat] /\ truth' \in [Files -> Nat]
        /\ truth'[f] = end /\ disk'[f] = end
        /\ \A g \in Files : g # f => truth'[g] = truth[g] /\ disk'[g] = disk[g]
    BY <1>6 DEF SizesIInv, SizesTyped
  <2> QED
    BY <1>3, <1>6, <2>1
<1>7. \A f \in Files : disk[f] + 1 \in Nat
  BY DEF SizesIInv, SizesTyped
<1>8. MaxSize \in Nat
  BY SizesAssumption
<1>9. PICK f \in Files :
       \/ /\ f \notin opened /\ BeginJob(t, "open", f, 0)
          /\ truth' = [truth EXCEPT ![f] = disk[f]] /\ refused' = refused \ {f}
          /\ tail' = tail \ {f} /\ UNCHANGED disk
       \/ /\ f \in opened /\ UNCHANGED <<disk, truth, refused, tail>>
          /\ \/ BeginJob(t, "close", f, 0)
             \/ \E end \in 1 .. MaxSize : BeginJob(t, "write", f, end)
             \/ BeginJob(t, "write", f, disk[f] + 1)
       \/ /\ f \in opened /\ UNCHANGED tail /\ refused' = refused \ {f}
          /\ \E end \in 0 .. MaxSize :
               /\ BeginJob(t, "truncate", f, end)
               /\ truth' = [truth EXCEPT ![f] = end] /\ disk' = [disk EXCEPT ![f] = end]
  BY DEF CallJob
<1>10. CASE /\ f \in opened /\ UNCHANGED <<disk, truth, refused, tail>>
            /\ \/ BeginJob(t, "close", f, 0)
               \/ \E end \in 1 .. MaxSize : BeginJob(t, "write", f, end)
               \/ BeginJob(t, "write", f, disk[f] + 1)
  <2>1. PICK kind \in {"close", "write"}, end \in Nat : BeginJob(t, kind, f, end)
    BY <1>7, <1>8, <1>10
  <2> QED
    BY <1>5, <1>10, <2>1
<1>11. CASE /\ f \in opened /\ UNCHANGED tail /\ refused' = refused \ {f}
            /\ \E end \in 0 .. MaxSize :
                 /\ BeginJob(t, "truncate", f, end)
                 /\ truth' = [truth EXCEPT ![f] = end] /\ disk' = [disk EXCEPT ![f] = end]
  <2>1. PICK end \in 0 .. MaxSize :
               /\ BeginJob(t, "truncate", f, end)
               /\ truth' = [truth EXCEPT ![f] = end] /\ disk' = [disk EXCEPT ![f] = end]
    BY <1>11
  <2>2. end \in Nat
    BY <1>8
  <2> QED
    BY <1>6, <1>11, <2>1, <2>2
<1> QED
  BY <1>4, <1>9, <1>10, <1>11

\* A call ends and leaves its file as no call does.
LEMMA CallEnds ==
  ASSUME SizesIInv, NEW t \in SizeThreads, NEW f \in Files, job[t].f = f, JobDone(t),
         \A g \in Files : g # f =>
           /\ truth'[g] = truth[g] /\ disk'[g] = disk[g]
           /\ g \in refused' <=> g \in refused
           /\ g \in tail' <=> g \in tail
           /\ g \in opened' <=> g \in opened
           /\ \A e \in Records : record'[e].file = g <=> record[e].file = g
           /\ \A e \in Records : record[e].file = g => record'[e] = record[e],
         registry' = registry \/ (registry = t /\ registry' = Nothing),
         \A e \in Records : owner[e] \in SizeThreads \ {t} => owner'[e] = owner[e],
         \A e \in Records : record[e].file = Nothing /\ record'[e].file # Nothing =>
           registry = t /\ owner[e] = Nothing,
         disk' \in [Files -> Nat], truth' \in [Files -> Nat], opened' \subseteq Files,
         record' \in [Records -> SizeRecords],
         owner' = owner \/ (\E e : owner' = [owner EXCEPT ![e] = Nothing]),
         RecordsApart', FileQuiet(f)'
  PROVE  SizesIInv'
<1>1. job' = [job EXCEPT ![t] = NoJob]
  BY DEF JobDone
<1>2. DOMAIN owner' = Records /\ owner' = [e \in Records |-> owner'[e]]
  BY DEF SizesIInv, SizesTyped
<1>3. SizesTyped'
  BY <1>1, <1>2 DEF SizesIInv, SizesTyped
<1>4. OthersLeft(t, f)
  BY DEF OthersLeft
<1> QED
  BY <1>1, <1>3, <1>4, FileStep

\* The record of a call's file is looked up; without one the call ends.
LEMMA LookUpStep ==
  ASSUME SizesIInv, NEW t \in SizeThreads, LookUp(t)
  PROVE  SizesIInv'
<1>1. job[t].at = "start" /\ registry = Nothing /\ UNCHANGED <<refused, tail, record, owner>>
  BY DEF LookUp
<1>2. job[t] \in SizeJobs /\ job[t] # NoJob /\ job[t].f \in Files
  BY <1>1, BusyWith, NoJobIsNone
<1>3. PICK f \in Files : f = job[t].f
  BY <1>2
<1>4. Promises(job[t])
  BY <1>2 DEF SizesIInv
<1>5. /\ disk \in [Files -> Nat] /\ truth \in [Files -> Nat] /\ record \in [Records -> SizeRecords]
      /\ opened \subseteq Files
  BY DEF SizesIInv, SizesTyped
<1>6. RecordsApart
  BY DEF SizesIInv
<1>7. \A e \in Records : Keeps(e, f)' <=> Keeps(e, f)
  BY <1>1 DEF Keeps
<1> DEFINE found == IF job[t].kind = "open" THEN FreeRecord ELSE RecordOf(job[t].f)
<1>8. ASSUME NEW e \in found, registry' = t, UNCHANGED <<disk, truth, opened>>,
             job' = [job EXCEPT ![t].at = "record", ![t].e = e]
      PROVE  SizesIInv'
  <2> DEFINE k == [job[t] EXCEPT !.at = "record", !.e = e]
  <2>1. /\ e \in Records
        /\ record[e].file = IF job[t].kind = "open" THEN Nothing ELSE f
    BY <1>3 DEF FreeRecord, RecordOf
  <2>2. job' = [job EXCEPT ![t] = k]
    BY <1>8 DEF SizesIInv, SizesTyped
  <2>3. k \in SizeJobs /\ k.at = "record" /\ k.e = e /\ k.f = f /\ k.kind = job[t].kind
        /\ k.end = job[t].end /\ k # NoJob
    BY <1>2, <1>3, <2>1, NoJobIsNone DEF SizeJobs
  <2>4. PICK j : j = k
    OBVIOUS
  <2> HIDE DEF k
  <2>5. FileQuiet(f) => FileQuiet(f)'
    BY <1>1, <1>8, QuietStays
  <2>7. Promises(j)'
    BY <1>1, <1>3, <1>4, <1>8, <2>3, <2>4, <2>5 DEF Promises
  <2>8. job'[t] = k
    BY <2>2 DEF SizesIInv, SizesTyped
  <2>9. Locks(t)'
    BY <1>1, <1>8, <2>1, <2>3, <2>8 DEF Locks
  <2>10. SizesTyped'
    <3>1. /\ DOMAIN job = SizeThreads /\ \A u \in SizeThreads : job[u] = NoJob \/ job[u] \in SizeJobs
          /\ DOMAIN owner = Records /\ owner = [d \in Records |-> owner[d]]
      BY DEF SizesIInv, SizesTyped
    <3>2. /\ DOMAIN job' = SizeThreads /\ job' = [u \in SizeThreads |-> job'[u]]
          /\ \A u \in SizeThreads : job'[u] = NoJob \/ job'[u] \in SizeJobs
      BY <2>2, <2>3, <3>1
    <3>3. disk' = disk /\ truth' = truth /\ opened' = opened /\ record' = record /\ owner' = owner
      BY <1>1, <1>8
    <3> QED
      BY <1>5, <3>1, <3>2, <3>3 DEF SizesTyped
  <2>11. RecordsApart'
    BY <1>1, <1>6, <1>8 DEF RecordsApart
  <2>12. registry \notin SizeThreads
    BY <1>1, SizesAssumption
  <2>13. job' = [job EXCEPT ![t] = j] /\ j \in SizeJobs /\ j.f = f /\ j # NoJob
    BY <2>2, <2>3, <2>4
  <2>14. registry # t =>
           registry' \in {registry, t} /\ (registry \in SizeThreads => registry' = registry)
    BY <1>8, <2>12
  <2>15. /\ truth' = truth /\ disk' = disk /\ tail' = tail /\ opened' = opened /\ refused' = refused
         /\ record' = record /\ owner' = owner
    BY <1>1, <1>8
  <2>16. OthersLeft(t, f)
    BY <2>14, <2>15 DEF OthersLeft
  <2> QED
    BY <1>3, <2>7, <2>9, <2>10, <2>11, <2>13, <2>16, FileStep
<1>9. CASE found = {} /\ registry' = registry /\ JobDone(t)
  <2>1. job[t].kind # "open" => \A e \in Records : record[e].file # f /\ ~Keeps(e, f)
    BY <1>3, <1>9 DEF RecordOf, Keeps
  <2>2. ASSUME disk' \in [Files -> Nat], truth' \in [Files -> Nat], opened' \subseteq Files,
               \A g \in Files : g # f =>
                 truth'[g] = truth[g] /\ disk'[g] = disk[g] /\ (g \in opened' <=> g \in opened),
               f \in opened' \/ job[t].kind # "open", truth'[f] <= disk'[f],
               truth'[f] = disk'[f] \/ f \in refused'
        PROVE  SizesIInv'
    <3>1. \A e \in Records : ~Keeps(e, f)
      <4>1. job[t].kind = "open" => f \notin opened
        BY <1>3, <1>4 DEF Promises
      <4> QED
        BY <1>6, <2>1, <4>1, SizesAssumption DEF RecordsApart, Keeps
    <3>2. FileQuiet(f)'
      BY <1>7, <2>2, <3>1 DEF FileQuiet
    <3>3. RecordsApart'
      <4>1. \A e \in Records : record[e].file # f
        BY <1>3, <1>4, <1>6, <2>1, SizesAssumption DEF RecordsApart, Promises
      <4>2. \A e \in Records : record[e].file \in Files \union {Nothing}
        BY <1>5 DEF SizeRecords
      <4> QED
        BY <1>1, <1>6, <2>2, <4>1, <4>2 DEF RecordsApart
    <3> QED
      BY <1>1, <1>3, <1>5, <1>9, <2>2, <3>2, <3>3, CallEnds
  <2>3. CASE job[t].kind = "truncate" /\ UNCHANGED <<disk, truth, opened>>
    BY <1>3, <1>4, <1>5, <2>2, <2>3 DEF Promises
  <2>4. CASE job[t].kind = "open" /\ opened' = opened \cup {job[t].f} /\ UNCHANGED <<disk, truth>>
    BY <1>3, <1>4, <1>5, <2>2, <2>4 DEF Promises
  <2>5. CASE job[t].kind = "close" /\ Closed(job[t].f) /\ UNCHANGED <<disk, truth>>
    <3>1. FileQuiet(f) /\ f \in opened
      BY <1>1, <1>3, <1>4, <2>5 DEF Promises
    <3>2. truth[f] <= disk[f] /\ (truth[f] = disk[f] \/ f \in refused)
      BY <2>1, <2>5, <3>1 DEF FileQuiet
    <3> QED
      BY <1>1, <1>3, <1>5, <2>2, <2>5, <3>2 DEF Closed
  <2>6. CASE job[t].kind = "write" /\ UNCHANGED opened
    <3>0. PICK end \in Nat : end = job[t].end
      BY <1>2 DEF SizeJobs
    <3>1. FileQuiet(f) /\ f \in opened /\ truth[f] \in Nat /\ disk[f] \in Nat
      BY <1>1, <1>3, <1>4, <1>5, <2>6 DEF Promises
    <3>2. truth[f] <= disk[f] /\ (truth[f] = disk[f] \/ f \in refused)
      BY <2>1, <2>6, <3>1 DEF FileQuiet
    <3>3. CASE disk' = [disk EXCEPT ![job[t].f] = Larger(@, job[t].end)] /\ Granted(t)
      <4>1. PICK m \in Nat, n \in Nat : m = Larger(truth[f], end) /\ n = Larger(disk[f], end)
        BY <3>1 DEF Larger
      <4>2. disk' = [disk EXCEPT ![f] = n] /\ truth' = [truth EXCEPT ![f] = m]
        BY <1>3, <1>5, <3>0, <3>3, <4>1 DEF Granted
      <4>3. m <= n /\ (truth[f] = disk[f] => m = n)
        BY <3>1, <3>2, <4>1 DEF Larger
      <4> HIDE DEF found
      <4>4. disk'[f] = n /\ truth'[f] = m /\ disk' \in [Files -> Nat] /\ truth' \in [Files -> Nat]
            /\ \A g \in Files : g # f => truth'[g] = truth[g] /\ disk'[g] = disk[g]
        BY <1>5, <4>2
      <4> QED
        BY <1>1, <1>5, <2>2, <2>6, <3>2, <4>3, <4>4
    <3>4. CASE UNCHANGED <<disk, truth>>
      BY <1>1, <1>3, <1>5, <2>2, <2>6, <3>2, <3>4
    <3> QED
      BY <1>9, <2>6, <3>3, <3>4 DEF LookUp
  <2> QED
    BY <1>9, <2>3, <2>4, <2>5, <2>6 DEF LookUp
<1> QED
  BY <1>8, <1>9 DEF LookUp

\* What a call knows when it has locked its record.
LEMMA LockedRecord ==
  ASSUME SizesIInv, NEW t \in SizeThreads, job[t].at \in {"record", "extend", "trim"}
  PROVE  /\ job[t] \in SizeJobs /\ job[t] # NoJob /\ job[t].f \in Files /\ job[t].e \in Records
         /\ Promises(job[t]) /\ record[job[t].e] \in SizeRecords
         /\ job[t].at = "record" => registry = t
         /\ job[t].at = "record" =>
              record[job[t].e].file = IF job[t].kind = "open" THEN Nothing ELSE job[t].f
         /\ job[t].at # "record" => owner[job[t].e] = t
         /\ \A d \in Records : d # job[t].e => record[d].file # record[job[t].e].file
                                               \/ record[d].file = Nothing
<1>1. job[t] # NoJob
  BY NoJobIsNone
<1>2. Promises(job[t]) /\ Locks(t)
  BY <1>1 DEF SizesIInv
<1>3. job[t].e \in Records
  BY <1>2 DEF Locks
<1> QED
  BY <1>1, <1>2, <1>3, BusyWith DEF Locks, SizesIInv, SizesTyped, RecordsApart

\* What a step does that gives record e of file f another value, with the same file.
LEMMA RecordWritten ==
  ASSUME SizesIInv, NEW e \in Records, NEW r \in SizeRecords, NEW f \in Files,
         record[e].file \in {f, Nothing}, r.file \in {f, Nothing},
         r.file = f => \A d \in Records : d # e => record[d].file # f,
         r.file = f => f \in opened',
         \A g \in Files : g # f => (g \in opened => g \in opened'),
         f \notin opened' => \A d \in Records : d # e => record[d].file # f,
         record' = [record EXCEPT ![e] = r]
  PROVE  /\ record' \in [Records -> SizeRecords] /\ record'[e] = r
         /\ \A d \in Records : d # e => record'[d] = record[d]
         /\ RecordsApart'
         /\ \A g \in Files : g # f =>
              /\ \A d \in Records : record'[d].file = g <=> record[d].file = g
              /\ \A d \in Records : record[d].file = g => record'[d] = record[d]
<1>1. record \in [Records -> SizeRecords] /\ RecordsApart
  BY DEF SizesIInv, SizesTyped
<1>2. record' \in [Records -> SizeRecords] /\ \A d \in Records : record'[d] = IF d = e THEN r ELSE record[d]
  BY <1>1
<1>3. \A g \in Files : g # Nothing
  BY SizesAssumption
<1>4. \A d, c \in Records : record'[d].file = record'[c].file /\ d # c => record'[d].file = Nothing
  BY <1>1, <1>2 DEF RecordsApart
<1>5. \A d \in Records : record'[d].file \in opened' \union {Nothing}
  <2> SUFFICES ASSUME NEW d \in Records, record'[d].file # Nothing
               PROVE  record'[d].file \in opened'
    OBVIOUS
  <2>1. record'[d].file \in Files
    BY <1>2 DEF SizeRecords
  <2> QED
    BY <1>1, <1>2, <2>1 DEF RecordsApart
<1> QED
  BY <1>2, <1>3, <1>4, <1>5 DEF RecordsApart

LEMMA OpenRecordStep ==
  ASSUME SizesIInv, NEW t \in SizeThreads, OpenRecord(t)
  PROVE  SizesIInv'
<1> DEFINE r == [UnusedRecord EXCEPT !.file = job[t].f]
<1>1. /\ job[t].kind = "open" /\ job[t].at = "record" /\ owner[job[t].e] = Nothing
      /\ registry' = Nothing /\ opened' = opened \cup {job[t].f} /\ JobDone(t)
      /\ UNCHANGED <<disk, truth, refused, tail, owner>>
  BY DEF OpenRecord, RecordLocked
<1>2. record' = [record EXCEPT ![job[t].e] = r]
  BY DEF OpenRecord
<1>3. PICK f \in Files, e \in Records : f = job[t].f /\ e = job[t].e
  BY <1>1, LockedRecord
<1>4. r \in SizeRecords /\ r.file = f /\ r.init = FALSE
  BY <1>3 DEF UnusedRecord, SizeRecords
<1> HIDE DEF r
<1>5. /\ registry = t /\ record[e].file = Nothing /\ f \notin opened /\ truth[f] = disk[f]
  BY <1>1, <1>3, LockedRecord DEF Promises
<1>6. /\ disk \in [Files -> Nat] /\ truth \in [Files -> Nat] /\ opened \subseteq Files
      /\ RecordsApart
  BY DEF SizesIInv, SizesTyped
<1>7. \A d \in Records : record[d].file # f
  BY <1>5, <1>6, SizesAssumption DEF RecordsApart
<1>8. /\ record' \in [Records -> SizeRecords] /\ record'[e] = r
      /\ \A d \in Records : d # e => record'[d] = record[d]
      /\ RecordsApart'
      /\ \A g \in Files : g # f =>
           /\ \A d \in Records : record'[d].file = g <=> record[d].file = g
           /\ \A d \in Records : record[d].file = g => record'[d] = record[d]
  <2>1. f \in opened' /\ \A g \in Files : g # f => (g \in opened => g \in opened')
    BY <1>1, <1>3
  <2>2. record' = [record EXCEPT ![e] = r]
    BY <1>2, <1>3
  <2>3. record[e].file \in {f, Nothing} /\ r.file \in {f, Nothing}
    BY <1>4, <1>5
  <2>4. \A d \in Records : d # e => record[d].file # f
    BY <1>7
  <2>5. r \in SizeRecords
    BY <1>4
  <2>6. RecordsApart'
    BY <2>1, <2>2, <2>3, <2>4, <2>5, RecordWritten
  <2>7. record \in [Records -> SizeRecords]
    BY DEF SizesIInv, SizesTyped
  <2>8. /\ record' \in [Records -> SizeRecords] /\ record'[e] = r
        /\ \A d \in Records : d # e => record'[d] = record[d]
    BY <2>2, <2>5, <2>7
  <2>9. \A g \in Files : g # f => /\ record[e].file # g /\ record'[e].file # g
    BY <2>3, <2>8, SizesAssumption
  <2> QED
    BY <2>6, <2>8, <2>9
<1>9. FileQuiet(f)'
  <2>1. \A d \in Records : ~Keeps(d, f)'
    BY <1>4, <1>7, <1>8 DEF Keeps
  <2> QED
    BY <1>1, <1>5, <1>6, <2>1 DEF FileQuiet
<1>10. \A d \in Records : record[d].file = Nothing /\ record'[d].file # Nothing => d = e
  BY <1>8
<1>11. \A g \in Files : g # f => (g \in opened' <=> g \in opened)
  BY <1>1, <1>3
<1> QED
  BY <1>1, <1>3, <1>5, <1>6, <1>8, <1>9, <1>10, <1>11, CallEnds

LEMMA NoteTruncateStep ==
  ASSUME SizesIInv, NEW t \in SizeThreads, NoteTruncate(t)
  PROVE  SizesIInv'
<1> DEFINE r == [record[job[t].e] EXCEPT !.init = TRUE, !.logical = job[t].end,
                                         !.physical = job[t].end]
<1>1. /\ job[t].kind = "truncate" /\ job[t].at = "record" /\ registry' = Nothing /\ JobDone(t)
      /\ UNCHANGED <<disk, truth, refused, opened, tail, owner>>
  BY DEF NoteTruncate, RecordLocked
<1>2. PICK f \in Files, e \in Records : f = job[t].f /\ e = job[t].e
  BY <1>1, LockedRecord
<1>3. record' = [record EXCEPT ![e] = r]
  BY <1>2 DEF NoteTruncate, SizesIInv, SizesTyped
<1>4. /\ registry = t /\ record[e].file = f /\ f \in opened /\ job[t].end \in Nat
      /\ truth[f] = job[t].end /\ disk[f] = job[t].end
      /\ \A d \in Records : d # e => record[d].file # f
  BY <1>1, <1>2, LockedRecord, SizesAssumption DEF Promises, SizeJobs
<1>5. r \in SizeRecords /\ r.file = f /\ r.init /\ r.logical = job[t].end /\ r.physical = job[t].end
  <2>1. record[e] \in SizeRecords /\ record[e].file = f /\ job[t].end \in Nat
    BY <1>2, <1>4 DEF SizesIInv, SizesTyped
  <2> PICK k, n : k = record[e] /\ n = job[t].end
    OBVIOUS
  <2>2. r = [k EXCEPT !.init = TRUE, !.logical = n, !.physical = n]
    BY <1>2
  <2>3. k \in SizeRecords /\ k.file = f /\ n \in Nat
    BY <2>1
  <2> HIDE DEF r
  <2> QED
    BY <2>2, <2>3 DEF SizeRecords
<1> HIDE DEF r
<1>6. /\ disk \in [Files -> Nat] /\ truth \in [Files -> Nat] /\ opened \subseteq Files
  BY DEF SizesIInv, SizesTyped
<1>7. /\ record' \in [Records -> SizeRecords] /\ record'[e] = r
      /\ \A d \in Records : d # e => record'[d] = record[d]
      /\ RecordsApart'
      /\ \A g \in Files : g # f =>
           /\ \A d \in Records : record'[d].file = g <=> record[d].file = g
           /\ \A d \in Records : record[d].file = g => record'[d] = record[d]
  <2>1. f \in opened' /\ \A g \in Files : g # f => (g \in opened => g \in opened')
    BY <1>1, <1>4
  <2>2. record[e].file \in {f, Nothing} /\ r.file \in {f, Nothing}
    BY <1>4, <1>5
  <2>3. \A d \in Records : d # e => record[d].file # f
    BY <1>4
  <2>4. r \in SizeRecords
    BY <1>5
  <2>5. RecordsApart'
    BY <1>3, <2>1, <2>2, <2>3, <2>4, RecordWritten
  <2>6. record \in [Records -> SizeRecords]
    BY DEF SizesIInv, SizesTyped
  <2>7. /\ record' \in [Records -> SizeRecords] /\ record'[e] = r
        /\ \A d \in Records : d # e => record'[d] = record[d]
    BY <1>3, <2>4, <2>6
  <2>8. \A g \in Files : g # f => /\ record[e].file # g /\ record'[e].file # g
    BY <2>2, <2>7, SizesAssumption
  <2> QED
    BY <2>5, <2>7, <2>8
<1>8. FileQuiet(f)'
  <2>1. \A d \in Records : Keeps(d, f)' => d = e
    BY <1>4, <1>7 DEF Keeps
  <2> QED
    BY <1>1, <1>4, <1>5, <1>6, <1>7, <2>1 DEF FileQuiet
<1>9. \A d \in Records : record[d].file = Nothing => record'[d].file = Nothing
  BY <1>4, <1>7, SizesAssumption
<1> QED
  BY <1>1, <1>2, <1>4, <1>6, <1>7, <1>8, <1>9, CallEnds

LEMMA RoundUpGrows ==
  ASSUME NEW n \in Nat
  PROVE  RoundUp(n) \in Nat /\ n <= RoundUp(n)
<1> DEFINE q == (n + Extent - 1) \div Extent
           r == (n + Extent - 1) % Extent
<1>1. Extent \in Nat /\ Extent > 0
  BY SizesAssumption
<1>2. q \in Int /\ r \in 0 .. Extent - 1 /\ n + Extent - 1 = Extent * q + r
  BY <1>1
<1>3. q * Extent = Extent * q /\ q * Extent \in Int
  BY <1>1, <1>2
<1> HIDE DEF q, r
<1>4. n <= q * Extent
  BY <1>1, <1>2, <1>3
<1> QED
  BY <1>3, <1>4 DEF RoundUp, q

\* The record before the file is extended, and how far the file is to go.
LEMMA PrepareWriteStep ==
  ASSUME SizesIInv, NEW t \in SizeThreads, PrepareWrite(t)
  PROVE  SizesIInv'
<1>1. /\ job[t].kind = "write" /\ job[t].at = "record" /\ registry' = Nothing
      /\ owner[job[t].e] = Nothing /\ UNCHANGED <<disk, refused, opened, tail>>
  BY DEF PrepareWrite, RecordLocked
<1>2. PICK f \in Files, e \in Records, end \in Nat :
        f = job[t].f /\ e = job[t].e /\ end = job[t].end
  BY <1>1, LockedRecord DEF SizeJobs
<1> DEFINE r == IF record[e].init THEN record[e]
                ELSE [record[e] EXCEPT !.init = TRUE, !.logical = disk[f], !.physical = disk[f]]
           goal == WriteGoal(f, r, end)
           new == [r EXCEPT !.logical = Larger(r.logical, end)]
<1>3. /\ record[e].file = f /\ registry = t /\ f \in opened /\ FileQuiet(f)
      /\ record[e] \in SizeRecords
      /\ \A d \in Records : d # e => record[d].file # f
  BY <1>1, <1>2, LockedRecord, SizesAssumption DEF Promises
<1>4. disk \in [Files -> Nat] /\ truth \in [Files -> Nat] /\ opened \subseteq Files
      /\ record \in [Records -> SizeRecords]
  BY DEF SizesIInv, SizesTyped
<1>5. r \in SizeRecords /\ r.file = f /\ r.init
  BY <1>3, <1>4 DEF SizeRecords
<1>6. /\ r.physical = disk[f] /\ r.logical \in Nat
      /\ truth[f] <= r.logical /\ r.logical <= disk[f]
      /\ f \notin refused => r.logical = truth[f]
      /\ truth[f] = disk[f] \/ f \in refused \/ f \in Bulk
  <2>1. CASE record[e].init
    BY <1>3, <1>5, <2>1 DEF FileQuiet, Keeps, SizeRecords
  <2>2. CASE ~record[e].init
    <3>1. \A d \in Records : ~Keeps(d, f)
      BY <1>3, <2>2 DEF Keeps
    <3>2. truth[f] <= disk[f] /\ (truth[f] = disk[f] \/ f \in refused)
      BY <1>3, <3>1 DEF FileQuiet
    <3>3. r.physical = disk[f] /\ r.logical = disk[f]
      BY <1>3, <2>2 DEF SizeRecords
    <3> QED
      BY <1>4, <3>2, <3>3
  <2> QED
    BY <2>1, <2>2
<1>7. /\ record' = [record EXCEPT ![e] = new]
      /\ \/ goal > r.physical
            /\ job' = [job EXCEPT ![t].at = "extend", ![t].to = goal]
            /\ owner' = [owner EXCEPT ![e] = t] /\ UNCHANGED truth
         \/ ~(goal > r.physical) /\ JobDone(t) /\ Granted(t) /\ UNCHANGED owner
  BY <1>2, <1>5 DEF PrepareWrite, SizeRecords
<1>8. new \in SizeRecords /\ new.file = f /\ new.init /\ new.logical = Larger(r.logical, end)
      /\ new.physical = disk[f]
  BY <1>4, <1>5, <1>6 DEF SizeRecords, Larger
<1>9. /\ goal \in Nat /\ end <= goal /\ (f \notin Bulk => goal = end)
      /\ goal # end => end > r.logical
  <2> HIDE DEF r
  <2> QED
    BY RoundUpGrows DEF WriteGoal
<1> HIDE DEF r, new, goal
<1>10. /\ record' \in [Records -> SizeRecords] /\ record'[e] = new
       /\ \A d \in Records : d # e => record'[d] = record[d]
       /\ RecordsApart'
       /\ \A g \in Files : g # f =>
            /\ \A d \in Records : record'[d].file = g <=> record[d].file = g
            /\ \A d \in Records : record[d].file = g => record'[d] = record[d]
  <2>1. f \in opened' /\ \A g \in Files : g # f => (g \in opened => g \in opened')
    BY <1>1, <1>3
  <2>2. record[e].file \in {f, Nothing} /\ new.file \in {f, Nothing}
    BY <1>3, <1>8
  <2>3. \A d \in Records : d # e => record[d].file # f
    BY <1>3
  <2>4. new \in SizeRecords /\ record' = [record EXCEPT ![e] = new]
    BY <1>7, <1>8
  <2>5. RecordsApart'
    BY <2>1, <2>2, <2>3, <2>4, RecordWritten
  <2>6. record \in [Records -> SizeRecords]
    BY DEF SizesIInv, SizesTyped
  <2>7. /\ record' \in [Records -> SizeRecords] /\ record'[e] = new
        /\ \A d \in Records : d # e => record'[d] = record[d]
    BY <2>4, <2>6
  <2>8. \A g \in Files : g # f => /\ record[e].file # g /\ record'[e].file # g
    BY <2>2, <2>7, SizesAssumption
  <2> QED
    BY <2>5, <2>7, <2>8
<1>11. \A d \in Records : record[d].file = Nothing => record'[d].file = Nothing
  BY <1>3, <1>10, SizesAssumption
<1>12. CASE ~(goal > r.physical) /\ JobDone(t) /\ Granted(t) /\ UNCHANGED owner
  <2>0. PICK m \in Nat : m = Larger(truth[f], end)
    BY <1>4 DEF Larger
  <2>1. truth' = [truth EXCEPT ![f] = m]
    BY <1>2, <1>4, <1>12, <2>0 DEF Granted
  <2>2. truth'[f] = m /\ truth' \in [Files -> Nat]
        /\ \A g \in Files : g # f => truth'[g] = truth[g]
    BY <1>4, <2>1
  <2>3. /\ m <= new.logical /\ new.logical <= disk[f] /\ m <= disk[f]
        /\ f \notin refused => new.logical = m
        /\ m = disk[f] \/ f \in refused \/ f \in Bulk
    BY <1>4, <1>6, <1>8, <1>9, <1>12, <2>0 DEF Larger
  <2>4. \A d \in Records : Keeps(d, f)' <=> d = e
    BY <1>3, <1>8, <1>10 DEF Keeps
  <2>5. FileQuiet(f)'
    BY <1>1, <1>8, <1>10, <2>2, <2>3, <2>4 DEF FileQuiet
  <2> QED
    BY <1>1, <1>2, <1>3, <1>4, <1>10, <1>11, <1>12, <2>2, <2>5, CallEnds
<1>13. CASE /\ goal > r.physical
            /\ job' = [job EXCEPT ![t].at = "extend", ![t].to = goal]
            /\ owner' = [owner EXCEPT ![e] = t] /\ UNCHANGED truth
  <2>0. PICK to : to = goal
    OBVIOUS
  <2> DEFINE k == [job[t] EXCEPT !.at = "extend", !.to = goal]
  <2>1. job[t] \in SizeJobs
    BY <1>1, LockedRecord
  <2>2. k \in SizeJobs /\ k # NoJob /\ k.at = "extend" /\ k.kind = "write" /\ k.f = f /\ k.e = e
        /\ k.end = end /\ k.to = goal
    BY <1>1, <1>2, <1>9, <2>1, NoJobIsNone DEF SizeJobs
  <2>3. job' = [job EXCEPT ![t] = k]
    BY <1>13 DEF SizesIInv, SizesTyped
  <2>4. PICK j : j = k
    OBVIOUS
  <2> HIDE DEF k
  <2>5. job' = [job EXCEPT ![t] = j] /\ j \in SizeJobs /\ j # NoJob /\ j.f = f
    BY <2>2, <2>3, <2>4
  <2>6. new.logical = end /\ truth[f] <= end /\ truth[f] <= disk[f] /\ end <= goal
        /\ (goal # end => f \in Bulk)
    BY <1>4, <1>6, <1>8, <1>9, <1>13 DEF Larger
  <2>7. Extending(f, e, end, to)'
    BY <1>1, <1>8, <1>10, <1>13, <2>0, <2>6 DEF Extending, Keeps
  <2>8. Promises(j)'
    BY <1>1, <1>3, <2>0, <2>2, <2>4, <2>7 DEF Promises
  <2>9. owner'[e] = t /\ \A d \in Records : d # e => owner'[d] = owner[d]
    BY <1>13 DEF SizesIInv, SizesTyped
  <2>10. Locks(t)'
    <3>1. job'[t] = k
      BY <2>3 DEF SizesIInv, SizesTyped
    <3> QED
      BY <2>2, <2>9, <3>1 DEF Locks
  <2>11. SizesTyped'
    <3>1. DOMAIN owner' = Records /\ owner' = [d \in Records |-> owner'[d]]
      BY <1>13 DEF SizesIInv, SizesTyped
    <3>2. /\ DOMAIN job' = SizeThreads /\ job' = [u \in SizeThreads |-> job'[u]]
          /\ \A u \in SizeThreads : job'[u] = NoJob \/ job'[u] \in SizeJobs
      BY <2>5 DEF SizesIInv, SizesTyped
    <3>3. /\ disk' \in [Files -> Nat] /\ truth' \in [Files -> Nat] /\ opened' \subseteq Files
          /\ record' \in [Records -> SizeRecords]
      BY <1>1, <1>4, <1>10, <1>13
    <3> QED
      BY <3>1, <3>2, <3>3 DEF SizesTyped
  <2>12. \A d \in Records : owner[d] \in SizeThreads \ {t} => owner'[d] = owner[d]
    BY <1>1, <1>2, <2>9, SizesAssumption
  <2>13. truth' = truth /\ disk' = disk /\ tail' = tail /\ opened' = opened /\ refused' = refused
    BY <1>1, <1>13
  <2>14. OthersLeft(t, f)
    BY <1>3, <1>10, <1>11, <2>12, <2>13 DEF OthersLeft
  <2>15. RecordsApart' /\ job[t].f = f /\ registry = t
    BY <1>2, <1>3, <1>10
  <2> QED
    BY <2>5, <2>8, <2>10, <2>11, <2>14, <2>15, FileStep
<1> QED
  BY <1>7, <1>12, <1>13

\* The file is extended, less far if need be, or not at all.
LEMMA ExtendStep ==
  ASSUME SizesIInv, NEW t \in SizeThreads, Extend(t) \/ ExtendFails(t)
  PROVE  SizesIInv'
<1>1. job[t].at = "extend" /\ JobDone(t) /\ UNCHANGED <<opened, tail, registry>>
  BY DEF Extend, ExtendFails
<1>2. PICK f \in Files, e \in Records, end \in Nat, to \in Nat :
        f = job[t].f /\ e = job[t].e /\ end = job[t].end /\ to = job[t].to
  BY <1>1, LockedRecord DEF SizeJobs
<1>3. /\ job[t].kind = "write" /\ Extending(f, e, end, to) /\ f \in opened /\ owner[e] = t
      /\ record[e] \in SizeRecords /\ record[e].file = f
      /\ \A d \in Records : d # e => record[d].file # f
  BY <1>1, <1>2, LockedRecord, SizesAssumption DEF Promises, SizeJobs, Extending, Keeps
<1>4. disk \in [Files -> Nat] /\ truth \in [Files -> Nat] /\ opened \subseteq Files
      /\ record \in [Records -> SizeRecords]
  BY DEF SizesIInv, SizesTyped
<1>5. owner' = [owner EXCEPT ![e] = Nothing]
  BY <1>2 DEF Extend, ExtendFails
<1>6. \A d \in Records : owner[d] \in SizeThreads \ {t} => owner'[d] = owner[d]
  BY <1>3, <1>5 DEF SizesIInv, SizesTyped
<1>7. ASSUME NEW r \in SizeRecords, r.file = f, r.init, record' = [record EXCEPT ![e] = r],
             disk' \in [Files -> Nat], truth' \in [Files -> Nat],
             \A g \in Files : g # f =>
               truth'[g] = truth[g] /\ disk'[g] = disk[g] /\ (g \in refused' <=> g \in refused),
             r.physical = disk'[f], truth'[f] <= r.logical, r.logical <= disk'[f],
             truth'[f] <= disk'[f], f \notin refused' => r.logical = truth'[f],
             truth'[f] = disk'[f] \/ f \in refused' \/ f \in Bulk
      PROVE  SizesIInv'
  <2>10. /\ record' \in [Records -> SizeRecords] /\ record'[e] = r
         /\ \A d \in Records : d # e => record'[d] = record[d]
    BY <1>4, <1>7
  <2>11. f \in opened' /\ opened' = opened
    BY <1>1, <1>3
  <2>12. \A g \in Files : g # f => record[e].file # g /\ record'[e].file # g
    BY <1>3, <1>7, <2>10
  <2>13. RecordsApart
    BY DEF SizesIInv
  <2>14. \A d \in Records : record'[d].file = record[d].file
    BY <1>3, <1>7, <2>10
  <2>15. RecordsApart'
    BY <2>11, <2>13, <2>14 DEF RecordsApart
  <2>1. /\ record' \in [Records -> SizeRecords] /\ record'[e] = r
        /\ \A d \in Records : d # e => record'[d] = record[d]
        /\ RecordsApart'
        /\ \A g \in Files : g # f =>
             /\ \A d \in Records : record'[d].file = g <=> record[d].file = g
             /\ \A d \in Records : record[d].file = g => record'[d] = record[d]
    BY <2>10, <2>12, <2>14, <2>15
  <2>2. \A d \in Records : record[d].file = Nothing => record'[d].file = Nothing
    BY <1>3, <2>1, SizesAssumption
  <2>3. \A d \in Records : Keeps(d, f)' <=> d = e
    BY <1>3, <1>7, <2>1 DEF Keeps
  <2>4. FileQuiet(f)'
    BY <1>7, <2>1, <2>3 DEF FileQuiet
  <2>5. /\ \A g \in Files : g # f =>
             /\ truth'[g] = truth[g] /\ disk'[g] = disk[g]
             /\ g \in refused' <=> g \in refused
             /\ g \in tail' <=> g \in tail
             /\ g \in opened' <=> g \in opened
             /\ \A d \in Records : record'[d].file = g <=> record[d].file = g
             /\ \A d \in Records : record[d].file = g => record'[d] = record[d]
    BY <1>1, <1>7, <2>1
  <2>6. OthersLeft(t, f)
    BY <1>1, <1>6, <2>2, <2>5 DEF OthersLeft
  <2>7. job' = [job EXCEPT ![t] = NoJob]
    BY <1>1 DEF JobDone
  <2>8. SizesTyped'
    <3>1. DOMAIN owner' = Records /\ owner' = [d \in Records |-> owner'[d]]
      BY <1>5 DEF SizesIInv, SizesTyped
    <3> QED
      BY <1>1, <1>4, <1>7, <2>1, <2>7, <3>1 DEF SizesIInv, SizesTyped
  <2>9. job[t].f = f
    BY <1>2
  <2> QED
    BY <2>1, <2>4, <2>6, <2>7, <2>8, <2>9, FileStep
<1>8. CASE Extend(t)
  <2> DEFINE r == [record[e] EXCEPT !.physical = to]
  <2>1. /\ record' = [record EXCEPT ![e] = r] /\ disk' = [disk EXCEPT ![f] = to]
        /\ truth' = [truth EXCEPT ![f] = Larger(@, end)] /\ refused' = refused \ {f}
    BY <1>2, <1>4, <1>8 DEF Extend, Granted
  <2>2. r \in SizeRecords /\ r.file = f /\ r.init /\ r.physical = to /\ r.logical = end
    BY <1>3 DEF SizeRecords, Extending, Keeps
  <2> HIDE DEF r
  <2>3. Larger(truth[f], end) = end /\ end <= to /\ (to # end => f \in Bulk)
    BY <1>3, <1>4 DEF Extending, Larger
  <2>4. truth' = [truth EXCEPT ![f] = end]
    BY <1>4, <2>1, <2>3
  <2>5. /\ disk' \in [Files -> Nat] /\ truth' \in [Files -> Nat] /\ disk'[f] = to
        /\ truth'[f] = end
        /\ \A g \in Files : g # f => truth'[g] = truth[g] /\ disk'[g] = disk[g]
    BY <1>4, <2>1, <2>4
  <2>6. \A g \in Files : g # f =>
          truth'[g] = truth[g] /\ disk'[g] = disk[g] /\ (g \in refused' <=> g \in refused)
    BY <2>1, <2>5
  <2>7. /\ r.physical = disk'[f] /\ truth'[f] <= r.logical /\ r.logical <= disk'[f]
        /\ truth'[f] <= disk'[f] /\ r.logical = truth'[f]
        /\ truth'[f] = disk'[f] \/ f \in refused' \/ f \in Bulk
    BY <2>2, <2>3, <2>5
  <2> QED
    BY <1>7, <2>1, <2>2, <2>5, <2>6, <2>7
<1>9. CASE ExtendFails(t)
  <2> DEFINE r == CutBack(record[e])
             n == IF end > disk[f] THEN disk[f] ELSE end
  <2>1. /\ record' = [record EXCEPT ![e] = r] /\ disk' = disk /\ truth' = truth /\ to = end
        /\ refused' = IF truth[f] < disk[f] THEN refused \cup {f} ELSE refused
    BY <1>2, <1>4, <1>9 DEF ExtendFails
  <2>2. r \in SizeRecords /\ r.file = f /\ r.init /\ r.physical = disk[f] /\ r.logical = n
    BY <1>3, <1>4 DEF SizeRecords, Extending, Keeps, CutBack
  <2>3. /\ n \in Nat /\ truth[f] <= n /\ n <= disk[f] /\ truth[f] <= disk[f]
        /\ truth[f] < disk[f] \/ n = truth[f]
    BY <1>3, <1>4 DEF Extending
  <2> HIDE DEF r, n
  <2>4. /\ f \notin refused' => n = truth[f]
        /\ truth[f] = disk[f] \/ f \in refused'
        /\ \A g \in Files : g # f => (g \in refused' <=> g \in refused)
    BY <1>4, <2>1, <2>3
  <2> QED
    BY <1>4, <1>7, <2>1, <2>2, <2>3, <2>4
<1> QED
  BY <1>8, <1>9

LEMMA ExtendLessStep ==
  ASSUME SizesIInv, NEW t \in SizeThreads, ExtendLess(t)
  PROVE  SizesIInv'
<1>1. /\ job[t].at = "extend" /\ job[t].to # job[t].end
      /\ UNCHANGED <<disk, truth, refused, opened, tail, record, registry, owner>>
  BY DEF ExtendLess
<1>2. PICK f \in Files, e \in Records, end \in Nat :
        f = job[t].f /\ e = job[t].e /\ end = job[t].end
  BY <1>1, LockedRecord DEF SizeJobs
<1>20. PICK j : j = [job[t] EXCEPT !.to = end]
  OBVIOUS
<1>3. job' = [job EXCEPT ![t] = j]
  BY <1>2, <1>20 DEF ExtendLess, SizesIInv, SizesTyped
<1>4. /\ job[t] \in SizeJobs /\ job[t].kind = "write" /\ Extending(f, e, end, job[t].to)
      /\ f \in opened /\ owner[e] = t
  BY <1>1, <1>2, LockedRecord DEF Promises, SizeJobs
<1>5. /\ j \in SizeJobs /\ j # NoJob /\ j.at = "extend" /\ j.kind = "write" /\ j.f = f /\ j.e = e
      /\ j.end = end /\ j.to = end
  BY <1>1, <1>2, <1>20, <1>4, NoJobIsNone DEF SizeJobs
<1>6. Extending(f, e, end, end)
  BY <1>1, <1>2, <1>4 DEF Extending
<1>7. Extending(f, e, end, end)'
  BY <1>1, <1>6 DEF Extending, Keeps
<1>8. Promises(j)'
  BY <1>1, <1>4, <1>5, <1>7 DEF Promises
<1>9. Locks(t)'
  <2>1. job'[t] = j
    BY <1>3 DEF SizesIInv, SizesTyped
  <2> QED
    BY <1>1, <1>4, <1>5, <2>1 DEF Locks
<1>10. SizesTyped' /\ RecordsApart' /\ OthersLeft(t, f)
  BY <1>1, <1>3, <1>5 DEF SizesIInv, SizesTyped, RecordsApart, OthersLeft
<1> QED
  BY <1>2, <1>3, <1>5, <1>8, <1>9, <1>10, FileStep

\* The last close gives the record away and then cuts the tail off.
LEMMA RetireRecordStep ==
  ASSUME SizesIInv, NEW t \in SizeThreads, RetireRecord(t)
  PROVE  SizesIInv'
<1>1. /\ job[t].kind = "close" /\ job[t].at = "record" /\ registry' = Nothing
      /\ owner[job[t].e] = Nothing /\ UNCHANGED <<disk, truth, refused, tail>>
  BY DEF RetireRecord, RecordLocked
<1>2. PICK f \in Files, e \in Records : f = job[t].f /\ e = job[t].e
  BY <1>1, LockedRecord
<1> DEFINE r == [record[e] EXCEPT !.file = Nothing, !.init = FALSE]
<1>3. /\ record[e].file = f /\ registry = t /\ f \in opened /\ FileQuiet(f)
      /\ record[e] \in SizeRecords
      /\ \A d \in Records : d # e => record[d].file # f
  BY <1>1, <1>2, LockedRecord, SizesAssumption DEF Promises
<1>4. disk \in [Files -> Nat] /\ truth \in [Files -> Nat] /\ opened \subseteq Files
      /\ record \in [Records -> SizeRecords] /\ RecordsApart
  BY DEF SizesIInv, SizesTyped
<1>5. r \in SizeRecords /\ r.file = Nothing /\ ~r.init
  BY <1>3 DEF SizeRecords
<1>6. record' = [record EXCEPT ![e] = r]
  BY <1>2, <1>4 DEF RetireRecord
<1> HIDE DEF r
<1>7. /\ record' \in [Records -> SizeRecords] /\ record'[e] = r
      /\ \A d \in Records : d # e => record'[d] = record[d]
  BY <1>4, <1>5, <1>6
<1>8. \A d \in Records : record'[d].file # f
  BY <1>3, <1>5, <1>7, SizesAssumption
<1>9. \A g \in Files : g # f =>
        /\ \A d \in Records : record'[d].file = g <=> record[d].file = g
        /\ \A d \in Records : record[d].file = g => record'[d] = record[d]
  BY <1>3, <1>5, <1>7, SizesAssumption
<1>10. \A d \in Records : record[d].file = Nothing => record'[d].file = Nothing
  BY <1>3, <1>7, SizesAssumption
<1>11. ASSUME opened' \subseteq Files, \A g \in Files : g # f => (g \in opened' <=> g \in opened)
       PROVE  RecordsApart'
  <2>1. \A d \in Records : record'[d].file # Nothing => d # e /\ record'[d] = record[d]
    BY <1>5, <1>7
  <2>2. \A d \in Records : record[d].file \in Files \union {Nothing}
    BY <1>4 DEF SizeRecords
  <2> QED
    BY <1>4, <1>8, <1>11, <2>1, <2>2 DEF RecordsApart
<1>12. record[e].init => /\ record[e].physical = disk[f] /\ truth[f] <= record[e].logical
                         /\ record[e].logical <= disk[f] /\ record[e].logical \in Nat
                         /\ f \notin refused => record[e].logical = truth[f]
  BY <1>3 DEF FileQuiet, Keeps, SizeRecords
<1>13. truth[f] <= disk[f] /\ truth[f] \in Nat /\ disk[f] \in Nat
  BY <1>3, <1>4 DEF FileQuiet
<1>14. CASE ~NeedsTrim(record[e])
  <2>1. Closed(f) /\ JobDone(t) /\ UNCHANGED owner
    BY <1>2, <1>14 DEF RetireRecord
  <2>2. truth[f] = disk[f] \/ f \in refused
    <3>1. CASE record[e].init
      BY <1>12, <1>13, <1>14, <3>1 DEF NeedsTrim
    <3>2. CASE ~record[e].init
      BY <1>3, <3>2 DEF FileQuiet, Keeps
    <3> QED
      BY <3>1, <3>2
  <2>3. FileQuiet(f)'
    BY <1>1, <1>8, <1>13, <2>2 DEF FileQuiet, Keeps
  <2>4. opened' \subseteq Files /\ \A g \in Files : g # f => (g \in opened' <=> g \in opened)
    BY <1>4, <2>1 DEF Closed
  <2>5. RecordsApart'
    BY <1>11, <2>4
  <2> QED
    BY <1>1, <1>2, <1>3, <1>4, <1>7, <1>9, <1>10, <2>1, <2>3, <2>4, <2>5, CallEnds
<1>15. CASE NeedsTrim(record[e])
  <2>0. PICK to \in Nat : to = record[e].logical
    BY <1>3 DEF SizeRecords
  <2>1. PICK j : j = [job[t] EXCEPT !.at = "trim", !.to = to]
    OBVIOUS
  <2>2. /\ job' = [job EXCEPT ![t] = j] /\ owner' = [owner EXCEPT ![e] = t] /\ UNCHANGED opened
    BY <1>2, <1>15, <2>0, <2>1 DEF RetireRecord, SizesIInv, SizesTyped
  <2>3. job[t] \in SizeJobs
    BY <1>1, LockedRecord
  <2>4. /\ j \in SizeJobs /\ j # NoJob /\ j.at = "trim" /\ j.kind = "close" /\ j.f = f /\ j.e = e
        /\ j.to = to
    BY <1>1, <1>2, <2>1, <2>3, NoJobIsNone DEF SizeJobs
  <2>5. truth[f] <= to /\ to <= disk[f] /\ (f \notin refused => to = truth[f])
    BY <1>12, <1>15, <2>0 DEF NeedsTrim
  <2>6. Trimming(f, e, to)'
    BY <1>1, <1>5, <1>7, <1>8, <1>13, <2>5 DEF Trimming
  <2>7. Promises(j)'
    BY <1>3, <2>2, <2>4, <2>6 DEF Promises
  <2>8. owner'[e] = t /\ \A d \in Records : d # e => owner'[d] = owner[d]
    BY <2>2 DEF SizesIInv, SizesTyped
  <2>9. Locks(t)'
    <3>1. job'[t] = j
      BY <2>2 DEF SizesIInv, SizesTyped
    <3> QED
      BY <2>4, <2>8, <3>1 DEF Locks
  <2>10. SizesTyped'
    <3>1. DOMAIN owner' = Records /\ owner' = [d \in Records |-> owner'[d]]
      BY <2>2 DEF SizesIInv, SizesTyped
    <3> QED
      BY <1>1, <1>4, <1>7, <2>2, <2>4, <3>1 DEF SizesIInv, SizesTyped
  <2>11. \A d \in Records : owner[d] \in SizeThreads \ {t} => owner'[d] = owner[d]
    BY <1>1, <1>2, <2>8, SizesAssumption
  <2>12. OthersLeft(t, f)
    BY <1>1, <1>3, <1>9, <1>10, <2>2, <2>11 DEF OthersLeft
  <2>13. RecordsApart'
    BY <1>4, <1>11, <2>2
  <2> QED
    BY <1>2, <2>2, <2>4, <2>7, <2>9, <2>10, <2>12, <2>13, FileStep
<1> QED
  BY <1>14, <1>15

\* The tail is cut off, or the file system refuses to; the record's fields are free already.
LEMMA TrimStep ==
  ASSUME SizesIInv, NEW t \in SizeThreads, Trim(t)
  PROVE  SizesIInv'
<1>1. job[t].at = "trim" /\ UNCHANGED <<truth, refused, registry>>
  BY DEF Trim
<1>2. PICK f \in Files, e \in Records : f = job[t].f /\ e = job[t].e
  BY <1>1, LockedRecord
<1>3. job[t] \in SizeJobs /\ Promises(job[t]) /\ owner[e] = t
  BY <1>1, <1>2, LockedRecord
<1>4. PICK to \in Nat : to = job[t].to /\ Trimming(f, e, to)
  BY <1>1, <1>2, <1>3 DEF Promises, SizeJobs
<1>5. disk \in [Files -> Nat] /\ truth \in [Files -> Nat] /\ opened \subseteq Files
      /\ record \in [Records -> SizeRecords] /\ RecordsApart
  BY DEF SizesIInv, SizesTyped
<1>6. /\ owner' = [owner EXCEPT ![e] = Nothing] /\ opened' = opened \ {f}
      /\ job' = [job EXCEPT ![t] = NoJob] /\ job[t].f = f
  BY <1>2 DEF Trim, Closed, JobDone
<1>7. \/ /\ disk' = [disk EXCEPT ![f] = to] /\ UNCHANGED tail
         /\ record' = [record EXCEPT ![e].physical = to]
      \/ tail' = tail \cup {f} /\ UNCHANGED <<disk, record>>
  BY <1>2, <1>4 DEF Trim
<1>8. disk' \in [Files -> Nat] /\ \A g \in Files : g # f => disk'[g] = disk[g]
  BY <1>4, <1>5, <1>7
<1>9. /\ record' \in [Records -> SizeRecords]
      /\ \A d \in Records : d # e => record'[d] = record[d]
      /\ record'[e].file = Nothing
  <2>1. record[e] \in SizeRecords /\ record[e].file = Nothing
    BY <1>4, <1>5 DEF Trimming
  <2> DEFINE r == [record[e] EXCEPT !.physical = to]
  <2>2. r \in SizeRecords /\ r.file = Nothing
    BY <1>5, <2>1 DEF SizeRecords
  <2>3. record' = [record EXCEPT ![e] = r] \/ record' = record
    BY <1>5, <1>7
  <2> HIDE DEF r
  <2> QED
    BY <1>5, <2>1, <2>2, <2>3
<1>10. \A d \in Records : record'[d].file = record[d].file
  BY <1>4, <1>9 DEF Trimming
<1>11. \A d \in Records : record[d].file # f
  BY <1>4 DEF Trimming
<1>12. RecordsApart'
  <2>1. \A d \in Records : record'[d].file \in opened' \union {Nothing}
    BY <1>5, <1>6, <1>10, <1>11 DEF RecordsApart
  <2>2. \A d, c \in Records : record'[d].file = record'[c].file /\ d # c => record'[d].file = Nothing
    BY <1>5, <1>10 DEF RecordsApart
  <2> QED
    BY <2>1, <2>2 DEF RecordsApart
<1>13. FileQuiet(f)'
  <2>1. /\ truth'[f] = truth[f] /\ truth[f] <= to /\ to <= disk[f]
        /\ truth[f] \in Nat /\ disk[f] \in Nat /\ (f \notin refused => to = truth[f])
    BY <1>1, <1>4, <1>5 DEF Trimming
  <2>2. disk'[f] = to \/ (disk'[f] = disk[f] /\ f \in tail' \ opened')
    BY <1>5, <1>6, <1>7
  <2>3. \A d \in Records : ~Keeps(d, f)'
    BY <1>10, <1>11 DEF Keeps
  <2> QED
    BY <1>1, <2>1, <2>2, <2>3 DEF FileQuiet
<1>14. /\ \A g \in Files : g # f =>
            /\ truth'[g] = truth[g] /\ disk'[g] = disk[g]
            /\ g \in refused' <=> g \in refused
            /\ g \in tail' <=> g \in tail
            /\ g \in opened' <=> g \in opened
            /\ \A d \in Records : record'[d].file = g <=> record[d].file = g
            /\ \A d \in Records : record[d].file = g => record'[d] = record[d]
  <2>1. \A g \in Files : g # Nothing
    BY SizesAssumption
  <2>2. \A g \in Files : g # f => (g \in tail' <=> g \in tail)
    BY <1>7
  <2>3. record[e].file = Nothing
    BY <1>4 DEF Trimming
  <2> QED
    BY <1>1, <1>6, <1>8, <1>9, <1>10, <2>1, <2>2, <2>3
<1>15. \A d \in Records : owner[d] \in SizeThreads \ {t} => owner'[d] = owner[d]
  BY <1>3, <1>6 DEF SizesIInv, SizesTyped
<1>16. OthersLeft(t, f)
  BY <1>1, <1>10, <1>14, <1>15 DEF OthersLeft
<1>17. SizesTyped'
  <2>1. DOMAIN owner' = Records /\ owner' = [d \in Records |-> owner'[d]]
    BY <1>6 DEF SizesIInv, SizesTyped
  <2>2. truth' \in [Files -> Nat] /\ opened' \subseteq Files
    BY <1>1, <1>5, <1>6
  <2> QED
    BY <1>6, <1>8, <1>9, <2>1, <2>2 DEF SizesIInv, SizesTyped
<1> QED
  BY <1>6, <1>12, <1>13, <1>16, <1>17, FileStep

\* A file that no call is on is removed.
LEMMA RemoveFileStep ==
  ASSUME SizesIInv, NEW f \in Files, RemoveFile(f)
  PROVE  SizesIInv'
<1>1. /\ f \notin opened /\ ~Busy(f) /\ UNCHANGED <<opened, record, registry, owner, job>>
      /\ disk' = [disk EXCEPT ![f] = 0] /\ truth' = [truth EXCEPT ![f] = 0]
      /\ refused' = refused \ {f} /\ tail' = tail \ {f}
  BY DEF RemoveFile
<1>2. SizesTyped /\ RecordsApart
  BY DEF SizesIInv
<1>3. /\ disk' \in [Files -> Nat] /\ truth' \in [Files -> Nat] /\ disk'[f] = 0 /\ truth'[f] = 0
      /\ \A g \in Files : g # f =>
           /\ truth'[g] = truth[g] /\ disk'[g] = disk[g]
           /\ g \in refused' <=> g \in refused
           /\ g \in tail' <=> g \in tail
  BY <1>1, <1>2 DEF SizesTyped
<1>4. SizesTyped' /\ RecordsApart'
  BY <1>1, <1>2, <1>3 DEF SizesTyped, RecordsApart
<1>5. \A t, u \in SizeThreads : t # u /\ job'[t].f = job'[u].f => job'[t].f = Nothing
  BY <1>1 DEF SizesIInv
<1>6. ASSUME NEW u \in SizeThreads, NEW k, k = job'[u], k # NoJob
      PROVE  Promises(k)' /\ Locks(u)'
  <2>1. k = job[u] /\ k \in SizeJobs /\ k.f \in Files /\ k.f # f
    BY <1>1, <1>6, BusyWith DEF Busy
  <2>2. Promises(k) /\ Locks(u)
    BY <1>6, <2>1 DEF SizesIInv
  <2>3. k.at = "trim" => k.e \in Records /\ record[k.e].file = Nothing
    BY <2>1, <2>2 DEF Promises, Locks, Trimming, SizeJobs
  <2>4. Promises(k)'
    BY <1>1, <1>3, <1>6, <2>1, <2>3, PromisesStay
  <2>5. Locks(u)'
    BY <1>1, <2>2 DEF Locks
  <2> QED
    BY <2>4, <2>5
<1>7. ASSUME NEW g \in Files, ~Busy(g)' PROVE FileQuiet(g)'
  <2>1. ~Busy(g)
    BY <1>1, <1>7 DEF Busy
  <2>2. FileQuiet(g)
    BY <2>1 DEF SizesIInv
  <2>3. CASE g # f
    BY <1>1, <1>3, <2>2, <2>3, QuietStays
  <2>4. CASE g = f
    <3>1. \A d \in Records : ~Keeps(d, f)'
      BY <1>1, <1>2, SizesAssumption DEF Keeps, RecordsApart
    <3> QED
      BY <1>3, <2>4, <3>1 DEF FileQuiet
  <2> QED
    BY <2>3, <2>4
<1>8. \A u \in SizeThreads : job'[u] # NoJob => (Promises(job[u]) /\ Locks(u))'
  BY <1>6
<1> QED
  BY <1>4, <1>5, <1>7, <1>8 DEF SizesIInv

LEMMA SizesInitial == SizesInit => SizesIInv
<1> SUFFICES ASSUME SizesInit PROVE SizesIInv
  OBVIOUS
<1>1. \A e \in Records : record[e] = UnusedRecord
  BY DEF SizesInit
<1>2. UnusedRecord \in SizeRecords /\ UnusedRecord.file = Nothing
  BY DEF UnusedRecord, SizeRecords
<1>3. record \in [Records -> SizeRecords]
  BY <1>2 DEF SizesInit
<1>4. SizesTyped
  BY <1>3 DEF SizesInit, SizesTyped
<1>5. RecordsApart
  BY <1>1, <1>2 DEF RecordsApart
<1>6. \A t \in SizeThreads : job[t] = NoJob /\ job[t].f = Nothing
  BY NoJobIsNone DEF SizesInit
<1>7. ASSUME NEW f \in Files PROVE FileQuiet(f)
  <2>1. \A e \in Records : ~Keeps(e, f)
    BY <1>1, <1>2, SizesAssumption DEF Keeps
  <2>2. truth[f] = 0 /\ disk[f] = 0
    BY DEF SizesInit
  <2> QED
    BY <2>1, <2>2 DEF FileQuiet
<1> QED
  BY <1>4, <1>5, <1>6, <1>7 DEF SizesIInv

LEMMA SizesNextKeeps == SizesIInv /\ [SizesNext]_sizeVars => SizesIInv'
<1> SUFFICES ASSUME SizesIInv, [SizesNext]_sizeVars PROVE SizesIInv'
  OBVIOUS
<1>1. ASSUME NEW t \in SizeThreads, CallJob(t) \/ LookUp(t) \/ OpenRecord(t) \/ NoteTruncate(t)
      PROVE  SizesIInv'
  BY <1>1, CallStep, LookUpStep, OpenRecordStep, NoteTruncateStep
<1>2. ASSUME NEW t \in SizeThreads,
             PrepareWrite(t) \/ Extend(t) \/ ExtendLess(t) \/ ExtendFails(t)
      PROVE  SizesIInv'
  BY <1>2, PrepareWriteStep, ExtendStep, ExtendLessStep
<1>3. ASSUME NEW t \in SizeThreads, RetireRecord(t) \/ Trim(t)
      PROVE  SizesIInv'
  BY <1>3, RetireRecordStep, TrimStep
<1>4. ASSUME NEW f \in Files, RemoveFile(f) PROVE SizesIInv'
  BY <1>4, RemoveFileStep
<1>5. CASE UNCHANGED sizeVars
  BY <1>5 DEF sizeVars, SizesIInv, SizesTyped, RecordsApart, Promises, Locks, FileQuiet, Keeps,
              Extending, Trimming, Busy
<1> QED
  BY <1>1, <1>2, <1>3, <1>4, <1>5 DEF SizesNext

LEMMA SizesFollow == SizesIInv => SizesTrue
<1> SUFFICES ASSUME SizesIInv PROVE SizesTrue
  OBVIOUS
<1>1. ASSUME NEW e \in Records, Resting(e), NEW f, f = record[e].file
      PROVE  /\ record[e].physical = disk[f] /\ RecordOf(f) = {e}
             /\ truth[f] <= record[e].logical /\ record[e].logical <= disk[f]
             /\ f \notin refused => record[e].logical = truth[f]
  <2>1. f \in Files /\ ~Busy(f) /\ record[e].init
    BY <1>1 DEF Resting, SizesIInv, SizesTyped, SizeRecords
  <2>2. FileQuiet(f) /\ Keeps(e, f)
    BY <1>1, <2>1 DEF SizesIInv, Keeps
  <2>3. RecordOf(f) = {e}
    BY <1>1, <2>1, SizesAssumption DEF RecordOf, SizesIInv, RecordsApart
  <2> QED
    BY <2>2, <2>3 DEF FileQuiet
<1>2. ASSUME NEW f \in Files, f \notin opened \cup tail, ~Busy(f)
      PROVE  truth[f] <= disk[f] /\ (f \notin refused => disk[f] = truth[f])
  <2>1. FileQuiet(f)
    BY <1>2 DEF SizesIInv
  <2>2. \A e \in Records : ~Keeps(e, f)
    BY <1>2, SizesAssumption DEF SizesIInv, RecordsApart, Keeps
  <2> QED
    BY <1>2, <2>1, <2>2 DEF FileQuiet
<1> QED
  BY <1>1, <1>2 DEF SizesTrue

(* Between calls a record tells the size that the game's successful writes   *)
(* gave its file and the size on disk, no file has two records, and only a   *)
(* refused cut leaves a closed file longer than that; an extension refused   *)
(* behind a preallocated tail adds at most that tail, until one is granted   *)
(* (nx_file_io_prepare_write, nx_file_io_note_truncate,                      *)
(* nx_file_io_finalize_fd).                                                  *)
THEOREM SizeSafety == SizesSpec => []SizesTrue
<1>1. SizesSpec => []SizesIInv
  BY SizesInitial, SizesNextKeeps, PTL DEF SizesSpec
<1> QED
  BY <1>1, SizesFollow, PTL

-----------------------------------------------------------------------------
(***************************************************************************)
(* 5. The game's assets.  While a start builds a pair the extracted files  *)
(* are all there; once it removes them the pair is complete and verified,  *)
(* and nothing derived from another release is left.                       *)
(***************************************************************************)

Building  == {"build", "index", "verify", "unlink pack", "unlink index", "rename pack",
              "rename index", "open"}
Installed == {"refresh", "version", "clean", "game"}

\* A pack that this start has written from the extracted files.
Written(p) ==
  p # Missing /\ p.id # 0 /\ p.client = client /\ p.build = library /\ p.files = loose.files
IndexOf(p, i) == i # Missing /\ i.client = client /\ i.id = p.id

\* What each step of a start has made so far.
StartSound ==
  /\ start \in {"off"} \union Building \union Installed
  /\ start # "off" => library # 0
  /\ start \in Building => rebuilt /\ Staged
  /\ start \in Installed /\ ~rebuilt => ~Staged
  /\ start \in Building \ {"build", "rename index", "open"} => Written(newPack)
  /\ start \in {"verify", "unlink pack", "unlink index", "rename pack"} =>
       IndexOf(newPack, newIndex)
  /\ start \in {"unlink pack", "unlink index", "rename pack"} => newPack.good
  /\ start \in {"rename index", "open"} => Written(pack) /\ pack.good
  /\ start = "rename index" => IndexOf(pack, newIndex)
  /\ start = "open" => IndexOf(pack, packIndex)

MetadataFits == \A m \in MetaFiles : metadata[m] \in {0, Cut, library}
FilesWhole   == loose.files = AssetFiles

\* Where the release is, unless a removal was cut short.
ReleaseKept ==
  /\ library # 0 => FilesWhole \/ (Complete(pack, packIndex) /\ MetadataFits)
  /\ library # 0 /\ Staged /\ start # "clean" => FilesWhole
  /\ start \in Installed /\ rebuilt => Complete(pack, packIndex)
  /\ start \in {"version", "clean", "game"} => MetadataFits
  /\ start = "game" /\ rebuilt => loose.files = {}

DataIInv ==
  /\ library \in Nat /\ packs \in Nat /\ loose.build = library /\ loose.files \subseteq AssetFiles
  /\ DOMAIN loose = {"build", "files"}
  /\ metadata = [m \in MetaFiles |-> metadata[m]]
  /\ half \in BOOLEAN
  /\ StartSound
  /\ ~half => ReleaseKept

LEMMA DataInitial == DataInit => DataIInv
<1> SUFFICES ASSUME DataInit PROVE DataIInv
  OBVIOUS
<1>1. /\ library = 0 /\ packs = 0 /\ half = FALSE /\ start = "off"
      /\ metadata = [m \in MetaFiles |-> 0]
      /\ loose.build = 0 /\ loose.files = {} /\ DOMAIN loose = {"build", "files"}
  BY DEF DataInit, NoFiles
<1>2. StartSound
  BY <1>1 DEF StartSound, Building, Installed
<1>3. ReleaseKept
  BY <1>1 DEF ReleaseKept, Installed
<1>4. metadata = [m \in MetaFiles |-> metadata[m]]
  BY <1>1
<1> QED
  BY <1>1, <1>2, <1>3, <1>4 DEF DataIInv

LEMMA StageKeeps ==
  ASSUME DataIInv, NEW b \in Builds, Stage(b)
  PROVE  DataIInv'
<1>1. /\ start = "off" /\ start' = "off" /\ b > library /\ library' = b /\ half' = FALSE
      /\ loose' = [build |-> b, files |-> AssetFiles]
      /\ UNCHANGED <<card, derivedFiles, rebuilt, packs>>
  BY DEF Stage
<1>2. library' \in Nat /\ packs' \in Nat /\ loose'.build = library' /\ loose'.files = AssetFiles
      /\ DOMAIN loose' = {"build", "files"} /\ metadata' = metadata
  BY <1>1, DataAssumption DEF DataIInv, derivedFiles
<1>3. StartSound'
  BY <1>1 DEF StartSound, Building, Installed
<1>4. ReleaseKept'
  BY <1>1, <1>2 DEF ReleaseKept, FilesWhole, Installed
<1> QED
  BY <1>1, <1>2, <1>3, <1>4 DEF DataIInv

\* A step that writes neither the extracted files nor the metadata.
LEMMA CardStep ==
  ASSUME DataIInv, UNCHANGED <<staged, metadata, half>>, packs' \in Nat, StartSound',
         ~half => ReleaseKept'
  PROVE  DataIInv'
BY DEF DataIInv, staged

LEMMA BeginStartKeeps ==
  ASSUME DataIInv, BeginStart
  PROVE  DataIInv'
<1>1. /\ start = "off" /\ LibraryFits /\ UNCHANGED <<staged, card, derivedFiles, packs, half>>
      /\ \/ ~Staged /\ PairOpens(pack, packIndex) /\ rebuilt' = FALSE /\ start' = "refresh"
         \/ Staged /\ rebuilt' = TRUE /\ start' = "build"
  <2>1. Staged \/ PairOpens(pack, packIndex)
    BY DataAssumption DEF BeginStart, Checked, Staged
  <2> QED
    BY <2>1 DEF BeginStart
<1>2. StartSound'
  BY <1>1 DEF StartSound, Building, Installed, Staged, staged, LibraryFits
<1>3. ~half => ReleaseKept'
  BY <1>1 DEF DataIInv, ReleaseKept, Installed, Staged, staged, card, derivedFiles, LibraryFits,
     FilesWhole, MetadataFits, Complete, PairOpens
<1> QED
  BY <1>1, <1>2, <1>3, CardStep DEF DataIInv, derivedFiles

LEMMA WritePackKeeps ==
  ASSUME DataIInv, WritePack
  PROVE  DataIInv'
<1>1. PICK good \in BOOLEAN :
        /\ start = "build" /\ start' = "index" /\ packs' = packs + 1
        /\ newPack' = [id |-> packs + 1, client |-> client, build |-> loose.build,
                       files |-> loose.files, good |-> good]
        /\ UNCHANGED <<staged, derivedFiles, pack, packIndex, rebuilt, half>>
  BY DEF WritePack, Collected
<1>2. /\ packs' \in Nat /\ newPack'.id = packs + 1 /\ newPack'.id # 0
      /\ newPack'.client = client /\ newPack'.build = library /\ newPack'.files = loose.files
  BY <1>1 DEF DataIInv
<1>3. Written(newPack)'
  <2>1. newPack' # Missing
    BY <1>2 DEF Missing
  <2> QED
    BY <1>1, <1>2, <2>1 DEF Written, staged
<1>4. StartSound'
  BY <1>1, <1>3 DEF DataIInv, StartSound, Building, Installed, Staged, staged
<1>5. ~half => ReleaseKept'
  BY <1>1 DEF DataIInv, ReleaseKept, Installed, Staged, staged, derivedFiles, FilesWhole,
     MetadataFits, Complete, PairOpens
<1> QED
  BY <1>1, <1>2, <1>4, <1>5, CardStep DEF derivedFiles

LEMMA WriteIndexKeeps ==
  ASSUME DataIInv, WriteIndex
  PROVE  DataIInv'
<1>1. /\ start = "index" /\ start' = "verify" /\ Written(newPack)
      /\ newIndex' = [id |-> newPack.id, client |-> client]
      /\ UNCHANGED <<staged, derivedFiles, pack, packIndex, newPack, rebuilt, packs, half>>
  BY DEF WriteIndex, GotoStage, DataIInv, StartSound, Building
<1>2. IndexOf(newPack, newIndex)' /\ Written(newPack)'
  <2>1. newIndex'.id = newPack.id /\ newIndex'.client = client
    BY <1>1
  <2>2. newIndex' # Missing
    BY <1>1, <2>1 DEF Missing, Written
  <2> QED
    BY <1>1, <2>1, <2>2 DEF IndexOf, Written, staged
<1>3. StartSound'
  BY <1>1, <1>2 DEF DataIInv, StartSound, Building, Installed, Staged, staged
<1>4. ~half => ReleaseKept'
  BY <1>1 DEF DataIInv, ReleaseKept, Installed, Staged, staged, derivedFiles, FilesWhole,
     MetadataFits, Complete, PairOpens
<1> QED
  BY <1>1, <1>3, <1>4, CardStep DEF DataIInv, derivedFiles

\* The start ends while the extracted files are there.
LEMMA BuildEnds ==
  ASSUME DataIInv, start \in Building, start' = "off",
         UNCHANGED <<staged, metadata, rebuilt, packs, half>>
  PROVE  DataIInv'
<1>1. StartSound'
  BY DEF StartSound, Building, Installed
<1>2. start # "clean" /\ Staged /\ library # 0
  BY DEF DataIInv, StartSound, Building
<1>3. ~half => FilesWhole
  BY <1>2 DEF DataIInv, ReleaseKept
<1>4. ~half => ReleaseKept'
  BY <1>2, <1>3 DEF ReleaseKept, FilesWhole, Installed, staged
<1> QED
  BY <1>1, <1>4, CardStep DEF DataIInv

\* A build goes on, with the files that make up a pair under their names so far.
LEMMA BuildGoesOn ==
  ASSUME DataIInv, start \in Building, start' \in Building,
         UNCHANGED <<staged, metadata, rebuilt, packs, half>>, StartSound'
  PROVE  DataIInv'
<1>1. start # "clean" /\ Staged /\ library # 0
  BY DEF DataIInv, StartSound, Building
<1>2. ~half => FilesWhole
  BY <1>1 DEF DataIInv, ReleaseKept
<1>3. ~half => ReleaseKept'
  BY <1>1, <1>2 DEF ReleaseKept, FilesWhole, Building, Installed, staged
<1> QED
  BY <1>3, CardStep DEF DataIInv

LEMMA VerifyKeeps ==
  ASSUME DataIInv, Verify
  PROVE  DataIInv'
<1>1. /\ start = "verify" /\ Written(newPack) /\ IndexOf(newPack, newIndex) /\ rebuilt /\ Staged
      /\ UNCHANGED <<staged, derivedFiles, rebuilt, packs, half>>
      /\ \/ start' = "off"
         \/ newPack.good /\ start' = "unlink pack" /\ UNCHANGED card
  BY DEF Verify, FailBuild, GotoStage, DataIInv, StartSound, Building
<1>2. CASE start' = "off"
  BY <1>1, <1>2, BuildEnds DEF Building, derivedFiles
<1>3. CASE newPack.good /\ start' = "unlink pack" /\ UNCHANGED card
  <2>1. StartSound'
    BY <1>1, <1>3 DEF DataIInv, StartSound, Building, Installed, Staged, staged, card, Written, IndexOf
  <2> QED
    BY <1>1, <1>3, <2>1, BuildGoesOn DEF Building, derivedFiles
<1> QED
  BY <1>1, <1>2, <1>3

LEMMA UnlinksKeep ==
  ASSUME DataIInv, UnlinkPack \/ UnlinkIndex
  PROVE  DataIInv'
<1>1. /\ start \in {"unlink pack", "unlink index"} /\ Written(newPack) /\ newPack.good
      /\ IndexOf(newPack, newIndex) /\ rebuilt /\ Staged
      /\ UNCHANGED <<staged, derivedFiles, rebuilt, packs, half, newPack, newIndex>>
      /\ start' \in {"unlink index", "rename pack"}
  BY DEF UnlinkPack, UnlinkIndex, GotoStage, DataIInv, StartSound, Building
<1>2. StartSound'
  BY <1>1 DEF DataIInv, StartSound, Building, Installed, Staged, staged, Written, IndexOf
<1> QED
  BY <1>1, <1>2, BuildGoesOn DEF Building, derivedFiles

LEMMA RenamesKeep ==
  ASSUME DataIInv, RenamePack \/ RenameIndex
  PROVE  DataIInv'
<1>1. /\ start \in {"rename pack", "rename index"} /\ rebuilt /\ Staged
      /\ UNCHANGED <<staged, derivedFiles, rebuilt, packs, half>>
      /\ \/ start' = "off"
         \/ start = "rename pack" /\ start' = "rename index" /\ pack' = newPack
              /\ UNCHANGED <<packIndex, newIndex>>
         \/ start = "rename index" /\ start' = "open" /\ packIndex' = newIndex
              /\ UNCHANGED <<pack, newPack>>
  BY DEF RenamePack, RenameIndex, FailBuild, GotoStage, DataIInv, StartSound, Building
<1>2. CASE start' = "off"
  BY <1>1, <1>2, BuildEnds DEF Building, derivedFiles
<1>3. CASE start = "rename pack" /\ start' = "rename index" /\ pack' = newPack
           /\ UNCHANGED <<packIndex, newIndex>>
  <2>1. Written(newPack) /\ newPack.good /\ IndexOf(newPack, newIndex)
    BY <1>3 DEF DataIInv, StartSound, Building
  <2>2. StartSound'
    BY <1>1, <1>3, <2>1 DEF DataIInv, StartSound, Building, Installed, Staged, staged, Written, IndexOf
  <2> QED
    BY <1>1, <1>3, <2>2, BuildGoesOn DEF Building, derivedFiles
<1>4. CASE start = "rename index" /\ start' = "open" /\ packIndex' = newIndex
           /\ UNCHANGED <<pack, newPack>>
  <2>1. Written(pack) /\ pack.good /\ IndexOf(pack, newIndex)
    BY <1>4 DEF DataIInv, StartSound, Building
  <2>2. StartSound'
    BY <1>1, <1>4, <2>1 DEF DataIInv, StartSound, Building, Installed, Staged, staged, Written, IndexOf
  <2> QED
    BY <1>1, <1>4, <2>2, BuildGoesOn DEF Building, derivedFiles
<1> QED
  BY <1>1, <1>2, <1>3, <1>4

LEMMA AbandonBuildKeeps ==
  ASSUME DataIInv, AbandonBuild
  PROVE  DataIInv'
<1>1. /\ start \in Building /\ start' = "off"
      /\ UNCHANGED <<staged, derivedFiles, rebuilt, packs, half>>
  BY DEF AbandonBuild, FailBuild, GotoStage, Building
<1> QED
  BY <1>1, BuildEnds DEF derivedFiles

LEMMA OpenExistingKeeps ==
  ASSUME DataIInv, OpenExisting
  PROVE  DataIInv'
<1>1. /\ start = "open" /\ rebuilt /\ Staged /\ library # 0 /\ Written(pack) /\ pack.good
      /\ IndexOf(pack, packIndex)
      /\ UNCHANGED <<staged, card, derivedFiles, rebuilt, packs, half>>
      /\ start' \in {"refresh", "off"}
  BY DEF OpenExisting, GotoStage, DataIInv, StartSound, Building
<1>2. CASE start' = "off"
  BY <1>1, <1>2, BuildEnds DEF Building, derivedFiles
<1>3. CASE start' = "refresh"
  <2>1. StartSound'
    BY <1>1, <1>3 DEF DataIInv, StartSound, Building, Installed, Staged, staged
  <2>2. ~half => FilesWhole /\ Complete(pack, packIndex)
    BY <1>1 DEF DataIInv, ReleaseKept, FilesWhole, Complete, PairOpens, Written, IndexOf
  <2>3. ~half => ReleaseKept'
    BY <1>1, <1>3, <2>2 DEF ReleaseKept, FilesWhole, Complete, PairOpens, Installed, Staged, staged, card
  <2> QED
    BY <1>1, <2>1, <2>3, CardStep DEF DataIInv, derivedFiles
<1> QED
  BY <1>1, <1>2, <1>3

\* What the game derived from older assets goes, one file after the other.
LEMMA RefreshKeeps ==
  ASSUME DataIInv, Refresh
  PROVE  DataIInv'
<1>1. start = "refresh" /\ UNCHANGED <<staged, card, versionFile, rebuilt, packs, half>>
  BY DEF Refresh
<1>2. metadata = [m \in MetaFiles |-> metadata[m]]
  BY DEF DataIInv
<1>3. \/ \E m \in MetaFiles : metadata' = [metadata EXCEPT ![m] = 0] /\ start' = start
      \/ UNCHANGED metadata /\ start' \in {"version", "clean"}
           /\ (~rebuilt \/ \A m \in MetaFiles : metadata[m] = 0)
  BY DEF Refresh, Stale
<1>4. start' \in {"refresh", "version", "clean"}
  BY <1>1, <1>3
<1>5. StartSound'
  BY <1>1, <1>4 DEF DataIInv, StartSound, Building, Installed, Staged, staged
<1>6. metadata' = [m \in MetaFiles |-> metadata'[m]]
      /\ \A m \in MetaFiles : metadata'[m] \in {0, metadata[m]}
  BY <1>2, <1>3
<1>7. MetadataFits => MetadataFits'
  BY <1>1, <1>6 DEF MetadataFits, staged
<1>8. ASSUME ~half, start' \in {"version", "clean"} PROVE MetadataFits'
  <2>1. CASE \A m \in MetaFiles : metadata[m] = 0
    BY <1>6, <2>1 DEF MetadataFits
  <2>2. CASE ~rebuilt
    <3>1. library # 0 /\ ~FilesWhole
      BY <1>1, <2>2, DataAssumption DEF DataIInv, StartSound, Building, Installed, Staged, FilesWhole
    <3> QED
      BY <1>7, <1>8, <3>1 DEF DataIInv, ReleaseKept
  <2> QED
    BY <1>1, <1>3, <1>8, <2>1, <2>2
<1>9. ~half => ReleaseKept'
  <2>1. Complete(pack, packIndex) => Complete(pack, packIndex)'
    BY <1>1 DEF Complete, PairOpens, staged, card
  <2>2. UNCHANGED <<library, loose, rebuilt>> /\ (FilesWhole <=> FilesWhole') /\ (Staged <=> Staged')
    BY <1>1 DEF staged, FilesWhole, Staged
  <2> QED
    BY <1>1, <1>4, <1>7, <1>8, <2>1, <2>2 DEF DataIInv, ReleaseKept, Installed
<1> QED
  BY <1>1, <1>5, <1>6, <1>9 DEF DataIInv, staged

LEMMA UpdateVersionKeeps ==
  ASSUME DataIInv, UpdateVersion
  PROVE  DataIInv'
<1>1. /\ start = "version" /\ start' \in {"version", "clean"}
      /\ UNCHANGED <<staged, card, metadata, rebuilt, packs, half>>
  BY DEF UpdateVersion, GotoStage
<1>2. StartSound'
  BY <1>1 DEF DataIInv, StartSound, Building, Installed, Staged, staged
<1>3. ~half => ReleaseKept'
  BY <1>1 DEF DataIInv, ReleaseKept, Installed, Staged, staged, card, FilesWhole, MetadataFits,
     Complete, PairOpens
<1> QED
  BY <1>1, <1>2, <1>3, CardStep DEF DataIInv

\* The extracted files go once the pair is there.
LEMMA CleanKeeps ==
  ASSUME DataIInv, Clean
  PROVE  DataIInv'
<1>1. start = "clean" /\ UNCHANGED <<client, library, card, versionFile, rebuilt, packs, half>>
  BY DEF Clean
<1>2. CASE rebuilt /\ loose.files # {}
  <2>1. PICK f \in loose.files : loose' = [loose EXCEPT !.files = loose.files \ {f}]
    BY <1>2 DEF Clean
  <2>2. UNCHANGED <<metadata, start>>
    BY <1>2 DEF Clean
  <2>3. /\ loose'.build = loose.build /\ loose'.files = loose.files \ {f}
        /\ DOMAIN loose' = {"build", "files"}
    BY <2>1 DEF DataIInv
  <2>4. StartSound'
    BY <1>1, <1>2, <2>2 DEF DataIInv, StartSound, Building, Installed
  <2>5. ASSUME ~half PROVE ReleaseKept'
    <3>1. Complete(pack, packIndex)' /\ MetadataFits'
      BY <1>1, <1>2, <2>2, <2>5 DEF DataIInv, ReleaseKept, Installed, Complete, PairOpens, card, MetadataFits
    <3> QED
      BY <1>1, <2>2, <3>1 DEF ReleaseKept
  <2> QED
    BY <1>1, <2>2, <2>3, <2>4, <2>5 DEF DataIInv
<1>3. CASE ~(rebuilt /\ loose.files # {})
  <2>1. /\ metadata' = [m \in MetaFiles |-> IF metadata[m] = Cut THEN 0 ELSE metadata[m]]
        /\ start' = "game" /\ UNCHANGED loose
    BY <1>3 DEF Clean
  <2>2. StartSound'
    BY <1>1, <2>1 DEF DataIInv, StartSound, Building, Installed, Staged
  <2>3. metadata' = [m \in MetaFiles |-> metadata'[m]]
    BY <2>1
  <2>4. ASSUME ~half PROVE ReleaseKept'
    <3>1. MetadataFits'
      BY <1>1, <2>1, <2>4 DEF DataIInv, ReleaseKept, MetadataFits
    <3>2. Complete(pack, packIndex) => Complete(pack, packIndex)'
      BY <1>1 DEF Complete, PairOpens, card
    <3>3. library # 0 /\ (rebuilt => ~Staged) /\ (~rebuilt => ~Staged)
      BY <1>1, <1>3 DEF DataIInv, StartSound, Building, Installed, Staged
    <3> QED
      BY <1>1, <1>3, <2>1, <2>4, <3>1, <3>2, <3>3
         DEF DataIInv, ReleaseKept, FilesWhole, Installed, Staged
  <2> QED
    BY <1>1, <2>1, <2>2, <2>3, <2>4 DEF DataIInv
<1> QED
  BY <1>2, <1>3

\* While the game runs nothing extracted is left.
LEMMA GameRuns ==
  ASSUME DataIInv, start = "game", ~half
  PROVE  ~Staged /\ ~FilesWhole /\ Complete(pack, packIndex) /\ MetadataFits /\ library # 0
<1>1. ~Staged
  BY DEF DataIInv, StartSound, ReleaseKept, Building, Installed, Staged
<1>2. ~FilesWhole
  BY <1>1, DataAssumption DEF FilesWhole, Staged
<1>3. library # 0
  BY DEF DataIInv, StartSound
<1> QED
  BY <1>1, <1>2, <1>3 DEF DataIInv, ReleaseKept

LEMMA DeriveKeeps ==
  ASSUME DataIInv, NEW m \in MetaFiles, Derive(m)
  PROVE  DataIInv'
<1>1. /\ start = "game" /\ UNCHANGED <<staged, card, versionFile, start, rebuilt, packs, half>>
      /\ \/ metadata' = [metadata EXCEPT ![m] = Cut]
         \/ metadata' = [metadata EXCEPT ![m] = pack.build]
  BY DEF Derive
<1>2. StartSound'
  BY <1>1 DEF DataIInv, StartSound, Building, Installed, Staged, staged
<1>3. metadata = [n \in MetaFiles |-> metadata[n]]
  BY DEF DataIInv
<1>4. metadata' = [n \in MetaFiles |-> metadata'[n]]
      /\ \A n \in MetaFiles : metadata'[n] \in {metadata[n], Cut, pack.build}
  BY <1>1, <1>3
<1>5. ASSUME ~half PROVE ReleaseKept'
  <2>1. Complete(pack, packIndex) /\ MetadataFits /\ pack.build = library
    BY <1>1, <1>5, GameRuns DEF Complete
  <2>2. MetadataFits'
    BY <1>1, <1>4, <2>1 DEF MetadataFits, staged
  <2>3. Complete(pack, packIndex)'
    BY <1>1, <2>1 DEF Complete, PairOpens, staged, card
  <2> QED
    BY <1>1, <1>5, <2>2, <2>3, GameRuns DEF DataIInv, ReleaseKept, staged, Staged
<1> QED
  BY <1>1, <1>2, <1>4, <1>5 DEF DataIInv, staged

\* A removal that is cut short at the marker is what "half" stands for.
LEMMA StopKeeps ==
  ASSUME DataIInv, Stop
  PROVE  DataIInv'
<1>1. /\ start # "off" /\ start' = "off" /\ UNCHANGED <<staged, card, derivedFiles, rebuilt, packs>>
      /\ half' = (half \/ (start = "clean" /\ rebuilt /\ Staged /\ loose.files # AssetFiles))
  BY DEF Stop
<1>2. StartSound'
  BY <1>1 DEF StartSound, Building, Installed
<1>3. half' \in BOOLEAN
  BY <1>1
<1>4. ASSUME ~half' PROVE ReleaseKept'
  <2>1. ~half /\ library # 0
    BY <1>1, <1>4 DEF DataIInv, StartSound
  <2>2. Staged => FilesWhole
    BY <1>1, <1>4, <2>1 DEF DataIInv, StartSound, ReleaseKept, FilesWhole, Building, Installed
  <2>3. FilesWhole \/ (Complete(pack, packIndex) /\ MetadataFits)
    BY <2>1 DEF DataIInv, ReleaseKept
  <2> QED
    BY <1>1, <2>2, <2>3 DEF ReleaseKept, FilesWhole, Complete, PairOpens, MetadataFits, Staged,
       staged, card, derivedFiles, Installed
<1> QED
  BY <1>1, <1>2, <1>3, <1>4 DEF DataIInv, staged, derivedFiles

LEMMA DataNextKeeps == DataIInv /\ [DataNext]_dataVars => DataIInv'
<1> SUFFICES ASSUME DataIInv, [DataNext]_dataVars PROVE DataIInv'
  OBVIOUS
<1>1. CASE DataNext
  BY <1>1, StageKeeps, BeginStartKeeps, WritePackKeeps, WriteIndexKeeps, VerifyKeeps, UnlinksKeep,
     RenamesKeep, OpenExistingKeeps, AbandonBuildKeeps, RefreshKeeps, UpdateVersionKeeps,
     CleanKeeps, DeriveKeeps, StopKeeps DEF DataNext
<1>2. CASE UNCHANGED dataVars
  <2>1. UNCHANGED <<staged, card, derivedFiles, start, rebuilt, packs, half>>
    BY <1>2 DEF dataVars, staged, card, derivedFiles
  <2>2. StartSound'
    BY <2>1 DEF DataIInv, StartSound, Staged, Written, IndexOf, staged, card
  <2>3. ~half => ReleaseKept'
    BY <2>1 DEF DataIInv, ReleaseKept, MetadataFits, FilesWhole, Complete, PairOpens, Staged,
       staged, card, derivedFiles
  <2> QED
    BY <2>1, <2>2, <2>3, CardStep DEF DataIInv, derivedFiles
<1> QED
  BY <1>1, <1>2

(* The release that the user staged is always on the card in whole, as      *)
(* extracted files or as a verified pair that opens, and the game runs on a *)
(* pair of that release with nothing derived from another, wherever the     *)
(* power goes in a start (prepare_game_data, asset_pack_build,              *)
(* refresh_client_metadata_cache); but for a removal cut short at the       *)
(* marker.                                                                  *)
THEOREM DataSafety == DataSpec => []AssetsSound
<1>1. DataIInv => AssetsSound
  BY GameRuns DEF DataIInv, ReleaseKept, AssetsSound, FilesWhole, MetadataFits
<1>2. DataSpec => []DataIInv
  BY DataInitial, DataNextKeeps, PTL DEF DataSpec
<1> QED
  BY <1>1, <1>2, PTL

-----------------------------------------------------------------------------
(***************************************************************************)
(* 6. The asset pack.  What a call has in hand is: the handle it pins, the *)
(* number it has opened, the open file it has made, the handle it is       *)
(* waiting to take away and the number it is to be given.  No two calls    *)
(* have the same number, new file or handle to take away.                  *)
(***************************************************************************)

PinSteps  == {"use", "release", "dup", "dup2", "target", "replace", "install"}
TempSteps == {"install", "target", "replace"}
Dup2Steps == {"dup2", "target", "replace"}

PinOf(o)    == IF o.step \in PinSteps THEN o.slot ELSE 0
TempOf(o)   == IF o.step \in TempSteps THEN {o.fd} ELSE {}
NewOf(o)    == IF o.step = "install" /\ o.slot = 0 THEN {o.file} ELSE {}
DupOf(o)    == IF o.step = "install" /\ o.slot # 0 THEN {o.file} ELSE {}
TargetOf(o) == IF o.step \in Dup2Steps THEN {o.target} ELSE {}
TakesOf(o)  == IF o.step = "drain" THEN o.slot ELSE IF o.step = "replace" THEN o.over ELSE 0

Doings ==
  {NotDoing} \union [step : {"use", "dup", "release", "drain"}, slot : PackSlots]
  \union [step : {"install"}, fd : Numbers, file : OpenFiles, slot : PackSlots \union {0}]
  \union [step : {"dup2"}, slot : PackSlots, target : Numbers]
  \union [step : {"target"}, slot : PackSlots, target : Numbers, fd : Numbers]
  \union [step : {"replace"}, slot : PackSlots, target : Numbers, fd : Numbers, over : PackSlots]

Handles == {FreeHandle} \union
           [state : {"active", "closing"}, fd : Numbers, pins : Nat, file : OpenFiles]
IsLive(s)   == handles[s].state # "free"
SlotsOf(f)  == {s \in PackSlots : IsLive(s) /\ handles[s].file = f}
PinnedBy(s) == {t \in PackThreads : PinOf(doing[t]) = s}

PackTyped ==
  /\ handles \in [PackSlots -> Handles] /\ DOMAIN doing = PackThreads
  /\ doing = [t \in PackThreads |-> doing[t]] /\ \A t \in PackThreads : doing[t] \in Doings
  /\ uses \in [OpenFiles -> Nat] /\ position \in [OpenFiles -> 0 .. LongMax]

\* What a call in state o may rely on.
CallHolds(t, o) ==
  /\ PinOf(o) # 0 => IsLive(PinOf(o))
  /\ \A f \in DupOf(o) : f = handles[PinOf(o)].file
  /\ TakesOf(o) # 0 => handles[TakesOf(o)].state = "closing"
  /\ \A n \in TargetOf(o) : /\ dupLock = t /\ handles[PinOf(o)].fd # n
                            /\ TakesOf(o) # 0 => handles[TakesOf(o)].fd = n
  /\ \A n \in TempOf(o) : n \in native /\ \A s \in PackSlots : IsLive(s) => handles[s].fd # n
  /\ \A f \in NewOf(o) : f \in allocated /\ uses[f] = 0

\* What two calls do not share.
CallsApart(o, q) ==
  /\ TempOf(o) \intersect TempOf(q) = {} /\ NewOf(o) \intersect NewOf(q) = {}
  /\ TakesOf(o) # 0 => TakesOf(o) # TakesOf(q)

HandlesHold ==
  /\ \A r, s \in PackSlots : IsLive(r) /\ IsLive(s) /\ handles[r].fd = handles[s].fd => r = s
  /\ \A s \in PackSlots : handles[s].pins = Cardinality(PinnedBy(s))
  /\ \A s \in PackSlots : IsLive(s) => handles[s].fd \in native
  /\ \A n \in native : \/ \E s \in PackSlots : IsLive(s) /\ handles[s].fd = n
                       \/ \E t \in PackThreads : n \in TempOf(doing[t])
  /\ \A f \in OpenFiles : uses[f] = Cardinality(SlotsOf(f))
  /\ \A f \in OpenFiles : f \in allocated <=>
       uses[f] > 0 \/ \E t \in PackThreads : f \in NewOf(doing[t])
  /\ native \subseteq Numbers /\ allocated \subseteq OpenFiles

PackIInv ==
  /\ PackTyped /\ HandlesHold
  /\ \A t \in PackThreads : CallHolds(t, doing[t])
  /\ \A t, u \in PackThreads : t # u => CallsApart(doing[t], doing[u])

\* A set gains or loses one element.
LEMMA CountOne ==
  ASSUME NEW S, IsFiniteSet(S), NEW x, NEW T, \A y : y # x => (y \in T <=> y \in S)
  PROVE  /\ IsFiniteSet(T) /\ Cardinality(S) \in Nat
         /\ Cardinality(T) = IF x \in T THEN IF x \in S THEN Cardinality(S) ELSE Cardinality(S) + 1
                             ELSE IF x \in S THEN Cardinality(S) - 1 ELSE Cardinality(S)
<1>1. Cardinality(S) \in Nat
  BY FS_CardinalityType
<1>2. CASE x \in T
  <2>1. T = S \union {x}
    BY <1>2
  <2> QED
    BY <1>1, <1>2, <2>1, FS_AddElement
<1>3. CASE x \notin T
  <2>1. T = S \ {x}
    BY <1>3
  <2> QED
    BY <1>1, <1>3, <2>1, FS_RemoveElement
<1> QED
  BY <1>2, <1>3

LEMMA DoingFacts ==
  ASSUME NEW o \in Doings
  PROVE  /\ PinOf(o) \in PackSlots \union {0} /\ TempOf(o) \subseteq Numbers
         /\ NewOf(o) \subseteq OpenFiles /\ TakesOf(o) \in PackSlots \union {0}
         /\ TargetOf(o) \subseteq Numbers /\ 0 \notin PackSlots
         /\ TargetOf(o) # {} => PinOf(o) # 0
<1>1. 0 \notin PackSlots
  BY PackAssumption
<1>2. CASE o = NotDoing
  <2>1. o.step = "idle"
    BY <1>2 DEF NotDoing
  <2> QED
    BY <1>1, <2>1 DEF PinOf, TempOf, NewOf, TakesOf, TargetOf, PinSteps, TempSteps, Dup2Steps
<1>3. CASE o \in [step : {"use", "dup", "release", "drain"}, slot : PackSlots]
  BY <1>1, <1>3 DEF PinOf, TempOf, NewOf, TakesOf, TargetOf, PinSteps, TempSteps, Dup2Steps
<1>4. CASE o \in [step : {"install"}, fd : Numbers, file : OpenFiles, slot : PackSlots \union {0}]
  BY <1>1, <1>4 DEF PinOf, TempOf, NewOf, TakesOf, TargetOf, PinSteps, TempSteps, Dup2Steps
<1>5. CASE o \in [step : {"dup2"}, slot : PackSlots, target : Numbers]
  BY <1>1, <1>5 DEF PinOf, TempOf, NewOf, TakesOf, TargetOf, PinSteps, TempSteps, Dup2Steps
<1>6. CASE o \in [step : {"target"}, slot : PackSlots, target : Numbers, fd : Numbers]
  BY <1>1, <1>6 DEF PinOf, TempOf, NewOf, TakesOf, TargetOf, PinSteps, TempSteps, Dup2Steps
<1>7. CASE o \in [step : {"replace"}, slot : PackSlots, target : Numbers, fd : Numbers,
                  over : PackSlots]
  BY <1>1, <1>7 DEF PinOf, TempOf, NewOf, TakesOf, TargetOf, PinSteps, TempSteps, Dup2Steps
<1> QED
  BY <1>2, <1>3, <1>4, <1>5, <1>6, <1>7 DEF Doings

LEMMA HandleFacts ==
  ASSUME NEW h \in Handles
  PROVE  /\ h.state \in {"free", "active", "closing"} /\ h.pins \in Nat
         /\ h.state = "free" => h.pins = 0
         /\ h.state # "free" => h.fd \in Numbers /\ h.file \in OpenFiles
<1>1. CASE h = FreeHandle
  BY <1>1 DEF FreeHandle
<1>2. CASE h \in [state : {"active", "closing"}, fd : Numbers, pins : Nat, file : OpenFiles]
  BY <1>2
<1> QED
  BY <1>1, <1>2 DEF Handles

LEMMA PackFacts ==
  ASSUME PackIInv
  PROVE  /\ handles \in [PackSlots -> Handles] /\ doing = [t \in PackThreads |-> doing[t]]
         /\ uses \in [OpenFiles -> Nat] /\ position \in [OpenFiles -> 0 .. LongMax]
         /\ \A t \in PackThreads : doing[t] \in Doings /\ CallHolds(t, doing[t])
         /\ \A t, u \in PackThreads : t # u => CallsApart(doing[t], doing[u])
         /\ HandlesHold /\ native \subseteq Numbers /\ allocated \subseteq OpenFiles
BY DEF PackIInv, PackTyped, HandlesHold

\* A call of another thread keeps what it relies on.
LEMMA CallKeeps ==
  ASSUME NEW u, NEW q, CallHolds(u, q),
         PinOf(q) # 0 => /\ handles'[PinOf(q)].fd = handles[PinOf(q)].fd
                         /\ handles'[PinOf(q)].file = handles[PinOf(q)].file
                         /\ IsLive(PinOf(q))',
         TakesOf(q) # 0 => /\ handles'[TakesOf(q)].state = handles[TakesOf(q)].state
                           /\ handles'[TakesOf(q)].fd = handles[TakesOf(q)].fd,
         TargetOf(q) # {} => dupLock' = dupLock /\ PinOf(q) # 0,
         \A n \in TempOf(q) :
           n \in native' /\ \A s \in PackSlots : IsLive(s)' => handles'[s].fd # n,
         \A f \in NewOf(q) : f \in allocated' /\ uses'[f] = uses[f],
         DupOf(q) # {} => PinOf(q) # 0
  PROVE  CallHolds(u, q)'
BY DEF CallHolds

LEMMA DupPins == ASSUME NEW o, DupOf(o) # {} PROVE PinOf(o) # 0
BY DEF DupOf, PinOf, PinSteps

\* A step of t, after which its call is k.
LEMMA PackStep ==
  ASSUME PackIInv, NEW t \in PackThreads, NEW k \in Doings, doing' = [doing EXCEPT ![t] = k],
         handles' \in [PackSlots -> Handles], uses' \in [OpenFiles -> Nat],
         position' \in [OpenFiles -> 0 .. LongMax], HandlesHold', CallHolds(t, k)',
         \A u \in PackThreads \ {t} : \A q : q = doing[u] => CallHolds(u, q)' /\ CallsApart(k, q)
  PROVE  PackIInv'
<1>1. /\ doing' = [u \in PackThreads |-> doing'[u]] /\ DOMAIN doing' = PackThreads
      /\ \A u \in PackThreads : doing'[u] = IF u = t THEN k ELSE doing[u]
  BY PackFacts
<1>2. PackTyped'
  BY <1>1, PackFacts DEF PackTyped
<1>3. ASSUME NEW u \in PackThreads, NEW q, q = doing'[u] PROVE CallHolds(u, q)'
  BY <1>1, <1>3
<1>4. \A u \in PackThreads : CallHolds(u, doing[u])'
  BY <1>3
<1>5. ASSUME NEW u \in PackThreads, NEW v \in PackThreads, u # v
      PROVE  CallsApart(doing'[u], doing'[v])
  <2>1. CASE u # t /\ v # t
    BY <1>1, <1>5, <2>1, PackFacts
  <2>2. CASE u = t
    BY <1>1, <1>5, <2>2
  <2>3. CASE v = t
    <3>1. CallsApart(k, doing[u])
      BY <1>5, <2>3
    <3> QED
      BY <1>1, <1>5, <2>3, <3>1 DEF CallsApart
  <2> QED
    BY <2>1, <2>2, <2>3
<1>6. (\A u, v \in PackThreads : u # v => CallsApart(doing[u], doing[v]))'
  BY <1>5
<1> QED
  BY <1>2, <1>4, <1>6 DEF PackIInv

\* The pins of each handle are counted.
LEMMA PinsCount ==
  ASSUME PackIInv, NEW t \in PackThreads, NEW k \in Doings, doing' = [doing EXCEPT ![t] = k],
         NEW s \in PackSlots
  PROVE  /\ handles[s].pins \in Nat /\ handles[s].pins = Cardinality(PinnedBy(s))
         /\ Cardinality(PinnedBy(s)') =
              IF PinOf(k) = s THEN IF PinOf(doing[t]) = s THEN handles[s].pins
                                   ELSE handles[s].pins + 1
              ELSE IF PinOf(doing[t]) = s THEN handles[s].pins - 1 ELSE handles[s].pins
<1>1. \A u \in PackThreads : doing'[u] = IF u = t THEN k ELSE doing[u]
  BY PackFacts
<1>2. IsFiniteSet(PinnedBy(s))
  BY PackAssumption, FS_Subset DEF PinnedBy
<1>3. \A u : u # t => (u \in PinnedBy(s)' <=> u \in PinnedBy(s))
  BY <1>1 DEF PinnedBy
<1>4. (t \in PinnedBy(s)' <=> PinOf(k) = s) /\ (t \in PinnedBy(s) <=> PinOf(doing[t]) = s)
  BY <1>1 DEF PinnedBy
<1>5. handles[s].pins = Cardinality(PinnedBy(s))
  BY PackFacts DEF HandlesHold
<1> QED
  BY <1>2, <1>3, <1>4, <1>5, CountOne

\* A handle that nobody pins.
LEMMA Unpinning ==
  ASSUME PackIInv, NEW s \in PackSlots, handles[s].pins = 0
  PROVE  \A u \in PackThreads : PinOf(doing[u]) # s
<1>1. IsFiniteSet(PinnedBy(s)) /\ Cardinality(PinnedBy(s)) = 0
  BY PackAssumption, PackFacts, FS_Subset DEF PinnedBy, HandlesHold
<1>2. PinnedBy(s) = {}
  BY <1>1, FS_EmptySet
<1> QED
  BY <1>2 DEF PinnedBy

\* A step that leaves the handles where they are, but for their pins and closings.
SameHandles(o) ==
  \A s \in PackSlots :
    /\ handles'[s].fd = handles[s].fd /\ handles'[s].file = handles[s].file
    /\ IsLive(s)' <=> IsLive(s)
    /\ handles[s].state = "closing" => handles'[s].state = "closing" \/ TakesOf(o) = s
PinsMoved(o, k) ==
  \A s \in PackSlots : handles'[s].pins =
    IF PinOf(k) = s THEN IF PinOf(o) = s THEN handles[s].pins ELSE handles[s].pins + 1
    ELSE IF PinOf(o) = s THEN handles[s].pins - 1 ELSE handles[s].pins
NumbersMoved(o, k) ==
  /\ native' = (native \ TempOf(o)) \union TempOf(k)
  /\ TempOf(k) \subseteq TempOf(o) \union (Numbers \ native)
FilesMoved(o, k) ==
  /\ allocated' = (allocated \ NewOf(o)) \union NewOf(k) /\ uses' = uses
  /\ NewOf(k) \subseteq NewOf(o) \union (OpenFiles \ allocated)
CallMoved(t, o, k) ==
  /\ PinOf(k) # 0 => IsLive(PinOf(k))
  /\ \A f \in DupOf(k) : f = handles[PinOf(k)].file
  /\ TakesOf(k) # 0 => /\ handles'[TakesOf(k)].state = "closing"
                       /\ TakesOf(k) = TakesOf(o) \/ handles[TakesOf(k)].state # "closing"
  /\ \A n \in TargetOf(k) : /\ dupLock' = t /\ handles[PinOf(k)].fd # n
                            /\ TakesOf(k) # 0 => handles[TakesOf(k)].fd = n
  /\ dupLock' # dupLock => dupLock \in {0, t}

LEMMA QuietStep ==
  ASSUME PackIInv, NEW t \in PackThreads, NEW o, o = doing[t], NEW k \in Doings,
         doing' = [doing EXCEPT ![t] = k],
         handles' \in [PackSlots -> Handles], position' \in [OpenFiles -> 0 .. LongMax],
         SameHandles(o), PinsMoved(o, k), NumbersMoved(o, k), FilesMoved(o, k), CallMoved(t, o, k)
  PROVE  PackIInv'
<1>1. /\ \A u \in PackThreads : doing'[u] = IF u = t THEN k ELSE doing[u]
      /\ uses' \in [OpenFiles -> Nat] /\ o \in Doings /\ CallHolds(t, o) /\ HandlesHold
      /\ native \subseteq Numbers /\ allocated \subseteq OpenFiles
  BY PackFacts DEF FilesMoved
<1>2. /\ PinOf(k) \in PackSlots \union {0} /\ TakesOf(k) \in PackSlots \union {0}
      /\ TempOf(k) \subseteq Numbers /\ NewOf(k) \subseteq OpenFiles /\ 0 \notin PackSlots
      /\ TargetOf(k) # {} => PinOf(k) # 0
  BY DoingFacts
<1>3. \A n \in TempOf(o) : \A s \in PackSlots : IsLive(s) => handles[s].fd # n
  BY <1>1 DEF CallHolds
<1>4. \A s \in PackSlots : IsLive(s) => handles[s].fd \in native /\ handles[s].fd \in native'
                                        /\ handles[s].fd \notin TempOf(k)
  BY <1>1, <1>3 DEF HandlesHold, NumbersMoved
<1>5. ASSUME NEW n \in native'
      PROVE  \/ \E s \in PackSlots : IsLive(s)' /\ handles'[s].fd = n
             \/ \E u \in PackThreads : n \in TempOf(doing'[u])
  <2>1. CASE n \in TempOf(k)
    BY <1>1, <2>1
  <2>2. CASE n \notin TempOf(k)
    <3>1. n \in native /\ n \notin TempOf(o)
      BY <1>5, <2>2 DEF NumbersMoved
    <3>2. CASE \E s \in PackSlots : IsLive(s) /\ handles[s].fd = n
      BY <3>2 DEF SameHandles
    <3>3. CASE \E u \in PackThreads : n \in TempOf(doing[u])
      BY <1>1, <3>1, <3>3
    <3> QED
      BY <1>1, <3>1, <3>2, <3>3 DEF HandlesHold
  <2> QED
    BY <2>1, <2>2
<1>6. \A f \in OpenFiles : uses'[f] = uses[f] /\ SlotsOf(f)' = SlotsOf(f)
  BY DEF FilesMoved, SameHandles, SlotsOf
<1>7. /\ \A f \in NewOf(k) : uses[f] = 0 /\ f \in allocated'
      /\ \A f \in NewOf(o) : uses[f] = 0 /\ f \in allocated
  <2>1. \A f \in NewOf(o) : uses[f] = 0 /\ f \in allocated
    BY <1>1 DEF CallHolds
  <2>2. \A f \in OpenFiles \ allocated : uses[f] = 0
    <3>1. \A f \in OpenFiles : uses[f] \in Nat
      BY PackFacts
    <3> QED
      BY <1>1, <3>1 DEF HandlesHold
  <2> QED
    BY <2>1, <2>2 DEF FilesMoved
<1>8. ASSUME NEW f \in OpenFiles
      PROVE  f \in allocated' <=> uses'[f] > 0 \/ \E u \in PackThreads : f \in NewOf(doing'[u])
  <2>1. f \in allocated <=> uses[f] > 0 \/ \E u \in PackThreads : f \in NewOf(doing[u])
    BY <1>1 DEF HandlesHold
  <2>2. \A u \in PackThreads \ {t} : NewOf(o) \intersect NewOf(doing[u]) = {}
    BY PackFacts DEF CallsApart
  <2>3. CASE f \in NewOf(k)
    BY <1>1, <1>7, <2>3
  <2>4. CASE f \in NewOf(o) /\ f \notin NewOf(k)
    BY <1>1, <1>6, <1>7, <2>2, <2>4 DEF FilesMoved
  <2>5. CASE f \notin NewOf(o) /\ f \notin NewOf(k)
    BY <1>1, <1>6, <2>1, <2>5 DEF FilesMoved
  <2> QED
    BY <2>3, <2>4, <2>5
<1>9. ASSUME NEW s \in PackSlots PROVE handles'[s].pins = Cardinality(PinnedBy(s)')
  BY PinsCount DEF PinsMoved
<1>10. HandlesHold'
  <2>1. \A r, s \in PackSlots : IsLive(r)' /\ IsLive(s)' /\ handles'[r].fd = handles'[s].fd => r = s
    BY <1>1 DEF HandlesHold, SameHandles
  <2>2. \A s \in PackSlots : IsLive(s)' => handles'[s].fd \in native'
    BY <1>4 DEF SameHandles
  <2>3. \A f \in OpenFiles : uses'[f] = Cardinality(SlotsOf(f)')
    BY <1>1, <1>6 DEF HandlesHold
  <2>4. native' \subseteq Numbers /\ allocated' \subseteq OpenFiles
    BY <1>1, <1>2 DEF NumbersMoved, FilesMoved
  <2> QED
    BY <1>5, <1>8, <1>9, <2>1, <2>2, <2>3, <2>4 DEF HandlesHold
<1>11. CallHolds(t, k)'
  <2>1. \A n \in TempOf(k) : n \in native' /\ \A s \in PackSlots : IsLive(s)' => handles'[s].fd # n
    BY <1>4 DEF NumbersMoved, SameHandles
  <2>2. PinOf(k) # 0 => IsLive(PinOf(k))' /\ handles'[PinOf(k)].fd = handles[PinOf(k)].fd
                        /\ handles'[PinOf(k)].file = handles[PinOf(k)].file
    BY <1>2 DEF SameHandles, CallMoved
  <2>3. TakesOf(k) # 0 => handles'[TakesOf(k)].fd = handles[TakesOf(k)].fd
    BY <1>2 DEF SameHandles
  <2>4. \A f \in DupOf(k) : f = handles'[PinOf(k)].file
    BY <2>2, DupPins DEF CallMoved
  <2>5. \A n \in TargetOf(k) : /\ dupLock' = t /\ handles'[PinOf(k)].fd # n
                               /\ TakesOf(k) # 0 => handles'[TakesOf(k)].fd = n
    BY <1>2, <2>2, <2>3 DEF CallMoved
  <2>6. TakesOf(k) # 0 => handles'[TakesOf(k)].state = "closing"
    BY DEF CallMoved
  <2>7. \A f \in NewOf(k) : f \in allocated' /\ uses'[f] = 0
    BY <1>2, <1>6, <1>7
  <2> QED
    BY <2>1, <2>2, <2>4, <2>5, <2>6, <2>7 DEF CallHolds
<1>12. ASSUME NEW u \in PackThreads \ {t}, NEW q, q = doing[u]
       PROVE  CallHolds(u, q)' /\ CallsApart(k, q)
  <2>1. q \in Doings /\ CallHolds(u, q) /\ CallsApart(o, q)
    BY <1>12, PackFacts
  <2>2. /\ PinOf(q) \in PackSlots \union {0} /\ TakesOf(q) \in PackSlots \union {0}
        /\ TargetOf(q) # {} => PinOf(q) # 0
    BY <2>1, DoingFacts
  <2>3. PinOf(q) # 0 => /\ handles'[PinOf(q)].fd = handles[PinOf(q)].fd
                        /\ handles'[PinOf(q)].file = handles[PinOf(q)].file
                        /\ IsLive(PinOf(q))'
    BY <2>1, <2>2 DEF SameHandles, CallHolds
  <2>4. TakesOf(q) # 0 => /\ handles'[TakesOf(q)].state = handles[TakesOf(q)].state
                          /\ handles'[TakesOf(q)].fd = handles[TakesOf(q)].fd
    <3>1. TakesOf(q) # 0 => handles[TakesOf(q)].state = "closing" /\ TakesOf(q) # TakesOf(o)
      BY <2>1 DEF CallHolds, CallsApart
    <3> QED
      BY <2>2, <3>1 DEF SameHandles
  <2>5. TargetOf(q) # {} => dupLock' = dupLock /\ PinOf(q) # 0
    <3>1. TargetOf(q) # {} => dupLock = u
      BY <2>1 DEF CallHolds
    <3> QED
      BY <1>12, <2>2, <3>1, PackAssumption DEF CallMoved
  <2>6. \A n \in TempOf(q) :
          n \in native' /\ \A s \in PackSlots : IsLive(s)' => handles'[s].fd # n
    BY <2>1 DEF CallHolds, CallsApart, NumbersMoved, SameHandles
  <2>7. \A f \in NewOf(q) : f \in allocated' /\ uses'[f] = uses[f]
    BY <2>1 DEF CallHolds, CallsApart, FilesMoved
  <2>8. CallHolds(u, q)'
    BY <2>1, <2>3, <2>4, <2>5, <2>6, <2>7, CallKeeps, DupPins
  <2>9. TempOf(k) \intersect TempOf(q) = {} /\ NewOf(k) \intersect NewOf(q) = {}
    BY <2>1 DEF CallHolds, CallsApart, NumbersMoved, FilesMoved
  <2>10. TakesOf(k) # 0 => TakesOf(k) # TakesOf(q)
    BY <2>1, <2>2 DEF CallHolds, CallsApart, CallMoved
  <2> QED
    BY <2>8, <2>9, <2>10 DEF CallsApart
<1> QED
  BY <1>1, <1>10, <1>11, <1>12, PackStep

\* A step that replaces one handle, which nobody pins.
FdOf(h)      == IF h.state = "free" THEN {} ELSE {h.fd}
OneOf(f, h)  == IF h.state # "free" /\ h.file = f THEN 1 ELSE 0
Settled(k)   == /\ TempOf(k) = {} /\ NewOf(k) = {} /\ DupOf(k) = {} /\ TargetOf(k) = {}
                /\ TakesOf(k) = 0
\* The handle h may take the place of x.
HandleFits(t, x, h) ==
  /\ \A u \in PackThreads \ {t} : FdOf(h) \intersect TempOf(doing[u]) = {}
  /\ \A s \in PackSlots \ {x} : FdOf(h) \intersect FdOf(handles[s]) = {}
  /\ \A u \in PackThreads \ {t} : h.state # "free" => h.file \notin NewOf(doing[u])
FilesReplaced(t, x, h) ==
  /\ uses' \in [OpenFiles -> Nat]
  /\ \A f \in OpenFiles : uses'[f] = uses[f] - OneOf(f, handles[x]) + OneOf(f, h)
  /\ allocated' \subseteq OpenFiles
  /\ \A f \in OpenFiles : f \in allocated' <=>
       uses'[f] > 0 \/ \E u \in PackThreads \ {t} : f \in NewOf(doing[u])

LEMMA LoudStep ==
  ASSUME PackIInv, NEW t \in PackThreads, NEW o, o = doing[t], NEW k \in Doings,
         doing' = [doing EXCEPT ![t] = k], NEW x \in PackSlots, NEW h \in Handles,
         handles' = [handles EXCEPT ![x] = h], h.pins = 0, handles[x].pins = 0,
         dupLock' = dupLock, position' = position, PinOf(k) = PinOf(o), Settled(k),
         handles[x].state = "closing" => TakesOf(o) = x,
         native' = (native \ (TempOf(o) \union FdOf(handles[x]))) \union FdOf(h),
         HandleFits(t, x, h), FilesReplaced(t, x, h)
  PROVE  PackIInv'
<1>1. /\ \A u \in PackThreads : doing'[u] = IF u = t THEN k ELSE doing[u]
      /\ o \in Doings /\ CallHolds(t, o) /\ HandlesHold
      /\ native \subseteq Numbers /\ allocated \subseteq OpenFiles
      /\ position' \in [OpenFiles -> 0 .. LongMax]
  BY PackFacts
<1>2. /\ handles' \in [PackSlots -> Handles]
      /\ \A s \in PackSlots : handles'[s] = IF s = x THEN h ELSE handles[s]
  <2>1. handles \in [PackSlots -> Handles]
    BY PackFacts
  <2> QED
    BY <2>1
<1>3. \A u \in PackThreads : PinOf(doing[u]) # x
  BY Unpinning
<1>4. 0 \notin PackSlots /\ (h.state # "free" => h.fd \in Numbers)
  BY PackAssumption, HandleFacts
<1>5. \A s \in PackSlots : IsLive(s)' <=> IF s = x THEN h.state # "free" ELSE IsLive(s)
  BY <1>2 DEF IsLive
<1>6. ASSUME NEW s \in PackSlots, IsLive(s), s # x
      PROVE  handles[s].fd \in native' /\ ({handles[s].fd} \intersect FdOf(h) = {})
  <2>1. handles[s].fd \in native /\ handles[s].fd \notin TempOf(o)
    BY <1>1, <1>6 DEF HandlesHold, CallHolds
  <2>2. handles[s].fd \notin FdOf(handles[x])
    BY <1>1, <1>6 DEF HandlesHold, IsLive, FdOf
  <2>3. handles[s].fd \notin FdOf(h)
    BY <1>6 DEF HandleFits, FdOf, IsLive
  <2> QED
    BY <2>1, <2>2, <2>3
<1>7. ASSUME NEW n \in native'
      PROVE  \/ \E s \in PackSlots : IsLive(s)' /\ handles'[s].fd = n
             \/ \E u \in PackThreads : n \in TempOf(doing'[u])
  <2>1. CASE n \in FdOf(h)
    BY <1>2, <1>5, <2>1 DEF FdOf
  <2>2. CASE n \notin FdOf(h)
    <3>1. n \in native /\ n \notin TempOf(o) /\ n \notin FdOf(handles[x])
      BY <1>7, <2>2
    <3>2. CASE \E s \in PackSlots : IsLive(s) /\ handles[s].fd = n
      <4>1. PICK s \in PackSlots : IsLive(s) /\ handles[s].fd = n
        BY <3>2
      <4>2. s # x
        BY <3>1, <4>1 DEF FdOf, IsLive
      <4> QED
        BY <1>2, <1>5, <4>1, <4>2
    <3>3. CASE \E u \in PackThreads : n \in TempOf(doing[u])
      BY <1>1, <3>1, <3>3
    <3> QED
      BY <1>1, <3>1, <3>2, <3>3 DEF HandlesHold
  <2> QED
    BY <2>1, <2>2
<1>8. ASSUME NEW f \in OpenFiles PROVE uses'[f] = Cardinality(SlotsOf(f)')
  <2>1. uses[f] = Cardinality(SlotsOf(f))
    BY <1>1 DEF HandlesHold
  <2>2. IsFiniteSet(SlotsOf(f))
    BY PackAssumption, FS_Subset DEF SlotsOf
  <2>3. \A s : s # x => (s \in SlotsOf(f)' <=> s \in SlotsOf(f))
    BY <1>2, <1>5 DEF SlotsOf
  <2>4. x \in SlotsOf(f) <=> OneOf(f, handles[x]) = 1
    BY DEF SlotsOf, IsLive, OneOf
  <2>5. x \in SlotsOf(f)' <=> OneOf(f, h) = 1
    BY <1>2, <1>5 DEF SlotsOf, OneOf
  <2>6. /\ Cardinality(SlotsOf(f)) \in Nat
        /\ Cardinality(SlotsOf(f)') =
             IF x \in SlotsOf(f)'
               THEN IF x \in SlotsOf(f) THEN Cardinality(SlotsOf(f)) ELSE Cardinality(SlotsOf(f)) + 1
             ELSE IF x \in SlotsOf(f) THEN Cardinality(SlotsOf(f)) - 1 ELSE Cardinality(SlotsOf(f))
    BY <2>2, <2>3, CountOne
  <2>7. OneOf(f, h) \in {0, 1} /\ OneOf(f, handles[x]) \in {0, 1}
    BY DEF OneOf
  <2>8. uses'[f] = uses[f] - OneOf(f, handles[x]) + OneOf(f, h)
    BY DEF FilesReplaced
  <2> QED
    BY <2>1, <2>4, <2>5, <2>6, <2>7, <2>8
<1>9. ASSUME NEW f \in OpenFiles
      PROVE  f \in allocated' <=> uses'[f] > 0 \/ \E u \in PackThreads : f \in NewOf(doing'[u])
  <2>1. (\E u \in PackThreads : f \in NewOf(doing'[u]))
          <=> \E u \in PackThreads \ {t} : f \in NewOf(doing[u])
    BY <1>1 DEF Settled
  <2> QED
    BY <2>1 DEF FilesReplaced
<1>10. ASSUME NEW s \in PackSlots PROVE handles'[s].pins = Cardinality(PinnedBy(s)')
  <2>1. /\ handles[s].pins \in Nat
        /\ Cardinality(PinnedBy(s)') =
             IF PinOf(k) = s THEN IF PinOf(doing[t]) = s THEN handles[s].pins
                                  ELSE handles[s].pins + 1
             ELSE IF PinOf(doing[t]) = s THEN handles[s].pins - 1 ELSE handles[s].pins
    BY PinsCount
  <2>2. PinOf(doing[t]) = PinOf(k)
    OBVIOUS
  <2> QED
    BY <1>2, <2>1, <2>2
<1>11. HandlesHold'
  <2>1. \A r, s \in PackSlots : IsLive(r)' /\ IsLive(s)' /\ handles'[r].fd = handles'[s].fd => r = s
    BY <1>1, <1>2, <1>5, <1>6 DEF HandlesHold, FdOf
  <2>2. \A s \in PackSlots : IsLive(s)' => handles'[s].fd \in native'
    BY <1>2, <1>5, <1>6 DEF FdOf
  <2>3. native' \subseteq Numbers /\ allocated' \subseteq OpenFiles
    BY <1>1, <1>4 DEF FdOf, FilesReplaced
  <2> QED
    BY <1>7, <1>8, <1>9, <1>10, <2>1, <2>2, <2>3 DEF HandlesHold
<1>12. CallHolds(t, k)'
  <2>1. PinOf(k) # 0 => IsLive(PinOf(k))'
    <3>1. PinOf(k) # 0 => IsLive(PinOf(k)) /\ PinOf(k) # x
      BY <1>1, <1>3 DEF CallHolds
    <3> QED
      BY <1>5, <3>1, DoingFacts
  <2> QED
    BY <2>1 DEF CallHolds, Settled
<1>13. ASSUME NEW u \in PackThreads \ {t}, NEW q, q = doing[u]
       PROVE  CallHolds(u, q)' /\ CallsApart(k, q)
  <2>1. q \in Doings /\ CallHolds(u, q) /\ CallsApart(o, q)
    BY <1>13, PackFacts
  <2>2. /\ PinOf(q) \in PackSlots \union {0} /\ TakesOf(q) \in PackSlots \union {0}
        /\ TargetOf(q) # {} => PinOf(q) # 0
    BY <2>1, DoingFacts
  <2>3. PinOf(q) # x
    BY <1>3, <1>13
  <2>4. PinOf(q) # 0 => /\ handles'[PinOf(q)].fd = handles[PinOf(q)].fd
                        /\ handles'[PinOf(q)].file = handles[PinOf(q)].file
                        /\ IsLive(PinOf(q))'
    BY <1>2, <1>5, <2>1, <2>2, <2>3 DEF CallHolds
  <2>5. TakesOf(q) # 0 => TakesOf(q) # x
    <3>1. TakesOf(q) # 0 => handles[TakesOf(q)].state = "closing" /\ TakesOf(q) # TakesOf(o)
      BY <2>1 DEF CallHolds, CallsApart
    <3> QED
      BY <3>1
  <2>6. TakesOf(q) # 0 => /\ handles'[TakesOf(q)].state = handles[TakesOf(q)].state
                          /\ handles'[TakesOf(q)].fd = handles[TakesOf(q)].fd
    BY <1>2, <2>2, <2>5
  <2>7. ASSUME NEW n \in TempOf(q)
        PROVE  n \in native' /\ \A s \in PackSlots : IsLive(s)' => handles'[s].fd # n
    <3>1. n \in native /\ n \notin TempOf(o) /\ \A s \in PackSlots : IsLive(s) => handles[s].fd # n
      BY <2>1, <2>7 DEF CallHolds, CallsApart
    <3>2. n \notin FdOf(handles[x]) /\ n \notin FdOf(h)
      BY <1>13, <2>7, <3>1 DEF FdOf, IsLive, HandleFits
    <3> QED
      BY <1>2, <1>5, <3>1, <3>2 DEF FdOf
  <2>8. ASSUME NEW f \in NewOf(q) PROVE f \in allocated' /\ uses'[f] = uses[f]
    <3>1. f \in allocated /\ uses[f] = 0 /\ f \in OpenFiles
      BY <1>1, <2>1, <2>8 DEF CallHolds
    <3>2. SlotsOf(f) = {}
      <4>1. IsFiniteSet(SlotsOf(f)) /\ Cardinality(SlotsOf(f)) = 0
        BY <1>1, <3>1, PackAssumption, FS_Subset DEF SlotsOf, HandlesHold
      <4> QED
        BY <4>1, FS_EmptySet
    <3>3. OneOf(f, handles[x]) = 0
      BY <3>2 DEF SlotsOf, OneOf, IsLive
    <3>4. OneOf(f, h) = 0
      BY <1>13, <2>8 DEF HandleFits, OneOf
    <3>5. uses'[f] = uses[f]
      BY <3>1, <3>3, <3>4 DEF FilesReplaced
    <3> QED
      BY <1>13, <2>8, <3>1, <3>5 DEF FilesReplaced
  <2>9. TargetOf(q) # {} => dupLock' = dupLock /\ PinOf(q) # 0
    BY <2>2
  <2>10. CallHolds(u, q)'
    BY <2>1, <2>4, <2>6, <2>7, <2>8, <2>9, CallKeeps, DupPins
  <2> QED
    BY <2>10 DEF CallsApart, Settled
<1> QED
  BY <1>1, <1>2, <1>11, <1>12, <1>13, PackStep DEF FilesReplaced

\* The parts of a call.
LEMMA DoingParts ==
  ASSUME NEW o \in Doings
  PROVE  /\ o.step \in {"use", "dup", "release", "drain", "dup2", "target", "replace"}
              => o.slot \in PackSlots
         /\ o.step = "install" => /\ o.slot \in PackSlots \union {0}
                                  /\ o.fd \in Numbers /\ o.file \in OpenFiles
         /\ o.step \in Dup2Steps => o.target \in Numbers
         /\ o.step \in {"target", "replace"} => o.fd \in Numbers
         /\ o.step = "replace" => o.over \in PackSlots
<1>1. CASE o = NotDoing
  BY <1>1 DEF NotDoing, Dup2Steps
<1>2. CASE o # NotDoing
  BY <1>2 DEF Doings, Dup2Steps
<1> QED
  BY <1>1, <1>2

LEMMA IdleCall ==
  /\ NotDoing \in Doings /\ PinOf(NotDoing) = 0 /\ TempOf(NotDoing) = {}
  /\ NewOf(NotDoing) = {} /\ DupOf(NotDoing) = {} /\ TargetOf(NotDoing) = {}
  /\ TakesOf(NotDoing) = 0
BY DEF NotDoing, Doings, PinOf, TempOf, NewOf, DupOf, TargetOf, TakesOf, PinSteps, TempSteps,
       Dup2Steps

LEMMA ReleaseCall ==
  ASSUME NEW s \in PackSlots, NEW k, k = [step |-> "release", slot |-> s]
  PROVE  /\ k \in Doings /\ PinOf(k) = s /\ TempOf(k) = {} /\ NewOf(k) = {} /\ DupOf(k) = {}
         /\ TargetOf(k) = {} /\ TakesOf(k) = 0
BY DEF Doings, PinOf, TempOf, NewOf, DupOf, TargetOf, TakesOf, PinSteps, TempSteps, Dup2Steps

LEMMA PinKeeps ==
  ASSUME PackIInv, NEW t \in PackThreads, doing[t] = NotDoing, NEW k \in Doings, Become(t, k),
         NEW s \in PackSlots, handles[s].state = "active", handles' = WithPin(s), PinOf(k) = s,
         TempOf(k) = {}, NewOf(k) = {}, DupOf(k) = {}, TakesOf(k) = 0,
         UNCHANGED <<allocated, uses, position, native>>,
         dupLock' # dupLock => dupLock = 0,
         \A n \in TargetOf(k) : dupLock' = t /\ handles[s].fd # n
  PROVE  PackIInv'
<1>1. handles \in [PackSlots -> Handles] /\ position \in [OpenFiles -> 0 .. LongMax]
  BY PackFacts
<1>2. IsLive(s) /\ handles[s].pins \in Nat /\ handles[s] \in Handles
  BY <1>1, HandleFacts DEF IsLive
<1>3. /\ \A r \in PackSlots : handles'[r] = IF r = s THEN [handles[s] EXCEPT !.pins = @ + 1]
                                            ELSE handles[r]
  BY <1>1 DEF WithPin
<1>4. handles[s] \in [state : {"active", "closing"}, fd : Numbers, pins : Nat, file : OpenFiles]
  BY <1>2 DEF Handles, FreeHandle, IsLive
<1>5. \A r \in PackSlots : /\ handles'[r].fd = handles[r].fd /\ handles'[r].file = handles[r].file
                           /\ handles'[r].state = handles[r].state
                           /\ handles'[r].pins = IF r = s THEN handles[r].pins + 1 ELSE handles[r].pins
  BY <1>3, <1>4
<1>6. handles' \in [PackSlots -> Handles]
  <2>1. [handles[s] EXCEPT !.pins = @ + 1]
          \in [state : {"active", "closing"}, fd : Numbers, pins : Nat, file : OpenFiles]
    BY <1>4
  <2> QED
    BY <1>1, <2>1 DEF WithPin, Handles
<1>7. PICK o : o = doing[t]
  OBVIOUS
<1>8. PinOf(o) = 0 /\ TempOf(o) = {} /\ NewOf(o) = {} /\ TakesOf(o) = 0
  BY <1>7, IdleCall
<1>9. SameHandles(o)
  BY <1>5 DEF SameHandles, IsLive
<1>10. PinsMoved(o, k)
  BY <1>5, <1>8, PackAssumption DEF PinsMoved
<1>11. NumbersMoved(o, k) /\ FilesMoved(o, k)
  BY <1>8 DEF NumbersMoved, FilesMoved
<1>12. CallMoved(t, o, k)
  BY <1>2 DEF CallMoved
<1>13. position' \in [OpenFiles -> 0 .. LongMax] /\ doing' = [doing EXCEPT ![t] = k]
  BY <1>1 DEF Become
<1> QED
  BY <1>6, <1>7, <1>9, <1>10, <1>11, <1>12, <1>13, QuietStep

LEMMA UseKeeps ==
  ASSUME PackIInv, NEW t \in PackThreads, NEW n \in Numbers, Use(t, n) PROVE PackIInv'
<1>1. PICK s \in FindHandle(n, {"active"}) : handles' = WithPin(s) /\
        Become(t, [step |-> "use", slot |-> s])
  BY DEF Use, PinHandle
<1>2. PICK k : k = [step |-> "use", slot |-> s]
  OBVIOUS
<1>3. s \in PackSlots /\ handles[s].state = "active"
  BY DEF FindHandle
<1>4. /\ k \in Doings /\ PinOf(k) = s /\ TempOf(k) = {} /\ NewOf(k) = {} /\ DupOf(k) = {}
      /\ TargetOf(k) = {} /\ TakesOf(k) = 0
  BY <1>2, <1>3 DEF Doings, PinOf, TempOf, NewOf, DupOf, TargetOf, TakesOf, PinSteps, TempSteps,
                    Dup2Steps
<1>5. doing[t] = NotDoing /\ UNCHANGED <<allocated, uses, position, native, dupLock>>
  BY DEF Use
<1> QED
  BY <1>1, <1>2, <1>3, <1>4, <1>5, PinKeeps

LEMMA DupFdKeeps ==
  ASSUME PackIInv, NEW t \in PackThreads, NEW n \in Numbers, DupFd(t, n) PROVE PackIInv'
<1>1. PICK s \in FindHandle(n, {"active"}) : handles' = WithPin(s) /\
        Become(t, [step |-> "dup", slot |-> s])
  BY DEF DupFd, PinHandle
<1>2. PICK k : k = [step |-> "dup", slot |-> s]
  OBVIOUS
<1>3. s \in PackSlots /\ handles[s].state = "active"
  BY DEF FindHandle
<1>4. /\ k \in Doings /\ PinOf(k) = s /\ TempOf(k) = {} /\ NewOf(k) = {} /\ DupOf(k) = {}
      /\ TargetOf(k) = {} /\ TakesOf(k) = 0
  BY <1>2, <1>3 DEF Doings, PinOf, TempOf, NewOf, DupOf, TargetOf, TakesOf, PinSteps, TempSteps,
                    Dup2Steps
<1>5. doing[t] = NotDoing /\ UNCHANGED <<allocated, uses, position, native, dupLock>>
  BY DEF DupFd
<1> QED
  BY <1>1, <1>2, <1>3, <1>4, <1>5, PinKeeps

LEMMA Dup2Keeps ==
  ASSUME PackIInv, NEW t \in PackThreads, NEW n \in Numbers, NEW m \in Numbers, Dup2(t, n, m)
  PROVE  PackIInv'
<1>1. PICK s \in FindHandle(n, {"active"}) : handles' = WithPin(s) /\
        Become(t, [step |-> "dup2", slot |-> s, target |-> m])
  BY DEF Dup2, PinHandle
<1>2. PICK k : k = [step |-> "dup2", slot |-> s, target |-> m]
  OBVIOUS
<1>3. s \in PackSlots /\ handles[s].state = "active" /\ handles[s].fd = n
  BY DEF FindHandle
<1>4. /\ k \in Doings /\ PinOf(k) = s /\ TempOf(k) = {} /\ NewOf(k) = {} /\ DupOf(k) = {}
      /\ TargetOf(k) = {m} /\ TakesOf(k) = 0
  BY <1>2, <1>3 DEF Doings, PinOf, TempOf, NewOf, DupOf, TargetOf, TakesOf, PinSteps, TempSteps,
                    Dup2Steps
<1>5. /\ doing[t] = NotDoing /\ UNCHANGED <<allocated, uses, position, native>>
      /\ n # m /\ dupLock = 0 /\ dupLock' = t
  BY DEF Dup2, DupLockFree, NoThread
<1>6. \A i \in TargetOf(k) : dupLock' = t /\ handles[s].fd # i
  BY <1>3, <1>4, <1>5
<1> QED
  BY <1>1, <1>2, <1>3, <1>4, <1>5, <1>6, PinKeeps

LEMMA ReleaseKeeps ==
  ASSUME PackIInv, NEW t \in PackThreads, ReleaseHandle(t) PROVE PackIInv'
<1>1. handles \in [PackSlots -> Handles] /\ position \in [OpenFiles -> 0 .. LongMax]
  BY PackFacts
<1>2. PICK o : o = doing[t]
  OBVIOUS
<1>3. PICK s : s = o.slot
  OBVIOUS
<1>4. o \in Doings /\ CallHolds(t, o)
  BY <1>2, PackFacts
<1>5. s \in PackSlots /\ s # 0
  BY <1>2, <1>3, <1>4, DoingParts, PackAssumption DEF ReleaseHandle
<1>6. PinOf(o) = s /\ TempOf(o) = {} /\ NewOf(o) = {} /\ TakesOf(o) = 0
  BY <1>2, <1>3 DEF ReleaseHandle, PinOf, TempOf, NewOf, TakesOf, PinSteps, TempSteps
<1>7. IsLive(s) /\ handles[s].pins \in Nat
  BY <1>1, <1>4, <1>5, <1>6, HandleFacts DEF CallHolds
<1>8. handles[s].pins - 1 \in Nat
  <2>1. handles[s].pins # 0
    BY <1>2, <1>5, <1>6, Unpinning
  <2> QED
    BY <1>7, <2>1
<1>9. handles[s] \in [state : {"active", "closing"}, fd : Numbers, pins : Nat, file : OpenFiles]
  BY <1>1, <1>5, <1>7 DEF Handles, FreeHandle, IsLive
<1>10. handles' = Unpinned(s) /\ UNCHANGED <<allocated, uses, position, native>>
  BY <1>2, <1>3 DEF ReleaseHandle
<1>11. \A r \in PackSlots : handles'[r] = IF r = s THEN [handles[s] EXCEPT !.pins = @ - 1]
                                          ELSE handles[r]
  BY <1>1, <1>10 DEF Unpinned
<1>12. \A r \in PackSlots :
         /\ handles'[r].fd = handles[r].fd /\ handles'[r].file = handles[r].file
         /\ handles'[r].state = handles[r].state
         /\ handles'[r].pins = IF r = s THEN handles[r].pins - 1 ELSE handles[r].pins
  BY <1>9, <1>11
<1>13. handles' \in [PackSlots -> Handles]
  <2>1. [handles[s] EXCEPT !.pins = @ - 1]
          \in [state : {"active", "closing"}, fd : Numbers, pins : Nat, file : OpenFiles]
    BY <1>8, <1>9
  <2> QED
    BY <1>1, <1>10, <2>1 DEF Unpinned, Handles
<1>14. PICK k : k = NotDoing
  OBVIOUS
<1>15. /\ k \in Doings /\ PinOf(k) = 0 /\ TempOf(k) = {} /\ NewOf(k) = {} /\ DupOf(k) = {}
       /\ TargetOf(k) = {} /\ TakesOf(k) = 0
  BY <1>14, IdleCall
<1>16. SameHandles(o)
  BY <1>12 DEF SameHandles, IsLive
<1>17. PinsMoved(o, k)
  BY <1>5, <1>6, <1>12, <1>15, PackAssumption DEF PinsMoved
<1>18. NumbersMoved(o, k) /\ FilesMoved(o, k)
  BY <1>6, <1>10, <1>15 DEF NumbersMoved, FilesMoved
<1>19. CallMoved(t, o, k)
  BY <1>15 DEF CallMoved, ReleaseHandle, NoThread
<1>20. position' \in [OpenFiles -> 0 .. LongMax] /\ doing' = [doing EXCEPT ![t] = k]
  BY <1>1, <1>10, <1>14 DEF Become, ReleaseHandle
<1> QED
  BY <1>2, <1>13, <1>15, <1>16, <1>17, <1>18, <1>19, <1>20, QuietStep

\* A step that leaves the handles, and what is pinned, as they are.
LEMMA SameStep ==
  ASSUME PackIInv, NEW t \in PackThreads, NEW o, o = doing[t], NEW k \in Doings,
         doing' = [doing EXCEPT ![t] = k], position' \in [OpenFiles -> 0 .. LongMax],
         UNCHANGED <<handles, dupLock>>, PinOf(k) = PinOf(o),
         NumbersMoved(o, k), FilesMoved(o, k),
         \A f \in DupOf(k) : f = handles[PinOf(k)].file,
         TakesOf(k) # 0 => TakesOf(k) = TakesOf(o), TargetOf(k) \subseteq TargetOf(o)
  PROVE  PackIInv'
<1>1. handles' \in [PackSlots -> Handles] /\ CallHolds(t, o)
  BY PackFacts
<1>2. SameHandles(o) /\ PinsMoved(o, k)
  BY DEF SameHandles, PinsMoved, IsLive
<1>3. CallMoved(t, o, k)
  BY <1>1 DEF CallMoved, CallHolds
<1> QED
  BY <1>1, <1>2, <1>3, QuietStep

LEMMA MoveKeeps ==
  ASSUME PackIInv, NEW t \in PackThreads, NEW p \in 0 .. LongMax, MovePosition(t, p)
  PROVE  PackIInv'
<1>1. PICK o : o = doing[t]
  OBVIOUS
<1>2. o \in Doings /\ CallHolds(t, o) /\ doing = [u \in PackThreads |-> doing[u]]
  BY <1>1, PackFacts
<1>3. UNCHANGED <<handles, allocated, uses, native, dupLock, doing>>
  BY DEF MovePosition
<1>4. position' \in [OpenFiles -> 0 .. LongMax]
  <2>1. position \in [OpenFiles -> 0 .. LongMax]
    BY PackFacts
  <2> QED
    BY <2>1 DEF MovePosition
<1>5. doing' = [doing EXCEPT ![t] = o]
  BY <1>1, <1>2, <1>3
<1>6. NumbersMoved(o, o) /\ FilesMoved(o, o)
  BY <1>2, <1>3 DEF NumbersMoved, FilesMoved, CallHolds
<1>7. \A f \in DupOf(o) : f = handles[PinOf(o)].file
  BY <1>2 DEF CallHolds
<1>8. UNCHANGED <<handles, dupLock>>
  BY <1>3
<1> QED
  BY <1>1, <1>2, <1>4, <1>5, <1>6, <1>7, <1>8, SameStep

LEMMA PositionOf ==
  ASSUME PackIInv, NEW t \in PackThreads, doing[t].step = "use"
  PROVE  position[handles[doing[t].slot].file] \in 0 .. LongMax
<1>1. PICK o : o = doing[t]
  OBVIOUS
<1>2. PICK s : s = o.slot
  OBVIOUS
<1>3. o \in Doings /\ CallHolds(t, o) /\ handles \in [PackSlots -> Handles]
  BY <1>1, PackFacts
<1>4. s \in PackSlots /\ s # 0 /\ PinOf(o) = s
  BY <1>1, <1>2, <1>3, DoingParts, PackAssumption DEF PinOf, PinSteps
<1>5. handles[s].file \in OpenFiles
  BY <1>3, <1>4, HandleFacts DEF CallHolds, IsLive
<1> QED
  BY <1>1, <1>2, <1>5, PackFacts

LEMMA ReadKeeps == ASSUME PackIInv, NEW t \in PackThreads, ReadPacked(t) PROVE PackIInv'
<1>1. PICK at : at = position[handles[doing[t].slot].file]
  OBVIOUS
<1>2. at \in Int
  BY <1>1, PositionOf DEF ReadPacked
<1>3. at \in 0 .. LongMax
  BY <1>1, PositionOf DEF ReadPacked
<1>4. PICK p \in at + 1 .. EntrySize : MovePosition(t, p)
  BY <1>1 DEF ReadPacked
<1>5. p \in 0 .. LongMax
  BY <1>3, <1>4, PackAssumption
<1> QED
  BY <1>4, <1>5, MoveKeeps

LEMMA SeekKeeps == ASSUME PackIInv, NEW t \in PackThreads, Seek(t) PROVE PackIInv'
<1>1. PICK at : at = position[handles[doing[t].slot].file]
  OBVIOUS
<1>2. at \in 0 .. LongMax
  BY <1>1, PositionOf DEF Seek
<1>3. PICK base \in {0, EntrySize, at}, offset \in 0 .. LongMax :
        \/ \E p \in Sought(base, offset) : MovePosition(t, p)
        \/ offset <= base /\ MovePosition(t, base - offset)
  BY <1>1 DEF Seek
<1>4. base \in 0 .. LongMax /\ LongMax \in Nat
  BY <1>2, <1>3, PackAssumption
<1>5. CASE offset <= base /\ MovePosition(t, base - offset)
  BY <1>3, <1>4, <1>5, MoveKeeps
<1>6. CASE \E p \in Sought(base, offset) : MovePosition(t, p)
  <2>1. PICK p \in Sought(base, offset) : MovePosition(t, p)
    BY <1>6
  <2>2. p \in 0 .. LongMax
    BY <1>3, <1>4, <2>1 DEF Sought
  <2> QED
    BY <2>1, <2>2, MoveKeeps
<1> QED
  BY <1>3, <1>5, <1>6

LEMMA LowestIn ==
  ASSUME NEW S \in SUBSET Nat, S # {} PROVE Lowest(S) \in S
<1>1. \E s \in S : \A r \in S : s <= r
  BY LeastExists
<1> QED
  BY <1>1 DEF Lowest

LEMMA OpenPathKeeps == ASSUME PackIInv, NEW t \in PackThreads, OpenPath(t) PROVE PackIInv'
<1>1. PICK n : n = Lowest(Numbers \ native)
  OBVIOUS
<1>2. PICK f : f = Lowest(OpenFiles \ allocated)
  OBVIOUS
<1>3. PICK k : k = [step |-> "install", fd |-> n, file |-> f, slot |-> 0]
  OBVIOUS
<1>4. n \in Numbers \ native /\ f \in OpenFiles \ allocated
  <2>1. Numbers \ native # {} /\ OpenFiles \ allocated # {}
    BY PackFacts DEF OpenPath
  <2>2. Numbers \ native \in SUBSET Nat /\ OpenFiles \ allocated \in SUBSET Nat
    BY PackAssumption
  <2> QED
    BY <1>1, <1>2, <2>1, <2>2, LowestIn
<1>5. /\ native' = native \union {n} /\ allocated' = allocated \union {f}
      /\ position' = [position EXCEPT ![f] = 0] /\ doing' = [doing EXCEPT ![t] = k]
      /\ UNCHANGED <<handles, uses, dupLock>> /\ doing[t] = NotDoing
  BY <1>1, <1>2, <1>3 DEF OpenPath, Become
<1>6. /\ k \in Doings /\ PinOf(k) = 0 /\ TempOf(k) = {n} /\ NewOf(k) = {f} /\ DupOf(k) = {}
      /\ TargetOf(k) = {} /\ TakesOf(k) = 0
  BY <1>3, <1>4 DEF Doings, PinOf, TempOf, NewOf, DupOf, TargetOf, TakesOf, PinSteps, TempSteps,
                    Dup2Steps
<1>7. PICK o : o = doing[t]
  OBVIOUS
<1>8. PinOf(o) = 0 /\ TempOf(o) = {} /\ NewOf(o) = {}
  BY <1>5, <1>7, IdleCall
<1>9. position' \in [OpenFiles -> 0 .. LongMax]
  <2>1. position \in [OpenFiles -> 0 .. LongMax] /\ 0 \in 0 .. LongMax
    BY PackFacts, PackAssumption
  <2> QED
    BY <1>5, <2>1
<1>10. NumbersMoved(o, k) /\ FilesMoved(o, k)
  BY <1>4, <1>5, <1>6, <1>8 DEF NumbersMoved, FilesMoved
<1>11. UNCHANGED <<handles, dupLock>> /\ PinOf(k) = PinOf(o) /\ TargetOf(k) \subseteq TargetOf(o)
  BY <1>5, <1>6, <1>8
<1> QED
  BY <1>5, <1>6, <1>7, <1>9, <1>10, <1>11, SameStep

\* A call that goes on to the release of what it pins, or gives up a number of its own.
LEMMA SettledStep ==
  ASSUME PackIInv, NEW t \in PackThreads, NEW o, o = doing[t], NEW k \in Doings,
         doing' = [doing EXCEPT ![t] = k], UNCHANGED <<handles, uses, position, dupLock>>,
         PinOf(k) = PinOf(o), Settled(k), native' = native \ TempOf(o),
         allocated' = allocated \ NewOf(o)
  PROVE  PackIInv'
<1>1. position' \in [OpenFiles -> 0 .. LongMax]
  BY PackFacts
<1>2. NumbersMoved(o, k) /\ FilesMoved(o, k)
  BY DEF NumbersMoved, FilesMoved, Settled
<1>3. /\ \A f \in DupOf(k) : f = handles[PinOf(k)].file
      /\ TakesOf(k) # 0 => TakesOf(k) = TakesOf(o)
      /\ TargetOf(k) \subseteq TargetOf(o)
  BY DEF Settled
<1>4. UNCHANGED <<handles, dupLock>>
  OBVIOUS
<1> QED
  BY <1>1, <1>2, <1>3, <1>4, SameStep

LEMMA ReleaseNext ==
  ASSUME NEW s \in PackSlots, NEW k, k = [step |-> "release", slot |-> s]
  PROVE  k \in Doings /\ PinOf(k) = s /\ Settled(k)
BY ReleaseCall DEF Settled

LEMMA DupOpenKeeps == ASSUME PackIInv, NEW t \in PackThreads, DupOpen(t) PROVE PackIInv'
<1>1. PICK o : o = doing[t]
  OBVIOUS
<1>2. PICK s : s = o.slot
  OBVIOUS
<1>3. o \in Doings /\ handles \in [PackSlots -> Handles] /\ CallHolds(t, o)
  BY <1>1, PackFacts
<1>4. s \in PackSlots /\ s # 0
  BY <1>1, <1>2, <1>3, DoingParts, PackAssumption DEF DupOpen
<1>5. PinOf(o) = s /\ TempOf(o) = {} /\ NewOf(o) = {} /\ TargetOf(o) = {}
  BY <1>1, <1>2 DEF DupOpen, PinOf, TempOf, NewOf, TargetOf, PinSteps, TempSteps, Dup2Steps
<1>6. UNCHANGED <<handles, allocated, uses, position, dupLock>>
  BY DEF DupOpen
<1>7. CASE Become(t, [step |-> "release", slot |-> s]) /\ native' = native
  <2>1. PICK k : k = [step |-> "release", slot |-> s]
    OBVIOUS
  <2>2. k \in Doings /\ PinOf(k) = s /\ Settled(k)
    BY <1>4, <2>1, ReleaseNext
  <2>3. doing' = [doing EXCEPT ![t] = k]
    BY <1>7, <2>1 DEF Become
  <2>4. native' = native \ TempOf(o) /\ allocated' = allocated \ NewOf(o) /\ PinOf(k) = PinOf(o)
    BY <1>5, <1>6, <1>7, <2>2
  <2> QED
    BY <1>1, <1>6, <2>2, <2>3, <2>4, SettledStep
<1>8. CASE \E n \in Numbers \ native :
             /\ native' = native \union {n}
             /\ Become(t, [step |-> "install", fd |-> n, slot |-> s, file |-> handles[s].file])
  <2>1. PICK n \in Numbers \ native :
             /\ native' = native \union {n}
             /\ Become(t, [step |-> "install", fd |-> n, slot |-> s, file |-> handles[s].file])
    BY <1>8
  <2>2. PICK f : f = handles[s].file
    OBVIOUS
  <2>3. f \in OpenFiles
    BY <1>3, <1>4, <1>5, <2>2, HandleFacts DEF CallHolds, IsLive
  <2>4. PICK k : k = [step |-> "install", fd |-> n, slot |-> s, file |-> f]
    OBVIOUS
  <2>5. /\ k \in Doings /\ PinOf(k) = s /\ TempOf(k) = {n} /\ NewOf(k) = {} /\ DupOf(k) = {f}
        /\ TargetOf(k) = {} /\ TakesOf(k) = 0
    BY <1>4, <2>3, <2>4 DEF Doings, PinOf, TempOf, NewOf, DupOf, TargetOf, TakesOf, PinSteps,
                            TempSteps, Dup2Steps
  <2>6. doing' = [doing EXCEPT ![t] = k]
    BY <2>1, <2>2, <2>4 DEF Become
  <2>7. NumbersMoved(o, k) /\ FilesMoved(o, k)
    BY <1>5, <1>6, <2>1, <2>5 DEF NumbersMoved, FilesMoved
  <2>8. \A g \in DupOf(k) : g = handles[PinOf(k)].file
    BY <2>2, <2>5
  <2>9. position' \in [OpenFiles -> 0 .. LongMax]
    BY <1>6, PackFacts
  <2>10. UNCHANGED <<handles, dupLock>> /\ PinOf(k) = PinOf(o) /\ TargetOf(k) \subseteq TargetOf(o)
    BY <1>5, <1>6, <2>5
  <2> QED
    BY <1>1, <2>5, <2>6, <2>7, <2>8, <2>9, <2>10, SameStep
<1> QED
  BY <1>1, <1>2, <1>7, <1>8 DEF DupOpen

LEMMA Dup2OpenKeeps == ASSUME PackIInv, NEW t \in PackThreads, Dup2Open(t) PROVE PackIInv'
<1>1. PICK o : o = doing[t]
  OBVIOUS
<1>2. PICK s, m : s = o.slot /\ m = o.target
  OBVIOUS
<1>3. o \in Doings /\ handles \in [PackSlots -> Handles] /\ CallHolds(t, o)
  BY <1>1, PackFacts
<1>4. s \in PackSlots /\ s # 0 /\ m \in Numbers
  BY <1>1, <1>2, <1>3, DoingParts, PackAssumption DEF Dup2Open, Dup2Steps
<1>5. PinOf(o) = s /\ TempOf(o) = {} /\ NewOf(o) = {} /\ TargetOf(o) = {m}
  BY <1>1, <1>2 DEF Dup2Open, PinOf, TempOf, NewOf, TargetOf, PinSteps, TempSteps, Dup2Steps
<1>6. UNCHANGED <<handles, allocated, uses, position, dupLock>>
  BY DEF Dup2Open
<1>7. CASE Become(t, [step |-> "release", slot |-> s]) /\ native' = native
  <2>1. PICK k : k = [step |-> "release", slot |-> s]
    OBVIOUS
  <2>2. k \in Doings /\ PinOf(k) = s /\ Settled(k)
    BY <1>4, <2>1, ReleaseNext
  <2>3. doing' = [doing EXCEPT ![t] = k]
    BY <1>7, <2>1 DEF Become
  <2>4. native' = native \ TempOf(o) /\ allocated' = allocated \ NewOf(o) /\ PinOf(k) = PinOf(o)
    BY <1>5, <1>6, <1>7, <2>2
  <2> QED
    BY <1>1, <1>6, <2>2, <2>3, <2>4, SettledStep
<1>8. CASE \E n \in Numbers \ native :
             /\ native' = native \union {n}
             /\ Become(t, [step |-> "target", slot |-> s, target |-> m, fd |-> n])
  <2>1. PICK n \in Numbers \ native :
             /\ native' = native \union {n}
             /\ Become(t, [step |-> "target", slot |-> s, target |-> m, fd |-> n])
    BY <1>8
  <2>2. PICK k : k = [step |-> "target", slot |-> s, target |-> m, fd |-> n]
    OBVIOUS
  <2>3. /\ k \in Doings /\ PinOf(k) = s /\ TempOf(k) = {n} /\ NewOf(k) = {} /\ DupOf(k) = {}
        /\ TargetOf(k) = {m} /\ TakesOf(k) = 0
    BY <1>4, <2>2 DEF Doings, PinOf, TempOf, NewOf, DupOf, TargetOf, TakesOf, PinSteps,
                      TempSteps, Dup2Steps
  <2>4. doing' = [doing EXCEPT ![t] = k]
    BY <2>1, <2>2 DEF Become
  <2>5. NumbersMoved(o, k) /\ FilesMoved(o, k)
    BY <1>5, <1>6, <2>1, <2>3 DEF NumbersMoved, FilesMoved
  <2>6. position' \in [OpenFiles -> 0 .. LongMax]
    BY <1>6, PackFacts
  <2>7. UNCHANGED <<handles, dupLock>> /\ PinOf(k) = PinOf(o) /\ TargetOf(k) \subseteq TargetOf(o)
    BY <1>5, <1>6, <2>3
  <2> QED
    BY <1>1, <2>3, <2>4, <2>5, <2>6, <2>7, SameStep
<1> QED
  BY <1>1, <1>2, <1>7, <1>8 DEF Dup2Open

\* The open file of a handle.
LEMMA FileInUse ==
  ASSUME PackIInv, NEW s \in PackSlots, IsLive(s), NEW f, f = handles[s].file
  PROVE  /\ f \in OpenFiles /\ uses[f] \in Nat /\ uses[f] > 0 /\ f \in allocated
         /\ \A u \in PackThreads : f \notin NewOf(doing[u])
<1>1. f \in OpenFiles
  BY PackFacts, HandleFacts DEF IsLive
<1>2. uses[f] \in Nat /\ HandlesHold
  BY <1>1, PackFacts
<1>3. uses[f] # 0
  <2>1. IsFiniteSet(SlotsOf(f)) /\ uses[f] = Cardinality(SlotsOf(f))
    BY <1>1, <1>2, PackAssumption, FS_Subset DEF SlotsOf, HandlesHold
  <2>2. s \in SlotsOf(f)
    BY DEF SlotsOf
  <2> QED
    BY <2>1, <2>2, FS_EmptySet
<1>4. f \in allocated
  BY <1>1, <1>2, <1>3 DEF HandlesHold
<1>5. \A u \in PackThreads : f \notin NewOf(doing[u])
  BY <1>3, PackFacts DEF CallHolds
<1> QED
  BY <1>1, <1>2, <1>3, <1>4, <1>5

LEMMA InstallKeeps == ASSUME PackIInv, NEW t \in PackThreads, InstallHandle(t) PROVE PackIInv'
<1>1. PICK o : o = doing[t]
  OBVIOUS
<1>2. PICK s, f, n : s = o.slot /\ f = o.file /\ n = o.fd
  OBVIOUS
<1>3. o \in Doings /\ handles \in [PackSlots -> Handles] /\ CallHolds(t, o) /\ o.step = "install"
  BY <1>1, PackFacts DEF InstallHandle
<1>4. s \in PackSlots \union {0} /\ n \in Numbers /\ f \in OpenFiles
  BY <1>2, <1>3, DoingParts
<1>5. /\ PinOf(o) = s /\ TempOf(o) = {n} /\ NewOf(o) = (IF s = 0 THEN {f} ELSE {})
      /\ DupOf(o) = (IF s = 0 THEN {} ELSE {f})
  BY <1>2, <1>3 DEF PinOf, TempOf, NewOf, DupOf, PinSteps, TempSteps
<1>6. PICK k : k = IF s = 0 THEN NotDoing ELSE [step |-> "release", slot |-> s]
  OBVIOUS
<1>7. k \in Doings /\ PinOf(k) = s /\ Settled(k)
  <2>1. CASE s = 0
    BY <1>6, <2>1, IdleCall DEF Settled
  <2>2. CASE s # 0
    BY <1>4, <1>6, <2>2, ReleaseNext
  <2> QED
    BY <2>1, <2>2
<1>8. doing' = [doing EXCEPT ![t] = k] /\ UNCHANGED <<position, dupLock>>
  BY <1>1, <1>2, <1>6 DEF InstallHandle, Become
<1>9. CASE /\ native' = native \ {n} /\ UNCHANGED <<handles, uses>>
           /\ allocated' = IF s = 0 THEN allocated \ {f} ELSE allocated
  <2>1. native' = native \ TempOf(o) /\ allocated' = allocated \ NewOf(o) /\ PinOf(k) = PinOf(o)
    BY <1>5, <1>7, <1>9
  <2>2. UNCHANGED <<handles, uses, position, dupLock>>
    BY <1>8, <1>9
  <2> QED
    BY <1>1, <1>7, <1>8, <2>1, <2>2, SettledStep
<1>10. CASE /\ FreeHandles # {} /\ UNCHANGED <<native, allocated>>
            /\ handles' = [handles EXCEPT ![Lowest(FreeHandles)] =
                             [state |-> "active", fd |-> n, pins |-> 0, file |-> f]]
            /\ uses' = [uses EXCEPT ![f] = @ + 1]
  <2>1. PICK x : x = Lowest(FreeHandles)
    OBVIOUS
  <2>2. x \in PackSlots /\ handles[x].state = "free"
    <3>1. FreeHandles \in SUBSET Nat
      BY PackAssumption DEF FreeHandles
    <3>2. x \in FreeHandles
      BY <1>10, <2>1, <3>1, LowestIn
    <3> QED
      BY <3>2 DEF FreeHandles
  <2>3. PICK h : h = [state |-> "active", fd |-> n, pins |-> 0, file |-> f]
    OBVIOUS
  <2>4. h \in Handles /\ h.pins = 0 /\ h.state = "active" /\ h.fd = n /\ h.file = f
    BY <1>4, <2>3 DEF Handles
  <2>5. handles' = [handles EXCEPT ![x] = h] /\ handles[x].pins = 0
    BY <1>3, <1>10, <2>1, <2>2, <2>3, HandleFacts
  <2>6. f \in allocated /\ uses[f] \in Nat /\ n \in native
        /\ \A u \in PackThreads \ {t} : f \notin NewOf(doing[u])
    <3>1. n \in native
      BY <1>3, <1>5 DEF CallHolds
    <3>2. CASE s = 0
      BY <1>1, <1>3, <1>4, <1>5, <3>1, <3>2, PackFacts DEF CallHolds, CallsApart
    <3>3. CASE s # 0
      BY <1>3, <1>4, <1>5, <3>1, <3>3, FileInUse DEF CallHolds
    <3> QED
      BY <3>2, <3>3
  <2>7. native' = (native \ (TempOf(o) \union FdOf(handles[x]))) \union FdOf(h)
    BY <1>5, <1>10, <2>2, <2>4, <2>6 DEF FdOf
  <2>8. HandleFits(t, x, h)
    <3>1. \A u \in PackThreads \ {t} : TempOf(o) \intersect TempOf(doing[u]) = {}
      BY <1>1, PackFacts DEF CallsApart
    <3>2. \A r \in PackSlots : IsLive(r) => handles[r].fd # n
      BY <1>3, <1>5 DEF CallHolds
    <3> QED
      BY <1>5, <2>4, <2>6, <3>1, <3>2 DEF HandleFits, FdOf, IsLive
  <2>9. FilesReplaced(t, x, h)
    <3>1. uses \in [OpenFiles -> Nat] /\ HandlesHold /\ allocated \subseteq OpenFiles
      BY PackFacts
    <3>2. uses' \in [OpenFiles -> Nat]
      BY <1>4, <1>10, <3>1
    <3>3. \A g \in OpenFiles : uses'[g] = IF g = f THEN uses[g] + 1 ELSE uses[g]
      BY <1>10, <3>1
    <3>4. \A g \in OpenFiles : OneOf(g, handles[x]) = 0 /\ OneOf(g, h) = IF g = f THEN 1 ELSE 0
      BY <2>2, <2>4 DEF OneOf
    <3>5. \A g \in OpenFiles : uses'[g] = uses[g] - OneOf(g, handles[x]) + OneOf(g, h)
      BY <3>1, <3>3, <3>4
    <3>6. ASSUME NEW g \in OpenFiles
          PROVE  g \in allocated' <=>
                   uses'[g] > 0 \/ \E u \in PackThreads \ {t} : g \in NewOf(doing[u])
      <4>1. g \in allocated <=> uses[g] > 0 \/ \E u \in PackThreads : g \in NewOf(doing[u])
        BY <3>1 DEF HandlesHold
      <4>2. CASE g = f
        BY <1>10, <2>6, <3>3, <4>2
      <4>3. CASE g # f
        <5>1. g \notin NewOf(doing[t])
          BY <1>1, <1>5, <4>3
        <5> QED
          BY <1>10, <3>3, <4>1, <4>3, <5>1
      <4> QED
        BY <4>2, <4>3
    <3> QED
      BY <1>10, <3>1, <3>2, <3>5, <3>6 DEF FilesReplaced
  <2>10. PinOf(k) = PinOf(o) /\ (handles[x].state = "closing" => TakesOf(o) = x)
    BY <1>5, <1>7, <2>2
  <2>11. dupLock' = dupLock /\ position' = position
    BY <1>8
  <2> QED
    BY <1>1, <1>7, <1>8, <2>2, <2>4, <2>5, <2>7, <2>8, <2>9, <2>10, <2>11, LoudStep
<1> QED
  BY <1>1, <1>2, <1>9, <1>10 DEF InstallHandle

LEMMA CloseNowKeeps ==
  ASSUME PackIInv, NEW t \in PackThreads, NEW o, o = doing[t], NEW s \in PackSlots, IsLive(s),
         handles[s].pins = 0, handles[s].state = "closing" => TakesOf(o) = s,
         PinOf(o) = 0, TempOf(o) = {}, NewOf(o) = {}, CloseNow(t, s),
         UNCHANGED <<position, dupLock>>
  PROVE  PackIInv'
<1>1. PICK k, h, f : k = NotDoing /\ h = FreeHandle /\ f = handles[s].file
  OBVIOUS
<1>2. /\ f \in OpenFiles /\ uses[f] \in Nat /\ uses[f] > 0 /\ f \in allocated
      /\ \A u \in PackThreads : f \notin NewOf(doing[u])
  BY <1>1, FileInUse
<1>3. /\ doing' = [doing EXCEPT ![t] = k] /\ handles' = [handles EXCEPT ![s] = h]
      /\ native' = native \ {handles[s].fd} /\ uses' = [uses EXCEPT ![f] = @ - 1]
      /\ allocated' = IF uses[f] = 1 THEN allocated \ {f} ELSE allocated
  BY <1>1 DEF CloseNow, Drop, Become
<1>4. k \in Doings /\ PinOf(k) = PinOf(o) /\ Settled(k)
  BY <1>1, IdleCall DEF Settled
<1>5. h \in Handles /\ h.pins = 0 /\ h.state = "free"
  BY <1>1 DEF Handles, FreeHandle
<1>6. native' = (native \ (TempOf(o) \union FdOf(handles[s]))) \union FdOf(h)
  BY <1>3, <1>5 DEF FdOf, IsLive
<1>7. HandleFits(t, s, h)
  BY <1>5 DEF HandleFits, FdOf
<1>8. FilesReplaced(t, s, h)
  <2>1. uses \in [OpenFiles -> Nat] /\ HandlesHold /\ allocated \subseteq OpenFiles
    BY PackFacts
  <2>2. uses' \in [OpenFiles -> Nat]
    <3>1. uses[f] - 1 \in Nat
      BY <1>2
    <3> QED
      BY <1>2, <1>3, <2>1, <3>1
  <2>3. \A g \in OpenFiles : uses'[g] = IF g = f THEN uses[g] - 1 ELSE uses[g]
    BY <1>3, <2>1
  <2>4. \A g \in OpenFiles : OneOf(g, h) = 0 /\ OneOf(g, handles[s]) = IF g = f THEN 1 ELSE 0
    BY <1>1, <1>5 DEF OneOf, IsLive
  <2>5. \A g \in OpenFiles : uses'[g] = uses[g] - OneOf(g, handles[s]) + OneOf(g, h)
    BY <2>1, <2>3, <2>4
  <2>6. ASSUME NEW g \in OpenFiles
        PROVE  g \in allocated' <=>
                 uses'[g] > 0 \/ \E u \in PackThreads \ {t} : g \in NewOf(doing[u])
    <3>1. g \in allocated <=> uses[g] > 0 \/ \E u \in PackThreads : g \in NewOf(doing[u])
      BY <2>1 DEF HandlesHold
    <3>2. CASE g = f
      <4>1. g \in allocated' <=> uses[g] # 1
        BY <1>2, <1>3, <3>2
      <4>2. uses'[g] = uses[g] - 1
        BY <2>3, <3>2
      <4> QED
        BY <1>2, <3>2, <4>1, <4>2
    <3>3. CASE g # f
      BY <1>3, <2>3, <3>1, <3>3
    <3> QED
      BY <3>2, <3>3
  <2>7. allocated' \subseteq OpenFiles
    BY <1>3, <2>1
  <2> QED
    BY <2>2, <2>5, <2>6, <2>7 DEF FilesReplaced
<1>9. dupLock' = dupLock /\ position' = position
  OBVIOUS
<1> QED
  BY <1>3, <1>4, <1>5, <1>6, <1>7, <1>8, <1>9, LoudStep

\* A handle starts or stops being taken away.
LEMMA StateStep ==
  ASSUME PackIInv, NEW t \in PackThreads, NEW o, o = doing[t], NEW k \in Doings,
         doing' = [doing EXCEPT ![t] = k], NEW s \in PackSlots, IsLive(s),
         NEW c \in {"active", "closing"}, handles' = [handles EXCEPT ![s].state = c],
         handles[s].state = "closing" => TakesOf(o) = s,
         UNCHANGED <<uses, allocated, position, dupLock>>, PinOf(k) = PinOf(o),
         NumbersMoved(o, k), NewOf(k) = {}, NewOf(o) = {}, DupOf(k) = {},
         TargetOf(k) \subseteq TargetOf(o),
         TakesOf(k) # 0 => /\ TakesOf(k) = s /\ c = "closing"
                           /\ TakesOf(k) = TakesOf(o) \/ handles[s].state # "closing"
                           /\ \A n \in TargetOf(k) : handles[s].fd = n
  PROVE  PackIInv'
<1>1. /\ handles \in [PackSlots -> Handles] /\ CallHolds(t, o)
      /\ position' \in [OpenFiles -> 0 .. LongMax]
  BY PackFacts
<1>2. handles[s] \in [state : {"active", "closing"}, fd : Numbers, pins : Nat, file : OpenFiles]
  BY <1>1 DEF Handles, FreeHandle, IsLive
<1>3. \A r \in PackSlots : handles'[r] = IF r = s THEN [handles[s] EXCEPT !.state = c]
                                         ELSE handles[r]
  BY <1>1
<1>4. \A r \in PackSlots :
        /\ handles'[r].fd = handles[r].fd /\ handles'[r].file = handles[r].file
        /\ handles'[r].pins = handles[r].pins
        /\ handles'[r].state = IF r = s THEN c ELSE handles[r].state
  BY <1>2, <1>3
<1>5. handles' \in [PackSlots -> Handles]
  <2>1. [handles[s] EXCEPT !.state = c]
          \in [state : {"active", "closing"}, fd : Numbers, pins : Nat, file : OpenFiles]
    BY <1>2
  <2> QED
    BY <1>1, <2>1 DEF Handles
<1>6. SameHandles(o)
  BY <1>4 DEF SameHandles, IsLive
<1>7. PinsMoved(o, k)
  BY <1>4 DEF PinsMoved
<1>8. FilesMoved(o, k)
  BY DEF FilesMoved
<1>9. CallMoved(t, o, k)
  <2>1. \A n \in TargetOf(k) : dupLock' = t /\ handles[PinOf(k)].fd # n
    BY <1>1 DEF CallHolds
  <2>2. PinOf(k) # 0 => IsLive(PinOf(k))
    BY <1>1 DEF CallHolds
  <2> QED
    BY <1>4, <2>1, <2>2 DEF CallMoved
<1> QED
  BY <1>1, <1>5, <1>6, <1>7, <1>8, <1>9, QuietStep

LEMMA ClosePackedKeeps ==
  ASSUME PackIInv, NEW t \in PackThreads, NEW n \in Numbers, ClosePacked(t, n) PROVE PackIInv'
<1>1. PICK o : o = doing[t]
  OBVIOUS
<1>2. PinOf(o) = 0 /\ TempOf(o) = {} /\ NewOf(o) = {} /\ TargetOf(o) = {}
  BY <1>1, IdleCall DEF ClosePacked
<1>3. PICK s \in FindHandle(n, {"active"}) :
        IF handles[s].pins = 0 THEN CloseNow(t, s)
        ELSE /\ handles' = [handles EXCEPT ![s].state = "closing"]
             /\ Become(t, [step |-> "drain", slot |-> s])
             /\ UNCHANGED <<native, uses, allocated>>
  BY DEF ClosePacked
<1>4. s \in PackSlots /\ handles[s].state = "active" /\ IsLive(s) /\ s # 0
  BY PackAssumption DEF FindHandle, IsLive
<1>5. UNCHANGED <<position, dupLock>>
  BY DEF ClosePacked
<1>6. CASE handles[s].pins = 0
  BY <1>1, <1>2, <1>3, <1>4, <1>5, <1>6, CloseNowKeeps
<1>7. CASE handles[s].pins # 0
  <2>1. PICK k, c : k = [step |-> "drain", slot |-> s] /\ c = "closing"
    OBVIOUS
  <2>2. /\ k \in Doings /\ PinOf(k) = 0 /\ TempOf(k) = {} /\ NewOf(k) = {} /\ DupOf(k) = {}
        /\ TargetOf(k) = {} /\ TakesOf(k) = s
    BY <1>4, <2>1 DEF Doings, PinOf, TempOf, NewOf, DupOf, TargetOf, TakesOf, PinSteps,
                      TempSteps, Dup2Steps
  <2>3. /\ doing' = [doing EXCEPT ![t] = k] /\ handles' = [handles EXCEPT ![s].state = c]
        /\ UNCHANGED <<native, uses, allocated>> /\ c \in {"active", "closing"}
    BY <1>3, <1>7, <2>1 DEF Become
  <2>4. NumbersMoved(o, k)
    BY <1>2, <2>2, <2>3 DEF NumbersMoved
  <2>5. TakesOf(k) # 0 => /\ TakesOf(k) = s /\ c = "closing"
                          /\ TakesOf(k) = TakesOf(o) \/ handles[s].state # "closing"
                          /\ \A i \in TargetOf(k) : handles[s].fd = i
    BY <1>4, <2>1, <2>2
  <2>6. /\ UNCHANGED <<uses, allocated, position, dupLock>> /\ PinOf(k) = PinOf(o)
        /\ TargetOf(k) \subseteq TargetOf(o) /\ handles[s].state # "closing"
    BY <1>2, <1>4, <1>5, <2>2, <2>3
  <2> QED
    BY <1>1, <1>2, <1>4, <2>2, <2>3, <2>4, <2>5, <2>6, StateStep
<1> QED
  BY <1>6, <1>7

LEMMA CloseDrainedKeeps == ASSUME PackIInv, NEW t \in PackThreads, CloseDrained(t) PROVE PackIInv'
<1>1. PICK o : o = doing[t]
  OBVIOUS
<1>2. PICK s : s = o.slot
  OBVIOUS
<1>3. o \in Doings /\ CallHolds(t, o)
  BY <1>1, PackFacts
<1>4. s \in PackSlots /\ s # 0
  BY <1>1, <1>2, <1>3, DoingParts, PackAssumption DEF CloseDrained
<1>5. PinOf(o) = 0 /\ TempOf(o) = {} /\ NewOf(o) = {} /\ TakesOf(o) = s
  BY <1>1, <1>2 DEF CloseDrained, PinOf, TempOf, NewOf, TakesOf, PinSteps, TempSteps
<1>6. IsLive(s)
  BY <1>3, <1>4, <1>5 DEF CallHolds, IsLive
<1>7. handles[s].pins = 0 /\ CloseNow(t, s) /\ UNCHANGED <<position, dupLock>>
  BY <1>1, <1>2 DEF CloseDrained
<1> QED
  BY <1>1, <1>4, <1>5, <1>6, <1>7, CloseNowKeeps

\* What a dup2 that has its number has in hand.
LEMMA Dup2Call ==
  ASSUME PackIInv, NEW t \in PackThreads, NEW o, o = doing[t], o.step \in {"target", "replace"}
  PROVE  /\ o.slot \in PackSlots /\ IsLive(o.slot) /\ o.target \in Numbers /\ o.fd \in native
         /\ PinOf(o) = o.slot /\ TempOf(o) = {o.fd} /\ NewOf(o) = {} /\ TargetOf(o) = {o.target}
         /\ o.step = "replace" => /\ o.over \in PackSlots /\ TakesOf(o) = o.over
                                  /\ handles[o.over].state = "closing"
                                  /\ handles[o.over].fd = o.target
         /\ dupLock = t /\ handles[o.slot].fd # o.target
<1>1. o \in Doings /\ CallHolds(t, o)
  BY PackFacts
<1>2. /\ o.slot \in PackSlots /\ o.slot # 0 /\ o.target \in Numbers
      /\ o.step = "replace" => o.over \in PackSlots /\ o.over # 0
  BY <1>1, DoingParts, PackAssumption DEF Dup2Steps
<1>3. /\ PinOf(o) = o.slot /\ TempOf(o) = {o.fd} /\ NewOf(o) = {} /\ TargetOf(o) = {o.target}
      /\ o.step = "replace" => TakesOf(o) = o.over
  BY DEF PinOf, TempOf, NewOf, TargetOf, TakesOf, PinSteps, TempSteps, Dup2Steps
<1> QED
  BY <1>1, <1>2, <1>3 DEF CallHolds

\* A target is nobody's number in the making.
LEMMA TargetApart ==
  ASSUME PackIInv, NEW t \in PackThreads, NEW o, o = doing[t], o.step \in {"target", "replace"},
         o.target \notin Incoming \/ \E s \in PackSlots : IsLive(s) /\ handles[s].fd = o.target
  PROVE  \A u \in PackThreads \ {t} : o.target \notin TempOf(doing[u])
<1>1. SUFFICES ASSUME NEW u \in PackThreads \ {t}, NEW q, q = doing[u], o.target \in TempOf(q)
               PROVE  FALSE
  OBVIOUS
<1>2. CallHolds(u, q)
  BY <1>1, PackFacts
<1>3. o.target \notin Incoming
  BY <1>1, <1>2 DEF CallHolds
<1>4. q.step \in {"target", "replace"}
  BY <1>1, <1>3 DEF TempOf, TempSteps, Incoming
<1>5. dupLock = u
  BY <1>1, <1>4, Dup2Call
<1>6. dupLock = t
  BY Dup2Call
<1> QED
  BY <1>1, <1>5, <1>6

LEMMA ReplaceKeeps ==
  ASSUME PackIInv, NEW t \in PackThreads, NEW o, o = doing[t], o.step \in {"target", "replace"},
         NEW x \in PackSlots, handles[x].pins = 0, handles[x].state = "closing" => TakesOf(o) = x,
         \A u \in PackThreads \ {t} : o.target \notin TempOf(doing[u]),
         \A r \in PackSlots \ {x} : IsLive(r) => handles[r].fd # o.target,
         IsLive(x) => handles[x].fd = o.target,
         ReplaceHandle(t, x), UNCHANGED <<position, dupLock>>
  PROVE  PackIInv'
<1>1. PICK s, f, g : s = o.slot /\ f = handles[o.slot].file /\ g = handles[x].file
  OBVIOUS
<1>2. PICK m, n : m = o.target /\ n = o.fd
  OBVIOUS
<1>3. /\ s \in PackSlots /\ IsLive(s) /\ m \in Numbers /\ n \in native
      /\ PinOf(o) = s /\ TempOf(o) = {n} /\ NewOf(o) = {}
  BY <1>1, <1>2, Dup2Call
<1>4. /\ f \in OpenFiles /\ uses[f] \in Nat /\ uses[f] > 0 /\ f \in allocated
      /\ \A u \in PackThreads : f \notin NewOf(doing[u])
  BY <1>1, <1>3, FileInUse
<1>5. PICK k, h : k = [step |-> "release", slot |-> s]
                  /\ h = [state |-> "active", fd |-> m, pins |-> 0, file |-> f]
  OBVIOUS
<1>6. k \in Doings /\ PinOf(k) = PinOf(o) /\ Settled(k)
  BY <1>3, <1>5, ReleaseNext
<1>7. h \in Handles /\ h.pins = 0 /\ h.state = "active" /\ h.fd = m /\ h.file = f
  BY <1>3, <1>4, <1>5 DEF Handles
<1>8. /\ doing' = [doing EXCEPT ![t] = k] /\ handles' = [handles EXCEPT ![x] = h]
      /\ native' = (native \ {n}) \union {m}
  BY <1>1, <1>2, <1>5 DEF ReplaceHandle, Become
<1>9. native' = (native \ (TempOf(o) \union FdOf(handles[x]))) \union FdOf(h)
  BY <1>2, <1>3, <1>7, <1>8 DEF FdOf, IsLive
<1>10. HandleFits(t, x, h)
  BY <1>2, <1>4, <1>7 DEF HandleFits, FdOf, IsLive
<1>11. uses \in [OpenFiles -> Nat] /\ HandlesHold /\ allocated \subseteq OpenFiles
  BY PackFacts
<1>12. \A i \in OpenFiles : i \in allocated <=>
         uses[i] > 0 \/ \E u \in PackThreads \ {t} : i \in NewOf(doing[u])
  BY <1>3, <1>11 DEF HandlesHold
<1>13. FilesReplaced(t, x, h)
  <2>1. CASE handles[x].state = "free"
    <3>1. uses' = [uses EXCEPT ![f] = @ + 1] /\ allocated' = allocated
      BY <1>1, <2>1 DEF ReplaceHandle
    <3>2. uses' \in [OpenFiles -> Nat]
          /\ \A i \in OpenFiles : uses'[i] = IF i = f THEN uses[i] + 1 ELSE uses[i]
      BY <1>4, <1>11, <3>1
    <3>3. \A i \in OpenFiles : OneOf(i, handles[x]) = 0 /\ OneOf(i, h) = IF i = f THEN 1 ELSE 0
      BY <1>7, <2>1 DEF OneOf
    <3>4. \A i \in OpenFiles : uses'[i] = uses[i] - OneOf(i, handles[x]) + OneOf(i, h)
      BY <1>11, <3>2, <3>3
    <3>5. \A i \in OpenFiles : i \in allocated' <=>
            uses'[i] > 0 \/ \E u \in PackThreads \ {t} : i \in NewOf(doing[u])
      BY <1>4, <1>12, <3>1, <3>2
    <3> QED
      BY <1>11, <3>1, <3>2, <3>4, <3>5 DEF FilesReplaced
  <2>2. CASE handles[x].state # "free" /\ g = f
    <3>1. uses' = uses /\ allocated' = allocated
      BY <1>1, <2>2 DEF ReplaceHandle
    <3>2. \A i \in OpenFiles : /\ OneOf(i, handles[x]) = OneOf(i, h)
                               /\ OneOf(i, h) \in {0, 1}
      BY <1>1, <1>7, <2>2 DEF OneOf
    <3>3. \A i \in OpenFiles : uses'[i] = uses[i] - OneOf(i, handles[x]) + OneOf(i, h)
      BY <1>11, <3>1, <3>2
    <3> QED
      BY <1>11, <1>12, <3>1, <3>3 DEF FilesReplaced
  <2>3. CASE handles[x].state # "free" /\ g # f
    <3>1. /\ uses' = [uses EXCEPT ![g] = @ - 1, ![f] = @ + 1]
          /\ allocated' = IF uses[g] = 1 THEN allocated \ {g} ELSE allocated
      BY <1>1, <2>3 DEF ReplaceHandle
    <3>2. /\ g \in OpenFiles /\ uses[g] \in Nat /\ uses[g] > 0 /\ g \in allocated
          /\ \A u \in PackThreads : g \notin NewOf(doing[u])
      BY <1>1, <2>3, FileInUse DEF IsLive
    <3>3. \A i \in OpenFiles : uses'[i] = IF i = f THEN uses[i] + 1
                                          ELSE IF i = g THEN uses[i] - 1 ELSE uses[i]
      BY <1>4, <1>11, <2>3, <3>1, <3>2
    <3>4. uses' \in [OpenFiles -> Nat]
      <4>1. uses[g] - 1 \in Nat /\ uses[f] + 1 \in Nat
        BY <1>4, <3>2
      <4>2. \A i \in OpenFiles : uses'[i] \in Nat
        BY <1>11, <3>3, <4>1
      <4>3. uses' = [i \in OpenFiles |-> uses'[i]]
        BY <1>11, <3>1
      <4> QED
        BY <4>2, <4>3
    <3>5. \A i \in OpenFiles : /\ OneOf(i, handles[x]) = (IF i = g THEN 1 ELSE 0)
                               /\ OneOf(i, h) = (IF i = f THEN 1 ELSE 0)
      BY <1>1, <1>7, <2>3 DEF OneOf
    <3>6. \A i \in OpenFiles : uses'[i] = uses[i] - OneOf(i, handles[x]) + OneOf(i, h)
      BY <1>11, <2>3, <3>3, <3>5
    <3>7. ASSUME NEW i \in OpenFiles
          PROVE  i \in allocated' <=>
                   uses'[i] > 0 \/ \E u \in PackThreads \ {t} : i \in NewOf(doing[u])
      <4>1. CASE i = g
        <5>1. i \in allocated' <=> uses[g] # 1
          BY <3>1, <3>2, <4>1
        <5>2. uses'[i] = uses[g] - 1
          BY <2>3, <3>3, <4>1
        <5> QED
          BY <3>2, <4>1, <5>1, <5>2
      <4>2. CASE i = f
        <5>1. i \in allocated'
          BY <1>4, <2>3, <3>1, <4>2
        <5>2. uses'[i] = uses[f] + 1
          BY <3>3, <4>2
        <5> QED
          BY <1>4, <5>1, <5>2
      <4>3. CASE i # f /\ i # g
        BY <1>12, <3>1, <3>3, <4>3
      <4> QED
        BY <4>1, <4>2, <4>3
    <3>8. allocated' \subseteq OpenFiles
      BY <1>11, <3>1
    <3> QED
      BY <3>4, <3>6, <3>7, <3>8 DEF FilesReplaced
  <2> QED
    BY <2>1, <2>2, <2>3
<1>14. dupLock' = dupLock /\ position' = position
  OBVIOUS
<1> QED
  BY <1>6, <1>7, <1>8, <1>9, <1>10, <1>13, <1>14, LoudStep

LEMMA Dup2FailsKeeps ==
  ASSUME PackIInv, NEW t \in PackThreads, NEW o, o = doing[t], o.step = "target",
         Dup2Fails(t), UNCHANGED <<handles, uses, allocated, position, dupLock>>
  PROVE  PackIInv'
<1>1. PICK s : s = o.slot
  OBVIOUS
<1>2. s \in PackSlots /\ PinOf(o) = s /\ TempOf(o) = {o.fd} /\ NewOf(o) = {}
  BY <1>1, Dup2Call
<1>3. PICK k : k = [step |-> "release", slot |-> s]
  OBVIOUS
<1>4. k \in Doings /\ PinOf(k) = PinOf(o) /\ Settled(k)
  BY <1>2, <1>3, ReleaseNext
<1>5. /\ doing' = [doing EXCEPT ![t] = k] /\ native' = native \ TempOf(o)
      /\ allocated' = allocated \ NewOf(o) /\ UNCHANGED <<handles, uses, position, dupLock>>
  BY <1>1, <1>2, <1>3 DEF Dup2Fails, Become
<1> QED
  BY <1>4, <1>5, SettledStep

LEMMA Dup2TargetKeeps == ASSUME PackIInv, NEW t \in PackThreads, Dup2Target(t) PROVE PackIInv'
<1>1. PICK o : o = doing[t]
  OBVIOUS
<1>2. /\ o.step = "target" /\ o.target \notin Incoming /\ FindHandle(o.target, {"closing"}) = {}
      /\ UNCHANGED <<position, dupLock>>
  BY <1>1 DEF Dup2Target
<1>3. /\ o.slot \in PackSlots /\ o.target \in Numbers /\ o.fd \in native
      /\ PinOf(o) = o.slot /\ TempOf(o) = {o.fd} /\ NewOf(o) = {} /\ TargetOf(o) = {o.target}
  BY <1>1, <1>2, Dup2Call
<1>4. \A u \in PackThreads \ {t} : o.target \notin TempOf(doing[u])
  BY <1>1, <1>2, TargetApart
<1>5. \A r \in PackSlots : handles[r].state \in {"free", "active", "closing"}
  BY PackFacts, HandleFacts
<1>6. CASE Dup2Fails(t) /\ UNCHANGED <<handles, uses, allocated>>
  BY <1>1, <1>2, <1>6, Dup2FailsKeeps
<1>7. CASE /\ FindHandle(o.target, {"active"}) = {} /\ FreeHandles # {}
           /\ ReplaceHandle(t, Lowest(FreeHandles))
  <2>1. \A r \in PackSlots : IsLive(r) => handles[r].fd # o.target
    BY <1>2, <1>5, <1>7 DEF FindHandle, IsLive
  <2>2. PICK x : x = Lowest(FreeHandles)
    OBVIOUS
  <2>3. x \in PackSlots /\ handles[x].state = "free"
    <3>1. FreeHandles \in SUBSET Nat
      BY PackAssumption DEF FreeHandles
    <3>2. x \in FreeHandles
      BY <1>7, <2>2, <3>1, LowestIn
    <3> QED
      BY <3>2 DEF FreeHandles
  <2>4. handles[x].pins = 0
    BY <2>3, PackFacts, HandleFacts
  <2>5. ReplaceHandle(t, x)
    BY <1>7, <2>2
  <2>6. (handles[x].state = "closing" => TakesOf(o) = x) /\ ~IsLive(x)
    BY <2>3 DEF IsLive
  <2>7. \A r \in PackSlots \ {x} : IsLive(r) => handles[r].fd # o.target
    BY <2>1
  <2> QED
    BY <1>1, <1>2, <1>4, <2>3, <2>4, <2>5, <2>6, <2>7, ReplaceKeeps
<1>8. ASSUME NEW x \in FindHandle(o.target, {"active"}),
             \/ handles[x].pins = 0 /\ ReplaceHandle(t, x)
             \/ /\ handles[x].pins # 0
                /\ handles' = [handles EXCEPT ![x].state = "closing"]
                /\ Become(t, [step |-> "replace", slot |-> o.slot, target |-> o.target,
                              fd |-> o.fd, over |-> x])
                /\ UNCHANGED <<native, uses, allocated>>
      PROVE  PackIInv'
  <2>1. x \in PackSlots /\ handles[x].state = "active" /\ handles[x].fd = o.target /\ IsLive(x)
    BY DEF FindHandle, IsLive
  <2>2. CASE handles[x].pins = 0
    <3>1. \A r \in PackSlots \ {x} : IsLive(r) => handles[r].fd # o.target
      BY <2>1, PackFacts DEF HandlesHold
    <3>2. (handles[x].state = "closing" => TakesOf(o) = x) /\ ReplaceHandle(t, x)
      BY <1>8, <2>1, <2>2
    <3> QED
      BY <1>1, <1>2, <1>4, <2>1, <2>2, <3>1, <3>2, ReplaceKeeps
  <2>3. CASE handles[x].pins # 0
    <3>1. PICK s, m, n : s = o.slot /\ m = o.target /\ n = o.fd
      OBVIOUS
    <3>2. PICK k, c : k = [step |-> "replace", slot |-> s, target |-> m, fd |-> n, over |-> x]
                      /\ c = "closing"
      OBVIOUS
    <3>3. s \in PackSlots /\ m \in Numbers /\ n \in Numbers /\ x # 0
      BY <1>3, <2>1, <3>1, PackFacts, PackAssumption
    <3>4. /\ k \in Doings /\ PinOf(k) = s /\ TempOf(k) = {n} /\ NewOf(k) = {} /\ DupOf(k) = {}
          /\ TargetOf(k) = {m} /\ TakesOf(k) = x
      BY <2>1, <3>2, <3>3 DEF Doings, PinOf, TempOf, NewOf, DupOf, TargetOf, TakesOf, PinSteps,
                              TempSteps, Dup2Steps
    <3>5. /\ doing' = [doing EXCEPT ![t] = k] /\ handles' = [handles EXCEPT ![x].state = c]
          /\ UNCHANGED <<native, uses, allocated>> /\ c \in {"active", "closing"}
      BY <1>8, <2>3, <3>1, <3>2 DEF Become
    <3>6. NumbersMoved(o, k)
      BY <1>3, <3>1, <3>4, <3>5 DEF NumbersMoved
    <3>7. TakesOf(k) # 0 => /\ TakesOf(k) = x /\ c = "closing"
                            /\ TakesOf(k) = TakesOf(o) \/ handles[x].state # "closing"
                            /\ \A i \in TargetOf(k) : handles[x].fd = i
      BY <2>1, <3>1, <3>2, <3>4
    <3>8. /\ UNCHANGED <<uses, allocated, position, dupLock>> /\ PinOf(k) = PinOf(o)
          /\ TargetOf(k) \subseteq TargetOf(o) /\ handles[x].state # "closing"
      BY <1>2, <1>3, <2>1, <3>1, <3>4, <3>5
    <3> QED
      BY <1>1, <1>3, <2>1, <3>4, <3>5, <3>6, <3>7, <3>8, StateStep
  <2> QED
    BY <2>2, <2>3
<1>9. \/ Dup2Fails(t) /\ UNCHANGED <<handles, uses, allocated>>
      \/ /\ FindHandle(o.target, {"active"}) = {} /\ FreeHandles # {}
         /\ ReplaceHandle(t, Lowest(FreeHandles))
      \/ \E x \in FindHandle(o.target, {"active"}) :
           \/ handles[x].pins = 0 /\ ReplaceHandle(t, x)
           \/ /\ handles[x].pins # 0
              /\ handles' = [handles EXCEPT ![x].state = "closing"]
              /\ Become(t, [step |-> "replace", slot |-> o.slot, target |-> o.target,
                            fd |-> o.fd, over |-> x])
              /\ UNCHANGED <<native, uses, allocated>>
  BY <1>1, Zenon DEF Dup2Target
<1> QED
  BY <1>6, <1>7, <1>8, <1>9

LEMMA Dup2DrainedKeeps == ASSUME PackIInv, NEW t \in PackThreads, Dup2Drained(t) PROVE PackIInv'
<1>1. PICK o : o = doing[t]
  OBVIOUS
<1>2. PICK x : x = o.over
  OBVIOUS
<1>3. /\ o.step = "replace" /\ handles[x].pins = 0 /\ UNCHANGED <<position, dupLock>>
      /\ \/ ReplaceHandle(t, x)
         \/ /\ handles' = [handles EXCEPT ![x].state = "active"]
            /\ Dup2Fails(t) /\ UNCHANGED <<uses, allocated>>
  BY <1>1, <1>2 DEF Dup2Drained
<1>4. /\ o.slot \in PackSlots /\ x \in PackSlots /\ TakesOf(o) = x
      /\ handles[x].state = "closing" /\ handles[x].fd = o.target /\ IsLive(x)
      /\ PinOf(o) = o.slot /\ TempOf(o) = {o.fd} /\ NewOf(o) = {}
  BY <1>1, <1>2, <1>3, Dup2Call DEF IsLive
<1>5. CASE ReplaceHandle(t, x)
  <2>1. \A u \in PackThreads \ {t} : o.target \notin TempOf(doing[u])
    BY <1>1, <1>3, <1>4, TargetApart
  <2>2. \A r \in PackSlots \ {x} : IsLive(r) => handles[r].fd # o.target
    BY <1>4, PackFacts DEF HandlesHold
  <2> QED
    BY <1>1, <1>3, <1>4, <1>5, <2>1, <2>2, ReplaceKeeps
<1>6. CASE /\ handles' = [handles EXCEPT ![x].state = "active"]
           /\ Dup2Fails(t) /\ UNCHANGED <<uses, allocated>>
  <2>1. PICK s, n : s = o.slot /\ n = o.fd
    OBVIOUS
  <2>2. PICK k, c : k = [step |-> "release", slot |-> s] /\ c = "active"
    OBVIOUS
  <2>3. k \in Doings /\ PinOf(k) = PinOf(o) /\ Settled(k)
    BY <1>4, <2>1, <2>2, ReleaseNext
  <2>4. /\ doing' = [doing EXCEPT ![t] = k] /\ handles' = [handles EXCEPT ![x].state = c]
        /\ native' = native \ {n} /\ c \in {"active", "closing"}
    BY <1>1, <1>6, <2>1, <2>2 DEF Dup2Fails, Become
  <2>5. NumbersMoved(o, k) /\ NewOf(k) = {} /\ DupOf(k) = {} /\ TakesOf(k) = 0
        /\ TargetOf(k) \subseteq TargetOf(o)
    BY <1>4, <2>1, <2>3, <2>4 DEF NumbersMoved, Settled
  <2>6. UNCHANGED <<uses, allocated, position, dupLock>>
    BY <1>3, <1>6
  <2> QED
    BY <1>1, <1>4, <2>3, <2>4, <2>5, <2>6, StateStep
<1> QED
  BY <1>3, <1>5, <1>6

LEMMA PackInitial == PackInit => PackIInv
<1> SUFFICES ASSUME PackInit PROVE PackIInv
  OBVIOUS
<1>1. /\ \A s \in PackSlots : handles[s] = FreeHandle /\ ~IsLive(s)
      /\ \A t \in PackThreads : doing[t] = NotDoing
  BY DEF PackInit, IsLive, FreeHandle
<1>2. \A t \in PackThreads :
        /\ doing[t] \in Doings /\ PinOf(doing[t]) = 0 /\ TempOf(doing[t]) = {}
        /\ NewOf(doing[t]) = {} /\ DupOf(doing[t]) = {} /\ TargetOf(doing[t]) = {}
        /\ TakesOf(doing[t]) = 0
  BY <1>1, IdleCall
<1>3. PackTyped
  <2>1. FreeHandle \in Handles /\ 0 \in 0 .. LongMax
    BY PackAssumption DEF Handles
  <2>2. doing = [t \in PackThreads |-> doing[t]] /\ DOMAIN doing = PackThreads
    BY DEF PackInit
  <2> QED
    BY <1>2, <2>1, <2>2 DEF PackTyped, PackInit
<1>4. HandlesHold
  <2>1. \A s \in PackSlots : PinnedBy(s) = {}
    BY <1>2, PackAssumption DEF PinnedBy
  <2>2. \A f \in OpenFiles : SlotsOf(f) = {} /\ uses[f] = 0
    BY <1>1 DEF SlotsOf, PackInit
  <2>3. \A s \in PackSlots : handles[s].pins = Cardinality(PinnedBy(s))
    BY <1>1, <2>1, FS_EmptySet DEF FreeHandle
  <2>4. \A f \in OpenFiles : uses[f] = Cardinality(SlotsOf(f))
    BY <2>2, FS_EmptySet
  <2>5. native = {} /\ allocated = {}
    BY DEF PackInit
  <2> QED
    BY <1>1, <1>2, <2>2, <2>3, <2>4, <2>5 DEF HandlesHold
<1>5. \A t \in PackThreads : CallHolds(t, doing[t])
  BY <1>2 DEF CallHolds
<1>6. \A t, u \in PackThreads : t # u => CallsApart(doing[t], doing[u])
  BY <1>2 DEF CallsApart
<1> QED
  BY <1>3, <1>4, <1>5, <1>6 DEF PackIInv

LEMMA PackNextKeeps == PackIInv /\ [PackNext]_packVars => PackIInv'
<1> SUFFICES ASSUME PackIInv, [PackNext]_packVars PROVE PackIInv'
  OBVIOUS
<1>1. CASE UNCHANGED packVars
  <2>1. /\ UNCHANGED <<handles, allocated, uses, position, native, dupLock, doing>>
    BY <1>1 DEF packVars
  <2>2. PackTyped'
    BY <2>1 DEF PackIInv, PackTyped
  <2>3. HandlesHold'
    BY <2>1 DEF PackIInv, HandlesHold, IsLive, PinnedBy, SlotsOf
  <2>4. (\A t \in PackThreads : CallHolds(t, doing[t]))'
    BY <2>1 DEF PackIInv, CallHolds, IsLive
  <2>5. (\A t, u \in PackThreads : t # u => CallsApart(doing[t], doing[u]))'
    BY <2>1 DEF PackIInv
  <2> QED
    BY <2>2, <2>3, <2>4, <2>5 DEF PackIInv
<1>2. ASSUME NEW t \in PackThreads,
             \/ OpenPath(t)
             \/ \E n \in Numbers : Use(t, n) \/ DupFd(t, n) \/ ClosePacked(t, n)
             \/ \E n, m \in Numbers : Dup2(t, n, m)
             \/ ReadPacked(t) \/ Seek(t) \/ ReleaseHandle(t)
             \/ DupOpen(t) \/ InstallHandle(t) \/ CloseDrained(t)
             \/ Dup2Open(t) \/ Dup2Target(t) \/ Dup2Drained(t)
      PROVE  PackIInv'
  <2>1. CASE \E n \in Numbers : Use(t, n) \/ DupFd(t, n) \/ ClosePacked(t, n)
    BY <2>1, UseKeeps, DupFdKeeps, ClosePackedKeeps
  <2>2. CASE \E n, m \in Numbers : Dup2(t, n, m)
    BY <2>2, Dup2Keeps
  <2>3. CASE ReadPacked(t) \/ Seek(t) \/ ReleaseHandle(t)
    BY <2>3, ReadKeeps, SeekKeeps, ReleaseKeeps
  <2>4. CASE OpenPath(t) \/ DupOpen(t) \/ InstallHandle(t) \/ CloseDrained(t)
    BY <2>4, OpenPathKeeps, DupOpenKeeps, InstallKeeps, CloseDrainedKeeps
  <2>5. CASE Dup2Open(t) \/ Dup2Target(t) \/ Dup2Drained(t)
    BY <2>5, Dup2OpenKeeps, Dup2TargetKeeps, Dup2DrainedKeeps
  <2> QED
    BY <1>2, <2>1, <2>2, <2>3, <2>4, <2>5
<1> QED
  BY <1>1, <1>2 DEF PackNext

LEMMA PackFollows == PackIInv => PackSound
<1> SUFFICES ASSUME PackIInv PROVE PackSound
  OBVIOUS
<1>1. HandlesHold /\ position \in [OpenFiles -> 0 .. LongMax] /\ allocated \subseteq OpenFiles
  BY PackFacts
<1>2. \A s \in PackSlots : s \in LiveHandles <=> IsLive(s)
  BY DEF LiveHandles, IsLive
<1>3. \A s \in PackSlots : Pinners(s) = PinnedBy(s)
  BY PackAssumption DEF Pinners, PinnedBy, PinOf, PinSteps
<1>4. \A s \in PackSlots : handles[s].pins = Cardinality(Pinners(s))
  BY <1>1, <1>3 DEF HandlesHold
<1>5. \A s \in PackSlots : Pinners(s) # {} => s \in LiveHandles
  BY <1>2, <1>3, PackFacts, PackAssumption DEF PinnedBy, CallHolds
<1>6. \A r, s \in LiveHandles : handles[r].fd = handles[s].fd => r = s
  BY <1>1 DEF HandlesHold, LiveHandles, IsLive
<1>7. native = Temporary \union {handles[s].fd : s \in LiveHandles}
  <2>1. \A n : n \in Temporary <=> \E t \in PackThreads : n \in TempOf(doing[t])
    BY DEF Temporary, TempOf, TempSteps
  <2>2. \A t \in PackThreads : \A n \in TempOf(doing[t]) : n \in native
    BY PackFacts DEF CallHolds
  <2>3. \A n : n \in {handles[s].fd : s \in LiveHandles}
                 <=> \E s \in PackSlots : IsLive(s) /\ handles[s].fd = n
    BY DEF LiveHandles, IsLive
  <2> QED
    BY <1>1, <2>1, <2>2, <2>3 DEF HandlesHold
<1>8. allocated = Entering \union {handles[s].file : s \in LiveHandles}
  <2>1. \A f : f \in Entering <=> \E t \in PackThreads : f \in NewOf(doing[t])
    BY DEF Entering, NewOf
  <2>2. \A t \in PackThreads : \A f \in NewOf(doing[t]) : f \in allocated
    BY PackFacts DEF CallHolds
  <2>3. \A s \in LiveHandles : handles[s].file \in allocated
    BY FileInUse DEF LiveHandles, IsLive
  <2>4. ASSUME NEW f \in allocated, ~\E t \in PackThreads : f \in NewOf(doing[t])
        PROVE  f \in {handles[s].file : s \in LiveHandles}
    <3>1. f \in OpenFiles /\ uses[f] > 0 /\ uses[f] = Cardinality(SlotsOf(f))
      BY <1>1, <2>4 DEF HandlesHold
    <3>2. SlotsOf(f) # {}
      BY <3>1, FS_EmptySet
    <3> QED
      BY <3>2 DEF SlotsOf, LiveHandles, IsLive
  <2> QED
    BY <2>1, <2>2, <2>3, <2>4
<1>9. \A f \in OpenFiles : uses[f] = Cardinality({s \in LiveHandles : handles[s].file = f})
  <2>1. ASSUME NEW f \in OpenFiles
        PROVE  {s \in LiveHandles : handles[s].file = f} = SlotsOf(f)
    BY DEF SlotsOf, LiveHandles, IsLive
  <2> QED
    BY <1>1, <2>1 DEF HandlesHold
<1>10. \A f \in allocated : position[f] \in 0 .. LongMax
  BY <1>1
<1>11. ASSUME NEW t \in PackThreads, NEW u \in PackThreads, t \in Awaited(u), u \in Awaited(t)
       PROVE  FALSE
  <2>1. \A v \in PackThreads : \A w : w \in Awaited(v) =>
          /\ doing[v].step \in {"drain", "replace"}
          /\ doing[w].step \in PinSteps
          /\ doing[v].step = "replace" => doing[w].slot = doing[v].over
    BY DEF Awaited, Pinners, PinSteps
  <2>2. doing[t].step = "replace" /\ doing[u].step = "replace" /\ doing[t].slot = doing[u].over
    BY <1>11, <2>1 DEF PinSteps
  <2>3. t = u
    <3>1. dupLock = t
      BY <2>2, Dup2Call
    <3>2. dupLock = u
      BY <2>2, Dup2Call
    <3> QED
      BY <3>1, <3>2
  <2>4. handles[doing[t].slot].fd # doing[t].target /\ handles[doing[t].over].fd = doing[t].target
    BY <2>2, Dup2Call
  <2> QED
    BY <2>2, <2>3, <2>4
<1> QED
  BY <1>4, <1>5, <1>6, <1>7, <1>8, <1>9, <1>10, <1>11 DEF PackSound

(* A handle that is used keeps its number and its open file until it is     *)
(* released; an open file is freed with its last descriptor and not before; *)
(* no number is leaked, or closed under a handle; a seek does not overflow; *)
(* and no two threads wait for each other, however opens, closes, dups and  *)
(* dup2s of the pack race (asset_pack.c:829-909, 1176-1198).                *)
THEOREM PackSafety == PackSpec => []PackSound
<1>1. PackSpec => []PackIInv
  BY PackInitial, PackNextKeeps, PTL DEF PackSpec
<1> QED
  BY <1>1, PackFollows, PTL

(***************************************************************************)
(* 7. The plug-in loader.  Only the innermost load can fail, and nothing   *)
(* that is to stay rests on its image: what depends on an image whose load *)
(* is under way was placed inside that load, and says so (FoundStays).     *)
(***************************************************************************)
\* A call of the stack: a load, up to the end of its constructors, or a JNI_OnLoad.
LoadCall == [doing : {"loading", "constructing"}, entry : Entries, next : Nat \ {0}, before : Nat]
PluginCall == LoadCall \union [doing : {"onload"}, entry : Entries]

ImageShape(r) ==
  /\ DOMAIN r = {"state", "name", "serial", "first", "around", "deps", "bound", "onload"}
  /\ r.name \in Libraries /\ r.serial \in Nat /\ r.first \in Nat
  /\ r.deps \in Seq(Entries)

PluginTypes ==
  /\ arenaAt \in Nat /\ loads \in Nat /\ failing \in BOOLEAN
  /\ calls \in Seq(PluginCall)
  /\ DOMAIN plugin = Entries
  /\ \A e \in Listed : ImageShape(plugin[e])
  /\ \A e \in Entries \ Listed : plugin[e] = Empty \/ \E l \in Libraries : plugin[e] = FailedEntry(l)
  /\ failing => DoingIn(calls) = "loading"

\* What a load of the stack knows of its image.
Stacked ==
  \A i \in 1 .. Len(calls) :
    /\ calls[i].doing = "loading" =>
         /\ calls[i].entry \in Listed
         /\ plugin[calls[i].entry].state = "loading"
         /\ plugin[calls[i].entry].first = calls[i].before
    /\ calls[i].doing = "constructing" =>
         calls[i].entry \in Listed /\ plugin[calls[i].entry].state = "initializing"

\* An image is on the stack once.
StackedOnce ==
  \A i, j \in 1 .. Len(calls) :
    i # j /\ calls[i].doing # "onload" /\ calls[j].doing # "onload" =>
      calls[i].entry # calls[j].entry

\* A load that is under way was under way around those that began since.
Nested ==
  \A i, j \in 1 .. Len(calls) :
    i < j /\ calls[i].doing = "loading" /\ calls[j].doing = "loading" =>
      Image(calls[i].entry) \in plugin[calls[j].entry].around

Alive(p) == p.entry \in Listed /\ plugin[p.entry].serial = p.serial

Encloses(around, d) == \E p \in around : p.entry = d

\* What an image depends on stays, unless its own load was under way before or it is itself.
Depends ==
  \A e \in Listed : \A d \in Range(plugin[e].deps) :
    Encloses(plugin[e].around, d) \/ (d \in Listed /\ (Runnable(d) \/ d = e))

BoundStays ==
  \A e \in Listed : Runnable(e) => \A p \in plugin[e].bound :
    p \in plugin[e].around \/ (Alive(p) /\ Runnable(p.entry))

Apart ==
  /\ \A e, f \in Listed : e # f =>
       Slice(e) \intersect Slice(f) = {} /\ plugin[e].name # plugin[f].name
  /\ \A e \in Listed : \A page \in Slice(e) : page < arenaAt

\* Every image that is not ready is on the stack.
Waiting ==
  \A e \in Listed : plugin[e].state # "ready" =>
    \E i \in 1 .. Len(calls) : calls[i].entry = e /\ calls[i].doing # "onload"

PluginIInv ==
  PluginTypes /\ Stacked /\ StackedOnce /\ Nested /\ Depends /\ BoundStays /\ Apart /\ Waiting

LEMMA PoppedCall ==
  ASSUME NEW S, NEW s \in Seq(S), s # <<>>
  PROVE  /\ Front(s) \in Seq(S)
         /\ Len(Front(s)) = Len(s) - 1
         /\ \A i \in 1 .. Len(s) - 1 : Front(s)[i] = s[i]
<1> PICK n \in Nat : n = Len(s) - 1
  OBVIOUS
<1>1. SubSeq(s, 1, n) \in Seq(S) /\ Len(SubSeq(s, 1, n)) = n
  OBVIOUS
<1>2. \A i \in 1 .. n : SubSeq(s, 1, n)[i] = s[i]
  OBVIOUS
<1> QED BY <1>1, <1>2, Zenon DEF Front

LEMMA ChangedCall ==
  ASSUME NEW S, NEW s \in Seq(S), NEW k \in 1 .. Len(s), NEW x \in S
  PROVE  /\ [s EXCEPT ![k] = x] \in Seq(S)
         /\ Len([s EXCEPT ![k] = x]) = Len(s)
         /\ \A i \in 1 .. Len(s) : [s EXCEPT ![k] = x][i] = IF i = k THEN x ELSE s[i]
OBVIOUS

\* The call on top of the stack.
LEMMA TopCall ==
  ASSUME NEW s \in Seq(PluginCall)
  PROVE  /\ DoingIn(s) \in {"nothing", "loading", "constructing", "onload"}
         /\ s = <<>> => DoingIn(s) = "nothing"
         /\ s # <<>> => Len(s) \in 1 .. Len(s) /\ DoingIn(s) = s[Len(s)].doing
BY DEF DoingIn, Last, PluginCall, LoadCall

LEMMA PluginFollows == PluginIInv => PluginsSound
<1> SUFFICES ASSUME PluginIInv PROVE PluginsSound
  OBVIOUS
<1>1. \A e \in Listed : plugin[e].state # "ready" <=>
        \E i \in 1 .. Len(calls) : calls[i].entry = e /\ calls[i].doing # "onload"
  <2>1. \A i \in 1 .. Len(calls) : calls[i].doing \in {"loading", "constructing", "onload"}
    BY DEF PluginIInv, PluginTypes, PluginCall, LoadCall
  <2> QED BY <2>1 DEF PluginIInv, Waiting, Stacked
<1>2. \A e \in Listed : Runnable(e) => \A d \in Range(plugin[e].deps) :
        (d \in Listed /\ Runnable(d)) \/ \E p \in plugin[e].around : p.entry = d
  BY DEF PluginIInv, Depends, Encloses
<1>3. \A e \in Listed : Runnable(e) => \A p \in plugin[e].bound :
        p \in plugin[e].around \/ Resident(p)
  BY DEF PluginIInv, BoundStays, Alive, Resident
<1> QED BY <1>1, <1>2, <1>3 DEF PluginIInv, PluginsSound, Apart

LEMMA PluginInitial == PluginInit => PluginIInv
<1> SUFFICES ASSUME PluginInit PROVE PluginIInv
  OBVIOUS
<1>1. Listed = {} /\ Len(calls) = 0 /\ calls \in Seq(PluginCall)
  BY DEF PluginInit, Listed, Empty
<1>2. PluginTypes
  BY <1>1 DEF PluginInit, PluginTypes, Empty
<1> QED BY <1>1, <1>2 DEF PluginIInv, Stacked, StackedOnce, Nested, Depends, BoundStays,
      Apart, Waiting, PluginInit

\* A step that leaves the images and the loads of the stack alone, but for dependencies,
\* and moves what a JNI_OnLoad has come to.
SameImage(e) ==
  /\ plugin'[e].state = plugin[e].state /\ plugin'[e].name = plugin[e].name
  /\ plugin'[e].serial = plugin[e].serial /\ plugin'[e].first = plugin[e].first
  /\ plugin'[e].around = plugin[e].around /\ plugin'[e].bound = plugin[e].bound

SameLoads ==
  /\ \A i \in 1 .. Len(calls') : calls'[i].doing # "onload" =>
       /\ i \in 1 .. Len(calls) /\ calls'[i].doing = calls[i].doing
       /\ calls'[i].entry = calls[i].entry /\ calls'[i].before = calls[i].before
  /\ \A i \in 1 .. Len(calls) : calls[i].doing # "onload" =>
       i \in 1 .. Len(calls') /\ calls'[i].doing = calls[i].doing
         /\ calls'[i].entry = calls[i].entry

LEMMA LoadsStay ==
  ASSUME PluginIInv, Listed' = Listed, arenaAt' = arenaAt, SameLoads,
         \A e \in Listed : SameImage(e)
  PROVE  /\ Stacked' /\ StackedOnce' /\ Nested' /\ BoundStays' /\ Apart' /\ Waiting'
         /\ \A e \in Listed : Runnable(e)' = Runnable(e)
         /\ \A p : Alive(p)' = Alive(p)
<1>1. \A e \in Listed : Runnable(e)' = Runnable(e) /\ Slice(e)' = Slice(e)
  BY DEF Runnable, Slice, SameImage
<1>2. \A p : Alive(p)' = Alive(p)
  BY DEF Alive, SameImage
<1>3. Stacked'
  BY DEF PluginIInv, Stacked, SameLoads, SameImage
<1>4. StackedOnce'
  BY DEF PluginIInv, StackedOnce, SameLoads
<1>5. Nested'
  <2> SUFFICES ASSUME NEW i \in 1 .. Len(calls'), NEW j \in 1 .. Len(calls'), i < j,
                      calls'[i].doing = "loading", calls'[j].doing = "loading"
               PROVE  [entry |-> calls'[i].entry, serial |-> plugin'[calls'[i].entry].serial]
                        \in plugin'[calls'[j].entry].around
    BY DEF Nested, Image
  <2>1. /\ i \in 1 .. Len(calls) /\ j \in 1 .. Len(calls)
        /\ calls[i].doing = "loading" /\ calls[j].doing = "loading"
        /\ calls'[i].entry = calls[i].entry /\ calls'[j].entry = calls[j].entry
    BY DEF SameLoads
  <2>2. calls[i].entry \in Listed /\ calls[j].entry \in Listed
    BY <2>1 DEF PluginIInv, Stacked
  <2> QED BY <2>1, <2>2 DEF PluginIInv, Nested, SameImage, Image
<1>6. BoundStays'
  <2>1. \A e \in Listed : plugin'[e].around = plugin[e].around /\ plugin'[e].bound = plugin[e].bound
    BY DEF SameImage
  <2>2. \A p : Alive(p) => p.entry \in Listed
    BY DEF Alive
  <2> QED BY <1>1, <1>2, <2>1, <2>2 DEF PluginIInv, BoundStays
<1>7. Apart'
  <2>1. \A e \in Listed : plugin'[e].name = plugin[e].name
    BY DEF SameImage
  <2> QED BY <1>1, <2>1 DEF PluginIInv, Apart
<1>8. Waiting'
  BY DEF PluginIInv, Waiting, SameLoads, SameImage
<1> QED BY <1>1, <1>2, <1>3, <1>4, <1>5, <1>6, <1>7, <1>8

\* The same for the dependencies, when the step leaves them alone too.
LEMMA QuietKeeps ==
  ASSUME PluginIInv, PluginTypes', Listed' = Listed, arenaAt' = arenaAt, SameLoads,
         \A e \in Listed : SameImage(e) /\ plugin'[e].deps = plugin[e].deps
  PROVE  PluginIInv'
<1>1. /\ Stacked' /\ StackedOnce' /\ Nested' /\ BoundStays' /\ Apart' /\ Waiting'
      /\ \A e \in Listed : Runnable(e)' = Runnable(e)
      /\ \A p : Alive(p)' = Alive(p)
  BY LoadsStay
<1>2. \A e \in Listed : plugin'[e].around = plugin[e].around /\ plugin'[e].deps = plugin[e].deps
  BY DEF SameImage
<1>3. Depends'
  BY <1>1, <1>2 DEF PluginIInv, Depends
<1> QED BY <1>1, <1>3 DEF PluginIInv

\* What is written over an entry that holds no image.
LEMMA FailureNoted ==
  ASSUME PluginIInv, NEW e \in Entries \ Listed, NEW l \in Libraries,
         plugin' = [plugin EXCEPT ![e] = FailedEntry(l)],
         ReturnsNull, UNCHANGED <<arenaAt, calls, loads>>
  PROVE  PluginIInv'
<1>1. \A f \in Entries : f # e => plugin'[f] = plugin[f]
  BY DEF PluginIInv, PluginTypes
<1>2. plugin'[e] = FailedEntry(l) /\ DOMAIN plugin' = Entries
  BY DEF PluginIInv, PluginTypes
<1>3. Listed' = Listed
  BY <1>1, <1>2 DEF Listed, FailedEntry
<1>4. PluginTypes'
  <2>1. \A f \in Listed : ImageShape(plugin'[f])
    BY <1>1 DEF PluginIInv, PluginTypes
  <2>2. \A f \in Entries \ Listed : plugin'[f] = Empty \/ \E m \in Libraries : plugin'[f] = FailedEntry(m)
    BY <1>1, <1>2 DEF PluginIInv, PluginTypes
  <2>3. failing' \in BOOLEAN /\ (failing' => DoingIn(calls') = "loading")
    BY DEF ReturnsNull
  <2> QED BY <1>2, <1>3, <2>1, <2>2, <2>3 DEF PluginIInv, PluginTypes
<1>5. \A f \in Listed : SameImage(f) /\ plugin'[f].deps = plugin[f].deps
  BY <1>1 DEF SameImage
<1>6. SameLoads
  BY DEF SameLoads
<1> QED BY <1>3, <1>4, <1>5, <1>6, QuietKeeps

\* A step that only decides what the innermost call returns.
LEMMA VerdictKeeps ==
  ASSUME PluginIInv, failing' \in BOOLEAN, failing' => DoingIn(calls) = "loading",
         UNCHANGED <<plugin, arenaAt, calls, loads>>
  PROVE  PluginIInv'
<1>1. Listed' = Listed
  BY DEF Listed
<1>2. PluginTypes'
  BY <1>1 DEF PluginIInv, PluginTypes
<1>3. SameLoads /\ \A f \in Listed : SameImage(f) /\ plugin'[f].deps = plugin[f].deps
  BY DEF SameLoads, SameImage
<1> QED BY <1>1, <1>2, <1>3, QuietKeeps

\* The image that Place lists lies behind all others, on top of the stack, with what is
\* being loaded around it.
LEMMA PlacedKeeps ==
  ASSUME PluginIInv, NEW e \in Entries \ Listed, NEW l \in Libraries, Find(l) = {}, ~failing,
         plugin' = [plugin EXCEPT ![e] = Entry(l, loads + 1, arenaAt, Unfinished)],
         arenaAt' = arenaAt + Pages[l],
         calls' = Append(calls, [doing |-> "loading", entry |-> e, next |-> 1,
                                 before |-> arenaAt]),
         loads' = loads + 1, UNCHANGED failing
  PROVE  PluginIInv'
<1> DEFINE new == Entry(l, loads + 1, arenaAt, Unfinished)
<1> DEFINE top == [doing |-> "loading", entry |-> e, next |-> 1, before |-> arenaAt]
<1>1. /\ \A f \in Listed : plugin'[f] = plugin[f]
      /\ \A f \in Entries : f # e => plugin'[f] = plugin[f]
      /\ plugin'[e] = new /\ DOMAIN plugin' = Entries
  BY DEF PluginIInv, PluginTypes, Listed
<1>2. /\ new.state = "loading" /\ new.name = l /\ new.serial = loads + 1
      /\ new.first = arenaAt /\ new.around = Unfinished /\ new.deps = <<>> /\ new.bound = {}
  BY DEF Entry
<1>3. Listed' = Listed \union {e} /\ e \notin Listed
  BY <1>1, <1>2 DEF Listed
<1>4. Pages[l] \in Nat /\ arenaAt \in Nat /\ arenaAt' \in Nat /\ arenaAt <= arenaAt'
  BY PluginAssumption DEF PluginIInv, PluginTypes
<1>5. /\ Len(calls) \in Nat /\ Len(calls') = Len(calls) + 1 /\ calls' \in Seq(PluginCall)
      /\ \A i \in 1 .. Len(calls) : calls'[i] = calls[i]
      /\ calls'[Len(calls) + 1] = top
  <2>1. calls \in Seq(PluginCall)
    BY DEF PluginIInv, PluginTypes
  <2>2. top \in PluginCall
    BY <1>4 DEF PluginCall, LoadCall
  <2> QED BY <2>1, <2>2
<1>6. top.doing = "loading" /\ top.entry = e /\ top.before = arenaAt
  OBVIOUS
<1> HIDE DEF new, top
<1>7. PluginTypes'
  <2>1. ImageShape(plugin'[e])
    <3>1. loads + 1 \in Nat /\ <<>> \in Seq(Entries)
      BY DEF PluginIInv, PluginTypes
    <3> QED BY <1>1, <1>4, <3>1 DEF new, Entry, ImageShape
  <2>2. \A f \in Listed : ImageShape(plugin'[f])
    BY <1>1 DEF PluginIInv, PluginTypes
  <2>3. \A f \in Entries \ Listed' : plugin'[f] = Empty \/ \E m \in Libraries : plugin'[f] = FailedEntry(m)
    BY <1>1, <1>3 DEF PluginIInv, PluginTypes
  <2>4. loads' \in Nat /\ failing' = FALSE
    BY DEF PluginIInv, PluginTypes
  <2> QED BY <1>1, <1>3, <1>4, <1>5, <2>1, <2>2, <2>3, <2>4 DEF PluginTypes
<1>8. Stacked'
  <2> SUFFICES ASSUME NEW i \in 1 .. Len(calls')
               PROVE  /\ calls'[i].doing = "loading" =>
                           /\ calls'[i].entry \in Listed'
                           /\ plugin'[calls'[i].entry].state = "loading"
                           /\ plugin'[calls'[i].entry].first = calls'[i].before
                      /\ calls'[i].doing = "constructing" =>
                           calls'[i].entry \in Listed' /\ plugin'[calls'[i].entry].state = "initializing"
    BY DEF Stacked
  <2>1. CASE i = Len(calls) + 1
    BY <1>1, <1>2, <1>3, <1>5, <1>6, <2>1
  <2>2. CASE i # Len(calls) + 1
    <3>1. i \in 1 .. Len(calls) /\ calls'[i] = calls[i]
      BY <1>5, <2>2
    <3> QED BY <1>1, <1>3, <3>1 DEF PluginIInv, Stacked
  <2> QED BY <2>1, <2>2
<1>9. \A i \in 1 .. Len(calls) : calls[i].doing # "onload" => calls[i].entry \in Listed
  <2>1. \A i \in 1 .. Len(calls) : calls[i].doing \in {"loading", "constructing", "onload"}
    BY DEF PluginIInv, PluginTypes, PluginCall, LoadCall
  <2> QED BY <2>1 DEF PluginIInv, Stacked
<1>10. StackedOnce'
  <2> SUFFICES ASSUME NEW i \in 1 .. Len(calls'), NEW j \in 1 .. Len(calls'), i # j,
                      calls'[i].doing # "onload", calls'[j].doing # "onload"
               PROVE  calls'[i].entry # calls'[j].entry
    BY DEF StackedOnce
  <2>1. CASE i = Len(calls) + 1 \/ j = Len(calls) + 1
    BY <1>3, <1>5, <1>6, <1>9, <2>1
  <2>2. CASE i # Len(calls) + 1 /\ j # Len(calls) + 1
    <3>1. i \in 1 .. Len(calls) /\ j \in 1 .. Len(calls)
      BY <1>5, <2>2
    <3> QED BY <1>5, <3>1 DEF PluginIInv, StackedOnce
  <2> QED BY <2>1, <2>2
<1>11. Nested'
  <2> SUFFICES ASSUME NEW i \in 1 .. Len(calls'), NEW j \in 1 .. Len(calls'), i < j,
                      calls'[i].doing = "loading", calls'[j].doing = "loading"
               PROVE  [entry |-> calls'[i].entry, serial |-> plugin'[calls'[i].entry].serial]
                        \in plugin'[calls'[j].entry].around
    BY DEF Nested, Image
  <2>1. i \in 1 .. Len(calls) /\ calls'[i] = calls[i] /\ calls[i].entry \in Listed
        /\ plugin'[calls[i].entry] = plugin[calls[i].entry]
        /\ plugin[calls[i].entry].state = "loading"
    BY <1>1, <1>5 DEF PluginIInv, Stacked
  <2>2. CASE j = Len(calls) + 1
    BY <1>1, <1>2, <1>5, <1>6, <2>1, <2>2 DEF Unfinished, Image
  <2>3. CASE j # Len(calls) + 1
    <3>1. j \in 1 .. Len(calls) /\ calls'[j] = calls[j] /\ calls[j].entry \in Listed
      BY <1>5, <1>9, <2>3
    <3> QED BY <1>1, <2>1, <3>1 DEF PluginIInv, Nested, Image
  <2> QED BY <2>2, <2>3
<1>12. /\ \A p : Alive(p) => Alive(p)' /\ p.entry \in Listed
       /\ \A f \in Listed : Runnable(f)' = Runnable(f) /\ Slice(f)' = Slice(f)
  BY <1>1, <1>3 DEF Alive, Runnable, Slice
<1>13. Depends'
  <2>1. Range(new.deps) = {}
    BY <1>2 DEF Range
  <2> QED BY <1>1, <1>3, <1>12, <2>1 DEF PluginIInv, Depends
<1>14. BoundStays'
  BY <1>1, <1>2, <1>3, <1>12 DEF PluginIInv, BoundStays
<1>15. Apart'
  <2>1. Slice(e)' = arenaAt .. arenaAt + Pages[l] - 1
    BY <1>1, <1>2 DEF Slice
  <2>2. \A f \in Listed : plugin[f].name # l
    BY DEF Find
  <2>3. \A f \in Listed : \A page \in Slice(f) : page < arenaAt
    BY DEF PluginIInv, Apart
  <2>4. \A f \in Listed : Slice(f) \subseteq Int
    BY DEF Slice
  <2>5. \A f \in Listed' : \A page \in Slice(f)' : page < arenaAt'
    BY <1>3, <1>4, <1>12, <2>1, <2>3, <2>4
  <2>6. \A f \in Listed : Slice(f)' \intersect Slice(e)' = {}
    BY <1>4, <1>12, <2>1, <2>3, <2>4
  <2>7. \A f \in Listed : plugin'[f].name # plugin'[e].name
    BY <1>1, <1>2, <2>2
  <2> QED BY <1>1, <1>3, <1>12, <2>5, <2>6, <2>7 DEF PluginIInv, Apart
<1>16. Waiting'
  <2>1. \A f \in Listed : plugin'[f].state # "ready" =>
          \E i \in 1 .. Len(calls') : calls'[i].entry = f /\ calls'[i].doing # "onload"
    BY <1>1, <1>5 DEF PluginIInv, Waiting
  <2>2. Len(calls) + 1 \in 1 .. Len(calls') /\ calls'[Len(calls) + 1].entry = e
        /\ calls'[Len(calls) + 1].doing # "onload"
    BY <1>5, <1>6
  <2> QED BY <1>3, <2>1, <2>2 DEF Waiting
<1> QED BY <1>7, <1>8, <1>10, <1>11, <1>13, <1>14, <1>15, <1>16 DEF PluginIInv

LEMMA LoadBundledKeeps ==
  ASSUME PluginIInv, NEW l \in Libraries, ~failing, Find(l) = {}, LoadBundled(l)
  PROVE  PluginIInv'
<1>2. CASE Failed(l) # {} \/ Candidates = {}
  <2>1. ReturnsNull /\ UNCHANGED <<plugin, arenaAt, calls, loads>>
    BY <1>2 DEF LoadBundled
  <2> QED BY <2>1, VerdictKeeps DEF ReturnsNull
<1>3. CASE ~(Failed(l) # {} \/ Candidates = {})
  <2>1. PICK e \in Entries :
          /\ AllocEntry(e)
          /\ IF l \notin OnCard \/ arenaAt + Pages[l] > ArenaPages
               THEN CacheFailure(e, l) /\ UNCHANGED <<arenaAt, calls, loads>>
               ELSE Place(e, l)
    BY <1>3, Zenon DEF LoadBundled
  <2>2. e \in Entries \ Listed
    BY <2>1 DEF AllocEntry, Candidates, Empty, Listed
  <2>3. \/ CacheFailure(e, l) /\ UNCHANGED <<arenaAt, calls, loads>>
        \/ /\ plugin' = [plugin EXCEPT ![e] = Entry(l, loads + 1, arenaAt, Unfinished)]
           /\ arenaAt' = arenaAt + Pages[l]
           /\ calls' = Append(calls, [doing |-> "loading", entry |-> e, next |-> 1,
                                      before |-> arenaAt])
           /\ loads' = loads + 1
           /\ UNCHANGED failing
    BY <2>1, Zenon DEF Place
  <2>4. CASE CacheFailure(e, l) /\ UNCHANGED <<arenaAt, calls, loads>>
    BY <2>2, <2>4, FailureNoted DEF CacheFailure
  <2>5. CASE ~(CacheFailure(e, l) /\ UNCHANGED <<arenaAt, calls, loads>>)
    BY <2>2, <2>3, <2>5, PlacedKeeps
  <2> QED BY <2>4, <2>5
<1> QED BY <1>2, <1>3

\* A load that goes on, its call on top of the stack, and what it needs next.
LEMMA LoadingTop ==
  ASSUME PluginIInv, DoingIn(calls) = "loading"
  PROVE  /\ calls \in Seq(PluginCall) /\ calls # <<>> /\ Len(calls) \in 1 .. Len(calls)
         /\ Top = calls[Len(calls)] /\ Top.doing = "loading" /\ Top \in LoadCall
         /\ Top.entry \in Listed /\ plugin[Top.entry].state = "loading"
         /\ plugin[Top.entry].first = Top.before
         /\ MoreNeeded => NextNeeded \in Libraries
<1>1. calls \in Seq(PluginCall) /\ calls # <<>> /\ Len(calls) \in 1 .. Len(calls)
  BY TopCall DEF PluginIInv, PluginTypes
<1>2. Top = calls[Len(calls)] /\ Top.doing = "loading"
  BY <1>1, TopCall DEF Top
<1>3. Top \in LoadCall
  <2>1. Top \in PluginCall
    BY <1>1, <1>2
  <2> QED BY <1>2, <2>1 DEF PluginCall, LoadCall
<1>4. Top.entry \in Listed /\ plugin[Top.entry].state = "loading"
      /\ plugin[Top.entry].first = Top.before
  BY <1>1, <1>2 DEF PluginIInv, Stacked
<1>5. MoreNeeded => NextNeeded \in Libraries
  <2>1. Top.next \in Nat \ {0} /\ plugin[Top.entry].name \in Libraries
    BY <1>3, <1>4 DEF LoadCall, PluginIInv, PluginTypes, ImageShape
  <2>2. Needs[plugin[Top.entry].name] \in Seq(Libraries)
    BY <2>1, PluginAssumption
  <2> QED BY <2>1, <2>2 DEF MoreNeeded, NextNeeded
<1> QED BY <1>1, <1>2, <1>3, <1>4, <1>5

LEMMA OpenKeeps == ASSUME PluginIInv, NEW l \in Libraries, Open(l) PROVE PluginIInv'
BY LoadBundledKeeps DEF Open, MayCall

LEMMA LoadDependencyKeeps == ASSUME PluginIInv, LoadDependency PROVE PluginIInv'
<1>1. ~failing /\ DoingIn(calls) = "loading" /\ MoreNeeded /\ Find(NextNeeded) = {}
      /\ LoadBundled(NextNeeded)
  BY DEF LoadDependency, Loading
<1> QED BY <1>1, LoadingTop, LoadBundledKeeps

LEMMA RefuseKeeps == ASSUME PluginIInv, Refuse PROVE PluginIInv'
BY VerdictKeeps DEF Refuse, Loading

\* What is found loaded and is no image of a call further out stays; the others were being
\* loaded when this image was placed.
LEMMA FoundStays ==
  ASSUME PluginIInv, DoingIn(calls) = "loading", NEW d \in Listed
  PROVE  \/ Runnable(d) \/ d = Top.entry
         \/ Image(d) \in plugin[Top.entry].around
<1>1. /\ Len(calls) \in 1 .. Len(calls) /\ Top = calls[Len(calls)] /\ Top.doing = "loading"
  BY LoadingTop
<1>2. SUFFICES ASSUME ~Runnable(d), d # Top.entry
               PROVE  Image(d) \in plugin[Top.entry].around
  OBVIOUS
<1>3. plugin[d].state = "loading"
  BY <1>2 DEF Runnable, Listed
<1>4. PICK i \in 1 .. Len(calls) : calls[i].entry = d /\ calls[i].doing # "onload"
  BY <1>3 DEF PluginIInv, Waiting
<1>5. calls[i].doing = "loading"
  <2>1. calls[i].doing \in {"loading", "constructing", "onload"}
    BY DEF PluginIInv, PluginTypes, PluginCall, LoadCall
  <2> QED BY <1>3, <1>4, <2>1 DEF PluginIInv, Stacked
<1>6. i # Len(calls)
  BY <1>1, <1>2, <1>4
<1> QED BY <1>1, <1>4, <1>5, <1>6 DEF PluginIInv, Nested

LEMMA AddDependencyKeeps == ASSUME PluginIInv, AddDependency PROVE PluginIInv'
<1>1. ~failing /\ DoingIn(calls) = "loading" /\ MoreNeeded
  BY DEF AddDependency, Loading
<1>2. PICK d \in Find(NextNeeded) :
        plugin' = [plugin EXCEPT ![Top.entry].deps =
                     IF Contains(@, d) THEN @ ELSE Append(@, d)]
  BY DEF AddDependency
<1>3. calls' = [calls EXCEPT ![Len(calls)].next = @ + 1] /\ UNCHANGED <<arenaAt, failing, loads>>
  BY DEF AddDependency
<1>4. /\ calls \in Seq(PluginCall) /\ Len(calls) \in 1 .. Len(calls)
      /\ Top = calls[Len(calls)] /\ Top.doing = "loading" /\ Top \in LoadCall
      /\ Top.entry \in Listed /\ plugin[Top.entry].state = "loading"
  BY <1>1, LoadingTop
<1>5. d \in Listed
  BY DEF Find
<1> PICK u : u = Top.entry
  OBVIOUS
<1> PICK deps : deps = IF Contains(plugin[u].deps, d) THEN plugin[u].deps
                       ELSE Append(plugin[u].deps, d)
  OBVIOUS
<1>6. /\ \A f \in Entries : f # u => plugin'[f] = plugin[f]
      /\ plugin'[u] = [plugin[u] EXCEPT !.deps = deps] /\ DOMAIN plugin' = Entries
      /\ ImageShape(plugin[u])
  BY <1>2, <1>4 DEF PluginIInv, PluginTypes, Listed
<1>7. deps \in Seq(Entries) /\ Range(deps) = Range(plugin[u].deps) \union {d}
  <2> PICK s \in Seq(Entries) : s = plugin[u].deps
    BY <1>6 DEF ImageShape
  <2> PICK x \in Entries : x = d
    BY <1>5 DEF Listed
  <2>1. deps = IF Contains(s, x) THEN s ELSE Append(s, x)
    OBVIOUS
  <2>2. CASE Contains(s, x)
    BY <2>1, <2>2 DEF Contains, Range
  <2>3. CASE ~Contains(s, x)
    <3>1. deps = Append(s, x)
      BY <2>1, <2>3
    <3>2. deps \in Seq(Entries) /\ Range(deps) = Range(s) \union {x}
      BY <3>1 DEF Range
    <3> QED BY <3>2
  <2> QED BY <2>2, <2>3
<1>8. /\ plugin'[u].deps = deps /\ SameImage(u) /\ ImageShape(plugin'[u])
  <2>1. plugin'[u].deps = deps /\ SameImage(u)
    BY <1>6 DEF ImageShape, SameImage
  <2> QED BY <1>6, <1>7, <2>1 DEF ImageShape, SameImage
<1>9. \A f \in Listed : SameImage(f)
  BY <1>6, <1>8 DEF SameImage, Listed
<1>10. Listed' = Listed
  BY <1>6, <1>8 DEF Listed, SameImage
<1>11. /\ calls' \in Seq(PluginCall) /\ Len(calls') = Len(calls)
       /\ \A i \in 1 .. Len(calls) :
            calls'[i].doing = calls[i].doing /\ calls'[i].entry = calls[i].entry
       /\ \A i \in 1 .. Len(calls) : calls[i].doing # "onload" => calls'[i].before = calls[i].before
  <2> PICK top : top = [Top EXCEPT !.next = @ + 1]
    OBVIOUS
  <2>1. top \in LoadCall /\ top.doing = Top.doing /\ top.entry = Top.entry /\ top.before = Top.before
    BY <1>4 DEF LoadCall
  <2>2. calls' = [calls EXCEPT ![Len(calls)] = top]
    BY <1>3, <1>4
  <2>3. top \in PluginCall
    BY <2>1 DEF PluginCall
  <2> PICK s, n : s = calls /\ n = Len(calls)
    OBVIOUS
  <2>4. s \in Seq(PluginCall) /\ n \in 1 .. Len(s) /\ calls' = [s EXCEPT ![n] = top]
    BY <1>4, <2>2
  <2>5. /\ calls' \in Seq(PluginCall) /\ Len(calls') = Len(s)
        /\ \A i \in 1 .. Len(s) : calls'[i] = IF i = n THEN top ELSE s[i]
    BY <2>3, <2>4, ChangedCall
  <2> QED BY <1>4, <2>1, <2>5
<1>12. SameLoads
  BY <1>11 DEF SameLoads
<1>13. /\ Stacked' /\ StackedOnce' /\ Nested' /\ BoundStays' /\ Apart' /\ Waiting'
       /\ \A f \in Listed : Runnable(f)' = Runnable(f)
       /\ \A p : Alive(p)' = Alive(p)
  BY <1>3, <1>9, <1>10, <1>12, LoadsStay
<1>14. PluginTypes'
  <2>1. \A f \in Listed : ImageShape(plugin'[f])
    BY <1>6, <1>8 DEF PluginIInv, PluginTypes, Listed
  <2>2. \A f \in Entries \ Listed : plugin'[f] = Empty \/ \E m \in Libraries : plugin'[f] = FailedEntry(m)
    BY <1>4, <1>6 DEF PluginIInv, PluginTypes
  <2> QED BY <1>1, <1>3, <1>6, <1>10, <1>11, <2>1, <2>2 DEF PluginIInv, PluginTypes
<1>15. Depends'
  <2> SUFFICES ASSUME NEW f \in Listed, NEW g \in Range(plugin'[f].deps)
               PROVE  Encloses(plugin'[f].around, g) \/ (g \in Listed /\ (Runnable(g)' \/ g = f))
    BY <1>10 DEF Depends
  <2>1. plugin'[f].around = plugin[f].around
    BY <1>9 DEF SameImage
  <2>2. CASE g \in Range(plugin[f].deps)
    <3>1. Encloses(plugin[f].around, g) \/ (g \in Listed /\ (Runnable(g) \/ g = f))
      BY <2>2 DEF PluginIInv, Depends
    <3> QED BY <1>13, <2>1, <3>1
  <2>3. CASE g \notin Range(plugin[f].deps)
    <3>1. f \in Entries
      BY DEF Listed
    <3>2. f = u
      BY <1>6, <2>3, <3>1
    <3>3. g = d
      BY <1>7, <1>8, <2>3, <3>2
    <3>4. Runnable(d) \/ d = u \/ Encloses(plugin[u].around, d)
      BY <1>1, <1>5, FoundStays DEF Encloses, Image
    <3> QED BY <1>5, <1>13, <2>1, <3>2, <3>3, <3>4
  <2> QED BY <2>2, <2>3
<1> QED BY <1>13, <1>14, <1>15 DEF PluginIInv

LEMMA BindKeeps == ASSUME PluginIInv, Bind PROVE PluginIInv'
<1>1. ~failing /\ DoingIn(calls) = "loading" /\ UNCHANGED <<arenaAt, failing, loads>>
  BY DEF Bind, Loading
<1>2. /\ calls \in Seq(PluginCall) /\ Len(calls) \in 1 .. Len(calls)
      /\ Top = calls[Len(calls)] /\ Top.doing = "loading" /\ Top \in LoadCall
      /\ Top.entry \in Listed /\ plugin[Top.entry].state = "loading"
  BY <1>1, LoadingTop
<1> PICK u : u = Top.entry
  OBVIOUS
<1> PICK bound : bound = {Image(d) : d \in Defining(u)}
  OBVIOUS
<1> PICK top : top = [Top EXCEPT !.doing = "constructing"]
  OBVIOUS
<1>3. \A p \in bound : Alive(p)
  BY DEF Defining, Scope, Image, Alive
<1>4. /\ \A f \in Entries : f # u => plugin'[f] = plugin[f]
      /\ plugin'[u] = [plugin[u] EXCEPT !.state = "initializing", !.bound = bound]
      /\ DOMAIN plugin' = Entries /\ u \in Entries /\ ImageShape(plugin[u])
  <2>1. plugin' = [plugin EXCEPT ![u].state = "initializing", ![u].bound = bound]
    BY DEF Bind
  <2>2. u \in Entries /\ ImageShape(plugin[u]) /\ DOMAIN plugin = Entries
    BY <1>2 DEF PluginIInv, PluginTypes, Listed
  <2> QED BY <2>1, <2>2
<1>5. /\ plugin'[u].state = "initializing" /\ plugin'[u].bound = bound
      /\ plugin'[u].name = plugin[u].name /\ plugin'[u].serial = plugin[u].serial
      /\ plugin'[u].first = plugin[u].first /\ plugin'[u].around = plugin[u].around
      /\ plugin'[u].deps = plugin[u].deps /\ ImageShape(plugin'[u])
  BY <1>4 DEF ImageShape
<1>6. Listed' = Listed /\ u \in Listed
  BY <1>2, <1>4, <1>5 DEF Listed
<1>7. /\ calls' \in Seq(PluginCall) /\ Len(calls') = Len(calls)
      /\ \A i \in 1 .. Len(calls) : calls'[i] = IF i = Len(calls) THEN top ELSE calls[i]
  <2>1. top \in PluginCall
    BY <1>2 DEF LoadCall, PluginCall
  <2>2. calls' = [calls EXCEPT ![Len(calls)] = top]
    BY <1>2 DEF Bind
  <2> PICK s, n : s = calls /\ n = Len(calls)
    OBVIOUS
  <2>3. s \in Seq(PluginCall) /\ n \in 1 .. Len(s) /\ calls' = [s EXCEPT ![n] = top]
    BY <1>2, <2>2
  <2>4. /\ calls' \in Seq(PluginCall) /\ Len(calls') = Len(s)
        /\ \A i \in 1 .. Len(s) : calls'[i] = IF i = n THEN top ELSE s[i]
    BY <2>1, <2>3, ChangedCall
  <2> QED BY <2>4
<1>8. top.doing = "constructing" /\ top.entry = u
  BY <1>2 DEF LoadCall
<1>9. /\ \A f \in Listed : f # u => plugin'[f] = plugin[f]
      /\ \A f \in Listed : Slice(f)' = Slice(f)
      /\ \A p : Alive(p)' = Alive(p)
      /\ \A f \in Listed : Runnable(f) => Runnable(f)'
      /\ Runnable(u)' /\ ~Runnable(u)
  <2>1. \A f \in Listed : f # u => plugin'[f] = plugin[f]
    BY <1>4 DEF Listed
  <2>2. \A f \in Listed : /\ plugin'[f].first = plugin[f].first
                          /\ plugin'[f].name = plugin[f].name
                          /\ plugin'[f].serial = plugin[f].serial
    BY <1>5, <2>1
  <2>3. \A f \in Listed : Slice(f)' = Slice(f)
    BY <2>2 DEF Slice
  <2>4. \A p : Alive(p)' = Alive(p)
    BY <1>6, <2>2 DEF Alive
  <2>5. Runnable(u)' /\ ~Runnable(u)
    BY <1>2, <1>5 DEF Runnable
  <2>6. \A f \in Listed : Runnable(f) => Runnable(f)'
    BY <2>1, <2>5 DEF Runnable
  <2> QED BY <2>1, <2>3, <2>4, <2>5, <2>6
<1>10. PluginTypes'
  <2>1. \A f \in Listed : ImageShape(plugin'[f])
    BY <1>5, <1>9 DEF PluginIInv, PluginTypes
  <2>2. \A f \in Entries \ Listed : plugin'[f] = Empty \/ \E m \in Libraries : plugin'[f] = FailedEntry(m)
    BY <1>4, <1>6 DEF PluginIInv, PluginTypes
  <2> QED BY <1>1, <1>4, <1>6, <1>7, <2>1, <2>2 DEF PluginIInv, PluginTypes
<1>11. \A i \in 1 .. Len(calls) : i # Len(calls) /\ calls[i].doing # "onload" =>
         calls[i].entry # u
  BY <1>2 DEF PluginIInv, StackedOnce
<1>12. Stacked'
  <2> SUFFICES ASSUME NEW i \in 1 .. Len(calls)
               PROVE  /\ calls'[i].doing = "loading" =>
                           /\ calls'[i].entry \in Listed
                           /\ plugin'[calls'[i].entry].state = "loading"
                           /\ plugin'[calls'[i].entry].first = calls'[i].before
                      /\ calls'[i].doing = "constructing" =>
                           calls'[i].entry \in Listed /\ plugin'[calls'[i].entry].state = "initializing"
    BY <1>6, <1>7 DEF Stacked
  <2>1. CASE i = Len(calls)
    BY <1>5, <1>6, <1>7, <1>8, <2>1
  <2>2. CASE i # Len(calls)
    BY <1>7, <1>9, <1>11, <2>2 DEF PluginIInv, Stacked
  <2> QED BY <2>1, <2>2
<1>13. StackedOnce'
  <2>1. \A i \in 1 .. Len(calls) : calls'[i].entry = calls[i].entry
          /\ (calls'[i].doing # "onload" => calls[i].doing # "onload")
    BY <1>2, <1>7, <1>8
  <2> QED BY <1>7, <2>1 DEF PluginIInv, StackedOnce
<1>14. Nested'
  <2>1. \A i \in 1 .. Len(calls) : calls'[i].doing = "loading" =>
          /\ calls'[i] = calls[i] /\ calls[i].entry \in Listed /\ calls[i].entry # u
    BY <1>7, <1>8, <1>11 DEF PluginIInv, Stacked
  <2> QED BY <1>7, <1>9, <2>1 DEF PluginIInv, Nested, Image
<1>15. Depends'
  <2> SUFFICES ASSUME NEW f \in Listed, NEW d \in Range(plugin[f].deps)
               PROVE  Encloses(plugin[f].around, d) \/ (d \in Listed /\ (Runnable(d)' \/ d = f))
    BY <1>5, <1>6, <1>9 DEF Depends
  <2> QED BY <1>9 DEF PluginIInv, Depends
<1>16. BoundStays'
  <2> SUFFICES ASSUME NEW f \in Listed, Runnable(f)', NEW p \in plugin'[f].bound
               PROVE  p \in plugin'[f].around \/ (Alive(p)' /\ Runnable(p.entry)')
    BY <1>6 DEF BoundStays
  <2>1. CASE f = u
    <3>1. Alive(p) /\ p.entry \in Listed /\ p = Image(p.entry)
      BY <1>5, <2>1 DEF Defining, Scope, Image, Alive
    <3>2. Runnable(p.entry) \/ p.entry = u \/ Image(p.entry) \in plugin[u].around
      BY <1>1, <3>1, FoundStays
    <3> QED BY <1>5, <1>9, <2>1, <3>1, <3>2
  <2>2. CASE f # u
    <3>1. plugin'[f] = plugin[f] /\ Runnable(f)
      BY <1>9, <2>2 DEF Runnable
    <3>2. p \in plugin[f].around \/ (Alive(p) /\ Runnable(p.entry))
      BY <3>1 DEF PluginIInv, BoundStays
    <3>3. Alive(p) => p.entry \in Listed
      BY DEF Alive
    <3> QED BY <1>9, <3>1, <3>2, <3>3
  <2> QED BY <2>1, <2>2
<1>17. Apart'
  <2>1. \A f \in Listed : plugin'[f].name = plugin[f].name
    BY <1>5, <1>9
  <2> QED BY <1>1, <1>6, <1>9, <2>1 DEF PluginIInv, Apart
<1>18. Waiting'
  <2> SUFFICES ASSUME NEW f \in Listed, plugin'[f].state # "ready"
               PROVE  \E i \in 1 .. Len(calls) : calls'[i].entry = f /\ calls'[i].doing # "onload"
    BY <1>6, <1>7 DEF Waiting
  <2>1. CASE f = u
    BY <1>2, <1>7, <1>8, <2>1
  <2>2. CASE f # u
    <3>1. PICK i \in 1 .. Len(calls) : calls[i].entry = f /\ calls[i].doing # "onload"
      BY <1>9, <2>2 DEF PluginIInv, Waiting
    <3>2. calls'[i] = calls[i]
      BY <1>2, <1>7, <2>2, <3>1
    <3> QED BY <3>1, <3>2
  <2> QED BY <2>1, <2>2
<1> QED BY <1>10, <1>12, <1>13, <1>14, <1>15, <1>16, <1>17, <1>18 DEF PluginIInv

\* The end of a load: its image is ready or gone, and whatever runs stays.
LEMMA LoadEnds ==
  ASSUME PluginIInv, calls # <<>>, Top.doing # "onload", NEW u \in Listed, u = Top.entry,
         calls' = Front(calls), PluginTypes',
         \A f \in Listed : f # u => plugin'[f] = plugin[f],
         \/ /\ Listed' = Listed /\ plugin'[u].state = "ready"
            /\ Runnable(u) /\ plugin'[u].name = plugin[u].name
            /\ plugin'[u].serial = plugin[u].serial /\ plugin'[u].first = plugin[u].first
            /\ plugin'[u].around = plugin[u].around /\ plugin'[u].bound = plugin[u].bound
            /\ plugin'[u].deps = plugin[u].deps
         \/ Listed' = Listed \ {u} /\ ~Runnable(u),
         \A f \in Listed' : \A page \in Slice(f)' : page < arenaAt'
  PROVE  PluginIInv'
<1>1. /\ Len(calls) \in 1 .. Len(calls) /\ Top = calls[Len(calls)]
      /\ Len(calls') = Len(calls) - 1
      /\ \A i \in 1 .. Len(calls) - 1 : calls'[i] = calls[i]
  <2>1. calls \in Seq(PluginCall)
    BY DEF PluginIInv, PluginTypes
  <2>2. Len(calls) \in 1 .. Len(calls)
    BY <2>1
  <2> QED BY <2>1, <2>2, PoppedCall DEF Top
<1>2. /\ \A i \in 1 .. Len(calls') : i \in 1 .. Len(calls) /\ calls'[i] = calls[i]
      /\ \A i \in 1 .. Len(calls') : calls[i].doing # "onload" => calls[i].entry # u
  <2>1. \A i \in 1 .. Len(calls') : i \in 1 .. Len(calls) /\ i # Len(calls) /\ calls'[i] = calls[i]
    BY <1>1
  <2> QED BY <1>1, <2>1 DEF PluginIInv, StackedOnce
<1>3. /\ Listed' \subseteq Listed /\ \A f \in Listed : f # u => f \in Listed'
      /\ \A f \in Listed' :
           /\ plugin'[f].name = plugin[f].name /\ plugin'[f].around = plugin[f].around
           /\ plugin'[f].bound = plugin[f].bound /\ plugin'[f].deps = plugin[f].deps
           /\ Slice(f)' = Slice(f) /\ Runnable(f)' = Runnable(f)
  <2>1. \A f \in Listed' : f # u => plugin'[f] = plugin[f]
    OBVIOUS
  <2> QED BY <2>1 DEF Slice, Runnable
<1>4. \A p : Alive(p) /\ (Runnable(p.entry) \/ p.entry \in Listed') =>
              Alive(p)' /\ (Runnable(p.entry) => Runnable(p.entry)')
  BY <1>3 DEF Alive
<1>5. \A i \in 1 .. Len(calls) : calls[i].doing \in {"loading", "constructing", "onload"}
  BY DEF PluginIInv, PluginTypes, PluginCall, LoadCall
<1>6. \A i \in 1 .. Len(calls') : calls[i].doing # "onload" =>
        calls[i].entry \in Listed' /\ plugin'[calls[i].entry] = plugin[calls[i].entry]
  <2>1. \A i \in 1 .. Len(calls') : calls[i].doing # "onload" => calls[i].entry \in Listed
    BY <1>2, <1>5 DEF PluginIInv, Stacked
  <2> QED BY <1>2, <1>3, <2>1
<1>7. Stacked' /\ StackedOnce'
  <2>1. Stacked'
    BY <1>2, <1>6 DEF PluginIInv, Stacked
  <2>2. StackedOnce'
    BY <1>2 DEF PluginIInv, StackedOnce
  <2> QED BY <2>1, <2>2
<1>8. Nested'
  BY <1>2, <1>6 DEF PluginIInv, Nested, Image
<1>9. Depends'
  <2> SUFFICES ASSUME NEW f \in Listed', NEW d \in Range(plugin[f].deps)
               PROVE  Encloses(plugin[f].around, d) \/ (d \in Listed' /\ (Runnable(d)' \/ d = f))
    BY <1>3 DEF Depends
  <2>1. Encloses(plugin[f].around, d) \/ (d \in Listed /\ (Runnable(d) \/ d = f))
    BY <1>3 DEF PluginIInv, Depends
  <2>2. d \in Listed /\ Runnable(d) => d \in Listed' /\ Runnable(d)'
    BY <1>3
  <2> QED BY <2>1, <2>2
<1>10. BoundStays'
  <2> SUFFICES ASSUME NEW f \in Listed', Runnable(f), NEW p \in plugin[f].bound
               PROVE  p \in plugin[f].around \/ (Alive(p)' /\ Runnable(p.entry)')
    BY <1>3 DEF BoundStays
  <2>1. p \in plugin[f].around \/ (Alive(p) /\ Runnable(p.entry))
    BY <1>3 DEF PluginIInv, BoundStays
  <2> QED BY <1>4, <2>1
<1>11. Apart'
  BY <1>3 DEF PluginIInv, Apart
<1>12. Waiting'
  <2> SUFFICES ASSUME NEW f \in Listed', plugin'[f].state # "ready"
               PROVE  \E i \in 1 .. Len(calls') : calls'[i].entry = f /\ calls'[i].doing # "onload"
    BY DEF Waiting
  <2>1. f \in Listed /\ f # u
    OBVIOUS
  <2>2. PICK i \in 1 .. Len(calls) : calls[i].entry = f /\ calls[i].doing # "onload"
    BY <2>1 DEF PluginIInv, Waiting
  <2>3. i \in 1 .. Len(calls')
    BY <1>1, <2>1, <2>2
  <2> QED BY <1>2, <2>2, <2>3
<1> QED BY <1>7, <1>8, <1>9, <1>10, <1>11, <1>12 DEF PluginIInv

LEMMA FinishConstructorsKeeps == ASSUME PluginIInv, FinishConstructors PROVE PluginIInv'
<1>1. ~failing /\ DoingIn(calls) = "constructing" /\ UNCHANGED <<arenaAt, failing, loads>>
      /\ calls' = Front(calls)
  BY DEF FinishConstructors
<1>2. /\ calls \in Seq(PluginCall) /\ calls # <<>> /\ Len(calls) \in 1 .. Len(calls)
      /\ Top = calls[Len(calls)] /\ Top.doing = "constructing"
  <2>1. calls \in Seq(PluginCall)
    BY DEF PluginIInv, PluginTypes
  <2> QED BY <1>1, <2>1, TopCall DEF Top
<1>3. Top.entry \in Listed /\ plugin[Top.entry].state = "initializing"
  BY <1>2 DEF PluginIInv, Stacked
<1> PICK u : u = Top.entry
  OBVIOUS
<1>4. /\ \A f \in Entries : f # u => plugin'[f] = plugin[f]
      /\ plugin'[u] = [plugin[u] EXCEPT !.state = "ready"]
      /\ DOMAIN plugin' = Entries /\ u \in Entries /\ ImageShape(plugin[u])
  <2>1. u \in Entries /\ ImageShape(plugin[u]) /\ DOMAIN plugin = Entries
    BY <1>3 DEF PluginIInv, PluginTypes, Listed
  <2> QED BY <2>1 DEF FinishConstructors
<1>5. /\ plugin'[u].state = "ready" /\ plugin'[u].bound = plugin[u].bound
      /\ plugin'[u].name = plugin[u].name /\ plugin'[u].serial = plugin[u].serial
      /\ plugin'[u].first = plugin[u].first /\ plugin'[u].around = plugin[u].around
      /\ plugin'[u].deps = plugin[u].deps /\ ImageShape(plugin'[u])
  BY <1>4 DEF ImageShape
<1>6. Listed' = Listed /\ u \in Listed /\ Runnable(u)
      /\ \A f \in Listed : f # u => plugin'[f] = plugin[f]
  <2>1. u \in Listed /\ Runnable(u)
    BY <1>3 DEF Runnable
  <2>2. \A f \in Entries : f \in Listed' <=> f \in Listed
    BY <1>4, <1>5, <2>1 DEF Listed
  <2>3. Listed' = Listed
    BY <2>2 DEF Listed
  <2>4. \A f \in Listed : f # u => plugin'[f] = plugin[f]
    BY <1>4 DEF Listed
  <2> QED BY <2>1, <2>3, <2>4
<1>7. PluginTypes'
  <2>1. \A f \in Listed : ImageShape(plugin'[f])
    BY <1>5, <1>6 DEF PluginIInv, PluginTypes
  <2>2. \A f \in Entries \ Listed : plugin'[f] = Empty \/ \E m \in Libraries : plugin'[f] = FailedEntry(m)
    BY <1>4, <1>6 DEF PluginIInv, PluginTypes
  <2>3. calls' \in Seq(PluginCall)
    BY <1>1, <1>2, PoppedCall
  <2> QED BY <1>1, <1>4, <1>6, <2>1, <2>2, <2>3 DEF PluginIInv, PluginTypes
<1>8. \A f \in Listed' : \A page \in Slice(f)' : page < arenaAt'
  <2>1. \A f \in Listed : Slice(f)' = Slice(f)
    BY <1>5, <1>6 DEF Slice
  <2> QED BY <1>1, <1>6, <2>1 DEF PluginIInv, Apart
<1> QED BY <1>1, <1>2, <1>5, <1>6, <1>7, <1>8, LoadEnds

\* A load that fails was the innermost: its image is the one that nothing else rests on.
LEMMA DiscardKeeps == ASSUME PluginIInv, DiscardImage PROVE PluginIInv'
<1>1. failing /\ DoingIn(calls) = "loading" /\ UNCHANGED loads /\ calls' = Front(calls)
  BY DEF DiscardImage, PluginIInv, PluginTypes
<1>2. /\ calls \in Seq(PluginCall) /\ calls # <<>> /\ Len(calls) \in 1 .. Len(calls)
      /\ Top = calls[Len(calls)] /\ Top.doing = "loading"
      /\ Top \in LoadCall /\ Top.entry \in Listed /\ plugin[Top.entry].state = "loading"
      /\ plugin[Top.entry].first = Top.before
  BY <1>1, LoadingTop
<1> PICK u : u = Top.entry
  OBVIOUS
<1>3. /\ u \in Entries /\ u \in Listed /\ ~Runnable(u) /\ plugin[u].name \in Libraries
      /\ DOMAIN plugin = Entries
  BY <1>2 DEF PluginIInv, PluginTypes, ImageShape, Listed, Runnable
<1>4. /\ \A f \in Entries : f # u => plugin'[f] = plugin[f]
      /\ plugin'[u] = FailedEntry(plugin[u].name) /\ DOMAIN plugin' = Entries
  BY <1>3 DEF DiscardImage
<1>5. Listed' = Listed \ {u} /\ \A f \in Listed : f # u => plugin'[f] = plugin[f]
  BY <1>3, <1>4 DEF Listed, FailedEntry
<1>6. /\ arenaAt' \in Nat
      /\ \A f \in Listed' : \A page \in Slice(f)' : page < arenaAt'
  <2>1. /\ plugin[u].first \in Nat /\ plugin[u].first = Top.before /\ arenaAt \in Nat
        /\ Pages[plugin[u].name] \in Nat
    BY <1>2, <1>3, PluginAssumption DEF PluginIInv, PluginTypes, ImageShape
  <2>2. arenaAt' = IF arenaAt = plugin[u].first + Pages[plugin[u].name]
                   THEN plugin[u].first ELSE arenaAt
    BY <2>1 DEF DiscardImage, Rewound
  <2>3. \A f \in Listed' : f \in Listed /\ f # u /\ Slice(f)' = Slice(f) /\ Slice(f) \subseteq Int
    BY <1>5 DEF Slice
  <2>4. \A f \in Listed : \A page \in Slice(f) : page < arenaAt
    BY DEF PluginIInv, Apart
  <2>5. \A f \in Listed : f # u => Slice(f) \intersect Slice(u) = {}
    BY <1>3 DEF PluginIInv, Apart
  <2>6. Slice(u) = plugin[u].first .. plugin[u].first + Pages[plugin[u].name] - 1
    BY DEF Slice
  <2>7. ASSUME NEW f \in Listed', NEW page \in Slice(f) PROVE page < arenaAt'
    <3>1. page \in Int /\ page < arenaAt /\ page \notin Slice(u)
      BY <2>3, <2>4, <2>5
    <3> QED BY <2>1, <2>2, <2>6, <3>1
  <2> QED BY <2>1, <2>2, <2>3, <2>7
<1>7. PluginTypes'
  <2>1. \A f \in Listed' : ImageShape(plugin'[f])
    BY <1>5 DEF PluginIInv, PluginTypes
  <2>2. \A f \in Entries \ Listed' : plugin'[f] = Empty \/ \E m \in Libraries : plugin'[f] = FailedEntry(m)
    BY <1>3, <1>4, <1>5 DEF PluginIInv, PluginTypes
  <2>3. calls' \in Seq(PluginCall)
    BY <1>1, <1>2, PoppedCall
  <2>4. failing' \in BOOLEAN /\ (failing' => DoingIn(calls') = "loading")
    BY <1>1 DEF DiscardImage
  <2> QED BY <1>1, <1>4, <1>6, <2>1, <2>2, <2>3, <2>4 DEF PluginIInv, PluginTypes
<1> QED BY <1>1, <1>2, <1>3, <1>5, <1>6, <1>7, LoadEnds

\* JNI_OnLoad moves no image and no load.
LEMMA OnLoadMoves ==
  ASSUME PluginIInv, NEW e, NEW v, plugin' = [plugin EXCEPT ![e].onload = v],
         calls' \in Seq(PluginCall), SameLoads, ~failing, UNCHANGED <<arenaAt, failing, loads>>
  PROVE  PluginIInv'
<1>1. /\ DOMAIN plugin = Entries /\ \A f \in Listed : ImageShape(plugin[f])
      /\ \A f \in Entries \ Listed : plugin[f] = Empty \/ \E m \in Libraries : plugin[f] = FailedEntry(m)
  BY DEF PluginIInv, PluginTypes
<1>2. \A f \in Entries : plugin'[f] = IF f = e THEN [plugin[f] EXCEPT !.onload = v] ELSE plugin[f]
  BY <1>1
<1>3. \A f \in Listed : f \in Entries
  BY DEF Listed
<1>4. \A f \in Listed : /\ SameImage(f) /\ plugin'[f].deps = plugin[f].deps /\ ImageShape(plugin'[f])
  <2> SUFFICES ASSUME NEW f \in Listed
               PROVE  SameImage(f) /\ plugin'[f].deps = plugin[f].deps /\ ImageShape(plugin'[f])
    OBVIOUS
  <2>1. CASE f = e
    <3>1. plugin'[f] = [plugin[f] EXCEPT !.onload = v]
      BY <1>2, <1>3, <2>1
    <3>2. ImageShape(plugin[f])
      BY <1>1
    <3>3. SameImage(f) /\ plugin'[f].deps = plugin[f].deps
      BY <3>1, <3>2 DEF SameImage, ImageShape
    <3>4. DOMAIN plugin'[f] = DOMAIN plugin[f]
      BY <3>1
    <3> QED BY <3>2, <3>3, <3>4 DEF SameImage, ImageShape
  <2>2. CASE f # e
    <3>1. plugin'[f] = plugin[f]
      BY <1>2, <1>3, <2>2
    <3> QED BY <1>1, <3>1 DEF SameImage
  <2> QED BY <2>1, <2>2
<1>5. \A f \in Entries \ Listed : plugin'[f] = plugin[f]
  <2> SUFFICES ASSUME NEW f \in Entries \ Listed PROVE plugin'[f] = plugin[f]
    OBVIOUS
  <2>1. CASE f = e /\ plugin[f] = Empty
    BY <1>2, <2>1 DEF Empty
  <2>2. CASE f = e /\ \E m \in Libraries : plugin[f] = FailedEntry(m)
    BY <1>2, <2>2 DEF FailedEntry
  <2>3. CASE f # e
    BY <1>2, <2>3
  <2> QED BY <1>1, <2>1, <2>2, <2>3
<1>6. Listed' = Listed
  BY <1>4, <1>5 DEF Listed, SameImage
<1>7. DOMAIN plugin' = Entries
  BY <1>1
<1>8. PluginTypes'
  <2>1. \A f \in Listed' : ImageShape(plugin'[f])
    BY <1>4, <1>6
  <2>2. \A f \in Entries \ Listed' : plugin'[f] = Empty \/ \E m \in Libraries : plugin'[f] = FailedEntry(m)
    BY <1>1, <1>5, <1>6
  <2>3. arenaAt' \in Nat /\ loads' \in Nat /\ failing' = FALSE
    BY DEF PluginIInv, PluginTypes
  <2> QED BY <1>7, <2>1, <2>2, <2>3 DEF PluginTypes
<1> QED BY <1>4, <1>6, <1>8, QuietKeeps

LEMMA JniOnLoadKeeps == ASSUME PluginIInv, NEW e \in Entries, JniOnLoad(e) PROVE PluginIInv'
<1>1. calls \in Seq(PluginCall)
  BY DEF PluginIInv, PluginTypes
<1> PICK top \in PluginCall : top = [doing |-> "onload", entry |-> e]
  BY DEF PluginCall
<1>2. calls' = Append(calls, top) /\ top.doing = "onload"
  BY DEF JniOnLoad
<1>3. /\ calls' \in Seq(PluginCall) /\ Len(calls') = Len(calls) + 1
      /\ \A i \in 1 .. Len(calls) : calls'[i] = calls[i]
      /\ calls'[Len(calls) + 1] = top
  BY <1>1, <1>2
<1>4. SameLoads
  <2>1. \A i \in 1 .. Len(calls') : i \in 1 .. Len(calls) \/ i = Len(calls) + 1
    BY <1>1, <1>3
  <2>2. \A i \in 1 .. Len(calls) : i \in 1 .. Len(calls')
    BY <1>1, <1>3
  <2> QED BY <1>2, <1>3, <2>1, <2>2 DEF SameLoads
<1>5. ~failing /\ plugin' = [plugin EXCEPT ![e].onload = "running"]
      /\ UNCHANGED <<arenaAt, failing, loads>>
  BY DEF JniOnLoad, MayCall
<1> QED BY <1>3, <1>4, <1>5, OnLoadMoves

LEMMA FinishOnLoadKeeps == ASSUME PluginIInv, FinishOnLoad PROVE PluginIInv'
<1>1. ~failing /\ DoingIn(calls) = "onload" /\ calls' = Front(calls)
      /\ UNCHANGED <<arenaAt, failing, loads>>
  BY DEF FinishOnLoad
<1>2. PICK result : plugin' = [plugin EXCEPT ![Top.entry].onload = result]
  BY DEF FinishOnLoad
<1>3. /\ calls \in Seq(PluginCall) /\ calls # <<>> /\ Len(calls) \in 1 .. Len(calls)
      /\ calls[Len(calls)].doing = "onload"
  <2>1. calls \in Seq(PluginCall)
    BY DEF PluginIInv, PluginTypes
  <2> QED BY <1>1, <2>1, TopCall
<1>4. /\ calls' \in Seq(PluginCall) /\ Len(calls') = Len(calls) - 1
      /\ \A i \in 1 .. Len(calls) - 1 : calls'[i] = calls[i]
  BY <1>1, <1>3, PoppedCall
<1>5. SameLoads
  <2>1. \A i \in 1 .. Len(calls') : i \in 1 .. Len(calls) /\ calls'[i] = calls[i]
    BY <1>3, <1>4
  <2>2. \A i \in 1 .. Len(calls) : calls[i].doing # "onload" => i \in 1 .. Len(calls')
    BY <1>3, <1>4
  <2> QED BY <2>1, <2>2 DEF SameLoads
<1> PICK u : u = Top.entry
  OBVIOUS
<1>6. plugin' = [plugin EXCEPT ![u].onload = result]
  BY <1>2
<1> QED BY <1>1, <1>4, <1>5, <1>6, OnLoadMoves

LEMMA PluginNextKeeps == PluginIInv /\ [PluginNext]_pluginVars => PluginIInv'
<1> SUFFICES ASSUME PluginIInv, [PluginNext]_pluginVars PROVE PluginIInv'
  OBVIOUS
<1>1. ASSUME NEW l \in Libraries, Open(l) PROVE PluginIInv'
  BY <1>1, OpenKeeps
<1>2. ASSUME NEW e \in Entries, JniOnLoad(e) PROVE PluginIInv'
  BY <1>2, JniOnLoadKeeps
<1>3. CASE UNCHANGED pluginVars
  <2>1. UNCHANGED <<plugin, arenaAt, calls, failing, loads>>
    BY <1>3 DEF pluginVars
  <2> QED BY <2>1, VerdictKeeps DEF PluginIInv, PluginTypes
<1> QED BY <1>1, <1>2, <1>3, AddDependencyKeeps, LoadDependencyKeeps, RefuseKeeps, BindKeeps,
      FinishConstructorsKeeps, DiscardKeeps, FinishOnLoadKeeps DEF PluginNext

\* Failures in the middle of recursive loads leave the registry of plug-ins whole, and a
\* module that runs has its imports in images that run and lists only entries that hold
\* such images, but for the images whose own load was under way when its load began, and
\* for the entries that held these.
THEOREM PluginSafety == PluginSpec => []PluginsSound
<1>1. PluginSpec => []PluginIInv
  BY PluginInitial, PluginNextKeeps, PTL DEF PluginSpec
<1> QED BY <1>1, PluginFollows, PTL

-----------------------------------------------------------------------------
(***************************************************************************)
(* 8. The memory arenas.  A page or donor unit changes hands in one of     *)
(* two ways: a run is added where nothing was, or some runs are exchanged  *)
(* for others that cover the same (RunsAdded, RunsTaken, RunsExchanged).   *)
(* What a segment has of live pages is counted by its overlap with them.   *)
(***************************************************************************)

(* Numbers *)

\* A set of numbers has a least element: the order is well-founded.
LEMMA LeastNat ==
  ASSUME NEW T \in SUBSET Nat, T # {}
  PROVE  \E x \in T : \A y \in T : x <= y
<1>1. PICK R : R = OpToRel(<, Nat)
  OBVIOUS
<1>2. IsWellFoundedOn(R, Nat)
  BY <1>1, NatLessThanWellFounded
<1>3. \A x, y \in T : y < x => <<y, x>> \in R
  BY <1>1 DEF OpToRel
<1>4. PICK x \in T : \A y \in T : ~ (<<y, x>> \in R)
  BY <1>2, WFMin, Zenon
<1>5. \A y \in T : ~ (y < x)
  BY <1>3, <1>4
<1> QED
  BY <1>5

LEMMA MinOf ==
  ASSUME NEW T \in SUBSET Nat, T # {}
  PROVE  Min(T) \in T /\ \A y \in T : Min(T) <= y
BY LeastNat DEF Min

LEMMA MaxOf ==
  ASSUME NEW b \in Nat, NEW T \in SUBSET (0 .. b), T # {}
  PROVE  Max(T) \in T /\ \A y \in T : y <= Max(T)
<1> DEFINE Bounds == {n \in Nat : \A y \in T : y <= n}
<1>1. b \in Bounds
  OBVIOUS
<1>2. PICK m \in Bounds : \A n \in Bounds : m <= n
  <2>1. Bounds \in SUBSET Nat
    OBVIOUS
  <2> HIDE DEF Bounds
  <2> QED
    BY <1>1, <2>1, LeastNat
<1>3. m \in T
  <2> SUFFICES ASSUME m \notin T
               PROVE  FALSE
    OBVIOUS
  <2>1. \A y \in T : y <= m - 1
    OBVIOUS
  <2>2. m - 1 \in Nat
    <3>1. PICK y \in T : TRUE
      OBVIOUS
    <3> QED
      BY <2>1, <3>1
  <2>3. m - 1 \in Bounds
    BY <2>1, <2>2
  <2> QED
    BY <1>2, <2>3
<1>4. \E x \in T : \A y \in T : x >= y
  BY <1>3
<1> QED
  BY <1>4 DEF Max

LEMMA MaxOfTwo ==
  ASSUME NEW a \in Nat, NEW b \in Nat
  PROVE  Max({a, b}) \in {a, b} /\ a <= Max({a, b}) /\ b <= Max({a, b})
<1>1. \E x \in {a, b} : \A y \in {a, b} : x >= y
  OBVIOUS
<1> QED
  BY <1>1 DEF Max

LEMMA MinOfTwo ==
  ASSUME NEW a \in Nat, NEW b \in Nat
  PROVE  Min({a, b}) \in {a, b} /\ Min({a, b}) <= a /\ Min({a, b}) <= b
<1>1. \E x \in {a, b} : \A y \in {a, b} : x <= y
  OBVIOUS
<1> QED
  BY <1>1 DEF Min

LEMMA Rounded ==
  ASSUME NEW x \in Nat, NEW m \in Nat \ {0}
  PROVE  /\ x \div m \in Nat /\ (x \div m) * m \in Nat
         /\ (x \div m) * m <= x /\ x < (x \div m) * m + m
<1> DEFINE q == x \div m
<1>1. q \in Int /\ q * m <= x /\ x < q * m + m
  OBVIOUS
<1>2. q >= 0
  OBVIOUS
<1> QED
  BY <1>1, <1>2

LEMMA WholeIn ==
  ASSUME NEW x \in Nat, NEW m \in Nat \ {0}, x % m = 0
  PROVE  \E k \in Nat : x = k * m
<1>1. x = (x \div m) * m + (x % m) /\ x \div m \in Nat
  OBVIOUS
<1> QED
  BY <1>1

LEMMA BelowMore ==
  ASSUME NEW a \in Nat, NEW b \in Nat, a <= b, NEW S \in SUBSET (0 .. a - 1)
  PROVE  S \subseteq 0 .. b - 1
OBVIOUS

-----------------------------------------------------------------------------
(* Runs that lie apart *)

LEMMA RunsAdded ==
  ASSUME NEW R, NEW N, Disjoint(R), Disjoint(N), Covered(R) \cap Covered(N) = {}
  PROVE  Disjoint(R \cup N) /\ Covered(R \cup N) = Covered(R) \cup Covered(N)
<1>1. \A r \in R : Run(r[2], r[3]) \subseteq Covered(R)
  BY DEF Covered
<1>2. \A r \in N : Run(r[2], r[3]) \subseteq Covered(N)
  BY DEF Covered
<1>3. Disjoint(R \cup N)
  <2> SUFFICES ASSUME NEW r \in R \cup N, NEW s \in R \cup N, r # s
               PROVE  Run(r[2], r[3]) \cap Run(s[2], s[3]) = {}
    BY DEF Disjoint
  <2>1. CASE r \in R /\ s \in R
    BY <2>1 DEF Disjoint
  <2>2. CASE r \in N /\ s \in N
    BY <2>2 DEF Disjoint
  <2>3. CASE r \in R /\ s \in N
    BY <2>3, <1>1, <1>2
  <2>4. CASE r \in N /\ s \in R
    BY <2>4, <1>1, <1>2
  <2> QED
    BY <2>1, <2>2, <2>3, <2>4
<1>4. Covered(R \cup N) = Covered(R) \cup Covered(N)
  BY DEF Covered
<1> QED
  BY <1>3, <1>4

LEMMA RunsTaken ==
  ASSUME NEW R, NEW M \in SUBSET R, Disjoint(R)
  PROVE  Disjoint(R \ M) /\ Covered(R \ M) = Covered(R) \ Covered(M)
<1>1. Disjoint(R \ M)
  BY DEF Disjoint
<1>2. \A r \in R, s \in M : r \notin M => Run(r[2], r[3]) \cap Run(s[2], s[3]) = {}
  BY DEF Disjoint
<1>3. Covered(R \ M) \subseteq Covered(R) \ Covered(M)
  BY <1>2 DEF Covered
<1>4. Covered(R) \ Covered(M) \subseteq Covered(R \ M)
  BY DEF Covered
<1> QED
  BY <1>1, <1>3, <1>4

\* Some runs are cut or joined anew.
LEMMA RunsExchanged ==
  ASSUME NEW R, NEW M \in SUBSET R, NEW N, Disjoint(R), Disjoint(N), Covered(N) = Covered(M)
  PROVE  Disjoint((R \ M) \cup N) /\ Covered((R \ M) \cup N) = Covered(R)
<1>1. Disjoint(R \ M) /\ Covered(R \ M) = Covered(R) \ Covered(M)
  BY RunsTaken
<1>2. Covered(M) \subseteq Covered(R)
  BY DEF Covered
<1>3. Covered(R \ M) \cap Covered(N) = {}
  BY <1>1
<1>4. /\ Disjoint((R \ M) \cup N)
      /\ Covered((R \ M) \cup N) = Covered(R \ M) \cup Covered(N)
  BY <1>1, <1>3, RunsAdded
<1> QED
  BY <1>1, <1>2, <1>4

-----------------------------------------------------------------------------
(* The donor heap *)

PlacesTyped ==
  /\ DOMAIN backing \subseteq BackingPlaces
  /\ \A p \in DOMAIN backing : backing[p] \in Nat
  /\ DOMAIN stacks \subseteq Nat /\ \A f \in DOMAIN stacks : stacks[f] \in Nat \ {0}
  /\ active \in Nat

LEMMA PlaceFacts ==
  ASSUME NEW p \in BackingPlaces
  PROVE  /\ p[1] \in {"segment", "granule", "chunk"} /\ p[2] \in Nat
         /\ PlaceUnits(p) \in Nat \ {0}
BY ArenaAssumption DEF BackingPlaces, PlaceUnits, Segment, Granule, Chunk, Segments, Granules

LEMMA ShrinkFits ==
  ASSUME NEW u \in SUBSET (0 .. active - 1), active \in Nat, active <= Units
  PROVE  ShrinkTarget(u) \in Nat /\ u \subseteq 0 .. ShrinkTarget(u) - 1 /\ ShrinkTarget(u) <= Units
<1>1. Units \in Nat \ {0} /\ Quantum \in Nat \ {0} /\ InitialUnits \in Nat
  BY ArenaAssumption
<1>2. Highest(u) \in Nat /\ u \subseteq 0 .. Highest(u) - 1
  <2>1. CASE u = {}
    BY <2>1 DEF Highest
  <2>2. CASE u # {}
    <3>1. active - 1 \in Nat
      <4>1. PICK y \in u : y \in 0 .. active - 1
        BY <2>2
      <4> QED
        BY <4>1
    <3>2. Max(u) \in u /\ \A y \in u : y <= Max(u)
      BY <2>2, <3>1, MaxOf
    <3>3. PICK m : m = Max(u)
      OBVIOUS
    <3>4. Highest(u) = m + 1
      BY <2>2, <3>3 DEF Highest
    <3>5. m \in u /\ \A y \in u : y <= m
      BY <3>2, <3>3
    <3>6. \A y \in u : y \in Nat
      OBVIOUS
    <3> QED
      BY <3>4, <3>5, <3>6
  <2> QED
    BY <2>1, <2>2
<1> DEFINE low == Min({InitialUnits, Units})
           floor == Max({Highest(u), low})
           target == ((floor + Quantum - 1) \div Quantum) * Quantum
<1>3. low \in Nat
  BY <1>1, MinOfTwo
<1>4. floor \in Nat /\ Highest(u) <= floor
  <2> HIDE DEF low
  <2> QED
    BY <1>2, <1>3, MaxOfTwo
<1>5. target \in Nat /\ floor <= target
  <2> HIDE DEF floor
  <2>1. floor + Quantum - 1 \in Nat
    BY <1>1, <1>4
  <2>2. /\ target \in Nat
        /\ floor + Quantum - 1 < target + Quantum
    BY <1>1, <2>1, Rounded
  <2> QED
    BY <1>1, <1>4, <2>2
<1>6. ShrinkTarget(u) = Min({Units, target})
  BY DEF ShrinkTarget
<1> HIDE DEF target
<1>7. ShrinkTarget(u) \in {Units, target} /\ ShrinkTarget(u) <= Units
  BY <1>1, <1>5, <1>6, MinOfTwo
<1>8. u \subseteq 0 .. target - 1
  BY <1>2, <1>4, <1>5
<1> QED
  BY <1>1, <1>5, <1>7, <1>8

LEMMA SettledFits ==
  ASSUME NEW u \in SUBSET (0 .. active - 1), active \in Nat, active <= Units,
         NEW a \in SettledSizes(u)
  PROVE  a \in Nat /\ a <= Units /\ u \subseteq 0 .. a - 1
<1>1. PICK l : l = ShrinkTarget(u)
  OBVIOUS
<1>2. l \in Nat /\ u \subseteq 0 .. l - 1
  BY <1>1, ShrinkFits
<1>3. a = active \/ (a \in 0 .. active /\ l <= a)
  BY <1>1 DEF SettledSizes
<1>4. Units \in Nat
  BY ArenaAssumption
<1> QED
  BY <1>2, <1>3, <1>4

LEMMA RolledBackFits ==
  ASSUME used \subseteq 0 .. active - 1, active \in Nat, active <= Units,
         NEW a \in RolledBack
  PROVE  a \in Nat /\ a <= Units /\ used \subseteq 0 .. a - 1
BY ShrinkFits, ArenaAssumption DEF RolledBack

LEMMA TakingFits ==
  ASSUME NEW u, NEW a \in Nat, a <= Units, NEW n \in Nat \ {0}, NEW align, NEW high,
         NEW t \in Takings(u, a, n, align, high)
  PROVE  /\ t.first \in Nat /\ t.active \in Nat /\ a <= t.active /\ t.active <= Units
         /\ Run(t.first, n) \subseteq 0 .. t.active - 1 /\ Run(t.first, n) \cap u = {}
<1> DEFINE goal == Min({Units, a + Max({n, GrowUnits})})
           a2 == IF FreeUnits(u, n, align, a) # {} THEN a ELSE Max({a, Grown(a, n)})
<1>1. Units \in Nat \ {0} /\ Quantum \in Nat \ {0} /\ GrowUnits \in Nat
  BY ArenaAssumption
<1>2. goal \in Nat /\ goal <= Units
  <2>1. Max({n, GrowUnits}) \in Nat
    BY <1>1, MaxOfTwo
  <2>2. a + Max({n, GrowUnits}) \in Nat
    BY <2>1
  <2> QED
    BY <1>1, <2>2, MinOfTwo
<1>3. Grown(a, n) = (goal \div Quantum) * Quantum
  BY DEF Grown
<1> HIDE DEF goal
<1>4. Grown(a, n) \in Nat /\ Grown(a, n) <= Units
  BY <1>1, <1>2, <1>3, Rounded
<1>5. a2 \in Nat /\ a <= a2 /\ a2 <= Units
  BY <1>1, <1>4, MaxOfTwo
<1>6. t.active = a2 /\ t.first \in FreeUnits(u, n, align, a2)
  <2> HIDE DEF a2
  <2>1. t \in {[first |-> f, active |-> a2] :
                 f \in {x \in FreeUnits(u, n, align, a2) : 
                          \A y \in FreeUnits(u, n, align, a2) : IF high THEN y <= x ELSE x <= y}}
    BY DEF Takings, a2
  <2> QED
    BY <2>1
<1> HIDE DEF a2
<1>7. /\ t.first \in 0 .. a2 - n /\ Run(t.first, n) \cap u = {}
  BY <1>5, <1>6 DEF FreeUnits
<1> QED
  BY <1>5, <1>6, <1>7 DEF Run

\* The units of the heap, in one run per place and per stack.
LEMMA PlacesRun ==
  ASSUME NEW f, NEW P
  PROVE  Covered({<<p, f[p], PlaceUnits(p)>> : p \in P}) = UnitsBehind(P, f)
<1> DEFINE r(p) == <<p, f[p], PlaceUnits(p)>>
<1>1. \A p \in P : Run(r(p)[2], r(p)[3]) = Run(f[p], PlaceUnits(p))
  OBVIOUS
<1>2. Covered({r(p) : p \in P}) = UNION {Run(r(p)[2], r(p)[3]) : p \in P}
  <2> HIDE DEF r
  <2> QED
    BY DEF Covered
<1>3. {Run(r(p)[2], r(p)[3]) : p \in P} = {Run(f[p], PlaceUnits(p)) : p \in P}
  BY <1>1
<1> QED
  BY <1>2, <1>3 DEF UnitsBehind

LEMMA LargestOf ==
  ASSUME active \in Nat, active <= Units, NEW P, NEW size,
         \A p \in P : size[p] \in active .. Units
  PROVE  /\ Largest(active, P, size) \in Nat /\ active <= Largest(active, P, size)
         /\ Largest(active, P, size) <= Units
         /\ \A p \in P : size[p] <= Largest(active, P, size)
<1> DEFINE T == {active} \cup {size[p] : p \in P}
<1>1. Units \in Nat
  BY ArenaAssumption
<1>2. T \in SUBSET (0 .. Units) /\ T # {}
  BY <1>1
<1>3. active \in T /\ \A p \in P : size[p] \in T
  OBVIOUS
<1>4. Largest(active, P, size) = Max(T)
  BY DEF Largest
<1> HIDE DEF T
<1>5. Max(T) \in T /\ \A y \in T : y <= Max(T)
  BY <1>1, <1>2, MaxOf
<1>6. PICK m : m = Largest(active, P, size)
  OBVIOUS
<1>7. m \in T /\ \A y \in T : y <= m
  BY <1>4, <1>5, <1>6
<1>8. m \in 0 .. Units /\ active <= m /\ \A p \in P : size[p] <= m
  BY <1>2, <1>3, <1>7
<1> QED
  BY <1>1, <1>6, <1>8

\* What a transaction takes is free, and apart place by place: the later of two places
\* finds the units of the earlier one taken.
LEMMA MappedApart ==
  ASSUME active \in Nat, active <= Units, NEW P \in SUBSET BackingPlaces,
         \A p, q \in P : p # q => p[2] # q[2],
         NEW first, NEW size, \A p \in P : size[p] \in active .. Units,
         MapInOrder(P, first, size)
  PROVE  /\ \A p \in P : /\ first[p] \in Nat /\ NothingBacked(PlacePages(p))
                         /\ Run(first[p], PlaceUnits(p)) \subseteq 0 .. Largest(active, P, size) - 1
         /\ Disjoint({<<p, first[p], PlaceUnits(p)>> : p \in P})
         /\ UnitsBehind(P, first) \cap used = {}
<1> DEFINE Below(p) == {q \in P : q[2] < p[2]}
           Taken(p) == Run(first[p], PlaceUnits(p))
<1>1. ASSUME NEW p \in P
      PROVE  /\ first[p] \in Nat /\ NothingBacked(PlacePages(p))
             /\ Taken(p) \subseteq 0 .. size[p] - 1
             /\ Taken(p) \cap (used \cup UnitsBehind(Below(p), first)) = {}
  <2> DEFINE u == used \cup UnitsBehind(Below(p), first)
             a == Largest(active, Below(p), size)
             t == [first |-> first[p], active |-> size[p]]
  <2>1. /\ NothingBacked(PlacePages(p))
        /\ t \in Takings(u, a, PlaceUnits(p), PlaceUnits(p), p[1] # "granule")
    BY <1>1 DEF MapInOrder, MapPlace
  <2>2. PlaceUnits(p) \in Nat \ {0}
    BY PlaceFacts
  <2>3. a \in Nat /\ a <= Units
    BY LargestOf
  <2> HIDE DEF u, a
  <2>4. /\ t.first \in Nat /\ Run(t.first, PlaceUnits(p)) \subseteq 0 .. t.active - 1
        /\ Run(t.first, PlaceUnits(p)) \cap u = {}
    <3> HIDE DEF t
    <3> QED
      BY <2>1, <2>2, <2>3, TakingFits
  <2> QED
    BY <2>1, <2>4 DEF u
<1>2. \A p \in P : size[p] <= Largest(active, P, size) /\ Largest(active, P, size) \in Nat
  BY LargestOf
<1>3. \A p \in P : Taken(p) \subseteq 0 .. Largest(active, P, size) - 1
  <2> SUFFICES ASSUME NEW p \in P
               PROVE  Taken(p) \subseteq 0 .. Largest(active, P, size) - 1
    OBVIOUS
  <2>1. PICK a, b : a = size[p] /\ b = Largest(active, P, size)
    OBVIOUS
  <2>2. Taken(p) \subseteq 0 .. a - 1 /\ a <= b /\ a \in Int /\ b \in Int
    BY <1>1, <1>2, <2>1, ArenaAssumption
  <2>3. Taken(p) \subseteq 0 .. b - 1
    <3> HIDE DEF Taken
    <3> QED
      BY <2>2
  <2> QED
    BY <2>1, <2>3
<1>4. \A p, q \in P : p[2] < q[2] => Taken(p) \cap Taken(q) = {}
  <2> SUFFICES ASSUME NEW p \in P, NEW q \in P, p[2] < q[2]
               PROVE  Taken(p) \cap Taken(q) = {}
    OBVIOUS
  <2>1. p \in Below(q)
    OBVIOUS
  <2>2. Taken(p) \subseteq UnitsBehind(Below(q), first)
    BY <2>1 DEF UnitsBehind
  <2> QED
    BY <1>1, <2>2
<1>5. \A p, q \in P : p # q => Taken(p) \cap Taken(q) = {}
  <2>1. \A p \in P : p[2] \in Nat
    BY PlaceFacts
  <2>2. \A p, q \in P : p # q => p[2] < q[2] \/ q[2] < p[2]
    BY <2>1
  <2> HIDE DEF Taken
  <2> QED
    BY <1>4, <2>2
<1>6. Disjoint({<<p, first[p], PlaceUnits(p)>> : p \in P})
  BY <1>5 DEF Disjoint
<1>7. UnitsBehind(P, first) \cap used = {}
  BY <1>1 DEF UnitsBehind
<1> QED
  BY <1>1, <1>3, <1>6, <1>7

DonorIInv == PlacesTyped /\ DonorExact

LEMMA UsedTyped ==
  ASSUME DonorIInv
  PROVE  /\ active \in Nat /\ active <= Units /\ used \subseteq 0 .. active - 1
         /\ Disjoint(DonorRuns) /\ Covered(DonorRuns) = used
BY DEF DonorIInv, PlacesTyped, DonorExact

LEMMA MapAllKeeps ==
  ASSUME DonorIInv, NEW P \in SUBSET BackingPlaces, \A p, q \in P : p # q => p[2] # q[2],
         MapAll(P), UNCHANGED stacks
  PROVE  /\ DonorIInv' /\ DOMAIN backing' = DOMAIN backing \cup P
         /\ \A p \in P : ~Backed(p) => NothingBacked(PlacePages(p))
<1> DEFINE new == {p \in P : ~Backed(p)}
<1>1. PICK first \in [new -> (0 .. Units - 1) \ used], size \in [new -> active .. Units] :
        /\ MapInOrder(new, first, size)
        /\ used' = used \cup UnitsBehind(new, first)
        /\ active' = Largest(active, new, size)
        /\ backing' = [p \in DOMAIN backing \cup new |->
                         IF p \in new THEN first[p] ELSE backing[p]]
  BY DEF MapAll
<1> DEFINE N == {<<p, first[p], PlaceUnits(p)>> : p \in new}
<1>2. /\ new \in SUBSET BackingPlaces /\ new \cap DOMAIN backing = {}
      /\ DOMAIN backing \cup new = DOMAIN backing \cup P
      /\ \A p, q \in new : p # q => p[2] # q[2]
      /\ \A p \in new : size[p] \in active .. Units
  BY DEF Backed
<1> HIDE DEF new
<1>3. /\ active \in Nat /\ active <= Units /\ used \subseteq 0 .. active - 1
      /\ Disjoint(DonorRuns) /\ Covered(DonorRuns) = used
  BY UsedTyped
<1>4. /\ \A p \in new : /\ first[p] \in Nat /\ NothingBacked(PlacePages(p))
                        /\ Run(first[p], PlaceUnits(p)) \subseteq 0 .. active' - 1
      /\ Disjoint(N) /\ UnitsBehind(new, first) \cap used = {}
  <2> DEFINE top == Largest(active, new, size)
  <2>1. /\ \A p \in new : /\ first[p] \in Nat /\ NothingBacked(PlacePages(p))
                          /\ Run(first[p], PlaceUnits(p)) \subseteq 0 .. top - 1
        /\ Disjoint(N)
        /\ UnitsBehind(new, first) \cap used = {}
    <3>1. MapInOrder(new, first, size)
      BY <1>1
    <3> QED
      BY <1>2, <1>3, <3>1, MappedApart, Zenon
  <2>2. active' = top
    BY <1>1
  <2> HIDE DEF top
  <2> QED
    BY <2>1, <2>2
<1>5. active' \in Nat /\ active <= active' /\ active' <= Units
  BY <1>1, <1>2, <1>3, LargestOf
<1>6. DonorRuns' = DonorRuns \cup N
  <2>1. /\ \A p \in DOMAIN backing : backing'[p] = backing[p]
        /\ \A p \in new : backing'[p] = first[p]
        /\ DOMAIN backing' = DOMAIN backing \cup new
    BY <1>1, <1>2
  <2> QED
    BY <2>1 DEF DonorRuns
<1>7. Covered(N) = UnitsBehind(new, first)
  BY PlacesRun
<1> HIDE DEF N
<1>8. Disjoint(DonorRuns \cup N) /\ Covered(DonorRuns \cup N) = used \cup Covered(N)
  <2>1. Covered(DonorRuns) \cap Covered(N) = {}
    BY <1>3, <1>4, <1>7
  <2> QED
    BY <1>3, <1>4, <2>1, RunsAdded
<1>9. UnitsBehind(new, first) \subseteq 0 .. active' - 1
  BY <1>4 DEF UnitsBehind
<1>10. used' \subseteq 0 .. active' - 1
  <2>1. used' = used \cup UnitsBehind(new, first)
    BY <1>1
  <2>2. used \subseteq 0 .. active' - 1
    BY <1>3, <1>5, BelowMore
  <2> QED
    BY <1>9, <2>1, <2>2
<1>11. DonorExact'
  <2>1. Disjoint(DonorRuns') /\ Covered(DonorRuns') = used'
    BY <1>1, <1>6, <1>7, <1>8
  <2> QED
    BY <2>1, <1>5, <1>10 DEF DonorExact
<1>12. DOMAIN backing' = DOMAIN backing \cup P
  BY <1>1, <1>2
<1>13. PlacesTyped'
  BY <1>1, <1>2, <1>4, <1>5 DEF PlacesTyped, DonorIInv
<1> QED
  BY <1>4, <1>11, <1>12, <1>13 DEF DonorIInv, new

LEMMA MapNothingKeeps ==
  ASSUME DonorIInv, NEW P, MapNothing(P), UNCHANGED stacks
  PROVE  DonorIInv' /\ DOMAIN backing' = DOMAIN backing
<1>1. /\ active \in Nat /\ active <= Units /\ used \subseteq 0 .. active - 1
      /\ Disjoint(DonorRuns) /\ Covered(DonorRuns) = used
  BY UsedTyped
<1>2. active' \in RolledBack /\ used' = used /\ backing' = backing /\ stacks' = stacks
  BY DEF MapNothing
<1>3. active' \in Nat /\ active' <= Units /\ used \subseteq 0 .. active' - 1
  BY <1>1, <1>2, RolledBackFits
<1>4. DonorRuns' = DonorRuns
  BY <1>2 DEF DonorRuns
<1>5. DonorExact'
  BY <1>1, <1>2, <1>3, <1>4 DEF DonorExact
<1> QED
  BY <1>2, <1>3, <1>5 DEF DonorIInv, PlacesTyped

\* The heap shrinks to no less than what is still used.
LEMMA UnitsGivenBack ==
  ASSUME DonorIInv, NEW M \in SUBSET DonorRuns, used' = used \ Covered(M),
         active' \in {active} \cup SettledSizes(used'), DonorRuns' = DonorRuns \ M
  PROVE  DonorExact' /\ active' \in Nat
<1>1. /\ active \in Nat /\ active <= Units /\ used \subseteq 0 .. active - 1
      /\ Disjoint(DonorRuns) /\ Covered(DonorRuns) = used
  BY UsedTyped
<1>2. Disjoint(DonorRuns \ M) /\ Covered(DonorRuns \ M) = used'
  BY <1>1, RunsTaken
<1>3. used' \in SUBSET (0 .. active - 1)
  BY <1>1
<1>4. active' \in Nat /\ active' <= Units /\ used' \subseteq 0 .. active' - 1
  BY <1>1, <1>3, SettledFits
<1>5. Disjoint(DonorRuns') /\ Covered(DonorRuns') = used'
  BY <1>2
<1> QED
  BY <1>4, <1>5 DEF DonorExact

LEMMA UnmapAllKeeps ==
  ASSUME DonorIInv, NEW P, NEW stuck, UnmapAll(P, stuck), UNCHANGED stacks
  PROVE  DonorIInv' /\ DOMAIN backing' = DOMAIN backing \ (P \ stuck)
<1> DEFINE gone == {p \in P : Backed(p)} \ stuck
           M == {<<p, backing[p], PlaceUnits(p)>> : p \in gone}
<1>1. /\ backing' = Without(backing, gone) /\ used' = used \ UnitsBehind(gone, backing)
      /\ active' \in {active} \cup SettledSizes(used')
  BY DEF UnmapAll, UnitsBehind
<1>2. gone \subseteq DOMAIN backing /\ DOMAIN backing \ gone = DOMAIN backing \ (P \ stuck)
  BY DEF Backed
<1> HIDE DEF gone
<1>3. /\ DOMAIN backing' = DOMAIN backing \ gone
      /\ \A p \in DOMAIN backing' : backing'[p] = backing[p]
  BY <1>1 DEF Without
<1>4. M \in SUBSET DonorRuns
  BY <1>2 DEF DonorRuns
<1>5. Covered(M) = UnitsBehind(gone, backing)
  BY PlacesRun
<1>6. DonorRuns' = DonorRuns \ M
  <2> DEFINE r(p) == <<p, backing[p], PlaceUnits(p)>>
             S == {<<<<"stack", f>>, f, stacks[f]>> : f \in DOMAIN stacks}
  <2>1. DonorRuns = {r(p) : p \in DOMAIN backing} \cup S
    BY DEF DonorRuns
  <2>2. DonorRuns' = {r(p) : p \in DOMAIN backing \ gone} \cup S
    BY <1>3 DEF DonorRuns
  <2>3. \A p \in DOMAIN backing, f \in DOMAIN stacks : p # <<"stack", f>>
    BY PlaceFacts DEF DonorIInv, PlacesTyped
  <2>4. \A p, q : r(p) = r(q) => p = q
    OBVIOUS
  <2>5. S \cap {r(p) : p \in gone} = {}
    BY <1>2, <2>3
  <2> HIDE DEF r, S
  <2>6. M = {r(p) : p \in gone}
    BY DEF r
  <2>7. {r(p) : p \in DOMAIN backing \ gone} = {r(p) : p \in DOMAIN backing} \ {r(p) : p \in gone}
    BY <1>2, <2>4
  <2> QED
    BY <2>1, <2>2, <2>5, <2>6, <2>7
<1> HIDE DEF M
<1>7. DonorExact' /\ active' \in Nat
  BY <1>1, <1>4, <1>5, <1>6, UnitsGivenBack
<1> QED
  BY <1>2, <1>3, <1>7 DEF DonorIInv, PlacesTyped

-----------------------------------------------------------------------------
(* The extents *)

FreeRuns(E) == {<<"free", e[1], e[2]>> : e \in E}
HeldRuns == {<<"dynamic", f, dynamic[f]>> : f \in DOMAIN dynamic}
              \cup {<<"sparse", f, sparse[f]>> : f \in DOMAIN sparse}
ExtentsTyped == extents \subseteq (0 .. DynamicPages - 1) \X (1 .. DynamicPages)

LEMMA RunsSplit == PageRuns = FreeRuns(extents) \cup HeldRuns
BY DEF PageRuns, FreeRuns, HeldRuns

LEMMA FreeRunsLess ==
  ASSUME NEW E, \A e \in E : e = <<e[1], e[2]>>, NEW F \in SUBSET E
  PROVE  FreeRuns(E \ F) = FreeRuns(E) \ FreeRuns(F)
<1>1. \A e, f \in E : <<"free", e[1], e[2]>> = <<"free", f[1], f[2]>> => e = f
  OBVIOUS
<1> DEFINE r(e) == <<"free", e[1], e[2]>>
<1>2. \A e, f \in E : r(e) = r(f) => e = f
  BY <1>1
<1> HIDE DEF r
<1>3. {r(e) : e \in E \ F} = {r(e) : e \in E} \ {r(e) : e \in F}
  BY <1>2
<1> QED
  BY <1>3 DEF r, FreeRuns

LEMMA HeldNotFree ==
  ASSUME NEW r \in HeldRuns, NEW E
  PROVE  r \notin FreeRuns(E)
BY DEF HeldRuns, FreeRuns

LEMMA ExtentFacts ==
  ASSUME ExtentsTyped, NEW e \in extents
  PROVE  /\ e[1] \in Nat /\ e[2] \in Nat \ {0} /\ e = <<e[1], e[2]>>
         /\ <<"free", e[1], e[2]>> \in PageRuns /\ Run(e[1], e[2]) \subseteq Covered(PageRuns)
<1>1. e[1] \in Nat /\ e[2] \in Nat \ {0} /\ e = <<e[1], e[2]>>
  BY ArenaAssumption DEF ExtentsTyped
<1>2. <<"free", e[1], e[2]>> \in PageRuns
  BY DEF PageRuns
<1>3. Run(e[1], e[2]) \subseteq Covered(PageRuns)
  <2> DEFINE r == <<"free", e[1], e[2]>>
  <2>1. Run(r[2], r[3]) \subseteq Covered(PageRuns)
    BY <1>2 DEF Covered
  <2> QED
    BY <2>1
<1> QED
  BY <1>1, <1>2, <1>3

LEMMA ExtentsApart ==
  ASSUME ExtentsTyped, PagesPartitioned, NEW e \in extents, NEW f \in extents, e # f
  PROVE  Run(e[1], e[2]) \cap Run(f[1], f[2]) = {}
<1> DEFINE r == <<"free", e[1], e[2]>>
           s == <<"free", f[1], f[2]>>
<1>1. r \in PageRuns /\ s \in PageRuns /\ r # s
  BY ExtentFacts
<1>2. Run(r[2], r[3]) \cap Run(s[2], s[3]) = {}
  <2> HIDE DEF r, s
  <2> QED
    BY <1>1 DEF PagesPartitioned, Disjoint
<1> QED
  BY <1>2

\* What is cut from an extent leaves the rest free.
LEMMA ConsumeKeeps ==
  ASSUME ExtentsTyped, PagesPartitioned, NEW e \in extents, NEW first \in Nat,
         NEW n \in Nat \ {0}, e[1] <= first, first + n <= e[1] + e[2],
         ConsumeExtent(e, first, n), NEW kind, kind # "free",
         HeldRuns' = HeldRuns \cup {<<kind, first, n>>}
  PROVE  ExtentsTyped' /\ PagesPartitioned'
<1>1. PICK b, l : b = e[1] /\ l = e[2]
  OBVIOUS
<1>2. /\ b \in Nat /\ l \in Nat \ {0} /\ e = <<b, l>> /\ b <= first /\ first + n <= b + l
      /\ Run(b, l) \subseteq 0 .. DynamicPages - 1 /\ DynamicPages \in Nat \ {0}
  BY <1>1, ExtentFacts, ArenaAssumption DEF PagesPartitioned
<1> DEFINE left == <<b, first - b>>
           right == <<first + n, b + l - first - n>>
           pieces == {x \in {left, right} : x[2] > 0}
           M == FreeRuns({e})
           N == FreeRuns(pieces) \cup {<<kind, first, n>>}
<1>3. extents' = (extents \ {e}) \cup pieces
  BY <1>1 DEF ConsumeExtent
<1>4. /\ left[1] = b /\ left[2] = first - b /\ right[1] = first + n
      /\ right[2] = b + l - first - n
  OBVIOUS
<1>5. b + l - 1 <= DynamicPages - 1
  BY <1>2 DEF Run
<1>6. pieces \subseteq (0 .. DynamicPages - 1) \X (1 .. DynamicPages)
  <2>1. left[2] > 0 => left \in (0 .. DynamicPages - 1) \X (1 .. DynamicPages)
    BY <1>2, <1>5
  <2>2. right[2] > 0 => right \in (0 .. DynamicPages - 1) \X (1 .. DynamicPages)
    BY <1>2, <1>5
  <2> QED
    BY <2>1, <2>2
<1>7. ExtentsTyped'
  BY <1>3, <1>6 DEF ExtentsTyped
<1>8. Covered(M) = Run(b, l)
  <2>1. M = {<<"free", b, l>>}
    BY <1>1 DEF FreeRuns
  <2> HIDE DEF M
  <2> QED
    BY <2>1 DEF Covered
<1>9. \A r \in N : \/ r = <<"free", b, first - b>> /\ first - b > 0
                   \/ r = <<"free", first + n, b + l - first - n>> /\ b + l - first - n > 0
                   \/ r = <<kind, first, n>>
  BY <1>4 DEF FreeRuns
<1>10. Disjoint(N)
  <2> SUFFICES ASSUME NEW r \in N, NEW s \in N, r # s
               PROVE  Run(r[2], r[3]) \cap Run(s[2], s[3]) = {}
    BY DEF Disjoint
  <2>1. \A t \in N : \/ t = <<"free", b, first - b>>
                     \/ t = <<"free", first + n, b + l - first - n>>
                     \/ t = <<kind, first, n>>
    BY <1>9
  <2>2. Run(b, first - b) \cap Run(first, n) = {}
    BY <1>2 DEF Run
  <2>3. Run(b, first - b) \cap Run(first + n, b + l - first - n) = {}
    BY <1>2 DEF Run
  <2>4. Run(first, n) \cap Run(first + n, b + l - first - n) = {}
    BY <1>2 DEF Run
  <2> HIDE DEF N
  <2> QED
    BY <2>1, <2>2, <2>3, <2>4
<1>11. Covered(N) = Run(b, l)
  <2>1. ASSUME NEW x \in Covered(N)
        PROVE  x \in Run(b, l)
    <3>1. PICK r \in N : x \in Run(r[2], r[3])
      BY <2>1 DEF Covered
    <3>2. \/ x \in Run(b, first - b) \/ x \in Run(first + n, b + l - first - n)
          \/ x \in Run(first, n)
      BY <1>9, <3>1
    <3> QED
      BY <1>2, <3>2 DEF Run
  <2>2. ASSUME NEW x \in Run(b, l)
        PROVE  x \in Covered(N)
    <3>1. x \in Int /\ b <= x /\ x < b + l
      BY <1>2, <2>2 DEF Run
    <3>2. CASE x < first
      <4>1. left \in pieces
        BY <1>2, <3>1, <3>2
      <4>2. <<"free", b, first - b>> \in N
        BY <4>1, <1>4 DEF FreeRuns
      <4>3. x \in Run(b, first - b)
        BY <1>2, <3>1, <3>2 DEF Run
      <4> HIDE DEF N
      <4> QED
        BY <4>2, <4>3 DEF Covered
    <3>3. CASE first <= x /\ x < first + n
      <4>1. <<kind, first, n>> \in N
        OBVIOUS
      <4>2. x \in Run(first, n)
        BY <1>2, <3>1, <3>3 DEF Run
      <4> HIDE DEF N
      <4> QED
        BY <4>1, <4>2 DEF Covered
    <3>4. CASE first + n <= x
      <4>1. right \in pieces
        BY <1>2, <3>1, <3>4
      <4>2. <<"free", first + n, b + l - first - n>> \in N
        BY <4>1, <1>4 DEF FreeRuns
      <4>3. x \in Run(first + n, b + l - first - n)
        BY <1>2, <3>1, <3>4 DEF Run
      <4> HIDE DEF N
      <4> QED
        BY <4>2, <4>3 DEF Covered
    <3> QED
      BY <3>1, <3>2, <3>3, <3>4, <1>2
  <2> QED
    BY <2>1, <2>2
<1>12. (PageRuns \ M) \cup N = PageRuns'
  <2>1. PageRuns' = FreeRuns(extents') \cup HeldRuns'
    BY DEF PageRuns, FreeRuns, HeldRuns
  <2>2. FreeRuns(extents') = FreeRuns(extents \ {e}) \cup FreeRuns(pieces)
    <3> HIDE DEF pieces
    <3> QED
      BY <1>3 DEF FreeRuns
  <2>3. FreeRuns(extents \ {e}) = FreeRuns(extents) \ M
    BY ExtentFacts, FreeRunsLess
  <2>4. HeldRuns \cap M = {}
    BY HeldNotFree
  <2>5. PageRuns = FreeRuns(extents) \cup HeldRuns
    BY RunsSplit
  <2> HIDE DEF pieces, M
  <2> QED
    BY <2>1, <2>2, <2>3, <2>4, <2>5
<1>13. M \in SUBSET PageRuns
  BY ExtentFacts DEF FreeRuns
<1>14. Disjoint(PageRuns') /\ Covered(PageRuns') = 0 .. DynamicPages - 1
  <2> HIDE DEF M, N
  <2> QED
    BY <1>8, <1>10, <1>11, <1>12, <1>13, RunsExchanged DEF PagesPartitioned
<1>15. \A f, g \in extents' : f[1] + f[2] # g[1]
  <2>1. \A f \in extents \ {e} : /\ f[1] \in Nat /\ f[2] \in Nat \ {0}
                                 /\ Run(f[1], f[2]) \cap Run(b, l) = {}
                                 /\ f[1] + f[2] # b /\ b + l # f[1]
    BY <1>1, ExtentFacts, ExtentsApart DEF PagesPartitioned
  <2>2. \A f \in extents \ {e} : f[1] \notin Run(b, l) /\ f[1] + f[2] - 1 \notin Run(b, l)
    BY <2>1 DEF Run
  <2>3. \A f \in extents \ {e} : /\ f[1] # first /\ f[1] # first + n
                                 /\ f[1] + f[2] # b /\ f[1] + f[2] # first + n
                                 /\ b + l # f[1]
    BY <1>2, <2>1, <2>2 DEF Run
  <2>4. \A f \in pieces : \/ f[1] = b /\ f[1] + f[2] = first /\ b < first
                          \/ f[1] = first + n /\ f[1] + f[2] = b + l /\ first + n < b + l
    BY <1>2, <1>4
  <2> HIDE DEF pieces
  <2>6. \A f, g \in extents \ {e} : f[1] + f[2] # g[1]
    BY DEF PagesPartitioned
  <2>7. \A f, g \in pieces : f[1] + f[2] # g[1]
    BY <1>2, <2>4
  <2>8. \A f \in extents \ {e}, g \in pieces : f[1] + f[2] # g[1] /\ g[1] + g[2] # f[1]
    BY <2>3, <2>4
  <2> QED
    BY <1>3, <2>6, <2>7, <2>8
<1> QED
  BY <1>7, <1>14, <1>15 DEF PagesPartitioned

\* What comes back is joined with the extents that it touches, at most one on each side.
LEMMA ReturnKeeps ==
  ASSUME ExtentsTyped, PagesPartitioned, NEW first \in Nat, NEW n \in Nat \ {0}, NEW kind,
         <<kind, first, n>> \in HeldRuns, HeldRuns' = HeldRuns \ {<<kind, first, n>>},
         ReturnExtent(first, n)
  PROVE  ExtentsTyped' /\ PagesPartitioned'
<1> DEFINE before == {e \in extents : e[1] + e[2] = first}
           after == {e \in extents : e[1] = first + n}
           lo == Min({first} \cup {e[1] : e \in before})
           hi == Max({first + n} \cup {e[1] + e[2] : e \in after})
           joined == <<lo, hi - lo>>
           held == <<kind, first, n>>
           M == FreeRuns(before \cup after) \cup {held}
           N == FreeRuns({joined})
<1>1. extents' = (extents \ (before \cup after)) \cup {joined}
  BY DEF ReturnExtent
<1>2. \A e \in extents : e[1] \in Nat /\ e[2] \in Nat \ {0} /\ e = <<e[1], e[2]>>
  BY ExtentFacts
<1>3. /\ lo \in Nat /\ lo <= first
      /\ \/ before = {} /\ lo = first
         \/ \E e \in before : before = {e} /\ lo = e[1]
  <2>1. CASE before = {}
    <3>1. {first} \cup {e[1] : e \in before} = {first}
      BY <2>1
    <3>2. lo = first
      <4>1. Min({first}) = first
        BY DEF Min
      <4> QED
        BY <3>1, <4>1
    <3> QED
      BY <2>1, <3>2
  <2>2. CASE before # {}
    <3>1. PICK e \in before : TRUE
      BY <2>2
    <3>2. e[1] \in Nat /\ e[2] \in Nat \ {0} /\ e[1] + e[2] = first
      BY <1>2, <3>1
    <3>3. ASSUME NEW f \in before, f # e
          PROVE  FALSE
      <4>1. f[1] \in Nat /\ f[2] \in Nat \ {0} /\ f[1] + f[2] = first
        BY <1>2, <3>3
      <4>2. first - 1 \in Run(e[1], e[2]) /\ first - 1 \in Run(f[1], f[2])
        BY <3>2, <4>1 DEF Run
      <4> QED
        BY <3>3, <4>2, ExtentsApart
    <3>4. before = {e}
      BY <3>1, <3>3
    <3> HIDE DEF before
    <3>5. {first} \cup {f[1] : f \in before} = {first, e[1]}
      BY <3>4
    <3>6. lo = Min({first, e[1]})
      BY <3>5
    <3> HIDE DEF lo
    <3>7. lo = e[1]
      BY <3>2, <3>6, MinOfTwo
    <3> QED
      BY <3>1, <3>2, <3>4, <3>7
  <2> QED
    BY <2>1, <2>2
<1>4. /\ hi \in Nat /\ first + n <= hi
      /\ \/ after = {} /\ hi = first + n
         \/ \E e \in after : after = {e} /\ hi = e[1] + e[2]
  <2>1. CASE after = {}
    <3>1. {first + n} \cup {e[1] + e[2] : e \in after} = {first + n}
      BY <2>1
    <3>2. hi = first + n
      <4>1. Max({first + n}) = first + n
        BY DEF Max
      <4> QED
        BY <3>1, <4>1
    <3> QED
      BY <2>1, <3>2
  <2>2. CASE after # {}
    <3>1. PICK e \in after : TRUE
      BY <2>2
    <3>2. e[1] \in Nat /\ e[2] \in Nat \ {0} /\ e[1] = first + n
      BY <1>2, <3>1
    <3>3. ASSUME NEW f \in after, f # e
          PROVE  FALSE
      <4>1. f[1] \in Nat /\ f[2] \in Nat \ {0} /\ f[1] = first + n
        BY <1>2, <3>3
      <4>2. first + n \in Run(e[1], e[2]) /\ first + n \in Run(f[1], f[2])
        BY <3>2, <4>1 DEF Run
      <4> QED
        BY <3>3, <4>2, ExtentsApart
    <3>4. after = {e}
      BY <3>1, <3>3
    <3> HIDE DEF after
    <3>5. {first + n} \cup {f[1] + f[2] : f \in after} = {first + n, e[1] + e[2]}
      BY <3>4
    <3>6. hi = Max({first + n, e[1] + e[2]})
      BY <3>5
    <3> HIDE DEF hi
    <3>7. first + n \in Nat /\ e[1] + e[2] \in Nat /\ first + n < e[1] + e[2]
      BY <3>2
    <3>8. hi = e[1] + e[2]
      BY <3>6, <3>7, MaxOfTwo
    <3> QED
      BY <3>1, <3>4, <3>7, <3>8
  <2> QED
    BY <2>1, <2>2
<1> HIDE DEF lo, hi
<1>5. joined[1] = lo /\ joined[2] = hi - lo /\ N = {<<"free", lo, hi - lo>>}
  BY DEF FreeRuns
<1>6. before \subseteq extents /\ after \subseteq extents
  OBVIOUS
<1>7. M \in SUBSET PageRuns
  BY <1>6, RunsSplit DEF FreeRuns
<1>8. Covered(M) = Run(lo, hi - lo)
  <2>1. \A r \in M : \/ r = held
                     \/ \E e \in before \cup after : r = <<"free", e[1], e[2]>>
    BY DEF FreeRuns
  <2>2. ASSUME NEW x \in Covered(M)
        PROVE  x \in Run(lo, hi - lo)
    <3>1. PICK r \in M : x \in Run(r[2], r[3])
      BY <2>2 DEF Covered
    <3>2. \/ x \in Run(first, n)
          \/ \E e \in before \cup after : x \in Run(e[1], e[2])
      BY <2>1, <3>1
    <3>3. CASE x \in Run(first, n)
      BY <1>3, <1>4, <3>3 DEF Run
    <3>4. ASSUME NEW e \in before, x \in Run(e[1], e[2])
          PROVE  x \in Run(lo, hi - lo)
      <4>1. e[1] = lo /\ e[1] + e[2] = first /\ e[1] \in Nat /\ e[2] \in Nat
        BY <1>2, <1>3
      <4> QED
        BY <1>3, <1>4, <3>4, <4>1 DEF Run
    <3>5. ASSUME NEW e \in after, x \in Run(e[1], e[2])
          PROVE  x \in Run(lo, hi - lo)
      <4>1. e[1] = first + n /\ e[1] + e[2] = hi /\ e[1] \in Nat /\ e[2] \in Nat
        BY <1>2, <1>4
      <4> QED
        BY <1>3, <1>4, <3>5, <4>1 DEF Run
    <3> QED
      BY <3>2, <3>3, <3>4, <3>5
  <2>3. ASSUME NEW x \in Run(lo, hi - lo)
        PROVE  x \in Covered(M)
    <3>1. x \in Int /\ lo <= x /\ x < hi
      BY <1>3, <1>4, <2>3 DEF Run
    <3>2. \A r \in M : Run(r[2], r[3]) \subseteq Covered(M)
      <4> HIDE DEF M
      <4> QED
        BY DEF Covered
    <3>3. \A e \in before \cup after : Run(e[1], e[2]) \subseteq Covered(M)
      <4> SUFFICES ASSUME NEW e \in before \cup after
                   PROVE  Run(e[1], e[2]) \subseteq Covered(M)
        OBVIOUS
      <4> DEFINE r == <<"free", e[1], e[2]>>
      <4>1. r \in M
        BY DEF FreeRuns
      <4>2. Run(r[2], r[3]) \subseteq Covered(M)
        <5> HIDE DEF r, M
        <5> QED
          BY <3>2, <4>1
      <4> QED
        BY <4>2
    <3>4. Run(first, n) \subseteq Covered(M)
      <4>1. Run(held[2], held[3]) \subseteq Covered(M)
        BY <3>2
      <4> QED
        BY <4>1
    <3>5. CASE x < first
      <4>1. PICK e \in before : lo = e[1]
        BY <1>3, <3>1, <3>5
      <4>2. x \in Run(e[1], e[2])
        BY <1>2, <3>1, <3>5, <4>1 DEF Run
      <4> QED
        BY <3>3, <4>2
    <3>6. CASE first <= x /\ x < first + n
      <4>1. x \in Run(first, n)
        BY <3>1, <3>6 DEF Run
      <4> QED
        BY <3>4, <4>1
    <3>7. CASE first + n <= x
      <4>1. PICK e \in after : hi = e[1] + e[2]
        BY <1>4, <3>1, <3>7
      <4>2. x \in Run(e[1], e[2])
        BY <1>2, <3>1, <3>7, <4>1 DEF Run
      <4> QED
        BY <3>3, <4>2
    <3> QED
      BY <3>1, <3>5, <3>6, <3>7
  <2> QED
    BY <2>2, <2>3
<1>9. Disjoint(N) /\ Covered(N) = Run(lo, hi - lo)
  <2> HIDE DEF N
  <2> QED
    BY <1>5 DEF Disjoint, Covered
<1>10. PageRuns' = (PageRuns \ M) \cup N
  <2>1. PageRuns' = FreeRuns(extents') \cup HeldRuns'
    BY DEF PageRuns, FreeRuns, HeldRuns
  <2>2. PageRuns = FreeRuns(extents) \cup HeldRuns
    BY RunsSplit
  <2>3. FreeRuns(extents \ (before \cup after)) = FreeRuns(extents) \ FreeRuns(before \cup after)
    BY <1>2, <1>6, FreeRunsLess
  <2>4. FreeRuns(extents') = FreeRuns(extents \ (before \cup after)) \cup N
    <3> HIDE DEF before, after, joined
    <3> QED
      BY <1>1 DEF FreeRuns
  <2>5. HeldRuns \cap FreeRuns(before \cup after) = {} /\ held \notin FreeRuns(extents)
    BY HeldNotFree
  <2> HIDE DEF before, after, joined, N
  <2> QED
    BY <2>1, <2>2, <2>3, <2>4, <2>5
<1>11. Disjoint(PageRuns') /\ Covered(PageRuns') = 0 .. DynamicPages - 1
  <2> HIDE DEF M, N
  <2> QED
    BY <1>7, <1>8, <1>9, <1>10, RunsExchanged DEF PagesPartitioned
<1>12. ExtentsTyped'
  <2>1. Run(lo, hi - lo) \subseteq 0 .. DynamicPages - 1
    <3>1. Covered(M) \subseteq Covered(PageRuns)
      <4> HIDE DEF M
      <4> QED
        BY <1>7 DEF Covered
    <3> QED
      BY <1>8, <3>1 DEF PagesPartitioned
  <2>2. lo \in Nat /\ hi \in Nat /\ lo < hi /\ DynamicPages \in Nat
    BY <1>3, <1>4, ArenaAssumption
  <2>3. hi - 1 \in Run(lo, hi - lo)
    BY <2>2 DEF Run
  <2>4. hi - 1 <= DynamicPages - 1
    BY <2>1, <2>3, <2>2
  <2>5. joined \in (0 .. DynamicPages - 1) \X (1 .. DynamicPages)
    BY <2>2, <2>4
  <2> HIDE DEF joined, before, after
  <2> QED
    BY <1>1, <2>5 DEF ExtentsTyped
<1>13. \A f, g \in extents' : f[1] + f[2] # g[1]
  <2> DEFINE rest == extents \ (before \cup after)
  <2>1. \A f \in rest : f[1] + f[2] # first /\ f[1] # first + n
    OBVIOUS
  <2>2. \A f, g \in extents : f[1] + f[2] # g[1]
    BY DEF PagesPartitioned
  <2>3. \A f \in rest : f[1] + f[2] # lo
    BY <1>3, <2>1, <2>2
  <2>4. \A f \in rest : f[1] # hi
    BY <1>4, <2>1, <2>2
  <2>5. joined[1] + joined[2] = hi /\ joined[1] = lo /\ lo < hi
    BY <1>3, <1>4, <1>5
  <2>6. extents' = rest \cup {joined} /\ rest \subseteq extents
    BY <1>1
  <2> HIDE DEF rest, joined
  <2>7. \A f \in rest : joined[1] + joined[2] # f[1] /\ f[1] + f[2] # joined[1]
    BY <2>3, <2>4, <2>5
  <2>8. joined[1] + joined[2] # joined[1]
    BY <1>3, <1>4, <2>5
  <2> QED
    BY <2>2, <2>6, <2>7, <2>8
<1> QED
  BY <1>11, <1>12, <1>13 DEF PagesPartitioned

-----------------------------------------------------------------------------
(* Segments, and the pages of allocations and reservations *)

Spread(f) == UNION {Run(x, f[x]) : x \in DOMAIN f}

LEMMA SpreadWith ==
  ASSUME NEW f, NEW x, NEW y
  PROVE  x \notin DOMAIN f => Spread(With(f, x, y)) = Spread(f) \cup Run(x, y)
<1> HAVE x \notin DOMAIN f
<1> DEFINE g == With(f, x, y)
<1>1. /\ DOMAIN g = DOMAIN f \cup {x} /\ g[x] = y
      /\ \A z \in DOMAIN f : g[z] = f[z]
  BY DEF With
<1> HIDE DEF g
<1>2. Spread(g) = Spread(f) \cup Run(x, y)
  BY <1>1 DEF Spread
<1> QED
  BY <1>2 DEF g

LEMMA SpreadWithout ==
  ASSUME NEW f, NEW x \in DOMAIN f,
         \A z \in DOMAIN f : z # x => Run(x, f[x]) \cap Run(z, f[z]) = {}
  PROVE  /\ DOMAIN Without(f, {x}) = DOMAIN f \ {x}
         /\ \A z \in DOMAIN f \ {x} : Without(f, {x})[z] = f[z]
         /\ Spread(Without(f, {x})) = Spread(f) \ Run(x, f[x])
<1> DEFINE g == Without(f, {x})
<1>1. DOMAIN g = DOMAIN f \ {x} /\ \A z \in DOMAIN f \ {x} : g[z] = f[z]
  BY DEF Without
<1> HIDE DEF g
<1>2. Spread(g) \subseteq Spread(f) \ Run(x, f[x])
  BY <1>1 DEF Spread
<1>3. Spread(f) \ Run(x, f[x]) \subseteq Spread(g)
  BY <1>1 DEF Spread
<1> QED
  BY <1>1, <1>2, <1>3 DEF g

LEMMA SpreadNames ==
  /\ LivePages = Spread(dynamic) /\ Reserved = Spread(sparse)
  /\ LivePages' = Spread(dynamic') /\ Reserved' = Spread(sparse')
BY DEF LivePages, Reserved, Spread

HeldTyped ==
  /\ DOMAIN dynamic \subseteq Nat /\ \A f \in DOMAIN dynamic : dynamic[f] \in Nat \ {0}
  /\ DOMAIN sparse \subseteq Nat /\ \A f \in DOMAIN sparse : sparse[f] \in Nat \ {0}

\* Whose pages these are: of a free extent, an allocation or a reservation.
LEMMA HeldApart ==
  ASSUME PagesPartitioned
  PROVE  /\ \A e \in extents, f \in DOMAIN dynamic : Run(e[1], e[2]) \cap Run(f, dynamic[f]) = {}
         /\ \A e \in extents, f \in DOMAIN sparse : Run(e[1], e[2]) \cap Run(f, sparse[f]) = {}
         /\ \A f \in DOMAIN dynamic, g \in DOMAIN sparse :
              Run(f, dynamic[f]) \cap Run(g, sparse[g]) = {}
         /\ \A f, g \in DOMAIN dynamic :
              f # g => Run(f, dynamic[f]) \cap Run(g, dynamic[g]) = {}
         /\ \A f, g \in DOMAIN sparse : f # g => Run(f, sparse[f]) \cap Run(g, sparse[g]) = {}
<1> DEFINE E(e) == <<"free", e[1], e[2]>>
           D(f) == <<"dynamic", f, dynamic[f]>>
           S(f) == <<"sparse", f, sparse[f]>>
<1>1. /\ \A e \in extents : E(e) \in PageRuns
      /\ \A f \in DOMAIN dynamic : D(f) \in PageRuns
      /\ \A f \in DOMAIN sparse : S(f) \in PageRuns
  BY DEF PageRuns
<1>2. /\ \A e, f : E(e) # D(f) /\ E(e) # S(f) /\ D(e) # S(f)
      /\ \A f, g : f # g => D(f) # D(g) /\ S(f) # S(g)
  OBVIOUS
<1>3. /\ \A e : E(e)[2] = e[1] /\ E(e)[3] = e[2]
      /\ \A f : D(f)[2] = f /\ D(f)[3] = dynamic[f] /\ S(f)[2] = f /\ S(f)[3] = sparse[f]
  OBVIOUS
<1>4. \A r, s \in PageRuns : r # s => Run(r[2], r[3]) \cap Run(s[2], s[3]) = {}
  BY DEF PagesPartitioned, Disjoint
<1> HIDE DEF E, D, S
<1>5. \A e \in extents, f \in DOMAIN dynamic : Run(e[1], e[2]) \cap Run(f, dynamic[f]) = {}
  <2> SUFFICES ASSUME NEW e \in extents, NEW f \in DOMAIN dynamic
               PROVE  Run(e[1], e[2]) \cap Run(f, dynamic[f]) = {}
    OBVIOUS
  <2>1. Run(E(e)[2], E(e)[3]) \cap Run(D(f)[2], D(f)[3]) = {}
    BY <1>1, <1>2, <1>4
  <2>2. /\ E(e)[2] = e[1] /\ E(e)[3] = e[2]
        /\ D(f)[2] = f /\ D(f)[3] = dynamic[f]
    BY <1>3
  <2> QED
    BY <2>1, <2>2
<1>6. \A e \in extents, f \in DOMAIN sparse : Run(e[1], e[2]) \cap Run(f, sparse[f]) = {}
  <2> SUFFICES ASSUME NEW e \in extents, NEW f \in DOMAIN sparse
               PROVE  Run(e[1], e[2]) \cap Run(f, sparse[f]) = {}
    OBVIOUS
  <2>1. Run(E(e)[2], E(e)[3]) \cap Run(S(f)[2], S(f)[3]) = {}
    BY <1>1, <1>2, <1>4
  <2>2. /\ E(e)[2] = e[1] /\ E(e)[3] = e[2]
        /\ S(f)[2] = f /\ S(f)[3] = sparse[f]
    BY <1>3
  <2> QED
    BY <2>1, <2>2
<1>7. \A f \in DOMAIN dynamic, g \in DOMAIN sparse :
        Run(f, dynamic[f]) \cap Run(g, sparse[g]) = {}
  <2> SUFFICES ASSUME NEW f \in DOMAIN dynamic, NEW g \in DOMAIN sparse
               PROVE  Run(f, dynamic[f]) \cap Run(g, sparse[g]) = {}
    OBVIOUS
  <2>1. Run(D(f)[2], D(f)[3]) \cap Run(S(g)[2], S(g)[3]) = {}
    BY <1>1, <1>2, <1>4
  <2>2. /\ D(f)[2] = f /\ D(f)[3] = dynamic[f]
        /\ S(g)[2] = g /\ S(g)[3] = sparse[g]
    BY <1>3
  <2> QED
    BY <2>1, <2>2
<1>8. \A f, g \in DOMAIN dynamic :
        f # g => Run(f, dynamic[f]) \cap Run(g, dynamic[g]) = {}
  <2> SUFFICES ASSUME NEW f \in DOMAIN dynamic, NEW g \in DOMAIN dynamic, f # g
               PROVE  Run(f, dynamic[f]) \cap Run(g, dynamic[g]) = {}
    OBVIOUS
  <2>1. Run(D(f)[2], D(f)[3]) \cap Run(D(g)[2], D(g)[3]) = {}
    BY <1>1, <1>2, <1>4
  <2>2. /\ D(f)[2] = f /\ D(f)[3] = dynamic[f]
        /\ D(g)[2] = g /\ D(g)[3] = dynamic[g]
    BY <1>3
  <2> QED
    BY <2>1, <2>2
<1>9. \A f, g \in DOMAIN sparse : f # g => Run(f, sparse[f]) \cap Run(g, sparse[g]) = {}
  <2> SUFFICES ASSUME NEW f \in DOMAIN sparse, NEW g \in DOMAIN sparse, f # g
               PROVE  Run(f, sparse[f]) \cap Run(g, sparse[g]) = {}
    OBVIOUS
  <2>1. Run(S(f)[2], S(f)[3]) \cap Run(S(g)[2], S(g)[3]) = {}
    BY <1>1, <1>2, <1>4
  <2>2. /\ S(f)[2] = f /\ S(f)[3] = sparse[f]
        /\ S(g)[2] = g /\ S(g)[3] = sparse[g]
    BY <1>3
  <2> QED
    BY <2>1, <2>2
<1> QED
  BY <1>5, <1>6, <1>7, <1>8, <1>9

LEMMA SegmentPlaces ==
  ASSUME NEW s \in Segments
  PROVE  /\ s \in Nat /\ Segment(s) \in BackingPlaces
         /\ PlacePages(Segment(s)) = Run(s * SegmentPages, SegmentPages)
         /\ IsFiniteSet(PlacePages(Segment(s)))
         /\ Cardinality(PlacePages(Segment(s))) = SegmentPages
<1>1. s \in Nat /\ SegmentPages \in Nat \ {0} /\ s * SegmentPages \in Nat
  BY ArenaAssumption DEF Segments
<1>2. PlacePages(Segment(s)) = Run(s * SegmentPages, SegmentPages)
  BY DEF PlacePages, Segment
<1>3. Segment(s) \in BackingPlaces
  BY DEF BackingPlaces
<1>4. PICK b \in Nat : b = s * SegmentPages
  BY <1>1
<1>5. /\ IsFiniteSet(b .. b + SegmentPages - 1)
      /\ Cardinality(b .. b + SegmentPages - 1) = SegmentPages
  <2>1. PICK c : c = b + SegmentPages - 1
    OBVIOUS
  <2>2. c \in Int /\ ~ (b > c) /\ c - b + 1 = SegmentPages
    BY <1>1, <2>1
  <2>3. IsFiniteSet(b .. c) /\ Cardinality(b .. c) = IF b > c THEN 0 ELSE c - b + 1
    BY <2>2, FS_Interval
  <2> QED
    BY <2>1, <2>2, <2>3
<1> QED
  BY <1>1, <1>2, <1>3, <1>4, <1>5 DEF Run

LEMMA OverlapFacts ==
  ASSUME NEW s \in Segments, NEW P
  PROVE  /\ Overlap(s, P) \in Nat /\ Overlap(s, P) <= SegmentPages
         /\ Overlap(s, P) = 0 <=> PlacePages(Segment(s)) \cap P = {}
<1> DEFINE S == PlacePages(Segment(s))
<1>1. IsFiniteSet(S) /\ Cardinality(S) = SegmentPages
  BY SegmentPlaces
<1> HIDE DEF S
<1>2. IsFiniteSet(S \cap P) /\ Cardinality(S \cap P) <= Cardinality(S)
  BY <1>1, FS_Subset
<1>3. Cardinality(S \cap P) \in Nat /\ (Cardinality(S \cap P) = 0 <=> S \cap P = {})
  BY <1>2, FS_EmptySet, FS_CardinalityType
<1> QED
  BY <1>1, <1>2, <1>3 DEF S, Overlap

LEMMA OverlapSum ==
  ASSUME NEW s \in Segments, NEW P, NEW Q, P \cap Q = {}
  PROVE  Overlap(s, P \cup Q) = Overlap(s, P) + Overlap(s, Q)
<1> DEFINE S == PlacePages(Segment(s))
<1>1. IsFiniteSet(S)
  BY SegmentPlaces
<1> HIDE DEF S
<1>2. IsFiniteSet(S \cap P) /\ IsFiniteSet(S \cap Q)
  BY <1>1, FS_Subset
<1>3. (S \cap P) \cap (S \cap Q) = {} /\ S \cap (P \cup Q) = (S \cap P) \cup (S \cap Q)
  OBVIOUS
<1>4. Cardinality((S \cap P) \cup (S \cap Q))
        = Cardinality(S \cap P) + Cardinality(S \cap Q) - Cardinality((S \cap P) \cap (S \cap Q))
  BY <1>2, FS_Union
<1>5. Cardinality((S \cap P) \cap (S \cap Q)) = 0
  BY <1>3, FS_EmptySet
<1>6. Cardinality(S \cap P) \in Nat /\ Cardinality(S \cap Q) \in Nat
  BY <1>2, FS_CardinalityType
<1> QED
  BY <1>3, <1>4, <1>5, <1>6 DEF S, Overlap

\* A run of whole segments has all of a segment or nothing.
LEMMA WholeSegments ==
  ASSUME NEW s \in Segments, NEW f \in Nat, NEW n \in Nat, f % SegmentPages = 0,
         n % SegmentPages = 0, PlacePages(Segment(s)) \cap Run(f, n) # {}
  PROVE  PlacePages(Segment(s)) \subseteq Run(f, n)
<1>1. s \in Nat /\ SegmentPages \in Nat \ {0}
  BY SegmentPlaces, ArenaAssumption
<1>2. PICK a \in Nat : f = a * SegmentPages
  BY <1>1, WholeIn
<1>3. PICK b \in Nat : n = b * SegmentPages
  BY <1>1, WholeIn
<1>4. PICK x \in Int : /\ s * SegmentPages <= x /\ x < s * SegmentPages + SegmentPages
                       /\ f <= x /\ x < f + n
  <2>1. PICK x \in Run(s * SegmentPages, SegmentPages) : x \in Run(f, n)
    BY SegmentPlaces
  <2>2. s * SegmentPages \in Nat
    BY <1>1
  <2>3. x \in f .. f + n - 1 /\ x \in s * SegmentPages .. s * SegmentPages + SegmentPages - 1
    BY <2>1 DEF Run
  <2>4. PICK c \in Nat : c = s * SegmentPages
    BY <2>2
  <2>5. /\ x \in Int /\ c <= x /\ x < c + SegmentPages
        /\ f <= x /\ x < f + n
    BY <1>1, <2>3, <2>4
  <2> QED
    BY <2>4, <2>5
<1>5. s * SegmentPages < (a + b) * SegmentPages /\ a * SegmentPages < (s + 1) * SegmentPages
  BY <1>1, <1>2, <1>3, <1>4
<1>6. s + 1 <= a + b /\ a <= s
  <2>1. \A i, j \in Nat : i * SegmentPages < j * SegmentPages => i < j
    BY <1>1
  <2> QED
    BY <1>1, <1>5, <2>1
<1>7. a * SegmentPages <= s * SegmentPages /\ (s + 1) * SegmentPages <= (a + b) * SegmentPages
  <2>1. \A i, j \in Nat : i <= j => i * SegmentPages <= j * SegmentPages
    BY <1>1
  <2> QED
    BY <1>1, <1>6, <2>1
<1>8. f <= s * SegmentPages /\ s * SegmentPages + SegmentPages <= f + n
  BY <1>1, <1>2, <1>3, <1>7
<1> QED
  BY <1>1, <1>8, SegmentPlaces DEF Run

\* The tightest of the extents that fit, and the highest of those.
LEMMA BestFits ==
  ASSUME ExtentsTyped, NEW n \in Nat \ {0}, NEW align \in Nat \ {0}, NEW e,
         FittingExtents(n, align) # {}, e = Best(n, align)
  PROVE  /\ e \in extents /\ LatestIn(e, n, align) \in Nat
         /\ e[1] <= LatestIn(e, n, align) /\ LatestIn(e, n, align) + n <= e[1] + e[2]
<1> DEFINE C == FittingExtents(n, align)
           L == {x[2] : x \in C}
<1>1. C \subseteq extents
  BY DEF FittingExtents
<1>2. \A x \in C : x[1] \in 0 .. DynamicPages - 1 /\ x[2] \in Nat
  BY <1>1, ArenaAssumption DEF ExtentsTyped
<1> HIDE DEF C
<1>3. PICK m \in L : \A l \in L : m <= l
  <2>1. L \in SUBSET Nat /\ L # {}
    BY <1>2 DEF C
  <2> HIDE DEF L
  <2> QED
    BY <2>1, LeastNat
<1> DEFINE H == {x[1] : x \in {y \in C : y[2] = m}}
<1>4. PICK h \in H : \A k \in H : k <= h
  <2>1. H \in SUBSET (0 .. DynamicPages - 1) /\ H # {}
    BY <1>2, <1>3
  <2>2. DynamicPages - 1 \in Nat
    BY ArenaAssumption
  <2> HIDE DEF H
  <2>3. Max(H) \in H /\ \A k \in H : k <= Max(H)
    BY <2>1, <2>2, MaxOf
  <2> QED
    BY <2>3
<1>5. PICK b \in C : b[2] = m /\ b[1] = h
  BY <1>4
<1>6. \A f \in C : \/ b[2] < f[2]
                   \/ b[2] = f[2] /\ b[1] >= f[1]
  <2> SUFFICES ASSUME NEW f \in C
               PROVE  b[2] < f[2] \/ (b[2] = f[2] /\ b[1] >= f[1])
    OBVIOUS
  <2>1. f[2] \in L
    OBVIOUS
  <2>2. m <= f[2] /\ m \in Nat /\ f[2] \in Nat
    BY <1>2, <1>3, <2>1
  <2>3. f[2] = m => f[1] \in H
    OBVIOUS
  <2> HIDE DEF L, H
  <2>4. f[2] = m => f[1] <= h
    BY <1>4, <2>3
  <2>5. f[1] \in Nat /\ h \in Nat
    BY <1>2, <1>5
  <2>6. b[2] = m /\ b[1] = h
    BY <1>5
  <2>7. m < f[2] \/ (m = f[2] /\ h >= f[1])
    BY <2>2, <2>4, <2>5
  <2> QED
    BY <2>6, <2>7
<1>7. e \in C
  <2>1. e = CHOOSE x \in C : \A f \in C : \/ x[2] < f[2]
                                          \/ x[2] = f[2] /\ x[1] >= f[1]
    BY DEF Best, C
  <2> QED
    BY <1>6, <2>1
<1>8. e \in extents /\ e[2] >= n /\ LatestIn(e, n, align) >= e[1] /\ e[1] \in Nat /\ e[2] \in Nat
  BY <1>1, <1>2, <1>7 DEF C, FittingExtents
<1>9. PICK z \in Nat : z = e[1] + e[2] - n
  BY <1>8
<1>10. LatestIn(e, n, align) = (z \div align) * align
  BY <1>9 DEF LatestIn
<1>11. LatestIn(e, n, align) \in Nat /\ LatestIn(e, n, align) <= z
  BY <1>10, Rounded
<1> QED
  BY <1>8, <1>9, <1>11

LEMMA ReserveFits ==
  ASSUME ExtentsTyped, NEW n \in Nat \ {0}, SparseFits(n) # {}, NEW first,
         first = Min(SparseFits(n)), NEW e,
         e = CHOOSE x \in extents : x[1] <= first /\ first + n <= x[1] + x[2]
  PROVE  /\ e \in extents /\ first \in Nat /\ first % SparseAlign = 0
         /\ e[1] <= first /\ first + n <= e[1] + e[2] /\ NothingBacked(Run(first, n))
<1>1. SparseFits(n) \in SUBSET Nat
  BY ArenaAssumption DEF SparseFits
<1>2. first \in SparseFits(n)
  BY <1>1, MinOf
<1>3. /\ first \in Nat /\ first % SparseAlign = 0 /\ NothingBacked(Run(first, n))
      /\ \E x \in extents : x[1] <= first /\ first + n <= x[1] + x[2]
  BY <1>1, <1>2 DEF SparseFits
<1>4. e \in extents /\ e[1] <= first /\ first + n <= e[1] + e[2]
  BY <1>3
<1> QED
  BY <1>3, <1>4

-----------------------------------------------------------------------------
(* The invariant of the arena *)

\* Nothing has been handed out yet.
Untouched ==
  /\ extents = {<<0, DynamicPages>>} /\ DOMAIN dynamic = {} /\ DOMAIN sparse = {}
  /\ live = [s \in Segments |-> 0] /\ written = {}
  /\ DOMAIN backing = {} /\ DOMAIN stacks = {}
  /\ used = {} /\ active = InitialUnits /\ slab = "empty"
\* One of the starting threads publishes, and nothing is handed out before.
OneStart ==
  /\ starter \in [Starters -> {"idle", "building", "published"}]
  /\ \A t, u \in Starters : starter[t] = "published" /\ starter[u] = "published" => t = u
  /\ ~Published => Untouched
\* A reservation is made of whole segments, so a segment that meets one lies in it.
SparseWhole ==
  \A f \in DOMAIN sparse : f % SegmentPages = 0 /\ sparse[f] % SegmentPages = 0
SlabTyped == slab \in {"empty", "reserved", "claimed", "retired"}
LiveTyped == live \in [Segments -> Nat]

\* Who has which pages, with the types that the arithmetic needs.
PagesIInv ==
  /\ ExtentsTyped /\ HeldTyped /\ LiveTyped /\ SparseWhole
  /\ PagesPartitioned /\ SegmentsExact
ArenaIInv == OneStart /\ SlabTyped /\ PagesIInv /\ DonorIInv /\ FreshIsZero

LEMMA UntouchedSound ==
  ASSUME Untouched
  PROVE  PagesIInv /\ DonorIInv /\ FreshIsZero /\ SlabTyped
<1>1. /\ extents = {<<0, DynamicPages>>} /\ DOMAIN dynamic = {} /\ DOMAIN sparse = {}
      /\ DOMAIN backing = {} /\ DOMAIN stacks = {} /\ used = {} /\ active = InitialUnits
  BY DEF Untouched
<1>2. LivePages = {} /\ Reserved = {}
  BY <1>1 DEF LivePages, Reserved
<1>3. DynamicPages \in Nat \ {0}
  BY ArenaAssumption
<1>4. PageRuns = {<<"free", 0, DynamicPages>>}
  BY <1>1 DEF PageRuns
<1>5. Disjoint(PageRuns) /\ Covered(PageRuns) = 0 .. DynamicPages - 1
  BY <1>3, <1>4 DEF Disjoint, Covered, Run
<1>6. PagesPartitioned
  BY <1>1, <1>3, <1>5 DEF PagesPartitioned
<1>7. ExtentsTyped /\ HeldTyped /\ SparseWhole
  BY <1>1, <1>3 DEF ExtentsTyped, HeldTyped, SparseWhole
<1>8. LiveTyped /\ SegmentsExact
  <2>1. \A s \in Segments : live[s] = 0 /\ Overlap(s, LivePages) = 0
    BY <1>2, OverlapFacts DEF Untouched
  <2> QED
    BY <1>1, <1>2, <2>1 DEF SegmentsExact, LiveTyped, Untouched
<1>9. DonorRuns = {}
  BY <1>1 DEF DonorRuns
<1>10. DonorIInv
  <2>1. Disjoint(DonorRuns) /\ Covered(DonorRuns) = {}
    BY <1>9 DEF Disjoint, Covered
  <2> QED
    BY <1>1, <2>1, ArenaAssumption DEF DonorIInv, DonorExact, PlacesTyped
<1> QED
  BY <1>6, <1>7, <1>8, <1>10 DEF PagesIInv, FreshIsZero, SlabTyped, Untouched

LEMMA ArenaStarts == ArenaInit => ArenaIInv
<1> SUFFICES ASSUME ArenaInit
             PROVE  ArenaIInv
  OBVIOUS
<1>1. Untouched
  BY DEF ArenaInit, Untouched
<1>2. OneStart
  BY <1>1 DEF ArenaInit, OneStart
<1> QED
  BY <1>1, <1>2, UntouchedSound DEF ArenaIInv

LEMMA ArenaInvImplies == ArenaIInv => ArenaSound
<1> SUFFICES ASSUME ArenaIInv
             PROVE  ArenaSound
  OBVIOUS
<1>1. /\ OneStart /\ SlabTyped /\ ExtentsTyped /\ HeldTyped /\ LiveTyped
      /\ PagesPartitioned /\ SegmentsExact /\ PlacesTyped /\ DonorExact /\ FreshIsZero
  BY DEF ArenaIInv, PagesIInv, DonorIInv
<1>2. Cardinality({t \in Starters : starter[t] = "published"}) <= 1
  <2> DEFINE P == {t \in Starters : starter[t] = "published"}
  <2>1. CASE P = {}
    <3>1. Cardinality({}) = 0
      BY FS_EmptySet
    <3>2. Cardinality(P) = 0
      BY <2>1, <3>1
    <3> QED
      BY <3>2
  <2>2. CASE P # {}
    <3>1. PICK t \in P : P = {t}
      BY <1>1, <2>2 DEF OneStart
    <3>2. Cardinality({t}) = 1
      BY FS_Singleton
    <3>3. Cardinality(P) = 1
      BY <3>1, <3>2
    <3> QED
      BY <3>3
  <2> QED
    BY <2>1, <2>2
<1>3. DOMAIN dynamic \cup DOMAIN sparse \subseteq 0 .. DynamicPages - 1
  <2>1. LivePages \cup Reserved \subseteq 0 .. DynamicPages - 1
    <3>1. \A f \in DOMAIN dynamic : Run(f, dynamic[f]) \subseteq Covered(PageRuns)
      <4> SUFFICES ASSUME NEW f \in DOMAIN dynamic
                   PROVE  Run(f, dynamic[f]) \subseteq Covered(PageRuns)
        OBVIOUS
      <4> DEFINE r == <<"dynamic", f, dynamic[f]>>
      <4>1. r \in PageRuns
        BY DEF PageRuns
      <4>2. Run(r[2], r[3]) \subseteq Covered(PageRuns)
        BY <4>1 DEF Covered
      <4> QED
        BY <4>2
    <3>2. \A f \in DOMAIN sparse : Run(f, sparse[f]) \subseteq Covered(PageRuns)
      <4> SUFFICES ASSUME NEW f \in DOMAIN sparse
                   PROVE  Run(f, sparse[f]) \subseteq Covered(PageRuns)
        OBVIOUS
      <4> DEFINE r == <<"sparse", f, sparse[f]>>
      <4>1. r \in PageRuns
        BY DEF PageRuns
      <4>2. Run(r[2], r[3]) \subseteq Covered(PageRuns)
        BY <4>1 DEF Covered
      <4> QED
        BY <4>2
    <3>3. Covered(PageRuns) = 0 .. DynamicPages - 1
      BY <1>1 DEF PagesPartitioned
    <3> QED
      BY <3>1, <3>2, <3>3 DEF LivePages, Reserved
  <2>2. /\ \A f \in DOMAIN dynamic : f \in Run(f, dynamic[f])
        /\ \A f \in DOMAIN sparse : f \in Run(f, sparse[f])
    BY <1>1 DEF HeldTyped, Run
  <2> QED
    BY <2>1, <2>2 DEF LivePages, Reserved
<1>4. live \in [Segments -> 0 .. SegmentPages]
  <2>1. \A s \in Segments : live[s] \in Nat /\ live[s] <= SegmentPages
    BY <1>1, OverlapFacts DEF SegmentsExact
  <2>2. \A s \in Segments : live[s] \in 0 .. SegmentPages
    BY <2>1, ArenaAssumption
  <2> QED
    BY <1>1, <2>2 DEF LiveTyped
<1>5. used \subseteq 0 .. Units - 1
  <2>1. active \in Nat /\ active <= Units /\ used \subseteq 0 .. active - 1 /\ Units \in Nat
    BY <1>1, ArenaAssumption DEF DonorExact, PlacesTyped
  <2> QED
    BY <2>1, BelowMore
<1>6. ArenaTypeOK
  BY <1>1, <1>2, <1>3, <1>4, <1>5 DEF ArenaTypeOK, OneStart, ExtentsTyped, SlabTyped, PlacesTyped
<1> QED
  BY <1>1, <1>6 DEF ArenaSound

-----------------------------------------------------------------------------
(* What each action keeps.  Only PublishArena changes who has started. *)

LEMMA ArenaInUse ==
  ASSUME OneStart,
         DOMAIN dynamic # {} \/ DOMAIN sparse # {} \/ DOMAIN stacks # {} \/ slab # "empty"
  PROVE  Published
BY DEF OneStart, Untouched

LEMMA StartKept ==
  ASSUME OneStart, Published, UNCHANGED starter
  PROVE  OneStart'
BY DEF OneStart, Published

LEMMA PagesKept ==
  ASSUME PagesIInv, UNCHANGED pageVars,
         \A s \in Segments : Segment(s) \in DOMAIN backing' <=> Segment(s) \in DOMAIN backing
  PROVE  PagesIInv'
<1>1. extents' = extents /\ dynamic' = dynamic /\ live' = live /\ sparse' = sparse
  BY DEF pageVars
<1>2. LivePages' = LivePages /\ Reserved' = Reserved /\ PageRuns' = PageRuns
  BY <1>1 DEF LivePages, Reserved, PageRuns
<1>3. PagesPartitioned'
  BY <1>1, <1>2 DEF PagesIInv, PagesPartitioned
<1>4. /\ \A s \in Segments : live'[s] = Overlap(s, LivePages')
      /\ \A f \in DOMAIN dynamic : \A s \in SegmentsOf(Run(f, dynamic[f])) :
           Segment(s) \in DOMAIN backing'
      /\ \A s \in Segments : Segment(s) \in DOMAIN backing' =>
           PlacePages(Segment(s)) \cap Reserved' = {}
  BY <1>1, <1>2 DEF PagesIInv, SegmentsExact, Backed, SegmentsOf
<1>5. SegmentsExact'
  BY <1>1, <1>4 DEF SegmentsExact, Backed
<1> QED
  BY <1>1, <1>3, <1>5 DEF PagesIInv, ExtentsTyped, HeldTyped, LiveTyped, SparseWhole

\* Places of one kind are told apart by their number.
LEMMA PlacesApart ==
  /\ \A S : /\ {Segment(s) : s \in SegmentsOf(S)} \subseteq BackingPlaces
            /\ \A p, q \in {Segment(s) : s \in SegmentsOf(S)} : p # q => p[2] # q[2]
  /\ \A S : /\ {Granule(g) : g \in GranulesOf(S)} \subseteq BackingPlaces
            /\ \A p, q \in {Granule(g) : g \in GranulesOf(S)} : p # q => p[2] # q[2]
  /\ \A s, g : Segment(s) # Granule(g)
  /\ \A s, c : Segment(s) # Chunk(c)
  /\ \A s, r : Segment(s) = Segment(r) => s = r
<1>1. /\ \A s : Segment(s) = <<"segment", s>> /\ Segment(s)[1] = "segment" /\ Segment(s)[2] = s
      /\ \A g : Granule(g) = <<"granule", g>> /\ Granule(g)[1] = "granule" /\ Granule(g)[2] = g
      /\ \A c : Chunk(c)[1] = "chunk"
  BY DEF Segment, Granule, Chunk
<1>2. /\ \A s \in Segments : Segment(s) \in BackingPlaces
      /\ \A g \in Granules : Granule(g) \in BackingPlaces
  BY DEF BackingPlaces
<1>3. /\ \A S : SegmentsOf(S) \subseteq Segments
      /\ \A S : GranulesOf(S) \subseteq Granules
  BY DEF SegmentsOf, GranulesOf
<1>4. \A S : /\ {Segment(s) : s \in SegmentsOf(S)} \subseteq BackingPlaces
            /\ {Granule(g) : g \in GranulesOf(S)} \subseteq BackingPlaces
  BY <1>2, <1>3
<1>5. \A S : \A p, q \in {Segment(s) : s \in SegmentsOf(S)} : p # q => p[2] # q[2]
  BY <1>1
<1>6. \A S : \A p, q \in {Granule(g) : g \in GranulesOf(S)} : p # q => p[2] # q[2]
  BY <1>1
<1>7. /\ \A s, g : Segment(s) # Granule(g)
      /\ \A s, c : Segment(s) # Chunk(c)
      /\ \A s, r : Segment(s) = Segment(r) => s = r
  BY <1>1
<1> QED
  BY <1>4, <1>5, <1>6, <1>7

LEMMA PrepareBeginKeeps ==
  ASSUME ArenaIInv, NEW t \in Starters, PrepareBegin(t)
  PROVE  ArenaIInv'
<1>1. /\ OneStart /\ ~Published /\ Untouched
  BY DEF ArenaIInv, OneStart, PrepareBegin
<1>2. Untouched'
  BY <1>1 DEF PrepareBegin, Untouched, pageVars, donorVars
<1>3. OneStart'
  BY <1>1, <1>2 DEF OneStart, PrepareBegin, Published
<1>4. PagesIInv' /\ DonorIInv' /\ FreshIsZero' /\ SlabTyped'
  BY <1>2, UntouchedSound, PTL
<1> QED
  BY <1>3, <1>4 DEF ArenaIInv

LEMMA PrepareFailsKeeps ==
  ASSUME ArenaIInv, NEW t \in Starters, PrepareFails(t)
  PROVE  ArenaIInv'
<1>1. /\ starter[t] = "building" /\ starter' = [starter EXCEPT ![t] = "idle"]
      /\ UNCHANGED <<pageVars, written, backing, donorVars, stacks, slab>>
  BY DEF PrepareFails
<1>2. /\ starter \in [Starters -> {"idle", "building", "published"}]
      /\ \A r, u \in Starters : starter[r] = "published" /\ starter[u] = "published" => r = u
      /\ ~Published => Untouched
  BY DEF ArenaIInv, OneStart
<1>3. Published' <=> Published
  BY <1>1, <1>2 DEF Published
<1>4. Untouched => Untouched'
  BY <1>1 DEF Untouched, pageVars, donorVars
<1>5. OneStart'
  BY <1>1, <1>2, <1>3, <1>4 DEF OneStart
<1>6. PagesIInv'
  BY <1>1, PagesKept DEF ArenaIInv
<1>7. DonorIInv' /\ FreshIsZero' /\ SlabTyped'
  BY <1>1 DEF ArenaIInv, DonorIInv, DonorExact, DonorRuns, PlacesTyped, FreshIsZero, Reserved,
     SlabTyped, pageVars, donorVars
<1> QED
  BY <1>5, <1>6, <1>7 DEF ArenaIInv

\* Of two that build the arena at once, the second to finish leaves it alone.
LEMMA PublishKeeps ==
  ASSUME ArenaIInv, NEW t \in Starters, PublishArena(t)
  PROVE  ArenaIInv'
<1>1. /\ starter \in [Starters -> {"idle", "building", "published"}]
      /\ \A r, u \in Starters : starter[r] = "published" /\ starter[u] = "published" => r = u
      /\ ~Published => Untouched
  BY DEF ArenaIInv, OneStart
<1>2. starter[t] = "building" /\ UNCHANGED <<written, backing, stacks, slab>>
  BY DEF PublishArena
<1>3. CASE Published
  <2>1. /\ starter' = [starter EXCEPT ![t] = "idle"] /\ UNCHANGED <<pageVars, donorVars>>
    BY <1>3 DEF PublishArena
  <2>2. Published'
    BY <1>1, <1>2, <1>3, <2>1 DEF Published
  <2>3. OneStart'
    BY <1>1, <2>1, <2>2 DEF OneStart
  <2>4. PagesIInv'
    BY <1>2, <2>1, PagesKept DEF ArenaIInv
  <2>5. DonorIInv' /\ FreshIsZero' /\ SlabTyped'
    BY <1>2, <2>1 DEF ArenaIInv, DonorIInv, DonorExact, DonorRuns, PlacesTyped, FreshIsZero,
       Reserved, SlabTyped, pageVars, donorVars
  <2> QED
    BY <2>3, <2>4, <2>5 DEF ArenaIInv
<1>4. CASE ~Published
  <2>1. /\ starter' = [starter EXCEPT ![t] = "published"]
        /\ extents' = {<<0, DynamicPages>>} /\ dynamic' = <<>> /\ sparse' = <<>>
        /\ live' = [s \in Segments |-> 0]
        /\ used' = {} /\ active' = InitialUnits
    BY <1>4 DEF PublishArena
  <2>2. Untouched
    BY <1>1, <1>4
  <2>3. Untouched'
    BY <1>2, <2>1, <2>2 DEF Untouched
  <2>4. \A u \in Starters : starter[u] # "published"
    BY <1>4 DEF Published
  <2>5. OneStart'
    BY <1>1, <2>1, <2>3, <2>4 DEF OneStart
  <2>6. PagesIInv' /\ DonorIInv' /\ FreshIsZero' /\ SlabTyped'
    BY <2>3, UntouchedSound, PTL
  <2> QED
    BY <2>5, <2>6 DEF ArenaIInv
<1> QED
  BY <1>3, <1>4

LEMMA MapNothingStep ==
  ASSUME ArenaIInv, Published, NEW P, MapNothing(P),
         UNCHANGED <<starter, pageVars, written, stacks, slab>>
  PROVE  ArenaIInv'
<1>1. DonorIInv' /\ DOMAIN backing' = DOMAIN backing
  BY MapNothingKeeps DEF ArenaIInv
<1>2. PagesIInv'
  BY <1>1, PagesKept DEF ArenaIInv
<1>3. OneStart'
  BY StartKept DEF ArenaIInv
<1>4. FreshIsZero' /\ SlabTyped'
  BY DEF ArenaIInv, FreshIsZero, Reserved, SlabTyped, pageVars
<1> QED
  BY <1>1, <1>2, <1>3, <1>4 DEF ArenaIInv

\* Granules and chunks come and go without the segments.
LEMMA MapAllStep ==
  ASSUME ArenaIInv, Published, NEW P \in SUBSET BackingPlaces,
         \A p, q \in P : p # q => p[2] # q[2], \A s \in Segments : Segment(s) \notin P,
         MapAll(P), UNCHANGED <<starter, pageVars, written, stacks>>, SlabTyped'
  PROVE  ArenaIInv'
<1>1. DonorIInv' /\ DOMAIN backing' = DOMAIN backing \cup P
  BY MapAllKeeps DEF ArenaIInv
<1>2. PagesIInv'
  BY <1>1, PagesKept DEF ArenaIInv
<1>3. OneStart'
  BY StartKept DEF ArenaIInv
<1>4. FreshIsZero'
  BY DEF ArenaIInv, FreshIsZero, Reserved, pageVars
<1> QED
  BY <1>1, <1>2, <1>3, <1>4 DEF ArenaIInv

LEMMA UnmapAllStep ==
  ASSUME ArenaIInv, Published, NEW P, NEW stuck, \A s \in Segments : Segment(s) \notin P,
         UnmapAll(P, stuck), UNCHANGED <<starter, pageVars, stacks>>, SlabTyped',
         written' \subseteq written
  PROVE  ArenaIInv'
<1>1. DonorIInv' /\ DOMAIN backing' = DOMAIN backing \ (P \ stuck)
  BY UnmapAllKeeps DEF ArenaIInv
<1>2. PagesIInv'
  BY <1>1, PagesKept DEF ArenaIInv
<1>3. OneStart'
  BY StartKept DEF ArenaIInv
<1>4. FreshIsZero'
  BY DEF ArenaIInv, FreshIsZero, Reserved, pageVars
<1> QED
  BY <1>1, <1>2, <1>3, <1>4 DEF ArenaIInv

LEMMA SparseKeeps ==
  ASSUME ArenaIInv, Reserved # {}, NEW P, ProtectSparse(P) \/ DiscardPages(P)
  PROVE  ArenaIInv'
<1>1. Published
  BY ArenaInUse DEF ArenaIInv, Reserved
<1>2. SlabTyped'
  BY DEF ArenaIInv, SlabTyped, ProtectSparse, DiscardPages
<1>3. CASE ProtectSparse(P)
  <2> DEFINE places == {Granule(g) : g \in GranulesOf(P)}
  <2>1. /\ MapAll(places) \/ MapNothing(places)
        /\ UNCHANGED <<starter, pageVars, written, stacks, slab>>
    BY <1>3 DEF ProtectSparse
  <2>2. /\ places \in SUBSET BackingPlaces /\ \A p, q \in places : p # q => p[2] # q[2]
        /\ \A s \in Segments : Segment(s) \notin places
    BY PlacesApart
  <2> HIDE DEF places
  <2> QED
    BY <1>1, <1>2, <2>1, <2>2, MapAllStep, MapNothingStep
<1>4. CASE DiscardPages(P)
  <2> DEFINE whole == {Granule(g) : g \in {x \in GranulesOf(P) : PlacePages(Granule(x)) \subseteq P}}
  <2>1. PICK stuck \in SUBSET {p \in whole : Backed(p)} : UnmapAll(whole, stuck)
    BY <1>4 DEF DiscardPages, Decommit
  <2>2. \A s \in Segments : Segment(s) \notin whole
    BY PlacesApart
  <2>3. written' = written \ P /\ UNCHANGED <<starter, pageVars, stacks>>
    BY <1>4 DEF DiscardPages, Decommit
  <2> HIDE DEF whole
  <2> QED
    BY <1>1, <1>2, <2>1, <2>2, <2>3, UnmapAllStep
<1> QED
  BY <1>3, <1>4

LEMMA WriteKeeps ==
  ASSUME ArenaIInv, NEW p, WritePage(p)
  PROVE  ArenaIInv'
<1>1. /\ p \in Reserved /\ written' = written \cup {p}
      /\ UNCHANGED <<starter, pageVars, backing, donorVars, stacks, slab>>
  BY DEF WritePage
<1>2. OneStart'
  <2>1. Published
    BY <1>1, ArenaInUse DEF ArenaIInv, Reserved
  <2> QED
    BY <1>1, <2>1, StartKept DEF ArenaIInv
<1>3. PagesIInv'
  BY <1>1, PagesKept DEF ArenaIInv
<1>4. DonorIInv' /\ SlabTyped'
  BY <1>1 DEF ArenaIInv, DonorIInv, DonorExact, DonorRuns, PlacesTyped, SlabTyped, donorVars
<1>5. FreshIsZero'
  BY <1>1 DEF ArenaIInv, FreshIsZero, Reserved, pageVars
<1> QED
  BY <1>2, <1>3, <1>4, <1>5 DEF ArenaIInv

LEMMA SlabKeeps ==
  ASSUME ArenaIInv, PrepareSlab \/ ClaimSlab
  PROVE  ArenaIInv'
<1>1. UNCHANGED <<starter, pageVars, written, backing, donorVars, stacks>>
  BY DEF PrepareSlab, ClaimSlab
<1>2. OneStart'
  <2>1. Published
    BY ArenaInUse DEF ArenaIInv, PrepareSlab, ClaimSlab, SlabStep
  <2> QED
    BY <1>1, <2>1, StartKept DEF ArenaIInv
<1>3. PagesIInv'
  BY <1>1, PagesKept DEF ArenaIInv
<1>4. DonorIInv' /\ FreshIsZero'
  BY <1>1 DEF ArenaIInv, DonorIInv, DonorExact, DonorRuns, PlacesTyped, donorVars, FreshIsZero,
     Reserved, pageVars
<1>5. SlabTyped'
  BY DEF PrepareSlab, ClaimSlab, SlabStep, SlabTyped
<1> QED
  BY <1>2, <1>3, <1>4, <1>5 DEF ArenaIInv

LEMMA ChunkKeeps ==
  ASSUME ArenaIInv, NEW c \in Chunks, CommitChunk(c) \/ DiscardChunk(c)
  PROVE  ArenaIInv'
<1>1. Published
  BY ArenaInUse DEF ArenaIInv, CommitChunk, DiscardChunk
<1>2. SlabTyped' /\ UNCHANGED <<starter, pageVars, written, stacks>>
  BY DEF ArenaIInv, SlabTyped, CommitChunk, DiscardChunk
<1>3. \A s \in Segments : Segment(s) \notin {Chunk(c)}
  BY PlacesApart
<1>4. CASE CommitChunk(c)
  <2>1. MapAll({Chunk(c)})
    BY <1>4 DEF CommitChunk
  <2>2. {Chunk(c)} \in SUBSET BackingPlaces
    BY DEF BackingPlaces
  <2> QED
    BY <1>1, <1>2, <1>3, <2>1, <2>2, MapAllStep
<1>5. CASE DiscardChunk(c)
  <2>1. UnmapAll({Chunk(c)}, {})
    BY <1>5 DEF DiscardChunk
  <2> QED
    BY <1>1, <1>2, <1>3, <2>1, UnmapAllStep
<1> QED
  BY <1>4, <1>5

LEMMA RetireKeeps ==
  ASSUME ArenaIInv, RetireSlab
  PROVE  ArenaIInv'
<1> DEFINE chunks == {Chunk(c) : c \in Chunks}
<1>1. Published
  BY ArenaInUse DEF ArenaIInv, RetireSlab
<1>2. PICK stuck \in SUBSET {p \in chunks : Backed(p)} : UnmapAll(chunks, stuck)
  BY DEF RetireSlab
<1>3. SlabTyped' /\ UNCHANGED <<starter, pageVars, written, stacks>>
  BY DEF RetireSlab, SlabTyped
<1>4. \A s \in Segments : Segment(s) \notin chunks
  BY PlacesApart
<1> HIDE DEF chunks
<1> QED
  BY <1>1, <1>2, <1>3, <1>4, UnmapAllStep

-----------------------------------------------------------------------------
(* Stacks *)

LEMMA StackAllocKeeps ==
  ASSUME ArenaIInv, NEW n \in StackUnits, StackAlloc(n)
  PROVE  ArenaIInv'
<1>1. /\ active \in Nat /\ active <= Units /\ used \subseteq 0 .. active - 1
      /\ Disjoint(DonorRuns) /\ Covered(DonorRuns) = used
  BY UsedTyped DEF ArenaIInv
<1>2. /\ n \in Nat \ {0} /\ Published
      /\ UNCHANGED <<starter, pageVars, written, backing, slab>>
  BY ArenaAssumption DEF StackAlloc
<1>3. PICK t \in Takings(used, active, n, 1, TRUE) :
        /\ used' = used \cup Run(t.first, n)
        /\ active' = t.active
        /\ stacks' = With(stacks, t.first, n)
  BY DEF StackAlloc
<1>4. /\ t.first \in Nat /\ active' \in Nat /\ active <= active' /\ active' <= Units
      /\ Run(t.first, n) \subseteq 0 .. active' - 1 /\ Run(t.first, n) \cap used = {}
  BY <1>1, <1>2, <1>3, TakingFits
<1>5. PICK f \in Nat : f = t.first
  BY <1>4
<1> DEFINE r == <<<<"stack", f>>, f, n>>
<1>6. f \notin DOMAIN stacks
  <2> SUFFICES ASSUME f \in DOMAIN stacks
               PROVE  FALSE
    OBVIOUS
  <2> DEFINE old == <<<<"stack", f>>, f, stacks[f]>>
  <2>1. old \in DonorRuns
    BY DEF DonorRuns
  <2>2. Run(old[2], old[3]) \subseteq used
    BY <1>1, <2>1 DEF Covered
  <2>3. stacks[f] \in Nat \ {0}
    BY DEF ArenaIInv, DonorIInv, PlacesTyped
  <2>4. f \in Run(f, stacks[f]) /\ f \in Run(f, n)
    BY <1>2, <2>3 DEF Run
  <2> QED
    BY <1>4, <1>5, <2>2, <2>4
<1>7. /\ DOMAIN stacks' = DOMAIN stacks \cup {f} /\ stacks'[f] = n
      /\ \A g \in DOMAIN stacks : stacks'[g] = stacks[g]
  <2>1. stacks' = With(stacks, f, n)
    BY <1>3, <1>5
  <2> QED
    BY <1>6, <2>1 DEF With
<1>8. DonorRuns' = DonorRuns \cup {r}
  BY <1>2, <1>7 DEF DonorRuns
<1>9. Disjoint({r}) /\ Covered({r}) = Run(f, n)
  BY DEF Disjoint, Covered
<1> HIDE DEF r
<1>10. /\ Disjoint(DonorRuns \cup {r})
       /\ Covered(DonorRuns \cup {r}) = used \cup Run(f, n)
  <2>1. Covered(DonorRuns) \cap Covered({r}) = {}
    BY <1>1, <1>4, <1>5, <1>9
  <2>2. /\ Disjoint(DonorRuns \cup {r})
        /\ Covered(DonorRuns \cup {r}) = Covered(DonorRuns) \cup Covered({r})
    BY <1>1, <1>9, <2>1, RunsAdded
  <2> QED
    BY <1>1, <1>9, <2>2
<1>11. used' \subseteq 0 .. active' - 1
  <2>1. used \subseteq 0 .. active' - 1
    BY <1>1, <1>4, BelowMore
  <2> QED
    BY <1>3, <1>4, <2>1
<1>12. DonorExact'
  <2>1. Disjoint(DonorRuns') /\ Covered(DonorRuns') = used'
    BY <1>3, <1>5, <1>8, <1>10
  <2> QED
    BY <1>4, <1>11, <2>1 DEF DonorExact
<1>13. PlacesTyped'
  BY <1>2, <1>4, <1>7 DEF PlacesTyped, ArenaIInv, DonorIInv
<1>14. OneStart'
  BY <1>2, StartKept DEF ArenaIInv
<1>15. PagesIInv'
  BY <1>2, PagesKept DEF ArenaIInv
<1>16. FreshIsZero' /\ SlabTyped'
  BY <1>2 DEF ArenaIInv, FreshIsZero, Reserved, SlabTyped, pageVars
<1> QED
  BY <1>12, <1>13, <1>14, <1>15, <1>16 DEF ArenaIInv, DonorIInv

LEMMA StackFreeKeeps ==
  ASSUME ArenaIInv, NEW first \in DOMAIN stacks, StackFree(first)
  PROVE  ArenaIInv'
<1> DEFINE r == <<<<"stack", first>>, first, stacks[first]>>
<1>1. /\ used' = used \ Run(first, stacks[first])
      /\ active' \in SettledSizes(used')
      /\ stacks' = Without(stacks, {first})
      /\ UNCHANGED <<starter, pageVars, written, backing, slab>>
  BY DEF StackFree
<1>2. /\ DOMAIN stacks' = DOMAIN stacks \ {first}
      /\ \A g \in DOMAIN stacks' : stacks'[g] = stacks[g]
  BY <1>1 DEF Without
<1>3. r \in DonorRuns
  BY DEF DonorRuns
<1>4. DonorRuns' = DonorRuns \ {r}
  <2> DEFINE B == {<<p, backing[p], PlaceUnits(p)>> : p \in DOMAIN backing}
             S == {<<<<"stack", f>>, f, stacks[f]>> : f \in DOMAIN stacks}
  <2>1. DonorRuns = B \cup S
    BY DEF DonorRuns
  <2>2. DonorRuns' = B \cup (S \ {r})
    BY <1>1, <1>2 DEF DonorRuns
  <2>3. r \notin B
    <3>1. \A p \in DOMAIN backing : p # <<"stack", first>>
      BY PlaceFacts DEF ArenaIInv, DonorIInv, PlacesTyped
    <3> QED
      BY <3>1
  <2> HIDE DEF B, S, r
  <2> QED
    BY <2>1, <2>2, <2>3
<1>5. Covered({r}) = Run(first, stacks[first])
  BY DEF Covered
<1> HIDE DEF r
<1>6. DonorExact' /\ active' \in Nat
  <2>1. {r} \in SUBSET DonorRuns /\ used' = used \ Covered({r})
    BY <1>1, <1>3, <1>5
  <2>2. active' \in {active} \cup SettledSizes(used')
    BY <1>1
  <2> QED
    BY <1>4, <2>1, <2>2, UnitsGivenBack DEF ArenaIInv
<1>7. PlacesTyped'
  BY <1>1, <1>2, <1>6 DEF PlacesTyped, ArenaIInv, DonorIInv
<1>8. OneStart'
  <2>1. Published
    BY ArenaInUse DEF ArenaIInv
  <2> QED
    BY <1>1, <2>1, StartKept DEF ArenaIInv
<1>9. PagesIInv'
  BY <1>1, PagesKept DEF ArenaIInv
<1>10. FreshIsZero' /\ SlabTyped'
  BY <1>1 DEF ArenaIInv, FreshIsZero, Reserved, SlabTyped, pageVars
<1> QED
  BY <1>6, <1>7, <1>8, <1>9, <1>10 DEF ArenaIInv, DonorIInv

-----------------------------------------------------------------------------
(* Dynamic allocations *)

\* What is cut from a free extent was in no allocation and in no reservation.
LEMMA CutApart ==
  ASSUME PagesIInv, NEW e \in extents, NEW first \in Nat, NEW n \in Nat \ {0},
         e[1] <= first, first + n <= e[1] + e[2]
  PROVE  /\ Run(first, n) \cap LivePages = {} /\ Run(first, n) \cap Reserved = {}
         /\ first \notin DOMAIN dynamic /\ first \notin DOMAIN sparse
<1>1. e[1] \in Nat /\ e[2] \in Nat \ {0}
  BY ExtentFacts DEF PagesIInv
<1>2. PICK a \in Nat, b \in Nat : a = e[1] /\ b = e[2]
  BY <1>1
<1>3. Run(first, n) \subseteq Run(a, b)
  BY <1>2 DEF Run
<1>4. /\ \A f \in DOMAIN dynamic : Run(a, b) \cap Run(f, dynamic[f]) = {}
      /\ \A f \in DOMAIN sparse : Run(a, b) \cap Run(f, sparse[f]) = {}
  BY <1>2, HeldApart DEF PagesIInv
<1>5. Run(first, n) \cap LivePages = {} /\ Run(first, n) \cap Reserved = {}
  BY <1>3, <1>4 DEF LivePages, Reserved
<1>6. /\ \A f \in DOMAIN dynamic : f \in Run(f, dynamic[f])
      /\ \A f \in DOMAIN sparse : f \in Run(f, sparse[f])
  BY DEF PagesIInv, HeldTyped, Run
<1>7. first \in Run(a, b)
  BY <1>3 DEF Run
<1> QED
  BY <1>4, <1>5, <1>6, <1>7

\* A segment that meets pages outside the reservations meets no reservation.
LEMMA OffReserved ==
  ASSUME PagesIInv, NEW s \in Segments, NEW P, P \cap Reserved = {},
         PlacePages(Segment(s)) \cap P # {}
  PROVE  PlacePages(Segment(s)) \cap Reserved = {}
<1> SUFFICES ASSUME PlacePages(Segment(s)) \cap Reserved # {}
             PROVE  FALSE
  OBVIOUS
<1>1. PICK f \in DOMAIN sparse : PlacePages(Segment(s)) \cap Run(f, sparse[f]) # {}
  BY DEF Reserved
<1>2. f \in Nat /\ sparse[f] \in Nat /\ f % SegmentPages = 0 /\ sparse[f] % SegmentPages = 0
  BY DEF PagesIInv, HeldTyped, SparseWhole
<1>3. PlacePages(Segment(s)) \subseteq Run(f, sparse[f])
  BY <1>1, <1>2, WholeSegments
<1> QED
  BY <1>3 DEF Reserved

LEMMA AllocKeeps ==
  ASSUME ArenaIInv, NEW n \in AllocSizes, NEW align \in Aligns, AllocDynamic(n, align)
  PROVE  ArenaIInv'
<1> DEFINE e == Best(n, align)
           first == LatestIn(e, n, align)
           P == Run(first, n)
           places == {Segment(s) : s \in SegmentsOf(P)}
<1>1. /\ Published /\ FittingExtents(n, align) # {}
      /\ MapAll(places) /\ ConsumeExtent(e, first, n)
      /\ live' = [s \in Segments |-> live[s] + Overlap(s, P)]
      /\ dynamic' = With(dynamic, first, n)
      /\ UNCHANGED <<starter, sparse, written, stacks, slab>>
  BY DEF AllocDynamic
<1>2. n \in Nat \ {0} /\ align \in Nat \ {0}
  BY ArenaAssumption
<1>3. /\ e \in extents /\ first \in Nat /\ e[1] <= first /\ first + n <= e[1] + e[2]
  BY <1>1, <1>2, BestFits DEF ArenaIInv, PagesIInv
<1>4. /\ P \cap LivePages = {} /\ P \cap Reserved = {} /\ first \notin DOMAIN dynamic
  BY <1>2, <1>3, CutApart DEF ArenaIInv
<1>5. places \in SUBSET BackingPlaces /\ \A p, q \in places : p # q => p[2] # q[2]
  BY PlacesApart
<1>6. \A s \in Segments : Segment(s) \in places <=> PlacePages(Segment(s)) \cap P # {}
  BY PlacesApart DEF SegmentsOf
<1> HIDE DEF e, first, places
<1>7. DonorIInv' /\ DOMAIN backing' = DOMAIN backing \cup places
  BY <1>1, <1>5, MapAllKeeps DEF ArenaIInv
<1>8. /\ DOMAIN dynamic' = DOMAIN dynamic \cup {first} /\ dynamic'[first] = n
      /\ \A f \in DOMAIN dynamic : dynamic'[f] = dynamic[f]
      /\ LivePages' = LivePages \cup P
  <2>1. /\ DOMAIN dynamic' = DOMAIN dynamic \cup {first} /\ dynamic'[first] = n
        /\ \A f \in DOMAIN dynamic : dynamic'[f] = dynamic[f]
    BY <1>1, <1>4 DEF With
  <2>2. Spread(dynamic') = Spread(dynamic) \cup P
    BY <1>1, <1>4, SpreadWith
  <2> QED
    BY <2>1, <2>2, SpreadNames
<1>9. sparse' = sparse /\ Reserved' = Reserved
  BY <1>1 DEF Reserved
<1>10. HeldRuns' = HeldRuns \cup {<<"dynamic", first, n>>}
  BY <1>8, <1>9 DEF HeldRuns
<1>11. ExtentsTyped' /\ PagesPartitioned'
  <2>1. "dynamic" # "free"
    OBVIOUS
  <2> QED
    BY <1>1, <1>2, <1>3, <1>10, <2>1, ConsumeKeeps DEF ArenaIInv, PagesIInv
<1>12. HeldTyped' /\ SparseWhole'
  BY <1>2, <1>3, <1>8, <1>9 DEF ArenaIInv, PagesIInv, HeldTyped, SparseWhole
<1>13. LiveTyped' /\ \A s \in Segments : live'[s] = Overlap(s, LivePages')
  <2>1. \A s \in Segments : live[s] \in Nat /\ live[s] = Overlap(s, LivePages)
    BY DEF ArenaIInv, PagesIInv, LiveTyped, SegmentsExact
  <2>2. \A s \in Segments : Overlap(s, LivePages') = Overlap(s, LivePages) + Overlap(s, P)
    BY <1>4, <1>8, OverlapSum
  <2>3. \A s \in Segments : Overlap(s, P) \in Nat
    BY OverlapFacts
  <2> QED
    BY <1>1, <2>1, <2>2, <2>3 DEF LiveTyped
<1>14. \A f \in DOMAIN dynamic' : \A s \in SegmentsOf(Run(f, dynamic'[f])) :
         Segment(s) \in DOMAIN backing'
  <2> TAKE f \in DOMAIN dynamic'
  <2>1. CASE f = first
    BY <1>6, <1>7, <1>8, <2>1 DEF SegmentsOf
  <2>2. CASE f \in DOMAIN dynamic
    BY <1>7, <1>8, <2>2 DEF ArenaIInv, PagesIInv, SegmentsExact, Backed
  <2> QED
    BY <1>8, <2>1, <2>2
<1>15. \A s \in Segments : Segment(s) \in DOMAIN backing' =>
         PlacePages(Segment(s)) \cap Reserved' = {}
  <2> SUFFICES ASSUME NEW s \in Segments, Segment(s) \in DOMAIN backing'
               PROVE  PlacePages(Segment(s)) \cap Reserved = {}
    BY <1>9
  <2>1. CASE Segment(s) \in DOMAIN backing
    BY <2>1 DEF ArenaIInv, PagesIInv, SegmentsExact, Backed
  <2>2. CASE Segment(s) \in places
    BY <1>4, <1>6, <2>2, OffReserved DEF ArenaIInv
  <2> QED
    BY <1>7, <2>1, <2>2
<1>16. SegmentsExact'
  BY <1>13, <1>14, <1>15 DEF SegmentsExact, Backed
<1>17. OneStart' /\ FreshIsZero' /\ SlabTyped'
  <2>1. OneStart'
    BY <1>1, StartKept DEF ArenaIInv
  <2> QED
    BY <1>1, <1>9, <2>1 DEF ArenaIInv, FreshIsZero, SlabTyped
<1> QED
  BY <1>7, <1>11, <1>12, <1>13, <1>16, <1>17 DEF ArenaIInv, PagesIInv

LEMMA AllocFailsKeeps ==
  ASSUME ArenaIInv, NEW n \in AllocSizes, NEW align \in Aligns, AllocDynamicFails(n, align)
  PROVE  ArenaIInv'
<1>1. /\ Published /\ UNCHANGED <<starter, pageVars, written, stacks, slab>>
      /\ \E P : MapNothing(P)
  BY DEF AllocDynamicFails
<1> QED
  BY <1>1, MapNothingStep

LEMMA ReleaseDynamicKeeps ==
  ASSUME ArenaIInv, NEW first \in DOMAIN dynamic, ReleaseDynamic(first)
  PROVE  ArenaIInv'
<1> DEFINE n == dynamic[first]
           P == Run(first, n)
           emptied == {Segment(s) : s \in {x \in SegmentsOf(P) : live'[x] = 0}}
<1>1. /\ live' = [s \in Segments |-> live[s] - Overlap(s, P)]
      /\ ReturnExtent(first, n) /\ dynamic' = Without(dynamic, {first})
      /\ UNCHANGED <<starter, sparse, written, stacks, slab>>
  BY DEF ReleaseDynamic
<1>2. PICK stuck \in SUBSET emptied : UnmapAll(emptied, stuck)
  BY DEF ReleaseDynamic
<1>3. first \in Nat /\ n \in Nat \ {0}
  BY DEF ArenaIInv, PagesIInv, HeldTyped
<1>4. \A s \in Segments : Segment(s) \in emptied => live'[s] = 0
  BY PlacesApart
<1>5. P \subseteq LivePages
  BY DEF LivePages
<1> HIDE DEF emptied
<1>6. DonorIInv' /\ DOMAIN backing' = DOMAIN backing \ (emptied \ stuck)
  BY <1>1, <1>2, UnmapAllKeeps DEF ArenaIInv
<1>7. /\ DOMAIN dynamic' = DOMAIN dynamic \ {first}
      /\ \A f \in DOMAIN dynamic' : dynamic'[f] = dynamic[f]
      /\ LivePages' = LivePages \ P
  <2>1. \A f \in DOMAIN dynamic : f # first => Run(first, dynamic[first]) \cap Run(f, dynamic[f]) = {}
    BY HeldApart DEF ArenaIInv, PagesIInv
  <2>2. /\ DOMAIN Without(dynamic, {first}) = DOMAIN dynamic \ {first}
        /\ \A f \in DOMAIN dynamic \ {first} : Without(dynamic, {first})[f] = dynamic[f]
        /\ Spread(Without(dynamic, {first})) = Spread(dynamic) \ Run(first, dynamic[first])
    BY <2>1, SpreadWithout
  <2> QED
    BY <1>1, <2>2, SpreadNames
<1>8. sparse' = sparse /\ Reserved' = Reserved
  BY <1>1 DEF Reserved
<1>9. <<"dynamic", first, n>> \in HeldRuns /\ HeldRuns' = HeldRuns \ {<<"dynamic", first, n>>}
  <2>1. HeldRuns = {<<"dynamic", f, dynamic[f]>> : f \in DOMAIN dynamic}
                     \cup {<<"sparse", f, sparse[f]>> : f \in DOMAIN sparse}
    BY DEF HeldRuns
  <2>2. HeldRuns' = {<<"dynamic", f, dynamic[f]>> : f \in DOMAIN dynamic \ {first}}
                      \cup {<<"sparse", f, sparse[f]>> : f \in DOMAIN sparse}
    BY <1>7, <1>8 DEF HeldRuns
  <2> QED
    BY <2>1, <2>2
<1>10. ExtentsTyped' /\ PagesPartitioned'
  BY <1>1, <1>3, <1>9, ReturnKeeps DEF ArenaIInv, PagesIInv
<1>11. HeldTyped' /\ SparseWhole'
  BY <1>7, <1>8 DEF ArenaIInv, PagesIInv, HeldTyped, SparseWhole
<1>12. LiveTyped' /\ \A s \in Segments : live'[s] = Overlap(s, LivePages')
  <2>1. \A s \in Segments : live[s] \in Nat /\ live[s] = Overlap(s, LivePages)
    BY DEF ArenaIInv, PagesIInv, LiveTyped, SegmentsExact
  <2>2. \A s \in Segments : Overlap(s, LivePages) = Overlap(s, LivePages') + Overlap(s, P)
    <3>1. LivePages' \cap P = {} /\ LivePages = LivePages' \cup P
      BY <1>5, <1>7
    <3> QED
      BY <3>1, OverlapSum
  <2>3. \A s \in Segments : Overlap(s, P) \in Nat /\ Overlap(s, LivePages') \in Nat
    BY OverlapFacts
  <2> QED
    BY <1>1, <2>1, <2>2, <2>3 DEF LiveTyped
<1>13. \A f \in DOMAIN dynamic' : \A s \in SegmentsOf(Run(f, dynamic'[f])) :
         Segment(s) \in DOMAIN backing'
  <2> SUFFICES ASSUME NEW f \in DOMAIN dynamic', NEW s \in SegmentsOf(Run(f, dynamic'[f]))
               PROVE  Segment(s) \in DOMAIN backing'
    OBVIOUS
  <2>1. s \in Segments /\ PlacePages(Segment(s)) \cap Run(f, dynamic'[f]) # {}
    BY DEF SegmentsOf
  <2>2. Run(f, dynamic'[f]) \subseteq LivePages'
    BY DEF LivePages
  <2>3. Overlap(s, LivePages') # 0
    BY <2>1, <2>2, OverlapFacts
  <2>4. Segment(s) \notin emptied
    BY <1>4, <1>12, <2>1, <2>3
  <2>5. Segment(s) \in DOMAIN backing
    BY <1>7 DEF ArenaIInv, PagesIInv, SegmentsExact, Backed
  <2> QED
    BY <1>6, <2>4, <2>5
<1>14. SegmentsExact'
  <2>1. \A s \in Segments : Segment(s) \in DOMAIN backing' =>
          PlacePages(Segment(s)) \cap Reserved' = {}
    BY <1>6, <1>8 DEF ArenaIInv, PagesIInv, SegmentsExact, Backed
  <2> QED
    BY <1>12, <1>13, <2>1 DEF SegmentsExact, Backed
<1>15. OneStart'
  <2>1. Published
    BY ArenaInUse DEF ArenaIInv
  <2> QED
    BY <1>1, <2>1, StartKept DEF ArenaIInv
<1>16. FreshIsZero' /\ SlabTyped'
  BY <1>1, <1>8 DEF ArenaIInv, FreshIsZero, SlabTyped
<1> QED
  BY <1>6, <1>10, <1>11, <1>12, <1>14, <1>15, <1>16 DEF ArenaIInv, PagesIInv

-----------------------------------------------------------------------------
(* Sparse reservations *)

\* A reservation begins and ends where a segment does.
LEMMA AlignedFirst ==
  ASSUME NEW f \in Nat, f % SparseAlign = 0
  PROVE  f % SegmentPages = 0
<1>1. SparseAlign \in Nat \ {0} /\ SegmentPages \in Nat \ {0} /\ SparseAlign % SegmentPages = 0
  BY ArenaAssumption
<1>2. PICK a \in Nat : f = a * SparseAlign
  BY <1>1, WholeIn
<1>3. PICK b \in Nat : SparseAlign = b * SegmentPages
  BY <1>1, WholeIn
<1>4. f = (a * b) * SegmentPages /\ a * b \in Nat
  BY <1>1, <1>2, <1>3
<1>5. PICK c \in Nat : c = a * b
  BY <1>4
<1>6. PICK m \in Nat \ {0} : m = SegmentPages
  BY <1>1
<1>7. (c * m) % m = 0
  OBVIOUS
<1> QED
  BY <1>4, <1>5, <1>6, <1>7

LEMMA ReserveKeeps ==
  ASSUME ArenaIInv, NEW n \in 1 .. DynamicPages, n % SegmentPages = 0, ReserveSparse(n)
  PROVE  ArenaIInv'
<1> DEFINE first == Min(SparseFits(n))
           P == Run(first, n)
<1>1. /\ Published /\ SparseFits(n) # {} /\ sparse' = With(sparse, first, n)
      /\ UNCHANGED <<starter, dynamic, live, written, backing, donorVars, stacks, slab>>
  BY DEF ReserveSparse
<1>2. PICK e : /\ e = CHOOSE x \in extents : x[1] <= first /\ first + n <= x[1] + x[2]
               /\ ConsumeExtent(e, first, n)
  BY DEF ReserveSparse
<1>3. n \in Nat \ {0}
  BY ArenaAssumption
<1>4. /\ e \in extents /\ first \in Nat /\ first % SparseAlign = 0
      /\ e[1] <= first /\ first + n <= e[1] + e[2] /\ NothingBacked(P)
  BY <1>1, <1>2, <1>3, ReserveFits DEF ArenaIInv, PagesIInv
<1> HIDE DEF first
<1>5. P \cap LivePages = {} /\ P \cap Reserved = {} /\ first \notin DOMAIN sparse
  BY <1>3, <1>4, CutApart DEF ArenaIInv
<1>6. first % SegmentPages = 0
  BY <1>4, AlignedFirst
<1>7. /\ DOMAIN sparse' = DOMAIN sparse \cup {first} /\ sparse'[first] = n
      /\ \A f \in DOMAIN sparse : sparse'[f] = sparse[f]
      /\ Reserved' = Reserved \cup P
  <2>1. /\ DOMAIN sparse' = DOMAIN sparse \cup {first} /\ sparse'[first] = n
        /\ \A f \in DOMAIN sparse : sparse'[f] = sparse[f]
    BY <1>1, <1>5 DEF With
  <2>2. Spread(sparse') = Spread(sparse) \cup P
    BY <1>1, <1>5, SpreadWith
  <2> QED
    BY <2>1, <2>2, SpreadNames
<1>8. dynamic' = dynamic /\ LivePages' = LivePages
  BY <1>1 DEF LivePages
<1>9. HeldRuns' = HeldRuns \cup {<<"sparse", first, n>>}
  BY <1>7, <1>8 DEF HeldRuns
<1>10. ExtentsTyped' /\ PagesPartitioned'
  <2>1. "sparse" # "free"
    OBVIOUS
  <2> QED
    BY <1>2, <1>3, <1>4, <1>9, <2>1, ConsumeKeeps DEF ArenaIInv, PagesIInv
<1>11. HeldTyped'
  BY <1>3, <1>4, <1>7, <1>8 DEF ArenaIInv, PagesIInv, HeldTyped
<1>12. SparseWhole'
  BY <1>6, <1>7 DEF ArenaIInv, PagesIInv, SparseWhole
<1>13. SegmentsExact'
  <2>1. /\ \A s \in Segments : live'[s] = Overlap(s, LivePages')
        /\ \A f \in DOMAIN dynamic' : \A s \in SegmentsOf(Run(f, dynamic'[f])) :
             Segment(s) \in DOMAIN backing'
    BY <1>1, <1>8 DEF ArenaIInv, PagesIInv, SegmentsExact, Backed
  <2>2. \A s \in Segments : Segment(s) \in DOMAIN backing =>
          PlacePages(Segment(s)) \cap Reserved = {} /\ PlacePages(Segment(s)) \cap P = {}
    BY <1>4 DEF ArenaIInv, PagesIInv, SegmentsExact, Backed, NothingBacked
  <2>3. \A s \in Segments : Segment(s) \in DOMAIN backing' =>
          PlacePages(Segment(s)) \cap Reserved' = {}
    BY <1>1, <1>7, <2>2
  <2> QED
    BY <2>1, <2>3 DEF SegmentsExact, Backed
<1>14. DonorIInv' /\ LiveTyped' /\ FreshIsZero' /\ SlabTyped'
  BY <1>1, <1>7 DEF ArenaIInv, DonorIInv, DonorExact, DonorRuns, PlacesTyped, PagesIInv, LiveTyped,
     FreshIsZero, SlabTyped, donorVars
<1>15. OneStart'
  BY <1>1, StartKept DEF ArenaIInv
<1> QED
  BY <1>10, <1>11, <1>12, <1>13, <1>14, <1>15 DEF ArenaIInv, PagesIInv

LEMMA FreeKeeps ==
  ASSUME ArenaIInv, NEW first \in DOMAIN sparse, FreeSparse(first)
  PROVE  ArenaIInv'
<1> DEFINE n == sparse[first]
           P == Run(first, n)
           whole == {Granule(g) : g \in {x \in GranulesOf(P) : PlacePages(Granule(x)) \subseteq P}}
<1>1. /\ written' = written \ P /\ ReturnExtent(first, n) /\ sparse' = Without(sparse, {first})
      /\ UNCHANGED <<starter, dynamic, live, stacks, slab>>
  BY DEF FreeSparse, Decommit
<1>2. PICK stuck \in SUBSET {p \in whole : Backed(p)} : UnmapAll(whole, stuck)
  BY DEF FreeSparse, Decommit
<1>3. \A s \in Segments : Segment(s) \notin whole
  BY PlacesApart
<1>4. first \in Nat /\ n \in Nat \ {0}
  BY DEF ArenaIInv, PagesIInv, HeldTyped
<1> HIDE DEF whole
<1>5. DonorIInv' /\ DOMAIN backing' = DOMAIN backing \ (whole \ stuck)
  BY <1>1, <1>2, UnmapAllKeeps DEF ArenaIInv
<1>6. \A s \in Segments : Segment(s) \in DOMAIN backing' <=> Segment(s) \in DOMAIN backing
  BY <1>3, <1>5
<1>7. /\ DOMAIN sparse' = DOMAIN sparse \ {first}
      /\ \A f \in DOMAIN sparse' : sparse'[f] = sparse[f]
      /\ Reserved' = Reserved \ P
  <2>1. \A f \in DOMAIN sparse : f # first => Run(first, sparse[first]) \cap Run(f, sparse[f]) = {}
    BY HeldApart DEF ArenaIInv, PagesIInv
  <2>2. /\ DOMAIN Without(sparse, {first}) = DOMAIN sparse \ {first}
        /\ \A f \in DOMAIN sparse \ {first} : Without(sparse, {first})[f] = sparse[f]
        /\ Spread(Without(sparse, {first})) = Spread(sparse) \ Run(first, sparse[first])
    BY <2>1, SpreadWithout
  <2> QED
    BY <1>1, <2>2, SpreadNames
<1>8. dynamic' = dynamic /\ LivePages' = LivePages
  BY <1>1 DEF LivePages
<1>9. <<"sparse", first, n>> \in HeldRuns /\ HeldRuns' = HeldRuns \ {<<"sparse", first, n>>}
  <2>1. HeldRuns = {<<"dynamic", f, dynamic[f]>> : f \in DOMAIN dynamic}
                     \cup {<<"sparse", f, sparse[f]>> : f \in DOMAIN sparse}
    BY DEF HeldRuns
  <2>2. HeldRuns' = {<<"dynamic", f, dynamic[f]>> : f \in DOMAIN dynamic}
                      \cup {<<"sparse", f, sparse[f]>> : f \in DOMAIN sparse \ {first}}
    BY <1>7, <1>8 DEF HeldRuns
  <2> QED
    BY <2>1, <2>2
<1>10. ExtentsTyped' /\ PagesPartitioned'
  BY <1>1, <1>4, <1>9, ReturnKeeps DEF ArenaIInv, PagesIInv
<1>11. HeldTyped' /\ SparseWhole'
  BY <1>7, <1>8 DEF ArenaIInv, PagesIInv, HeldTyped, SparseWhole
<1>12. SegmentsExact'
  <2>1. /\ \A s \in Segments : live'[s] = Overlap(s, LivePages')
        /\ \A f \in DOMAIN dynamic' : \A s \in SegmentsOf(Run(f, dynamic'[f])) :
             Segment(s) \in DOMAIN backing'
    BY <1>1, <1>6, <1>8 DEF ArenaIInv, PagesIInv, SegmentsExact, Backed, SegmentsOf
  <2>2. \A s \in Segments : Segment(s) \in DOMAIN backing' =>
          PlacePages(Segment(s)) \cap Reserved' = {}
    BY <1>6, <1>7 DEF ArenaIInv, PagesIInv, SegmentsExact, Backed
  <2> QED
    BY <2>1, <2>2 DEF SegmentsExact, Backed
<1>13. LiveTyped' /\ FreshIsZero' /\ SlabTyped'
  BY <1>1, <1>7 DEF ArenaIInv, PagesIInv, LiveTyped, FreshIsZero, SlabTyped
<1>14. OneStart'
  <2>1. Published
    BY ArenaInUse DEF ArenaIInv
  <2> QED
    BY <1>1, <2>1, StartKept DEF ArenaIInv
<1> QED
  BY <1>5, <1>10, <1>11, <1>12, <1>13, <1>14 DEF ArenaIInv, PagesIInv

-----------------------------------------------------------------------------
LEMMA ArenaStep == ArenaIInv /\ [ArenaNext]_arenaVars => ArenaIInv'
<1> SUFFICES ASSUME ArenaIInv, [ArenaNext]_arenaVars
             PROVE  ArenaIInv'
  OBVIOUS
<1>1. CASE \E t \in Starters : PrepareBegin(t) \/ PrepareFails(t) \/ PublishArena(t)
  BY <1>1, PrepareBeginKeeps, PrepareFailsKeeps, PublishKeeps
<1>2. CASE \E n \in AllocSizes, align \in Aligns :
             AllocDynamic(n, align) \/ AllocDynamicFails(n, align)
  BY <1>2, AllocKeeps, AllocFailsKeeps
<1>3. CASE \E first \in DOMAIN dynamic : ReleaseDynamic(first)
  BY <1>3, ReleaseDynamicKeeps
<1>4. CASE \E n \in StackUnits : StackAlloc(n)
  BY <1>4, StackAllocKeeps
<1>5. CASE \E first \in DOMAIN stacks : StackFree(first)
  BY <1>5, StackFreeKeeps
<1>6. CASE \E n \in 1 .. DynamicPages : n % SegmentPages = 0 /\ ReserveSparse(n)
  BY <1>6, ReserveKeeps
<1>7. CASE \E first \in Reserved : \E n \in AllocSizes : ProtectSparse(Run(first, n))
  BY <1>7, SparseKeeps
<1>8. CASE \E p \in Touched : WritePage(p)
  BY <1>8, WriteKeeps
<1>9. CASE \E first \in Reserved : \E n \in AllocSizes :
             Run(first, n) \subseteq 0 .. DynamicPages - 1 /\ DiscardPages(Run(first, n))
  BY <1>9, SparseKeeps
<1>10. CASE \E first \in DOMAIN sparse : FreeSparse(first)
  BY <1>10, FreeKeeps
<1>11. CASE PrepareSlab \/ ClaimSlab \/ RetireSlab
  BY <1>11, SlabKeeps, RetireKeeps
<1>12. CASE \E c \in Chunks : CommitChunk(c) \/ DiscardChunk(c)
  BY <1>12, ChunkKeeps
<1>13. CASE UNCHANGED arenaVars
  <2>1. UNCHANGED <<starter, pageVars, written, backing, donorVars, stacks, slab>>
    BY <1>13 DEF arenaVars
  <2>2. PagesIInv'
    BY <2>1, PagesKept DEF ArenaIInv
  <2>3. OneStart'
    BY <2>1 DEF ArenaIInv, OneStart, Published, Untouched, pageVars, donorVars
  <2>4. DonorIInv' /\ FreshIsZero' /\ SlabTyped'
    BY <2>1 DEF ArenaIInv, DonorIInv, DonorExact, DonorRuns, PlacesTyped, donorVars, FreshIsZero,
       Reserved, pageVars, SlabTyped
  <2> QED
    BY <2>2, <2>3, <2>4 DEF ArenaIInv
<1> QED
  BY <1>1, <1>2, <1>3, <1>4, <1>5, <1>6, <1>7, <1>8, <1>9, <1>10, <1>11, <1>12, <1>13 DEF ArenaNext

\* The arena hands no page and no donor unit out twice and loses none, its
\* live counts are exact, and pages that were given back read as zero again
\* (libc_shim.c oc_pool_owned_alloc, oc_alloc_locked, oc_commit_locked,
\* oc_decommit_locked, oc_free_locked), for every size of the arena and of
\* the donor heap, any number of starting threads and every refusal of the
\* kernel.
THEOREM ArenaSafety == ArenaSpec => []ArenaSound
<1>1. ArenaInit => ArenaIInv
  BY ArenaStarts
<1>2. ArenaIInv /\ [ArenaNext]_arenaVars => ArenaIInv'
  BY ArenaStep
<1>3. ArenaIInv => ArenaSound
  BY ArenaInvImplies
<1> QED
  BY <1>1, <1>2, <1>3, PTL DEF ArenaSpec
=============================================================================
