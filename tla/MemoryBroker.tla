---------------------------- MODULE MemoryBroker ----------------------------
(***************************************************************************)
(* Two allocators behind one malloc.  Newlib's heap comes first for small  *)
(* blocks, the pages of the sparse pool for large blocks of the host and   *)
(* for whatever newlib cannot serve; newlib itself grows into the pool     *)
(* once its own memory is spent.  The guest's functions (imports.c) and    *)
(* the host's (the linker's wrappers in memory_broker.c) must find out     *)
(* from an address alone which allocator a block belongs to.               *)
(*                                                                         *)
(* A call from inside the broker (its thread owns g_mmap_lock, or          *)
(* memory_broker_depth is not zero) gets nothing from the pool and cannot  *)
(* ask it; neither can anybody ask about pages lent to a thread as its     *)
(* stack, which the kernel makes inaccessible meanwhile.                   *)
(***************************************************************************)
EXTENDS Integers, FiniteSets, FiniteSetsExt

CONSTANTS
  Blocks,           \* allocations that can exist at one time
  Sizes,            \* sizes asked for, none zero and none above an extension
  PageBytes,        \* MMAP_PAGE
  LargeBytes,       \* OC_BROKER_LARGE_ALLOC_BYTES
  HeapBytes,        \* newlib's memory without extensions
  PoolPages,        \* pages of the pool
  ExtensionPages,   \* SBRK_EXTENSION_BLOCK_MIN
  MaxExtensions     \* SBRK_EXTENSION_TOTAL_MAX, in extensions

ASSUME BrokerAssumption ==
  /\ Sizes \subseteq Nat /\ PageBytes \in Nat \ {0} /\ MaxExtensions \in Nat

VARIABLES
  block,       \* [Blocks -> UnusedBlock or a block]
  extensions,  \* number of blocks that _sbrk_r took from the pool
  spoilt       \* newlib was given an address it does not own

brokerVars == <<block, extensions, spoilt>>

Abis   == {"guest", "host"}
Places == {"heap", "extension", "pool"}
UnusedBlock == [place |-> "none"]

\* size is the caller's, asked the one in the pool's record; whole: the bytes that
\* the caller stored are there; held: the caller still has the pointer, and
\* otherwise why says what kept its last call from releasing the block.
Block == [place: Places, size: Sizes, asked: Sizes, owner: Abis \union {"thread"},
          held: BOOLEAN, lent: BOOLEAN, whole: BOOLEAN,
          why: {"none", "inside", "lent", "foreign", "extension"}]

BrokerTypeOK ==
  /\ block \in [Blocks -> Block \union {UnusedBlock}]
  /\ extensions \in 0 .. MaxExtensions
  /\ spoilt \in BOOLEAN

BrokerInit ==
  /\ block = [b \in Blocks |-> UnusedBlock]
  /\ extensions = 0
  /\ spoilt = FALSE

FreeBlocks     == {b \in Blocks : block[b] = UnusedBlock}
HeldNow  == {b \in Blocks \ FreeBlocks : block[b].held}
In(p)    == {b \in Blocks : block[b].place = p}
Lower(m, n) == IF m < n THEN m ELSE n

PagesOf(n)     == (n + PageBytes - 1) \div PageBytes
PoolPagesOf(b) == PagesOf(block[b].asked)
BytesIn(p)     == MapThenSumSet(LAMBDA b : block[b].size, In(p))
PoolUsed       == MapThenSumSet(PoolPagesOf, In("pool")) + extensions * ExtensionPages

\* What the pool serves, and what newlib serves beside the blocks in "but".
PoolServes(n, inside) == ~inside /\ PoolUsed + PagesOf(n) <= PoolPages

Room(p) == IF p = "heap" THEN HeapBytes ELSE extensions * ExtensionPages * PageBytes

Fits(p, n, but) ==
  BytesIn(p) - MapThenSumSet(LAMBDA b : block[b].size, In(p) \intersect but) + n <= Room(p)

CanExtend(inside) ==
  ~inside /\ extensions < MaxExtensions /\ PoolUsed + ExtensionPages <= PoolPages

NewlibServes(n, inside, but) ==
  LET now == {p \in {"heap", "extension"} : Fits(p, n, but)}
  IN  IF now # {} THEN {[place |-> p, grown |-> 0] : p \in now}
      ELSE IF CanExtend(inside) THEN {[place |-> "extension", grown |-> 1]}
      ELSE {}

FromPool(n, inside) ==
  IF PoolServes(n, inside) THEN {[place |-> "pool", grown |-> 0]} ELSE {}

FirstOf(choice, otherwise) == IF choice # {} THEN choice ELSE otherwise

\* malloc, calloc, memalign, aligned_alloc and posix_memalign of either side.
Served(abi, n, inside) ==
  LET rest == FirstOf(NewlibServes(n, inside, {}), FromPool(n, inside))
  IN  IF abi = "host" /\ n >= LargeBytes
        THEN FirstOf(FromPool(n, inside), rest)
        ELSE rest

Fresh(s, n, owner) ==
  [place |-> s.place, size |-> n, asked |-> n, owner |-> owner, held |-> TRUE,
   lent |-> FALSE, whole |-> TRUE, why |-> "none"]

AllocateBlock(abi, n, inside) ==
  /\ FreeBlocks # {}
  /\ \E s \in Served(abi, n, inside) :
       /\ block' = [block EXCEPT ![Min(FreeBlocks)] = Fresh(s, n, abi)]
       /\ extensions' = extensions + s.grown
  /\ UNCHANGED spoilt

(***************************************************************************)
(* Whose block is it?  The pool answers for the pages it recorded, unless  *)
(* the caller is inside the broker or the pages are lent; the guest asks   *)
(* only for the guest's.  When the pool does not answer, its address       *)
(* ranges do, and they cover newlib's extensions too.                      *)
(***************************************************************************)
Answers(b, abi, inside) ==
  /\ block[b].place = "pool"
  /\ ~inside /\ ~block[b].lent
  /\ abi # "host" => block[b].owner = abi

\* A mutant of the next definition: the records of the pool are asked instead.
RecordedNow(b) == block[b].place = "pool" /\ ~block[b].lent

ContainsAddress(b) == block[b].place \in {"pool", "extension"}

Why(b, abi, inside) ==
  CASE block[b].place = "extension" -> "extension"
    [] block[b].place = "heap" -> "none"
    [] inside -> "inside"
    [] block[b].lent -> "lent"
    [] abi = "guest" /\ block[b].owner # "guest" -> "foreign"
    [] OTHER -> "none"

ToNewlib(b) ==
  IF block[b].place = "pool"
    THEN spoilt' = TRUE /\ UNCHANGED block
    ELSE block' = [block EXCEPT ![b] = UnusedBlock] /\ UNCHANGED spoilt

\* free: what is in the pool's ranges and does not answer is kept for ever.
ReleaseBlock(abi, b, inside) ==
  /\ b \in HeldNow
  /\ IF Answers(b, abi, inside)
       THEN block' = [block EXCEPT ![b] = UnusedBlock] /\ UNCHANGED spoilt
     ELSE IF ContainsAddress(b)
       THEN /\ block' = [block EXCEPT ![b].held = FALSE,
                                      ![b].why = Why(b, abi, inside)]
            /\ UNCHANGED spoilt
     ELSE ToNewlib(b)
  /\ UNCHANGED extensions

(***************************************************************************)
(* realloc.  A block of the pool stays where it is while its pages         *)
(* suffice, and is otherwise copied: as many bytes as its pages hold, for  *)
(* the record's size is the one first asked for.                           *)
(***************************************************************************)
Usable(b) ==
  IF block[b].place = "pool" THEN PoolPagesOf(b) * PageBytes ELSE block[b].size

Copied(b, n) == Lower(Usable(b), n)

\* The block moves: the old place is released after the bytes were copied.
Moved(b, n, s, owner) ==
  [Fresh(s, n, owner) EXCEPT
     !.whole = block[b].whole /\ Copied(b, n) >= Lower(block[b].size, n)]

MoveBlock(b, n, s, owner) ==
  /\ block' = [block EXCEPT ![b] = Moved(b, n, s, owner)]
  /\ extensions' = extensions + s.grown

GrowInPool(abi, b, n, inside) ==
  /\ b \in HeldNow /\ Answers(b, abi, inside)
  /\ IF n <= Usable(b)
       THEN block' = [block EXCEPT ![b].size = n] /\ UNCHANGED extensions
       ELSE \E s \in Served(abi, n, inside) : MoveBlock(b, n, s, abi)
  /\ UNCHANGED spoilt

\* newlib resizes or moves the block, which then is no part of what it has to fit
\* beside; a host block that grows large leaves newlib, and so does one that newlib
\* cannot resize.
Resized(abi, b, n, inside) ==
  LET kept == NewlibServes(n, inside, {b})
      rest == FirstOf(kept, FromPool(n, inside))
  IN  IF abi = "host" /\ n >= LargeBytes
        THEN FirstOf(FromPool(n, inside), rest)
        ELSE rest

GrowInNewlib(abi, b, n, inside) ==
  /\ b \in HeldNow /\ ~Answers(b, abi, inside) /\ ~ContainsAddress(b)
  /\ IF block[b].place = "pool"
       THEN spoilt' = TRUE /\ UNCHANGED <<block, extensions>>
       ELSE /\ \E s \in Resized(abi, b, n, inside) : MoveBlock(b, n, s, abi)
            /\ UNCHANGED spoilt

\* realloc to nothing releases, except that what only the ranges know stays held:
\* the answer is ENOMEM, as it is to every other size.
ShrinkToNothing(abi, b, inside) ==
  /\ b \in HeldNow
  /\ Answers(b, abi, inside) \/ ~ContainsAddress(b)
  /\ ReleaseBlock(abi, b, inside)

(***************************************************************************)
(* Stacks: pages of the pool that a thread owns, lent to the kernel while  *)
(* the thread runs.  A guest may also provide a stack from its own blocks. *)
(***************************************************************************)
ThreadAlloc(n, inside) ==
  /\ FreeBlocks # {} /\ PoolServes(n, inside)
  /\ block' = [block EXCEPT ![Min(FreeBlocks)] =
                 Fresh([place |-> "pool", grown |-> 0], n, "thread")]
  /\ UNCHANGED <<extensions, spoilt>>

\* svcMapMemory of the stack and threadClose.
Lend(b) ==
  /\ b \in HeldNow \intersect In("pool") /\ block[b].owner # "host"
  /\ block' = [block EXCEPT ![b].lent = ~block[b].lent]
  /\ UNCHANGED <<extensions, spoilt>>

ThreadRelease(b, inside) ==
  /\ b \in HeldNow /\ block[b].owner = "thread"
  /\ Answers(b, "thread", inside)
  /\ block' = [block EXCEPT ![b] = UnusedBlock]
  /\ UNCHANGED <<extensions, spoilt>>

BrokerNext ==
  \E inside \in BOOLEAN :
    \/ \E n \in Sizes : ThreadAlloc(n, inside)
    \/ \E b \in Blocks : Lend(b) \/ ThreadRelease(b, inside)
    \/ \E abi \in Abis :
         \/ \E n \in Sizes : AllocateBlock(abi, n, inside)
         \/ \E b \in Blocks :
              \/ ReleaseBlock(abi, b, inside)
              \/ ShrinkToNothing(abi, b, inside)
              \/ \E n \in Sizes : GrowInPool(abi, b, n, inside)
              \/ \E n \in Sizes : GrowInNewlib(abi, b, n, inside)

BrokerSpec == BrokerInit /\ [][BrokerNext]_brokerVars

\* Newlib is never given an address of the pool, whoever frees or resizes a block
\* and from wherever (memory_broker.c:252-257, imports.c:147-151); a block keeps the
\* bytes its owner stored through every move, in-place growth included; and a freed
\* block stays allocated only for one of the four reasons the code allows.
BlocksKept ==
  /\ ~spoilt
  /\ \A b \in HeldNow : block[b].whole
  /\ \A b \in Blocks \ (FreeBlocks \union HeldNow) : block[b].why # "none"
=============================================================================
