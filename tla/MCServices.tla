---------------------------- MODULE MCServices ----------------------------
(***************************************************************************)
(* The services of the wrapper that the guest uses, for TLC: the name      *)
(* resolver and the components below.  They share no state, in the code    *)
(* either, so that a behaviour exercises the one that "part" names and     *)
(* leaves the others in their first state.                                 *)
(***************************************************************************)
EXTENDS Resolver, ThreadKeys, PthreadStorage, Semaphores, AudioPlayers, Looper,
        WindowGeometry, FileSizes, SessionStore, Epoll, MemoryBroker, FileMaps, GameData,
        AssetPack, FrameLoop, PluginLoader, NetworkPoll, JniReferences, Arena

CONSTANTS c1, c2, w1, w2, q1, q2

VARIABLE part

TwoCallers   == {c1, c2}
TwoWorkers   == {w1, w2}
TwoQueries   == {q1, q2}

\* Two libraries that need each other, one of which a fourth needs, one that nobody
\* needs but that has a symbol the fourth imports, and one that is missing.
BundledNeeds   == [l \in Libraries |-> CASE l = "a" -> <<"b">>
                                      [] l = "b" -> <<"a">>
                                      [] l = "d" -> <<"b">>
                                      [] OTHER   -> <<>>]
BundledImports == [l \in Libraries |-> CASE l = "a" -> {"b"}
                                      [] l = "b" -> {"a"}
                                      [] l = "d" -> {"b", "c"}
                                      [] OTHER   -> {}]
BundledPages   == [l \in Libraries |-> 1]

\* The releases 1 and 2 are for one version of the program.
ClientOfBuilds == <<1, 1, 2>>

allVars  == <<part, vars, arenaVars, storageVars, keyVars, semVars, audioVars, looperVars,
              windowVars, sizeVars, sessionVars, frameVars, epollVars, netVars, brokerVars,
              pluginVars, mapVars, dataVars, packVars, jniVars>>

\* Initial states that differ are told apart in the part that runs.
MCInit ==
  /\ part \in {"resolver", "arena", "storage", "keys", "semaphores", "audio", "looper",
               "window", "sizes", "session", "frames", "epoll", "network", "broker",
               "plugins", "files", "data", "pack", "jni"}
  /\ Init /\ ArenaInit /\ StorageInit /\ KeysInit /\ SemInit /\ AudioInit
  /\ LooperInit /\ WindowInit /\ SizesInit /\ SessionInit /\ FrameInit
  /\ EpollInit /\ NetInit /\ BrokerInit /\ PluginInit /\ MapInit
  /\ DataInit /\ PackInit /\ JniInit
  /\ part # "semaphores" => count = [s \in {1, 2} |-> 0]
  /\ part # "window" => base = 720 /\ actual = 720
  /\ part # "session" => legacyFile = 0 /\ stored = 0
  /\ part # "frames" => saved = "none"

\* How many threads build the pool.  A late one only finds that it has lost the race, which
\* is shown before the first allocation.
Builders == IF dynamic = <<>> /\ sparse = <<>> /\ stacks = <<>> /\ slab = "empty"
            THEN Cardinality({t \in Starters : starter[t] = "building"}) ELSE 0

\* Callers and workers of the resolver are alike, and so are the threads of a looper.
Alike(S, State(_)) ==
  [o \in {State(x) : x \in S} |-> Cardinality({x \in S : State(x) = o})]
CallerState(c) == <<caller[c], c \in expired, c \in asleep>>
WorkerState(w) == <<worker[w], w \in asleep>>
PollerState(t) == <<cookie[t], poll[t], {l \in Loopers : looper[l].owner = t}>>

\* The part that moves tells two states apart.
Moving ==
  CASE part = "resolver"    -> <<part, pool, listVars, pending, cache, jobVars,
                                Alike(Caller, CallerState), Alike(Worker, WorkerState)>>
    [] part = "arena"       -> <<part, Published, Tail(arenaVars), Builders>>
    [] part = "storage"     -> <<part, storageVars>>
    [] part = "keys"        -> <<part, keyVars>>
    [] part = "semaphores"  -> <<part, semVars>>
    [] part = "audio"       -> <<part, audioVars>>
    [] part = "looper"      -> <<part, [l \in Loopers |-> [looper[l] EXCEPT !.owner = Nobody]],
                                wanted, Alike(LThreads, PollerState)>>
    [] part = "window"      -> <<part, windowVars>>
    [] part = "sizes"       -> <<part, sizeVars>>
    [] part = "session"     -> <<part, sessionVars>>
    [] part = "frames"      -> <<part, FrameView>>
    [] part = "epoll"       -> <<part, epollVars>>
    [] part = "network"     -> <<part, netVars>>
    [] part = "broker"      -> <<part, brokerVars>>
    [] part = "plugins"     -> <<part, pluginVars>>
    [] part = "files"       -> <<part, mapVars>>
    [] part = "data"        -> <<part, dataVars>>
    [] part = "pack"        -> <<part, PackView>>
    [] part = "jni"         -> <<part, jniVars>>

Only(p) ==
  /\ part = p /\ UNCHANGED part
  /\ IF p = "resolver" THEN TRUE ELSE UNCHANGED vars
  /\ IF p = "arena" THEN TRUE ELSE UNCHANGED arenaVars
  /\ IF p = "storage" THEN TRUE ELSE UNCHANGED storageVars
  /\ IF p = "keys" THEN TRUE ELSE UNCHANGED keyVars
  /\ IF p = "semaphores" THEN TRUE ELSE UNCHANGED semVars
  /\ IF p = "audio" THEN TRUE ELSE UNCHANGED audioVars
  /\ IF p = "looper" THEN TRUE ELSE UNCHANGED looperVars
  /\ IF p = "window" THEN TRUE ELSE UNCHANGED windowVars
  /\ IF p = "sizes" THEN TRUE ELSE UNCHANGED sizeVars
  /\ IF p = "session" THEN TRUE ELSE UNCHANGED sessionVars
  /\ IF p = "frames" THEN TRUE ELSE UNCHANGED frameVars
  /\ IF p = "epoll" THEN TRUE ELSE UNCHANGED epollVars
  /\ IF p = "network" THEN TRUE ELSE UNCHANGED netVars
  /\ IF p = "broker" THEN TRUE ELSE UNCHANGED brokerVars
  /\ IF p = "plugins" THEN TRUE ELSE UNCHANGED pluginVars
  /\ IF p = "files" THEN TRUE ELSE UNCHANGED mapVars
  /\ IF p = "data" THEN TRUE ELSE UNCHANGED dataVars
  /\ IF p = "pack" THEN TRUE ELSE UNCHANGED packVars
  /\ IF p = "jni" THEN TRUE ELSE UNCHANGED jniVars

\* These parts stop where a bound of theirs (on births, lives, stamps, extensions, loads
\* or packs) is spent.
BoundsSpent ==
  /\ part \in {"keys", "looper", "epoll", "broker", "plugins", "data"}
  /\ UNCHANGED allVars

MCNext ==
  \/ Only("resolver") /\ Next
  \/ Only("arena") /\ ArenaNext
  \/ Only("storage") /\ StorageNext
  \/ Only("keys") /\ KeysNext
  \/ Only("semaphores") /\ SemNext
  \/ Only("audio") /\ AudioNext
  \/ Only("looper") /\ LooperNext
  \/ Only("window") /\ WindowNext
  \/ Only("sizes") /\ SizesNext
  \/ Only("session") /\ SessionNext
  \/ Only("frames") /\ FrameNext
  \/ Only("epoll") /\ EpollNext
  \/ Only("network") /\ NetNext
  \/ Only("broker") /\ BrokerNext
  \/ Only("plugins") /\ PluginNext
  \/ Only("files") /\ MapNext
  \/ Only("data") /\ DataNext
  \/ Only("pack") /\ PackNext
  \/ Only("jni") /\ JniNext
  \/ BoundsSpent

MCSpec == MCInit /\ [][MCNext]_allVars
=============================================================================
