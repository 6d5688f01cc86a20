---------------------------- MODULE PluginLoader ----------------------------
(***************************************************************************)
(* dlopen of the game's plug-ins (plugin_loader.c on so_util.c).  One      *)
(* thread at a time loads, under a lock that it may take again: a library  *)
(* loads what it needs first, recursively, and its constructors and its    *)
(* JNI_OnLoad may call dlopen themselves.  The stack of these calls is     *)
(* explicit here.                                                          *)
(*                                                                         *)
(* Images are placed one after the other in an arena and never unloaded.   *)
(* The counts of dlopen and dlclose are left out, for nothing reads them.  *)
(***************************************************************************)
EXTENDS Integers, Sequences, FiniteSets, SequencesExt

CONSTANTS
  Libraries,   \* names of bundled libraries
  Needs,       \* DT_NEEDED of each, in order
  Imports,     \* for each, the libraries that define the symbols it imports
  Pages,       \* size of each image
  OnCard,      \* the libraries whose file exists
  Entries,     \* PLUGIN_MAX_MODULES
  ArenaPages,  \* pages of the module arena
  MaxLoads     \* bound on the images ever placed

ASSUME PluginAssumption ==
  /\ Needs \in [Libraries -> Seq(Libraries)]
  /\ Pages \in [Libraries -> Nat]

VARIABLES
  plugin,   \* [Entries -> Empty or an entry of the registry]
  arenaAt,  \* first free page of the arena
  calls,    \* the dlopen and JNI_OnLoad calls under way, innermost last
  failing,  \* the innermost call is about to return NULL
  loads     \* number of images placed

pluginVars == <<plugin, arenaAt, calls, failing, loads>>

Empty == [state |-> "free", name |-> "none"]

\* deps are addresses of entries, whatever image these come to hold.  Histories: serial
\* tells the images of an entry apart, bound are the images that imports were resolved
\* in, and around those whose own load was under way when this one began.
Entry(name, serial, first, around) ==
  [state |-> "loading", name |-> name, serial |-> serial, first |-> first,
   around |-> around, deps |-> <<>>, bound |-> {}, onload |-> "never"]

FailedEntry(name) == [state |-> "failed", name |-> name]

PluginInit ==
  /\ plugin = [e \in Entries |-> Empty]
  /\ arenaAt = 0
  /\ calls = <<>>
  /\ failing = FALSE
  /\ loads = 0

Listed       == {e \in Entries : plugin[e].state \in {"loading", "initializing", "ready"}}
Find(name)   == {e \in Listed : plugin[e].name = name}
Failed(name) == {e \in Entries : plugin[e].state = "failed" /\ plugin[e].name = name}

Image(e) == [entry |-> e, serial |-> plugin[e].serial]

Unfinished == {Image(e) : e \in {f \in Listed : plugin[f].state = "loading"}}

\* The first free entry, or else the first of a cached failure.
Candidates ==
  LET free == {e \in Entries : plugin[e] = Empty}
  IN  IF free # {} THEN free ELSE {e \in Entries : plugin[e].state = "failed"}

AllocEntry(e) == e \in Candidates /\ \A f \in Candidates : e <= f

\* Who may call dlopen: anybody while the lock is free, and the constructors and the
\* JNI_OnLoad that its owner runs.
Top == calls[Len(calls)]
DoingIn(s) == IF s = <<>> THEN "nothing" ELSE Last(s).doing

MayCall == ~failing /\ DoingIn(calls) # "loading"
Loading == ~failing /\ DoingIn(calls) = "loading"

\* NULL goes to a load that waits for its dependency, or to the program.
ReturnsNull == failing' = (DoingIn(calls) = "loading")

CacheFailure(e, name) ==
  /\ plugin' = [plugin EXCEPT ![e] = FailedEntry(name)]
  /\ ReturnsNull

\* The image is read into the arena and listed; its own failures leave nothing.
Place(e, name) ==
  /\ loads < MaxLoads
  /\ \/ CacheFailure(e, name) /\ UNCHANGED <<arenaAt, calls, loads>>
     \/ /\ plugin' = [plugin EXCEPT ![e] = Entry(name, loads + 1, arenaAt, Unfinished)]
        /\ arenaAt' = arenaAt + Pages[name]
        /\ calls' = Append(calls, [doing |-> "loading", entry |-> e, next |-> 1,
                                   before |-> arenaAt])
        /\ loads' = loads + 1
        /\ UNCHANGED failing

\* load_bundled_locked for a name that is not loaded.
LoadBundled(name) ==
  IF Failed(name) # {} \/ Candidates = {}
    THEN ReturnsNull /\ UNCHANGED <<plugin, arenaAt, calls, loads>>
    ELSE \E e \in Entries :
           /\ AllocEntry(e)
           /\ IF name \notin OnCard \/ arenaAt + Pages[name] > ArenaPages
                THEN CacheFailure(e, name) /\ UNCHANGED <<arenaAt, calls, loads>>
                ELSE Place(e, name)

\* dlopen of a library that is loaded, in whatever state, answers its handle.
Open(name) ==
  /\ MayCall /\ Find(name) = {}
  /\ LoadBundled(name)

(***************************************************************************)
(* The loop over DT_NEEDED: what is found loaded becomes a dependency.     *)
(***************************************************************************)
NextNeeded == Needs[plugin[Top.entry].name][Top.next]

MoreNeeded == Top.next <= Len(Needs[plugin[Top.entry].name])

AddDependency ==
  /\ Loading /\ MoreNeeded
  /\ \E d \in Find(NextNeeded) :
       plugin' = [plugin EXCEPT ![Top.entry].deps =
                    IF Contains(@, d) THEN @ ELSE Append(@, d)]
  /\ calls' = [calls EXCEPT ![Len(calls)].next = @ + 1]
  /\ UNCHANGED <<arenaAt, failing, loads>>

LoadDependency ==
  /\ Loading /\ MoreNeeded /\ Find(NextNeeded) = {}
  /\ LoadBundled(NextNeeded)

\* The local group: the dependencies, theirs, and so on.  An entry whose image was given
\* up has none; one that holds another image by now has those of that image.
Within(d) == IF d \in Listed THEN Range(plugin[d].deps) ELSE {}

Scope(e) ==
  LET reach[n \in 0 .. Cardinality(Entries)] ==
        IF n = 0 THEN Range(plugin[e].deps)
        ELSE reach[n - 1] \union UNION {Within(d) : d \in reach[n - 1]}
  IN  (reach[Cardinality(Entries)] \intersect Listed) \ {e}

Defining(e) == {d \in Scope(e) : plugin[d].name \in Imports[plugin[e].name]}

\* An entry of DT_NEEDED or of the relocations is malformed, or an import is missing.
Refuse ==
  /\ Loading
  /\ failing' = TRUE
  /\ UNCHANGED <<plugin, arenaAt, calls, loads>>

\* Imports are bound to the images that define them, and then the module's pages
\* become code and its constructors run.
Bind ==
  /\ Loading /\ ~MoreNeeded
  /\ {plugin[d].name : d \in Defining(Top.entry)} = Imports[plugin[Top.entry].name]
  /\ plugin' = [plugin EXCEPT ![Top.entry].state = "initializing",
                              ![Top.entry].bound = {Image(d) : d \in Defining(Top.entry)}]
  /\ calls' = [calls EXCEPT ![Len(calls)].doing = "constructing"]
  /\ UNCHANGED <<arenaAt, failing, loads>>

FinishConstructors ==
  /\ ~failing /\ DoingIn(calls) = "constructing"
  /\ plugin' = [plugin EXCEPT ![Top.entry].state = "ready"]
  /\ calls' = Front(calls)
  /\ UNCHANGED <<arenaAt, failing, loads>>

(***************************************************************************)
(* A load that cannot go on gives its image up, and the pages of the image *)
(* too unless a dependency was placed behind it.                           *)
(***************************************************************************)
\* A mutant of the next definition: the pages are given up in any case.
RewindAlways(c) == c.before

Rewound(c) ==
  IF arenaAt = c.before + Pages[plugin[c.entry].name] THEN c.before ELSE arenaAt

DiscardImage ==
  /\ failing
  /\ plugin' = [plugin EXCEPT ![Top.entry] = FailedEntry(@.name)]
  /\ arenaAt' = Rewound(Top)
  /\ calls' = Front(calls)
  /\ failing' = (DoingIn(Front(calls)) = "loading")
  /\ UNCHANGED loads

(***************************************************************************)
(* JNI_OnLoad of a loaded module runs once; a call that it makes for the   *)
(* same module finds it under way.                                         *)
(***************************************************************************)
JniOnLoad(e) ==
  /\ MayCall /\ e \in Listed /\ plugin[e].onload = "never"
  /\ plugin' = [plugin EXCEPT ![e].onload = "running"]
  /\ calls' = Append(calls, [doing |-> "onload", entry |-> e])
  /\ UNCHANGED <<arenaAt, failing, loads>>

FinishOnLoad ==
  /\ ~failing /\ DoingIn(calls) = "onload"
  /\ \E result \in {"done", "refused"} :
       plugin' = [plugin EXCEPT ![Top.entry].onload = result]
  /\ calls' = Front(calls)
  /\ UNCHANGED <<arenaAt, failing, loads>>

PluginNext ==
  \/ \E name \in Libraries : Open(name)
  \/ AddDependency \/ LoadDependency \/ Refuse \/ Bind
  \/ FinishConstructors \/ DiscardImage
  \/ \E e \in Entries : JniOnLoad(e)
  \/ FinishOnLoad

PluginSpec == PluginInit /\ [][PluginNext]_pluginVars

-----------------------------------------------------------------------------
Runnable(e) == plugin[e].state \in {"initializing", "ready"}

Slice(e) == plugin[e].first .. plugin[e].first + Pages[plugin[e].name] - 1

Resident(p) ==
  p.entry \in Listed /\ plugin[p.entry].serial = p.serial /\ Runnable(p.entry)

\* Failures in the middle of recursive loads leave the registry whole
\* (plugin_loader.c:389-405): the images that stay do not overlap each other or the
\* free arena, also when what was given up had images behind it; a name is loaded once;
\* what is half loaded is on the stack.  A module whose constructors run has its imports
\* in images that are relocated, executable and there to stay, and lists only entries
\* that hold such images.  What was being loaded around it is different: its load may
\* still fail, and then the module keeps imports in the image that was given up and the
\* address of an entry that another library may get.  That happens to no module but those
\* placed inside the load that failed.
PluginsSound ==
  /\ \A e, f \in Listed : e # f =>
       Slice(e) \intersect Slice(f) = {} /\ plugin[e].name # plugin[f].name
  /\ \A e \in Listed : \A page \in Slice(e) : page < arenaAt
  /\ \A e \in Listed : plugin[e].state # "ready" <=>
       \E i \in 1 .. Len(calls) : calls[i].entry = e /\ calls[i].doing # "onload"
  /\ \A e \in Listed : Runnable(e) =>
       /\ \A p \in plugin[e].bound : p \in plugin[e].around \/ Resident(p)
       /\ \A d \in Range(plugin[e].deps) :
            (d \in Listed /\ Runnable(d)) \/ \E p \in plugin[e].around : p.entry = d
=============================================================================
