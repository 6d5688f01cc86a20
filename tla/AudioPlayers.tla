---------------------------- MODULE AudioPlayers ----------------------------
(***************************************************************************)
(* The OpenSL ES shim (opensles.c): players that the game creates, feeds   *)
(* with buffers and destroys, and the audio thread of the SDL device that  *)
(* mixes them and calls the game back for each finished buffer.            *)
(*                                                                         *)
(* A call under p->lock or g_reg_lock is one action.  The audio thread     *)
(* pins the registered players, then takes one player's lock at a time and *)
(* gives it up around every callback, where the game may make any call.    *)
(* A buffer is the number it has since the queue was last cleared; what it *)
(* holds, gain, mute and the pausing of the device are left out.           *)
(***************************************************************************)
EXTENDS Integers, Sequences, FiniteSets

CONSTANTS
  Players,      \* blocks of storage for a player
  MAX_PLAYERS, BQ_SLOTS,
  MaxBuffers,   \* buffers enqueued between two clears, a bound
  DeviceIds,    \* what SDL may return for an open device
  NoPlayer

ASSUME AudioAssumption ==
  /\ NoPlayer \notin Players /\ MAX_PLAYERS \in Nat
  /\ BQ_SLOTS \in Nat \ {0} /\ 0 \notin DeviceIds

VARIABLES
  refs,       \* refs of each player; 0 while its storage is not allocated
  doomed,     \* players with destroy_requested
  gPlayers,   \* g_players up to g_player_count: player or NoPlayer
  making,     \* allocated players that eng_CreateAudioPlayer has not registered
  playing,    \* players in SL_PLAYSTATE_PLAYING
  hasCb,      \* players with a callback
  ring, qHead, qTail, cur, \* the queue of each player; cur is 0 for NULL
  processed,  \* processed_buffers
  snapshot,   \* the players that the running audio_callback has still to mix
  gDev, closing, devOpen, \* g_dev, g_device_closing, SDL's devices
  stopping    \* the device that opensles_shutdown is closing, or 0

queueVars  == <<ring, qHead, qTail, cur, processed>>
deviceVars == <<gDev, closing, devOpen, stopping>>
audioVars  == <<refs, doomed, gPlayers, making, playing, hasCb, queueVars,
                snapshot, deviceVars>>

EmptyRing == [i \in 0 .. BQ_SLOTS - 1 |-> 0]

AudioInit ==
  /\ refs = [p \in Players |-> 0] /\ doomed = {} /\ gPlayers = <<>> /\ making = {}
  /\ playing = {} /\ hasCb = {}
  /\ ring = [p \in Players |-> EmptyRing]
  /\ qHead = [p \in Players |-> 0] /\ qTail = [p \in Players |-> 0]
  /\ cur = [p \in Players |-> 0] /\ processed = [p \in Players |-> 0]
  /\ snapshot = <<>>
  /\ gDev = 0 /\ closing = FALSE /\ devOpen = {} /\ stopping = 0

Registered == {gPlayers[i] : i \in DOMAIN gPlayers} \ {NoPlayer}
AllocatedPlayers == {p \in Players : refs[p] > 0}
Depth(p) == (qTail[p] - qHead[p] + BQ_SLOTS) % BQ_SLOTS
\* The buffers of p that the mixer has not finished, oldest first.
Chain(p) ==
  (IF cur[p] = 0 THEN <<>> ELSE <<cur[p]>>)
  \o [i \in 1 .. Depth(p) |-> ring[p][(qHead[p] + i - 1) % BQ_SLOTS]]

\* player_clear_queue_locked
ClearQueue(p) ==
  /\ ring' = [ring EXCEPT ![p] = EmptyRing]
  /\ qHead' = [qHead EXCEPT ![p] = 0] /\ qTail' = [qTail EXCEPT ![p] = 0]
  /\ cur' = [cur EXCEPT ![p] = 0] /\ processed' = [processed EXCEPT ![p] = 0]

-----------------------------------------------------------------------------
(* The game's calls.  It calls a player it has created and not destroyed.   *)

Callable(p) == p \in Registered /\ p \notin doomed

\* ensure_device: the device is there or opens.
HaveDevice ==
  \/ gDev # 0 /\ UNCHANGED deviceVars
  \/ /\ gDev = 0 /\ gDev' \in DeviceIds \ devOpen /\ devOpen' = devOpen \cup {gDev'}
     /\ UNCHANGED <<closing, stopping>>
EnsureDeviceWhileClosing == HaveDevice
EnsureDevice == ~closing /\ HaveDevice

\* eng_CreateAudioPlayer up to ensure_device; without a device the player is
\* freed again.
CreatePlayer(p) ==
  /\ refs[p] = 0 /\ EnsureDevice
  /\ refs' = [refs EXCEPT ![p] = 1] /\ making' = making \cup {p}
  /\ ClearQueue(p)
  /\ UNCHANGED <<doomed, gPlayers, playing, hasCb, snapshot>>

\* The rest of eng_CreateAudioPlayer: the first free slot, or none.
FreeSlots == {i \in 1 .. MAX_PLAYERS : i > Len(gPlayers) \/ gPlayers[i] = NoPlayer}
RegisterPlayer(p) ==
  /\ p \in making /\ making' = making \ {p}
  /\ IF FreeSlots = {}
     THEN refs' = [refs EXCEPT ![p] = 0] /\ UNCHANGED gPlayers
     ELSE LET slot == CHOOSE i \in FreeSlots : \A j \in FreeSlots : i <= j
          IN /\ gPlayers' = IF slot > Len(gPlayers) THEN Append(gPlayers, p)
                            ELSE [gPlayers EXCEPT ![slot] = p]
             /\ UNCHANGED refs
  /\ UNCHANGED <<doomed, playing, hasCb, queueVars, snapshot, deviceVars>>

EnqueueBuffer(p) ==
  /\ Callable(p)
  /\ LET next == (qTail[p] + 1) % BQ_SLOTS
         number == processed[p] + Len(Chain(p)) + 1
     IN /\ next # qHead[p] /\ number <= MaxBuffers
        /\ ring' = [ring EXCEPT ![p][qTail[p]] = number]
        /\ qTail' = [qTail EXCEPT ![p] = next]
  /\ UNCHANGED <<refs, doomed, gPlayers, making, playing, hasCb, qHead, cur,
                 processed, snapshot, deviceVars>>

Clear(p) ==
  /\ Callable(p) /\ ClearQueue(p)
  /\ UNCHANGED <<refs, doomed, gPlayers, making, playing, hasCb, snapshot,
                 deviceVars>>

SetPlayState(p, play) ==
  /\ Callable(p)
  /\ playing' = IF play THEN playing \cup {p} ELSE playing \ {p}
  /\ UNCHANGED <<refs, doomed, gPlayers, making, hasCb, queueVars, snapshot,
                 deviceVars>>

RegisterCallback(p) ==
  /\ Callable(p) /\ hasCb' = hasCb \cup {p}
  /\ UNCHANGED <<refs, doomed, gPlayers, making, playing, queueVars, snapshot,
                 deviceVars>>

\* A destroyed player stays doomed until its last reference is dropped.
Dropped(p, left) == doomed' = IF left = 0 THEN doomed \ {p} ELSE doomed \cup {p}

DestroyPlayer(p) ==
  /\ Callable(p)
  /\ playing' = playing \ {p} /\ hasCb' = hasCb \ {p} /\ ClearQueue(p)
  /\ gPlayers' = [i \in DOMAIN gPlayers |-> IF gPlayers[i] = p THEN NoPlayer ELSE gPlayers[i]]
  /\ refs' = [refs EXCEPT ![p] = @ - 1] /\ Dropped(p, refs[p] - 1)
  /\ UNCHANGED <<making, snapshot, deviceVars>>

-----------------------------------------------------------------------------
(* The audio thread.                                                        *)

\* audio_callback pins every player that is not doomed, in the order of the slots.
Retained == Registered \ doomed
InSlotOrder(s) ==
  \A i, j \in DOMAIN s : i < j =>
    \E k, l \in DOMAIN gPlayers : k < l /\ gPlayers[k] = s[i] /\ gPlayers[l] = s[j]
TakeSnapshot ==
  /\ devOpen # {} /\ snapshot = <<>>
  /\ \E n \in 1 .. Len(gPlayers) : \E chosen \in [1 .. n -> Retained] :
       /\ \A p \in Retained : \E i \in 1 .. n : chosen[i] = p
       /\ InSlotOrder(chosen) /\ snapshot' = chosen
  /\ refs' = [p \in Players |-> IF p \in Retained THEN refs[p] + 1 ELSE refs[p]]
  /\ UNCHANGED <<doomed, gPlayers, making, playing, hasCb, queueVars, deviceVars>>

\* mix_player returns and player_release drops the pin.
Unpin(p) ==
  /\ snapshot' = Tail(snapshot)
  /\ refs' = [refs EXCEPT ![p] = @ - 1]
  /\ IF p \in doomed THEN Dropped(p, refs[p] - 1) ELSE UNCHANGED doomed
  /\ UNCHANGED <<gPlayers, making, playing, hasCb, deviceVars>>

\* The mixer finishes the first k buffers and, unless it runs dry, stands in
\* the next one.
Play(p, k) ==
  LET inside == IF k < Len(Chain(p)) THEN Chain(p)[k + 1] ELSE 0
      taken  == k + (IF inside = 0 THEN 0 ELSE 1) - (IF cur[p] = 0 THEN 0 ELSE 1)
  IN /\ cur' = [cur EXCEPT ![p] = inside]
     /\ qHead' = [qHead EXCEPT ![p] = (@ + taken) % BQ_SLOTS]
     /\ processed' = [processed EXCEPT ![p] = @ + k]
     /\ UNCHANGED <<ring, qTail>>

\* mix_player from SDL_LockMutex to its return.
MixIdle ==
  /\ snapshot # <<>>
  /\ LET p == Head(snapshot) IN
       /\ p \in doomed \/ p \notin playing
       /\ Unpin(p) /\ UNCHANGED queueVars
MixBlock ==
  /\ snapshot # <<>>
  /\ LET p == Head(snapshot) IN
       /\ p \in playing \ doomed
       /\ \E k \in IF p \in hasCb THEN {0} ELSE 0 .. Len(Chain(p)) : Play(p, k)
       /\ Unpin(p)
\* mix_player from SDL_LockMutex to a callback: one buffer is finished, the
\* next is taken from the queue only after the callback.
MixUntilCallback ==
  /\ snapshot # <<>>
  /\ LET p == Head(snapshot) IN
       /\ p \in (playing \cap hasCb) \ doomed /\ Chain(p) # <<>>
       /\ cur' = [cur EXCEPT ![p] = 0]
       /\ qHead' = [qHead EXCEPT ![p] = IF cur[p] = 0 THEN (@ + 1) % BQ_SLOTS ELSE @]
       /\ processed' = [processed EXCEPT ![p] = @ + 1]
  /\ UNCHANGED <<refs, doomed, gPlayers, making, playing, hasCb, ring, qTail,
                 snapshot, deviceVars>>

-----------------------------------------------------------------------------
(* opensles_shutdown: detach the device, close it without the lock (SDL     *)
(* waits for the callback that runs), allow the next one.                   *)

ShutdownBegin ==
  /\ ~closing /\ gDev # 0
  /\ stopping' = gDev /\ gDev' = 0 /\ closing' = TRUE
  /\ UNCHANGED <<refs, doomed, gPlayers, making, playing, hasCb, queueVars,
                 snapshot, devOpen>>
CloseDevice ==
  /\ stopping # 0 /\ snapshot = <<>>
  /\ devOpen' = devOpen \ {stopping} /\ stopping' = 0
  /\ UNCHANGED <<refs, doomed, gPlayers, making, playing, hasCb, queueVars,
                 snapshot, gDev, closing>>
ShutdownEnd ==
  /\ closing /\ stopping = 0 /\ closing' = FALSE
  /\ UNCHANGED <<refs, doomed, gPlayers, making, playing, hasCb, queueVars,
                 snapshot, gDev, devOpen, stopping>>

AudioNext ==
  \/ \E p \in Players :
       \/ CreatePlayer(p) \/ RegisterPlayer(p) \/ EnqueueBuffer(p) \/ Clear(p)
       \/ RegisterCallback(p) \/ DestroyPlayer(p)
       \/ \E play \in BOOLEAN : SetPlayState(p, play)
  \/ TakeSnapshot \/ MixIdle \/ MixBlock \/ MixUntilCallback
  \/ ShutdownBegin \/ CloseDevice \/ ShutdownEnd

AudioSpec == AudioInit /\ [][AudioNext]_audioVars

-----------------------------------------------------------------------------
SnapshotPins(p) == IF \E i \in DOMAIN snapshot : snapshot[i] = p THEN 1 ELSE 0

\* Each reference has its holder: the game's object or the audio thread.
ReferencesHeld ==
  \A p \in Players :
    /\ refs[p] = SnapshotPins(p) + (IF p \in Registered \cup making THEN 1 ELSE 0)
    /\ p \in doomed => refs[p] > 0
\* Buffers are played once and in the order in which they were enqueued.
BuffersInOrder ==
  \A p \in AllocatedPlayers : \A i \in DOMAIN Chain(p) : Chain(p)[i] = processed[p] + i
\* A device is not opened before the last one is closed: one thread mixes.
OneDevice == Cardinality(devOpen) <= 1 /\ (snapshot # <<>> => devOpen # {})

(* The audio thread never mixes a player whose storage has been freed, even *)
(* when the callback destroys its own player, and a player's memory is      *)
(* freed exactly when neither the game nor the mixer refers to it; its      *)
(* buffers are finished once and in order, through clears, a full ring and  *)
(* callbacks; and a second device, with a second mixer, is never opened     *)
(* while shutdown closes the first (mix_player, player_Destroy,             *)
(* ensure_device).                                                          *)
AudioSound == ReferencesHeld /\ BuffersInOrder /\ OneDevice
=============================================================================
