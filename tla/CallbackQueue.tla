--------------------------- MODULE CallbackQueue ---------------------------
(***************************************************************************)
(* combo_bridge.c: the queue of answers to the calls that managed code      *)
(* makes through ComboForUnity.invoke, drained on the main thread after a   *)
(* render.  "frames" is the stack of that thread: a call of the loop into   *)
(* the guest at its bottom, and on it the drains of                         *)
(* combo_bridge_after_render.  A drain that has handed an event to          *)
(* UnitySendMessage is inside guest code, which may invoke again, and       *)
(* login_switch_role then drains inside the drain.                          *)
(* A failed allocation and the limit on payload bytes are left out.         *)
(***************************************************************************)
EXTENDS Naturals, Sequences, FiniteSets

CONSTANTS
  Indices,       \* callback indices, positive
  EventCap,      \* COMBO_EVENT_CAPACITY
  PendingCap,    \* COMBO_PENDING_CAPACITY
  DrainPerFrame, \* COMBO_DRAIN_PER_FRAME
  MaxDepth       \* bound: nested calls of the main thread

ASSUME QueueAssumption == Indices \subseteq Nat \ {0} /\ DrainPerFrame \in Nat

VARIABLES
  accepting,     \* g_accepting
  bridgeFocus,   \* g_focused
  renderReady,   \* g_render_ready
  asked,         \* asked[i]: what g_pending holds for index i: "free", "login_login"
                 \* or, for every other invoke, "other"
  answered,      \* indices whose terminal answer is queued (terminal_queued)
  events,        \* g_events: indices to answer, oldest first
  frames         \* stack of the main thread, innermost first

bridgeVars == <<accepting, bridgeFocus, renderReady, asked, answered, events, frames>>

OneWay == 0      \* a negative callback index: no answer is wanted

Guest(call) == [kind |-> "guest", call |-> call, left |-> 0, sent |-> OneWay]
Drain(left) == [kind |-> "drain", call |-> "none", left |-> left, sent |-> OneWay]

QueueInit ==
  /\ accepting = TRUE /\ bridgeFocus = TRUE /\ renderReady = FALSE
  /\ asked = [i \in Indices |-> "free"] /\ answered = {}
  /\ events = <<>> /\ frames = <<>>

ActiveIn(table) == {i \in Indices : table[i] # "free"}

\* Guest code runs: in a call of the loop, or under UnitySendMessage.
InGuest  == frames # <<>> /\ (frames[1].kind = "guest" \/ frames[1].sent # OneWay)
TopDrain == frames # <<>> /\ frames[1].kind = "drain"

\* combo_bridge_observe_invoke: whether it returns 0, and the table it leaves.
Observed(i) ==
  /\ accepting
  /\ i \notin ActiveIn(asked)
  /\ i # OneWay => Cardinality(ActiveIn(asked)) < PendingCap
AskedBy(name, i) ==
  IF i = OneWay THEN asked
  ELSE [asked EXCEPT ![i] = IF name = "login_login" THEN name ELSE "other"]

\* combo_bridge_enqueue_callback of a terminal answer.
Accepts(table, i) ==
  /\ accepting /\ i \in ActiveIn(table) /\ i \notin answered
  /\ Len(events) < EventCap

EnqueueAnswer(table, i) ==
  IF Accepts(table, i)
    THEN events' = Append(events, i) /\ answered' = answered \union {i}
    ELSE UNCHANGED <<events, answered>>

SetFocus(on) == bridgeFocus' = on /\ renderReady' = FALSE

\* combo_bridge_after_render on the stack "below".
AfterRender(below) ==
  IF accepting /\ bridgeFocus
    THEN renderReady' = TRUE /\ frames' = <<Drain(DrainPerFrame)>> \o below
    ELSE UNCHANGED renderReady /\ frames' = below

\* pop_event_after_render
CanPop == accepting /\ bridgeFocus /\ renderReady /\ events # <<>>

Send ==
  /\ TopDrain /\ frames[1].sent = OneWay /\ frames[1].left > 0 /\ CanPop
  /\ frames' = [frames EXCEPT ![1].sent = Head(events)]
  /\ events' = Tail(events)
  /\ UNCHANGED <<accepting, bridgeFocus, renderReady, asked, answered>>

\* UnitySendMessage returns: complete_terminal_event.
CompleteEvent ==
  /\ TopDrain /\ frames[1].sent # OneWay
  /\ asked' = [asked EXCEPT ![frames[1].sent] = "free"]
  /\ answered' = answered \ {frames[1].sent}
  /\ frames' = [frames EXCEPT ![1] = Drain(@.left - 1)]
  /\ UNCHANGED <<accepting, bridgeFocus, renderReady, events>>

DrainDone ==
  /\ TopDrain /\ frames[1].sent = OneWay /\ (frames[1].left = 0 \/ ~CanPop)
  /\ frames' = Tail(frames)
  /\ UNCHANGED <<accepting, bridgeFocus, renderReady, asked, answered, events>>

\* combo_bridge_shutdown
ShutDown ==
  /\ accepting' = FALSE /\ bridgeFocus' = FALSE /\ renderReady' = FALSE
  /\ asked' = [i \in Indices |-> "free"] /\ answered' = {} /\ events' = <<>>

Queued == {events[k] : k \in DOMAIN events}
Sent   == {frames[k].sent : k \in {j \in DOMAIN frames : frames[j].kind = "drain"}} \ {OneWay}

\* An index whose terminal answer is recorded is answered once: its event is in
\* the queue or under UnitySendMessage, never both and never twice.
AnsweredOnce ==
  /\ answered = Queued \union Sent
  /\ Cardinality(Queued) = Len(events) /\ Queued \intersect Sent = {}
  /\ answered \subseteq ActiveIn(asked)
=============================================================================
