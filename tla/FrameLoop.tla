----------------------------- MODULE FrameLoop -----------------------------
(***************************************************************************)
(* The frame loop of main.c: focus changes of the applet, a change of dock  *)
(* mode, rendering, the drain of callbacks and the steps of a login, on one *)
(* thread.  A call into the guest is a frame on its stack; what follows it  *)
(* in the loop runs when the stack is empty again.                          *)
(***************************************************************************)
EXTENDS LoginFlow

CONSTANTS Names   \* invokes that managed code makes

VARIABLES
  at,         \* what the loop does next
  focused,    \* appletGetFocusState as the loop saw it last
  unityActive,
  recreate,   \* display_recreate_pending
  resumed,    \* Unity runs: no pause has begun since its last resume ended
  surface     \* Unity has its surface

loopVars  == <<at, focused, unityActive, recreate, resumed, surface>>
frameVars == <<bridgeVars, loginVars, loopVars>>

FrameInit ==
  /\ QueueInit /\ LoginInit
  /\ at = "focus" /\ focused = TRUE /\ unityActive = TRUE
  /\ recreate = FALSE /\ resumed = TRUE /\ surface = TRUE

QuietQueue == UNCHANGED <<accepting, asked, answered, events>>
Quiet      == UNCHANGED <<renderReady, bridgeFocus>> /\ QuietQueue

\* The loop enters the guest with a call, and goes on at "next" when it returns.
Enter(call, next) ==
  /\ frames' = <<Guest(call)>> /\ at' = next
  /\ resumed' = (resumed /\ call # "pause")
  /\ surface' = (surface /\ call # "surfaceDestroyed")

Stays == UNCHANGED <<focused, unityActive, recreate>>

\* A call of the loop returns.
CallReturns ==
  /\ Len(frames) = 1 /\ frames[1].kind = "guest"
  /\ frames' = <<>>
  /\ resumed' = (resumed \/ frames[1].call = "resume")
  /\ surface' = (surface \/ frames[1].call = "surfaceCreated")
  /\ UNCHANGED <<at, loginVars>> /\ Stays /\ Quiet

LoopAt(place) == frames = <<>> /\ at = place

\* A mutant of the next definition.
FocusStaysOn == SetFocus(TRUE)
FocusOff == SetFocus(FALSE)

\* The head of the loop: the dock mode may have changed, and the focus too.
SeeFocus ==
  /\ LoopAt("focus")
  /\ recreate' \in {recreate, TRUE}
  /\ focused' \in BOOLEAN
  /\ IF focused' = focused THEN Quiet /\ at' = "recreate"
     ELSE IF ~focused'
       THEN /\ FocusOff /\ QuietQueue
            /\ at' = IF unityActive THEN "lostPause" ELSE "lost"
       ELSE /\ Quiet
            /\ at' = IF recreate' THEN "recreate" ELSE "gainedResume"
  /\ UNCHANGED <<frames, loginVars, unityActive, resumed, surface>>

LostPause ==
  LoopAt("lostPause") /\ Enter("pause", "lost") /\ Stays /\ Quiet /\ UNCHANGED loginVars
Lost ==
  /\ LoopAt("lost") /\ at' = "recreate" /\ unityActive' = FALSE /\ Quiet
  /\ UNCHANGED <<frames, loginVars, focused, recreate, resumed, surface>>
GainedResume ==
  LoopAt("gainedResume") /\ Enter("resume", "gained") /\ Stays /\ Quiet /\ UNCHANGED loginVars
Gained ==
  /\ LoopAt("gained") /\ at' = "recreate" /\ unityActive' = TRUE /\ SetFocus(TRUE) /\ QuietQueue
  /\ UNCHANGED <<frames, loginVars, focused, recreate, resumed, surface>>

\* A pending recreation waits for focus; the surface is replaced while paused.
Recreate ==
  /\ LoopAt("recreate")
  /\ IF recreate /\ focused
       THEN /\ FocusOff /\ QuietQueue
            /\ at' = IF unityActive THEN "recreatePause" ELSE "destroySurface"
       ELSE Quiet /\ at' = IF focused THEN "inject" ELSE "focus"
  /\ UNCHANGED <<frames, loginVars, resumed, surface>> /\ Stays
RecreatePause ==
  /\ LoopAt("recreatePause") /\ Enter("pause", "destroySurface")
  /\ Stays /\ Quiet /\ UNCHANGED loginVars
DestroySurface ==
  /\ LoopAt("destroySurface") /\ Enter("surfaceDestroyed", "geometry")
  /\ Stays /\ Quiet /\ UNCHANGED loginVars
\* android_native_apply_window_geometry may fail, which ends the program.
Geometry ==
  /\ LoopAt("geometry") /\ at' \in {"createSurface", "fatal"} /\ Stays /\ Quiet
  /\ UNCHANGED <<frames, loginVars, resumed, surface>>
CreateSurface ==
  /\ LoopAt("createSurface") /\ Enter("surfaceCreated", "recreateResume")
  /\ Stays /\ Quiet /\ UNCHANGED loginVars
RecreateResume ==
  /\ LoopAt("recreateResume") /\ Enter("resume", "recreated")
  /\ Stays /\ Quiet /\ UNCHANGED loginVars
Recreated ==
  /\ LoopAt("recreated") /\ at' = "inject" /\ unityActive' = TRUE /\ recreate' = FALSE
  /\ SetFocus(TRUE) /\ QuietQueue
  /\ UNCHANGED <<frames, loginVars, focused, resumed, surface>>

Inject == LoopAt("inject") /\ Enter("inject", "render") /\ Stays /\ Quiet /\ UNCHANGED loginVars
Render == LoopAt("render") /\ Enter("render", "rendered") /\ Stays /\ Quiet /\ UNCHANGED loginVars

\* nativeRender returned FALSE, appletMainLoop does, or the game asked to quit.
Leave ==
  /\ (LoopAt("rendered") \/ LoopAt("focus")) /\ at' = "leaving" /\ FocusOff /\ QuietQueue
  /\ UNCHANGED <<frames, loginVars, resumed, surface>> /\ Stays

Rendered ==
  /\ LoopAt("rendered") /\ AfterRender(<<>>) /\ at' = "login"
  /\ UNCHANGED <<bridgeFocus, loginVars, resumed, surface>> /\ Stays /\ QuietQueue

\* combo_auth_next_action
InputPhases   == {"INPUT_QUEUED", "VERIFIER_INPUT_QUEUED", "GEETEST_QUEUED"}
NetworkPhases == {"PREFLIGHT_QUEUED", "PASSPORT_QUEUED", "COMBO_QUEUED",
                  "VERIFIER_INFO_QUEUED", "VERIFIER_METHOD_QUEUED",
                  "VERIFIER_CAPTCHA_QUEUED", "VERIFIER_VERIFY_QUEUED"}
NextAction ==
  /\ LoopAt("login")
  /\ IF phase \in InputPhases
       THEN FocusOff /\ at' = "inputPause"
       ELSE UNCHANGED <<bridgeFocus, renderReady>>
            /\ at' = IF phase \in NetworkPhases THEN "network" ELSE "focus"
  /\ UNCHANGED <<frames, loginVars, resumed, surface>> /\ Stays /\ QuietQueue

InputPause ==
  LoopAt("inputPause") /\ Enter("pause", "input") /\ Stays /\ Quiet /\ UNCHANGED loginVars
InputDone == at' = IF phase' = "GEETEST_RUNNING" THEN "geetest" ELSE "inputResume"
HostOnly  == /\ UNCHANGED <<accepting, bridgeFocus, renderReady, asked, frames, resumed, surface>>
             /\ Stays
Input ==
  /\ LoopAt("input")
  /\ \/ CollectCredentials /\ UNCHANGED captcha
     \/ CollectVerification /\ UNCHANGED captcha
     \/ GeetestBegins
  /\ InputDone /\ HostOnly
Geetest ==
  /\ LoopAt("geetest")
  /\ \/ (PhoneConnects \/ PhoneServed \/ PromptEnds \/ StopServer \/ StopServing)
        /\ UNCHANGED at
     \/ GeetestEnds /\ InputDone
  /\ HostOnly
InputResume ==
  LoopAt("inputResume") /\ Enter("resume", "inputEnds") /\ Stays /\ Quiet /\ UNCHANGED loginVars
InputEnds ==
  /\ LoopAt("inputEnds") /\ at' = "focus" /\ SetFocus(TRUE) /\ QuietQueue
  /\ UNCHANGED <<frames, loginVars, resumed, surface>> /\ Stays

\* combo_auth_tick
Tick ==
  /\ LoopAt("network") /\ at' = "focus"
  /\ \/ RunPreflight \/ RunPassport \/ RunCombo \/ RunVerifierInfo \/ RunVerifierMethod
     \/ RunVerifierCaptcha \/ RunVerifierVerify
  /\ HostOnly /\ UNCHANGED captcha

\* The end: pause, combo_bridge_shutdown, the surface and nativeDone.
Leaving ==
  LoopAt("leaving") /\ Enter("pause", "shutdown") /\ Stays /\ Quiet /\ UNCHANGED loginVars
BridgeShutdown ==
  /\ LoopAt("shutdown") /\ ShutDown /\ at' = "lastSurface"
  /\ UNCHANGED <<frames, loginVars, resumed, surface>> /\ Stays
LastSurface ==
  LoopAt("lastSurface") /\ Enter("surfaceDestroyed", "done") /\ Stays /\ Quiet /\ UNCHANGED loginVars
\* nativeDone, and combo_auth_shutdown in shutdown_host.
Done ==
  /\ LoopAt("done") /\ at' = "exited" /\ held' = {} /\ steps' = 0
  /\ checked' = FALSE /\ replay' = FALSE
  /\ UNCHANGED <<frames, phase, index, method, tls, saved, owed, captcha, resumed, surface>>
  /\ Stays /\ Quiet

Invoked ==
  /\ \E name \in Names, i \in Indices \union {OneWay} : Invoke(name, i)
  /\ UNCHANGED loopVars
Drained == (Send \/ CompleteEvent \/ DrainDone) /\ UNCHANGED <<loginVars, loopVars>>
Exited == (LoopAt("exited") \/ LoopAt("fatal")) /\ UNCHANGED frameVars

FrameNext ==
  \/ CallReturns \/ SeeFocus \/ LostPause \/ Lost \/ GainedResume \/ Gained
  \/ Recreate \/ RecreatePause \/ DestroySurface \/ Geometry \/ CreateSurface
  \/ RecreateResume \/ Recreated \/ Inject \/ Render \/ Leave \/ Rendered \/ NextAction
  \/ InputPause \/ Input \/ Geetest \/ InputResume \/ InputEnds \/ Tick
  \/ Leaving \/ BridgeShutdown \/ LastSurface \/ Done \/ Invoked \/ Drained \/ Exited

FrameSpec == FrameInit /\ [][FrameNext]_frameVars

\* What is told apart: the index and the method of an attempt that is over are
\* not read again before the next one sets them, nor is a login that was answered;
\* and indices are alike but for what is recorded of them, since an index is queued or
\* sent once.
AwaitedLogins == {i \in owed : asked[i] = "login_login"}
IndexState(i) == <<asked[i], i \in answered, i \in AwaitedLogins, UnderWay(i)>>
FrameView ==
  << accepting, bridgeFocus, renderReady, [k \in DOMAIN events |-> IndexState(events[k])],
     [k \in DOMAIN frames |->
        << [frames[k] EXCEPT !.sent = OneWay],
           IF frames[k].sent = OneWay THEN <<>> ELSE IndexState(frames[k].sent) >>],
     [o \in {IndexState(i) : i \in Indices} |->
        Cardinality({i \in Indices : IndexState(i) = o})],
     loopVars, phase, held, tls, checked, replay, saved,
     IF phase \in Terminal THEN <<>> ELSE <<method, steps, captcha>> >>

(* An answer is handed to UnitySendMessage only while Unity is resumed with  *)
(* its surface, whichever lifecycle call or keyboard the loop is in and      *)
(* however drains nest; the loop's own copies agree with Unity when a frame  *)
(* is rendered, and a keyboard is shown only over a paused Unity (main's     *)
(* order of set_focus and the lifecycle calls).                              *)
CallbacksWhileActive ==
  /\ Sent # {} => resumed /\ surface
  /\ frames # <<>> /\ frames[Len(frames)].call \in {"inject", "render"} =>
       resumed /\ surface /\ unityActive /\ focused /\ bridgeFocus
  /\ at \in {"input", "geetest"} /\ frames = <<>> => ~resumed /\ ~bridgeFocus
  /\ frames = <<>> /\ at \in {"focus", "login", "network"} =>
       (bridgeFocus <=> unityActive) /\ (unityActive <=> resumed)

(* The thread of the loop as a whole: what a step of a login needs, who is   *)
(* answered, and when a callback may run.                                    *)
FramesSound == StepsSupplied /\ AttemptAnswered /\ CallbacksWhileActive
=============================================================================
