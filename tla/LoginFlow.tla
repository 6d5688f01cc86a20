----------------------------- MODULE LoginFlow -----------------------------
(***************************************************************************)
(* combo_auth.c: the login that managed code asks for with login_login,     *)
(* carried through the phases of the Android SDK: TLS preflight, account    *)
(* keyboard, Passport, a captcha or an identity check, and the game login.  *)
(* A handler runs on the main thread between two frames; its RUNNING phase  *)
(* is seen by nobody, except during the captcha, when a worker serves the   *)
(* page of the phone.  What the server answers is a choice; of the buffers  *)
(* only "full or empty" is kept.                                            *)
(***************************************************************************)
EXTENDS CallbackQueue

CONSTANTS MaxSteps  \* the 16 of queue_verifier_factor

VARIABLES
  phase,    \* g_phase, without its prefix
  index,    \* g_callback_index
  held,     \* buffers and flags of the attempt that are set
  method,   \* g_verify_method: "none", "code" (email, mobile) or "password"
  steps,    \* g_verifier_steps
  tls, checked, replay,   \* g_tls_verified, g_session_checked, g_session_replay_pending
  saved,    \* the session file: "none", "good" or "bad"
  owed,     \* accepted logins, less those that ended when the queue was full (history)
  prompt,   \* the captcha keyboard: "off", "shown" or how it ended
  server    \* the captcha worker: "off", "listening", "client" or "done"

loginVars == <<phase, index, held, method, steps, tls, checked, replay, saved, owed,
               prompt, server>>
captcha   == <<prompt, server>>

Terminal == {"IDLE", "SUCCEEDED", "CANCELED", "FAILED", "PASSPORT_REJECTED",
             "COMBO_REJECTED", "CHALLENGE_REQUIRED", "VERIFIER_UNSUPPORTED"}

LoginInit ==
  /\ phase = "IDLE" /\ index = OneWay /\ held = {} /\ method = "none" /\ steps = 0
  /\ tls = FALSE /\ checked = FALSE /\ replay = FALSE /\ saved \in {"none", "good", "bad"}
  /\ owed = {} /\ prompt = "off" /\ server = "off"

VerifierSecrets == {"verify", "aigisResult", "aigisParams", "ticket", "factor",
                    "verifyRetry", "aigisRetry"}
LoginText       == {"account", "password"}
AttemptSecrets  == VerifierSecrets \union LoginText \union {"token"}

QueueRoom == Len(events) < EventCap
Over ==
  /\ held' = held \ AttemptSecrets /\ steps' = 0
  /\ owed' = IF QueueRoom THEN owed ELSE owed \ {index}
  /\ UNCHANGED <<index, method, tls, checked, replay, saved>>

\* A mutant of the next definition.
EndSilently(p) == phase' = p /\ Over /\ UNCHANGED <<events, answered>>

\* finish_error and finish_cancel: the answer, and the phase that tells it.
End(p) ==
  /\ EnqueueAnswer(asked, index)
  /\ phase' = IF Accepts(asked, index) THEN p ELSE "FAILED"
  /\ Over

\* The next phase of an attempt that goes on with the buffers h.
GoOn(p, h) ==
  /\ phase' = p /\ held' = h
  /\ UNCHANGED <<events, answered, index, tls, checked, replay, saved, owed>>

-----------------------------------------------------------------------------
\* The header of a challenge arrives by HEADERFUNCTION and by DEBUGFUNCTION: a
\* source reports it once, and both must agree.
Captured(reports) ==
  \A j, k \in DOMAIN reports :
    /\ reports[j][2] # "malformed" /\ reports[j][2] = reports[k][2]
    /\ j # k => reports[j][1] # reports[k][1]
Decodable(reports) == reports # <<>> /\ Captured(reports)
Report  == {"callback", "debug"} \X {"x", "y", "malformed"}
Reports == {<<>>} \union {<<r>> : r \in Report} \union {<<r, s>> : r, s \in Report}

RunPreflight ==
  /\ phase = "PREFLIGHT_QUEUED"
  /\ \/ /\ tls' = TRUE /\ phase' = "INPUT_QUEUED"
        /\ UNCHANGED <<events, answered, index, held, method, steps, checked, replay,
                       saved, owed>>
     \/ End("FAILED")

CollectCredentials ==
  /\ phase = "INPUT_QUEUED"
  /\ \/ GoOn("PASSPORT_QUEUED", held \union LoginText) /\ UNCHANGED <<method, steps>>
     \/ End("CANCELED")
     \/ End("FAILED")

\* What a queued step needs; run_passport and the builders of the bodies check it.
Supplied ==
  CASE phase = "PASSPORT_QUEUED" ->
         /\ LoginText \subseteq held
         /\ "verifyRetry" \in held => "verify" \in held
         /\ "aigisRetry" \in held => "aigisResult" \in held
    [] phase = "COMBO_QUEUED" -> "token" \in held
    [] phase \in {"VERIFIER_INFO_QUEUED", "VERIFIER_METHOD_QUEUED"} -> "ticket" \in held
    [] phase = "VERIFIER_CAPTCHA_QUEUED" -> "ticket" \in held /\ method = "code"
    [] phase = "VERIFIER_INPUT_QUEUED" -> method # "none"
    [] phase = "VERIFIER_VERIFY_QUEUED" -> {"ticket", "factor"} \subseteq held /\ method # "none"
    [] phase = "GEETEST_QUEUED" -> "aigisParams" \in held
    [] phase \in Terminal -> held = {}
    [] OTHER -> TRUE

RunPassport ==
  /\ phase = "PASSPORT_QUEUED"
  /\ \/ /\ Supplied
        /\ GoOn("COMBO_QUEUED", (held \ (LoginText \union VerifierSecrets)) \union {"token"})
        /\ steps' = 0 /\ UNCHANGED method
     \/ /\ Supplied
        /\ GoOn("INPUT_QUEUED", held \ AttemptSecrets) /\ steps' = 0 /\ UNCHANGED method
     \/ /\ Supplied
        /\ \E reports \in Reports, asksFor \in {"captcha", "identity"} :
             /\ Decodable(reports)
             /\ IF asksFor = "captcha"
                  THEN GoOn("GEETEST_QUEUED", (held \ VerifierSecrets) \union {"aigisParams"})
                  ELSE GoOn("VERIFIER_INFO_QUEUED",
                            (held \ VerifierSecrets) \union {"verify", "ticket"})
        /\ steps' = 0 /\ UNCHANGED method
     \/ End("CHALLENGE_REQUIRED")
     \/ End("PASSPORT_REJECTED")
     \/ End("FAILED")

\* queue_verifier_factor, for the method m.
QueueFactor(m, sent, h) ==
  IF steps = MaxSteps
    THEN End("FAILED")
    ELSE /\ GoOn(IF m = "code" /\ ~sent THEN "VERIFIER_CAPTCHA_QUEUED"
                 ELSE "VERIFIER_INPUT_QUEUED", h)
         /\ method' = m /\ steps' = steps + 1

\* process_verifier_info: all is verified; a method was chosen before; or the
\* first combination that can be satisfied is selected, with a further request
\* unless it is the first of the server's.
RunVerifierInfo ==
  /\ phase = "VERIFIER_INFO_QUEUED"
  /\ \/ /\ Supplied
        /\ GoOn("PASSPORT_QUEUED", held \union {"verifyRetry"}) /\ UNCHANGED <<method, steps>>
     \/ \E m \in {"code", "password"}, sent \in BOOLEAN : Supplied /\ QueueFactor(m, sent, held)
     \/ /\ Supplied
        /\ \E m \in {"code", "password"} :
             GoOn("VERIFIER_METHOD_QUEUED", held) /\ method' = m /\ UNCHANGED steps
     \/ End("VERIFIER_UNSUPPORTED")
     \/ End("PASSPORT_REJECTED")
     \/ End("FAILED")

RunVerifierMethod ==
  /\ phase = "VERIFIER_METHOD_QUEUED"
  /\ \/ Supplied /\ GoOn("VERIFIER_INFO_QUEUED", held) /\ UNCHANGED <<method, steps>>
     \/ End("PASSPORT_REJECTED")
     \/ End("FAILED")

RunVerifierCaptcha ==
  /\ phase = "VERIFIER_CAPTCHA_QUEUED"
  /\ \/ Supplied /\ GoOn("VERIFIER_INPUT_QUEUED", held) /\ UNCHANGED <<method, steps>>
     \/ End("PASSPORT_REJECTED")
     \/ End("FAILED")

\* A code that is not six digits is asked for again.
CollectVerification ==
  /\ phase = "VERIFIER_INPUT_QUEUED"
  /\ \/ /\ Supplied
        /\ GoOn("VERIFIER_VERIFY_QUEUED", held \union {"factor"}) /\ UNCHANGED <<method, steps>>
     \/ /\ method = "code" /\ GoOn("VERIFIER_INPUT_QUEUED", held \ {"factor"})
        /\ UNCHANGED <<method, steps>>
     \/ End("CANCELED")
     \/ End("FAILED")

RunVerifierVerify ==
  /\ phase = "VERIFIER_VERIFY_QUEUED"
  /\ \/ /\ Supplied
        /\ \E p \in {"VERIFIER_INFO_QUEUED", "VERIFIER_INPUT_QUEUED"} :
             GoOn(p, held \ {"factor"}) /\ UNCHANGED <<method, steps>>
     \/ End("PASSPORT_REJECTED")
     \/ End("FAILED")

\* finish_combo_success queues the answer and then stores the session; a store
\* that fails may have lost the old one.
RunCombo ==
  /\ phase = "COMBO_QUEUED"
  /\ \/ /\ Supplied /\ Accepts(asked, index)
        /\ EnqueueAnswer(asked, index) /\ phase' = "SUCCEEDED" /\ UNCHANGED owed
        /\ held' = held \ AttemptSecrets /\ steps' = 0
        /\ \/ saved' = "good" /\ checked' = TRUE /\ replay' = FALSE
           \/ saved' \in {saved, "none"} /\ UNCHANGED <<checked, replay>>
        /\ UNCHANGED <<index, method, tls>>
     \/ End("COMBO_REJECTED")
     \/ End("FAILED")

-----------------------------------------------------------------------------
\* combo_auth_collect_geetest: the worker starts, and the keyboard is shown.
GeetestBegins ==
  /\ phase = "GEETEST_QUEUED"
  /\ \/ /\ Supplied /\ phase' = "GEETEST_RUNNING" /\ prompt' = "shown" /\ server' = "listening"
        /\ UNCHANGED <<events, answered, index, held, method, steps, tls, checked, replay,
                       saved, owed>>
     \/ End("CHALLENGE_REQUIRED") /\ UNCHANGED captcha

PhoneConnects ==
  /\ server = "listening" /\ server' = "client"
  /\ UNCHANGED <<events, answered, prompt, phase, index, held, method, steps, tls, checked,
                 replay, saved, owed>>

\* geetest_handle_client: a page or a refusal leaves the worker listening; a
\* result is written to g_aigis_result and ends it.
PhoneServed ==
  /\ server = "client"
  /\ \/ server' = (IF prompt \in {"shown", "ok"} THEN "listening" ELSE "done") /\ UNCHANGED held
     \/ server' = "done" /\ held' = held \union {"aigisResult"}
  /\ UNCHANGED <<events, answered, prompt, phase, index, method, steps, tls, checked,
                 replay, saved, owed>>

PromptEnds ==
  /\ prompt = "shown" /\ prompt' \in {"ok", "canceled", "failed"}
  /\ UNCHANGED <<events, answered, server, phase, index, held, method, steps, tls, checked,
                 replay, saved, owed>>

\* After Continue the result is awaited for three minutes; then the worker is
\* told to stop.  A client it is serving is served to the end.
StopServer ==
  /\ prompt \in {"ok", "canceled", "failed"} /\ server = "listening"
  /\ server' = "done" /\ prompt' = IF prompt = "ok" THEN "okLate" ELSE prompt
  /\ UNCHANGED <<events, answered, phase, index, held, method, steps, tls, checked,
                 replay, saved, owed>>
StopServing ==
  /\ prompt = "ok" /\ server = "client" /\ prompt' = "okLate"
  /\ UNCHANGED <<events, answered, server, phase, index, held, method, steps, tls, checked,
                 replay, saved, owed>>

\* The worker has been joined.
GeetestEnds ==
  /\ prompt \notin {"off", "shown"} /\ server = "done"
  /\ CASE prompt = "canceled" -> End("CANCELED")
       [] prompt = "failed" -> End("CHALLENGE_REQUIRED")
       [] OTHER ->
            /\ IF "aigisResult" \in held
                 THEN GoOn("PASSPORT_QUEUED", (held \ {"aigisParams"}) \union {"aigisRetry"})
                 ELSE GoOn("GEETEST_QUEUED", held)
            /\ UNCHANGED <<method, steps>>
  /\ prompt' = "off" /\ server' = "off"

-----------------------------------------------------------------------------
Accepted(i) == phase \in Terminal /\ i # OneWay

\* combo_auth_request_login on the table of the invoke.  A saved session is
\* replayed once per process; a login that follows the replay deletes it.
RequestLogin(table, i) ==
  /\ held' = held \ AttemptSecrets /\ index' = i /\ steps' = 0 /\ method' = "none"
  /\ owed' = owed \union {i}
  /\ LET replays == ~replay /\ ~checked /\ saved = "good" /\ Accepts(table, i)
     IN  /\ saved' \in IF replay THEN {"none"}
                       ELSE IF ~checked /\ saved = "bad" THEN {"none", "bad"} ELSE {saved}
         /\ checked' = (checked \/ ~replay)
         /\ \/ /\ replays /\ replay' = TRUE /\ phase' = "SUCCEEDED"
               /\ EnqueueAnswer(table, i)
            \/ /\ replays => ~checked   \* a load may also fail
               /\ replay' = FALSE /\ UNCHANGED <<events, answered>>
               /\ phase' = IF tls THEN "INPUT_QUEUED" ELSE "PREFLIGHT_QUEUED"
  /\ UNCHANGED <<tls, prompt, server>>

\* combo_auth_invalidate_session
InvalidateSession ==
  /\ saved' = "none" /\ checked' = TRUE /\ replay' = FALSE
  /\ phase' = IF phase = "SUCCEEDED" THEN "IDLE" ELSE phase
  /\ UNCHANGED <<events, answered, index, held, method, steps, tls, owed, prompt, server>>

\* unity_dispatch_void of ComboForUnity.invoke.
Invoke(name, i) ==
  /\ InGuest /\ Len(frames) < MaxDepth /\ Observed(i)
  /\ LET table == AskedBy(name, i) IN
     /\ asked' = table
     /\ \/ /\ name = "login_login"
           /\ IF Accepted(i) THEN RequestLogin(table, i)
              ELSE /\ owed' = owed \ {i}
                   /\ UNCHANGED <<events, answered, phase, index, held, method, steps, tls,
                                  checked, replay, saved, captcha>>
           /\ UNCHANGED <<renderReady, frames>>
        \/ name = "login_logout" /\ InvalidateSession /\ UNCHANGED <<renderReady, frames>>
        \/ /\ name = "login_init" /\ EnqueueAnswer(table, i)
           /\ UNCHANGED <<renderReady, frames, loginVars>>
        \/ /\ name = "login_switch_role" /\ EnqueueAnswer(table, i)
           /\ IF Accepts(table, i) THEN AfterRender(frames) ELSE UNCHANGED <<renderReady, frames>>
           /\ UNCHANGED loginVars
  /\ UNCHANGED <<accepting, bridgeFocus>>

(* Until the end every queued step finds what its request needs - the ticket, the factor,  *)
(* the captcha and the header of a retry are never lost on the way, so that  *)
(* the "state was lost" answers of run_passport and the rest never happen -  *)
(* and an attempt that is over holds no secret (erase_attempt_secrets,       *)
(* erase_verifier_secrets, process_verifier_info, collect_geetest).          *)
StepsSupplied == accepting => Supplied

(* A login that was accepted keeps its pending slot, unanswered, until it    *)
(* ends; whichever way it ends, its answer is in the queue or on its way to  *)
(* Unity from then on until Unity has it, unless the queue was full when it  *)
(* ended.  No login is given up for another one, and no answer is queued or  *)
(* sent twice, also when a drain runs inside a drain                         *)
(* (combo_auth_request_login, finish_error, finish_cancel,                   *)
(* finish_combo_success, combo_bridge_enqueue_callback).                     *)
UnderWay(i) == phase \notin Terminal /\ i = index
AttemptAnswered ==
  /\ AnsweredOnce
  /\ accepting /\ phase \notin Terminal =>
       index \in owed /\ asked[index] = "login_login" /\ index \notin answered
  /\ accepting => \A i \in owed :
       asked[i] = "login_login" /\ ~UnderWay(i) => i \in Queued \union Sent
=============================================================================
