------------------------------- MODULE Tokens -------------------------------
(* Sign-in, token refresh and logout (src/src/engine.rs), against the copy   *)
(* of the tokens that the app stores and the sessions the server honours.    *)
(*                                                                           *)
(* The event loop runs one handler at a time; a handler waits for the server *)
(* and time passes meanwhile.  Whatever a handler does beside the tokens     *)
(* (key uploads, the stream, messages) is "other" work that takes time.      *)
EXTENDS Integers

CONSTANTS
  Faults,      \* which faults the run allows, see below
  Lives,       \* lifetimes the server gives access tokens
  Lead,        \* how long before expiry to refresh (300 s)
  Floor,       \* the least time until a refresh (10 s)
  Slack,       \* a handler that takes longer is slow
  None,        \* Rust's None
  MaxTime, MaxTokens, MaxRestarts    \* bounds

(* "transport"  a refresh may fail, with or without having been served       *)
(* "reject"     the server may refuse a registration or a login              *)
(* "revoke"     the server may end a session by itself                       *)
(* "app"        the app may ask for a refresh with the token it has stored   *)
(* "omit"       a refresh may be answered without a new refresh token        *)
ASSUME FaultsAssumption ==
  Faults \subseteq {"transport", "reject", "revoke", "app", "omit"}
ASSUME TimesAssumption ==
  /\ Lives \subseteq Nat /\ Lead \in Nat /\ Floor \in Nat /\ Slack \in Nat
  /\ MaxTime \in Nat /\ MaxTokens \in Nat /\ MaxRestarts \in Nat

\* Tokens come in pairs, an access and a refresh token of one number; 0 is the
\* empty string.
Pairs == 1..MaxTokens
Stored == [access : Pairs, rt : Pairs \cup {0}]
TokenRefreshState == [rt : Pairs \cup {0}, expires_at : Nat]
ASSUME NoneAssumption ==
  None \notin Pairs \cup {0} /\ None \notin Stored \cup TokenRefreshState

VARIABLES
  pc,          \* "top" of the loop, "idle" in its select!, "call" in a handler
  job,         \* the handler: its kind, the refresh token it uses, its cause
  now,         \* wall clock, which the token lifetimes refer to
  busy,        \* how long the running handler has taken, at most Slack + 1;
               \* counted anew when it has brought tokens
  token,       \* Transport.token
  state,       \* the value of the watch channel token_state
  unseen,      \* token_rx.has_changed()
  armed,       \* refresh_armed
  deadline,    \* of refresh_sleep
  app,         \* the tokens the app has stored
  asked,       \* a RefreshToken event in the queue: its token, or None
  boot,        \* config.auth_token of this process
  valid,       \* the pairs the server honours
  issued,      \* how many pairs the server has issued
  loggedOut,   \* history: the pair in use at the last logout the server served
  failures,    \* history: since the tokens were last set or cleared, did the
               \* timer's refresh fail in transport, was a sign-in refused,
               \* has a handler been slow
  restarts

loopVars == <<pc, job, busy>>
timerVars == <<unseen, armed, deadline>>
appVars == <<app, asked>>
serverVars == <<valid, issued>>
vars == <<loopVars, now, token, state, timerVars, appVars, boot, serverVars,
          loggedOut, failures, restarts>>

Idle == [kind |-> "none", rt |-> 0, by |-> "none"]

TypeOK ==
  /\ pc \in {"top", "idle", "call"}
  /\ job \in [kind : {"none", "sign_in", "refresh", "logout", "other"},
              rt : Pairs \cup {0}, by : {"none", "app", "timer"}]
  /\ now \in Nat /\ busy \in 0..(Slack + 1)
  /\ token \in Pairs \cup {None}
  /\ state \in TokenRefreshState \cup {None}
  /\ unseen \in BOOLEAN /\ armed \in BOOLEAN /\ deadline \in Nat
  /\ app \in Stored \cup {None}
  /\ asked \in Pairs \cup {0, None}
  /\ boot \in Pairs \cup {None}
  /\ valid \subseteq Pairs /\ issued \in 0..MaxTokens
  /\ loggedOut \in Pairs \cup {None}
  /\ failures \subseteq {"transport", "reject", "slow"}
  /\ restarts \in 0..MaxRestarts

Init ==
  /\ pc = "top" /\ job = Idle /\ now = 0 /\ busy = 0
  /\ token = None /\ state = None
  /\ unseen = FALSE /\ armed = FALSE /\ deadline = 0
  /\ app = None /\ asked = None /\ boot = None
  /\ valid = {} /\ issued = 0
  /\ loggedOut = None /\ failures = {} /\ restarts = 0

-----------------------------------------------------------------------------
(* The loop and its timer                                                    *)

\* Changed form: the refresh is due when the token expires.
SecsUntilRefreshLate(expires) ==
  IF expires - now > Floor THEN expires - now ELSE Floor

\* Changed form: no lower bound.
SecsUntilRefreshUnbounded(expires) == expires - now - Lead

SecsUntilRefresh(expires) ==
  IF expires - now - Lead > Floor THEN expires - now - Lead ELSE Floor

\* Changed form: the new deadline is set and the timer left as it was.
ScheduleRefreshUnarmed ==
  /\ pc = "top" /\ pc' = "idle" /\ unseen' = FALSE
  /\ armed' = (armed /\ state # None)
  /\ deadline' = IF unseen /\ state # None
                   THEN now + SecsUntilRefresh(state.expires_at) ELSE deadline
  /\ UNCHANGED <<job, busy, now, token, state, appVars, boot, serverVars,
                 loggedOut, failures, restarts>>

\* The top of the loop: new tokens set the timer, no tokens disarm it.
ScheduleRefresh ==
  /\ pc = "top" /\ pc' = "idle"
  /\ unseen' = FALSE
  /\ armed' = IF unseen THEN state # None ELSE armed
  /\ deadline' = IF unseen /\ state # None
                   THEN now + SecsUntilRefresh(state.expires_at) ELSE deadline
  /\ UNCHANGED <<job, busy, now, token, state, appVars, boot, serverVars,
                 loggedOut, failures, restarts>>

Due == armed /\ now >= deadline

\* The bound on tokens; time stops short of a refresh that would exceed it.
Budget == issued < MaxTokens

\* A handler starts.
Begin(kind, rt, by) ==
  /\ pc' = "call" /\ busy' = 0
  /\ job' = [kind |-> kind, rt |-> rt, by |-> by]

\* The timer fires; it stays off until there are new tokens.
RefreshDue ==
  /\ pc = "idle" /\ Due
  /\ armed' = FALSE
  /\ IF state # None THEN Begin("refresh", state.rt, "timer")
     ELSE pc' = "top" /\ UNCHANGED <<job, busy>>
  /\ UNCHANGED <<now, token, state, unseen, deadline, appVars, boot,
                 serverVars, loggedOut, failures, restarts>>

\* RegisterDevice and Authenticate, Logout, and all that is not about tokens;
\* the select! is biased, a timer that is due goes first.
HandleEvent ==
  /\ pc = "idle" /\ ~Due
  /\ \E kind \in {"sign_in", "logout", "other"} : Begin(kind, 0, "app")
  /\ UNCHANGED <<now, token, state, timerVars, appVars, boot, serverVars,
                 loggedOut, failures, restarts>>

\* The app dispatches RefreshToken with the refresh token it has stored.
AskRefresh ==
  /\ "app" \in Faults
  /\ app # None /\ asked = None
  /\ asked' = app.rt
  /\ UNCHANGED <<loopVars, now, token, state, timerVars, app, boot,
                 serverVars, loggedOut, failures, restarts>>

HandleRefreshToken ==
  /\ pc = "idle" /\ ~Due /\ asked # None /\ Budget
  /\ Begin("refresh", asked, "app")
  /\ asked' = None
  /\ UNCHANGED <<now, token, state, timerVars, app, boot, serverVars,
                 loggedOut, failures, restarts>>

HandlerReturns ==
  /\ pc = "call" /\ job.kind = "other"
  /\ pc' = "top" /\ job' = Idle
  /\ UNCHANGED <<busy, now, token, state, timerVars, appVars, boot,
                 serverVars, loggedOut, failures, restarts>>

-----------------------------------------------------------------------------
(* The server's answers                                                      *)

\* The handler goes on with the stream and the pre-keys.
Continue == pc' = "call" /\ job' = [Idle EXCEPT !.kind = "other"] /\ busy' = 0

GiveUp == pc' = "top" /\ job' = Idle /\ UNCHANGED busy

\* New tokens: the bearer token, set_token_state, SetAuthToken.
SetTokens(access, rt, expires) ==
  /\ token' = access
  /\ state' = [rt |-> rt, expires_at |-> expires] /\ unseen' = TRUE
  /\ app' = [access |-> access, rt |-> rt]
  /\ failures' = {}

\* clear_token_state and ClearAuth.
ClearTokens == state' = None /\ unseen' = TRUE /\ app' = None /\ failures' = {}

\* The server issues pair k, which lives for one of Lives.
Issue(k) == Budget /\ k = issued + 1 /\ issued' = k

SignInAnswered ==
  /\ pc = "call" /\ job.kind = "sign_in"
  /\ \E k \in Pairs, life \in Lives :
        /\ Issue(k) /\ valid' = valid \cup {k}
        /\ SetTokens(k, k, now + life)
  /\ Continue
  /\ UNCHANGED <<now, armed, deadline, asked, boot, loggedOut, restarts>>

\* Unauthenticated: ClearAuth, and nothing else is cleared.
SignInRefused ==
  /\ "reject" \in Faults
  /\ pc = "call" /\ job.kind = "sign_in"
  /\ app' = None /\ failures' = failures \cup {"reject"}
  /\ GiveUp
  /\ UNCHANGED <<now, token, state, timerVars, asked, boot, serverVars,
                 loggedOut, restarts>>

\* No tokens: a transport error, no core, no proof of work, a bad answer.
SignInFails ==
  /\ pc = "call" /\ job.kind = "sign_in"
  /\ GiveUp
  /\ UNCHANGED <<now, token, state, timerVars, appVars, boot, serverVars,
                 loggedOut, failures, restarts>>

\* Changed form: the loop's own copy keeps the refresh token that was used.
RefreshAnsweredKeepingToken ==
  /\ pc = "call" /\ job.kind = "refresh" /\ job.rt \in valid
  /\ \E k \in Pairs, life \in Lives :
        /\ Issue(k) /\ valid' = (valid \ {job.rt}) \cup {k}
        /\ token' = k /\ unseen' = TRUE
        /\ state' = [rt |-> job.rt, expires_at |-> now + life]
        /\ app' = [access |-> k, rt |-> k] /\ failures' = {}
  /\ Continue
  /\ UNCHANGED <<now, armed, deadline, asked, boot, loggedOut, restarts>>

\* The server replaces the pair.  A refresh token missing from the answer is
\* stored as the empty string (unwrap_or_default).
RefreshAnswered ==
  /\ pc = "call" /\ job.kind = "refresh" /\ job.rt \in valid
  /\ \E k \in Pairs, life \in Lives :
        /\ Issue(k)
        /\ \/ valid' = (valid \ {job.rt}) \cup {k} /\ SetTokens(k, k, now + life)
           \/ "omit" \in Faults /\ UNCHANGED valid /\ SetTokens(k, 0, now + life)
  /\ Continue
  /\ UNCHANGED <<now, armed, deadline, asked, boot, loggedOut, restarts>>

\* Unauthenticated.
RefreshRefused ==
  /\ pc = "call" /\ job.kind = "refresh" /\ job.rt \notin valid
  /\ ClearTokens
  /\ GiveUp
  /\ UNCHANGED <<now, token, armed, deadline, asked, boot, serverVars,
                 loggedOut, restarts>>

\* Any other error is logged; the server may have served the request.
RefreshFails ==
  /\ "transport" \in Faults
  /\ pc = "call" /\ job.kind = "refresh"
  /\ \/ UNCHANGED serverVars
     \/ /\ job.rt \in valid
        /\ \E k \in Pairs :
              Issue(k) /\ valid' = (valid \ {job.rt}) \cup {k}
  /\ failures' = IF job.by = "timer" THEN failures \cup {"transport"} ELSE failures
  /\ GiveUp
  /\ UNCHANGED <<now, token, state, timerVars, appVars, boot, loggedOut,
                 restarts>>

\* The request names config.auth_token, the token the process was started with.
\* Whether it succeeds or not, the tokens are dropped and ClearAuth fires.
LogoutServed ==
  \/ valid' = valid \ {boot} /\ loggedOut' = token
  \/ UNCHANGED <<valid, loggedOut>>

\* Changed form: without clear_token_state.
LogoutAnsweredKeepingState ==
  /\ pc = "call" /\ job.kind = "logout"
  /\ LogoutServed
  /\ token' = None /\ app' = None
  /\ GiveUp
  /\ UNCHANGED <<now, state, timerVars, asked, boot, issued, failures,
                 restarts>>

LogoutAnswered ==
  /\ pc = "call" /\ job.kind = "logout"
  /\ LogoutServed
  /\ token' = None /\ ClearTokens
  /\ GiveUp
  /\ UNCHANGED <<now, armed, deadline, asked, boot, issued, restarts>>

-----------------------------------------------------------------------------
(* Time, the server and the app                                              *)

\* The loop does not sleep through a due timer. A handler may take any time: a
\* unary call has no limit, and ensure_connected tries until it succeeds.
Tick ==
  /\ now < MaxTime /\ now' = now + 1
  /\ Budget \/ ~armed \/ now' < deadline
  /\ \/ pc = "idle" /\ ~Due /\ UNCHANGED <<busy, failures>>
     \/ /\ pc = "call"
        /\ busy' = IF busy > Slack THEN busy ELSE busy + 1
        /\ failures' = IF busy' > Slack THEN failures \cup {"slow"} ELSE failures
  /\ UNCHANGED <<pc, job, token, state, timerVars, appVars, boot, serverVars,
                 loggedOut, restarts>>

\* A session is ended elsewhere.
Revoke ==
  /\ "revoke" \in Faults
  /\ \E k \in valid : valid' = valid \ {k}
  /\ UNCHANGED <<loopVars, now, token, state, timerVars, appVars, boot, issued,
                 loggedOut, failures, restarts>>

\* The app is killed and builds a new engine with its stored access token; the
\* refresh token has no place in the configuration.
Restart ==
  /\ restarts < MaxRestarts /\ restarts' = restarts + 1
  /\ pc' = "top" /\ job' = Idle /\ busy' = 0
  /\ boot' = IF app = None THEN None ELSE app.access
  /\ token' = boot'
  /\ state' = None /\ unseen' = FALSE /\ armed' = FALSE /\ deadline' = 0
  /\ asked' = None /\ failures' = {}
  /\ UNCHANGED <<now, app, serverVars, loggedOut>>

LoopStep == ScheduleRefresh \/ RefreshDue \/ HandleEvent
            \/ HandleRefreshToken \/ HandlerReturns

Answer == SignInAnswered \/ SignInRefused \/ SignInFails \/ RefreshAnswered
          \/ RefreshRefused \/ RefreshFails \/ LogoutAnswered

Next == LoopStep \/ Answer \/ AskRefresh \/ Tick \/ Revoke \/ Restart

Spec == Init /\ [][Next]_vars

-----------------------------------------------------------------------------
(* Properties                                                                *)

\* The engine refreshes with the token the app has stored: whatever is refused,
\* lost or repeated, the two copies never drift apart.
SameTokens ==
  state # None /\ app # None => app = [access |-> token, rt |-> state.rt]

\* While the engine has token state a refresh is on its way ("persisted in the
\* engine for auto-refresh scheduling", src/src/engine.rs:66), unless the one
\* that the timer started failed in transport.
RefreshScheduled ==
  pc = "idle" /\ state # None /\ "transport" \notin failures => armed

\* The access token is refreshed before it expires, in spite of handlers that
\* keep the loop from its timer (src/src/engine.rs:296), unless the
\* timer's refresh failed in transport or a handler was slow: no handler has a
\* limit, and one that reconnects in an outage (src/src/engine.rs:312-336)
\* outlasts any lead time.
FreshWhileServed ==
  state # None /\ failures \cap {"transport", "slow"} = {} =>
     now <= state.expires_at

\* Signed out, the app gets tokens again only if it asked for them ("Clear
\* token state on logout or unrecoverable auth error", src/src/engine.rs:173),
\* unless it was signed out by a refused sign-in.
SignedOutStaysOut ==
  [][app = None /\ app' # None /\ "reject" \notin failures => job.by = "app"]_vars

\* A logout that the server served ends the session that was in use ("Log out
\* and revoke all tokens on the server", src/src/events.rs:47).
LogoutRevokes == loggedOut \notin valid
=============================================================================
