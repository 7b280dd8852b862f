---------------------------- MODULE TokensProofs ----------------------------
(* What holds of the tokens for any lifetimes, lead time and handlers.       *)
EXTENDS Tokens, TLAPS

LEMMA JobsTyped ==
  /\ Idle \in [kind : {"none", "sign_in", "refresh", "logout", "other"},
               rt : Pairs \cup {0}, by : {"none", "app", "timer"}]
  /\ [Idle EXCEPT !.kind = "other"] \in
       [kind : {"none", "sign_in", "refresh", "logout", "other"},
        rt : Pairs \cup {0}, by : {"none", "app", "timer"}]
BY DEF Idle

\* The two deadlines the code takes the later of.
LEMMA SecsTyped ==
  ASSUME NEW e \in Nat, now \in Nat
  PROVE  /\ SecsUntilRefresh(e) \in Nat
         /\ SecsUntilRefresh(e) = Floor \/ SecsUntilRefresh(e) = e - now - Lead
         /\ SecsUntilRefresh(e) >= Floor
BY TimesAssumption DEF SecsUntilRefresh

LEMMA TypeInductive == TypeOK /\ [Next]_vars => TypeOK'
<1> SUFFICES ASSUME TypeOK, [Next]_vars PROVE TypeOK'
  OBVIOUS
<1> USE TimesAssumption, NoneAssumption, JobsTyped
    DEF TypeOK, loopVars, timerVars, appVars, serverVars
<1>1. CASE UNCHANGED vars
  BY <1>1 DEF vars
<1>2. CASE LoopStep
  <2>1. CASE ScheduleRefresh
    <3>1. state # None => now + SecsUntilRefresh(state.expires_at) \in Nat
      BY SecsTyped DEF TokenRefreshState
    <3>2. deadline' \in Nat
      BY <2>1, <3>1 DEF ScheduleRefresh
    <3>3. armed' \in BOOLEAN /\ unseen' \in BOOLEAN
      BY <2>1, Zenon DEF ScheduleRefresh
    <3>4. pc' \in {"top", "idle", "call"}
      BY <2>1 DEF ScheduleRefresh
    <3>5. UNCHANGED <<job, busy, now, token, state, app, asked, boot, valid,
                      issued, loggedOut, failures, restarts>>
      BY <2>1 DEF ScheduleRefresh
    <3> QED
      BY <3>2, <3>3, <3>4, <3>5, SMT
  <2>2. CASE RefreshDue
    <3>1. /\ pc' \in {"top", "idle", "call"} /\ busy' \in 0..(Slack + 1)
          /\ job' \in [kind : {"none", "sign_in", "refresh", "logout", "other"},
                      rt : Pairs \cup {0}, by : {"none", "app", "timer"}]
      BY <2>2 DEF RefreshDue, Begin, TokenRefreshState
    <3> QED
      BY <2>2, <3>1, Zenon DEF RefreshDue
  <2>3. CASE HandleEvent
    BY <2>3 DEF HandleEvent, Begin
  <2>4. CASE HandleRefreshToken
    BY <2>4 DEF HandleRefreshToken, Begin
  <2>5. CASE HandlerReturns
    BY <2>5 DEF HandlerReturns
  <2> QED
    BY <1>2, <2>1, <2>2, <2>3, <2>4, <2>5 DEF LoopStep
<1>3. CASE Answer
  <2> USE DEF Continue, GiveUp, ClearTokens, Issue, Budget, Pairs
  <2>1. ASSUME NEW k \in Pairs, NEW life \in Lives, NEW r \in Pairs \cup {0},
               SetTokens(k, r, now + life)
        PROVE  /\ token' \in Pairs \cup {None}
               /\ state' \in TokenRefreshState \cup {None}
               /\ unseen' \in BOOLEAN
               /\ app' \in Stored \cup {None}
               /\ failures' \subseteq {"transport", "reject", "slow"}
    BY <2>1 DEF SetTokens, TokenRefreshState, Stored
  <2>2. CASE SignInAnswered
    BY <2>1, <2>2 DEF SignInAnswered
  <2>3. CASE RefreshAnswered
    BY <2>1, <2>3 DEF RefreshAnswered
  <2>4. CASE SignInRefused
    BY <2>4 DEF SignInRefused
  <2>5. CASE SignInFails
    BY <2>5 DEF SignInFails
  <2>6. CASE RefreshRefused
    BY <2>6 DEF RefreshRefused
  <2>7. CASE RefreshFails
    BY <2>7 DEF RefreshFails
  <2>8. CASE LogoutAnswered
    BY <2>8 DEF LogoutAnswered, LogoutServed
  <2> QED
    BY <1>3, <2>2, <2>3, <2>4, <2>5, <2>6, <2>7, <2>8 DEF Answer
<1>4. CASE AskRefresh
  BY <1>4 DEF AskRefresh, Stored
<1>5. CASE Tick
  <2>1. busy' \in 0..(Slack + 1) /\ now' \in Nat
    BY <1>5 DEF Tick
  <2>2. failures' \subseteq {"transport", "reject", "slow"}
    BY <1>5 DEF Tick
  <2>3. UNCHANGED <<pc, job, token, state, unseen, armed, deadline, app, asked,
                    boot, valid, issued, loggedOut, restarts>>
    BY <1>5 DEF Tick
  <2> QED
    BY <2>1, <2>2, <2>3
<1>6. CASE Revoke
  BY <1>6 DEF Revoke
<1>7. CASE Restart
  <2>1. /\ boot' \in Pairs \cup {None} /\ token' \in Pairs \cup {None}
        /\ restarts' \in 0..MaxRestarts /\ busy' \in 0..(Slack + 1) /\ deadline' \in Nat
    BY <1>7 DEF Restart, Stored
  <2>2. pc' \in {"top", "idle", "call"}
    BY <1>7 DEF Restart
  <2> QED
    BY <1>7, <2>1, <2>2, Zenon DEF Restart
<1> QED
  BY <1>1, <1>2, <1>3, <1>4, <1>5, <1>6, <1>7 DEF Next

LEMMA InitTyped == Init => TypeOK
<1> SUFFICES ASSUME Init PROVE TypeOK
  OBVIOUS
<1>1. /\ now \in Nat /\ busy \in 0..(Slack + 1) /\ deadline \in Nat
      /\ issued \in 0..MaxTokens /\ restarts \in 0..MaxRestarts
  BY TimesAssumption DEF Init
<1>2. pc \in {"top", "idle", "call"}
  BY DEF Init
<1> QED
  BY <1>1, <1>2, JobsTyped, Zenon DEF Init, TypeOK

\* Every variable of the token handling keeps its type; no deadline is negative.
THEOREM TypeCorrect == Spec => []TypeOK
BY InitTyped, TypeInductive, PTL DEF Spec

-----------------------------------------------------------------------------
LEMMA SameTokensInductive == SameTokens /\ [Next]_vars => SameTokens'
<1> SUFFICES ASSUME SameTokens, [Next]_vars PROVE SameTokens'
  OBVIOUS
<1> USE DEF SameTokens, loopVars, timerVars, appVars, serverVars
<1>1. CASE UNCHANGED vars \/ LoopStep
  BY <1>1 DEF vars, LoopStep, ScheduleRefresh, RefreshDue, HandleEvent,
              HandleRefreshToken, HandlerReturns
<1>2. CASE SignInAnswered \/ RefreshAnswered
  BY <1>2 DEF SignInAnswered, RefreshAnswered, SetTokens
<1>3. CASE SignInRefused \/ SignInFails \/ RefreshRefused \/ RefreshFails
           \/ LogoutAnswered
  BY <1>3 DEF SignInRefused, SignInFails, RefreshRefused, RefreshFails,
              LogoutAnswered, ClearTokens
<1>4. CASE AskRefresh \/ Tick \/ Revoke \/ Restart
  BY <1>4 DEF AskRefresh, Tick, Revoke, Restart
<1> QED
  BY <1>1, <1>2, <1>3, <1>4 DEF Next, Answer

\* Engine and app never hold different tokens, whatever the server does and
\* however often the app restarts.
THEOREM TokensAgree == Spec => []SameTokens
<1>1. Init => SameTokens
  BY DEF Init, SameTokens
<1> QED
  BY <1>1, SameTokensInductive, PTL DEF Spec

-----------------------------------------------------------------------------
\* Where the time goes between two sets of tokens: the rest of the handler that
\* brought them, a handler that runs when the timer is due, and the refresh.
Served == state # None /\ "transport" \notin failures
InTime == state # None /\ failures \cap {"transport", "slow"} = {}

FreshInv ==
  /\ pc = "idle" => ~unseen
  /\ InTime /\ pc = "call" => busy <= Slack
  /\ InTime /\ unseen =>
       /\ now + Floor + 3 * Slack <= state.expires_at + busy
       /\ busy <= Slack
  /\ InTime /\ ~unseen /\ armed =>
       /\ deadline + 2 * Slack <= state.expires_at
       /\ now <= deadline + (IF pc = "call" THEN busy ELSE Slack)
  /\ InTime /\ ~unseen /\ ~armed =>
       /\ pc = "call" /\ job.kind = "refresh" /\ job.by = "timer"
       /\ now + Slack <= state.expires_at + busy

\* What counts as slow is more than half the lead time; tokens outlive three
\* handlers that are not slow.
Timely ==
  /\ Lead >= 2 * Slack
  /\ \A life \in Lives : life >= Floor + 3 * Slack

LEMMA FreshInductive ==
  ASSUME Timely
  PROVE  TypeOK /\ FreshInv /\ [Next]_vars => FreshInv'
<1> SUFFICES ASSUME TypeOK, FreshInv, [Next]_vars PROVE FreshInv'
  OBVIOUS
<1>1. /\ now \in Nat /\ busy \in Nat /\ busy <= Slack + 1 /\ deadline \in Nat
      /\ state # None => state.expires_at \in Nat
      /\ Slack \in Nat /\ Floor \in Nat /\ Lead \in Nat /\ Lives \subseteq Nat
  BY TimesAssumption DEF TypeOK, TokenRefreshState
<1> USE <1>1, NoneAssumption
    DEF FreshInv, InTime, loopVars, timerVars, appVars, serverVars
<1>2. CASE UNCHANGED vars
  BY <1>2 DEF vars
<1>3. CASE ScheduleRefresh
  <2>1. CASE InTime /\ unseen
    <3> DEFINE S == SecsUntilRefresh(state.expires_at)
    <3>1. /\ S \in Nat /\ S >= Floor
          /\ S = Floor \/ S = state.expires_at - now - Lead
      BY <2>1, SecsTyped
    <3> HIDE DEF S
    <3>2. now + S + 2 * Slack <= state.expires_at /\ now <= now + S + Slack
      BY <2>1, <3>1 DEF Timely
    <3>3. /\ pc' = "idle" /\ ~unseen' /\ armed' /\ deadline' = now + S
          /\ state' = state /\ now' = now
      BY <1>3, <2>1 DEF ScheduleRefresh, S
    <3> QED
      BY <2>1, <3>2, <3>3
  <2>2. CASE ~InTime
    BY <1>3, <2>2 DEF ScheduleRefresh
  <2>3. CASE InTime /\ ~unseen
    BY <1>3, <2>3 DEF ScheduleRefresh
  <2> QED
    BY <2>1, <2>2, <2>3
<1>4. CASE RefreshDue
  BY <1>4 DEF RefreshDue, Begin, Due
<1>5. CASE HandleEvent \/ HandleRefreshToken
  BY <1>5 DEF HandleEvent, HandleRefreshToken, Begin, Due
<1>6. CASE HandlerReturns
  BY <1>6 DEF HandlerReturns
<1>7. CASE SignInAnswered \/ RefreshAnswered
  <2>1. PICK k \in Pairs, life \in Lives, r \in Pairs \cup {0} :
          SetTokens(k, r, now + life)
    BY <1>7 DEF SignInAnswered, RefreshAnswered
  <2>2. pc' = "call" /\ now' = now /\ busy' = 0
    BY <1>7 DEF SignInAnswered, RefreshAnswered, Continue
  <2>3. /\ state' = [rt |-> r, expires_at |-> now + life]
        /\ state' \in TokenRefreshState
    <3>1. now + life \in Nat
      BY ONLY <1>1, life \in Lives
    <3>2. state' = [rt |-> r, expires_at |-> now + life]
      BY <2>1 DEF SetTokens
    <3> QED
      BY <3>1, <3>2 DEF TokenRefreshState
  <2>4. unseen' /\ state' # None /\ state'.expires_at = now + life
    BY <2>1, <2>3 DEF SetTokens
  <2> QED
    BY <2>2, <2>4 DEF Timely
<1>8. CASE SignInRefused \/ SignInFails
  BY <1>8 DEF SignInRefused, SignInFails, GiveUp
<1>9. CASE RefreshRefused \/ LogoutAnswered
  BY <1>9 DEF RefreshRefused, LogoutAnswered, GiveUp, ClearTokens
<1>10. CASE Tick
  <2>1. CASE pc = "idle"
    BY <1>10, <2>1 DEF Tick, Due
  <2>2. CASE pc = "call"
    BY <1>10, <2>2 DEF Tick
  <2> QED
    BY <1>10, <2>1, <2>2 DEF Tick
<1>11. CASE AskRefresh \/ Revoke \/ Restart
  BY <1>11 DEF AskRefresh, Revoke, Restart
<1>12. CASE RefreshFails
  BY <1>12 DEF RefreshFails, GiveUp
<1> QED
  BY <1>2, <1>3, <1>4, <1>5, <1>6, <1>7, <1>8, <1>9, <1>10, <1>11, <1>12
     DEF Next, LoopStep, Answer

\* The lead time does its work: tokens that live long enough do not expire in use
\* before the timer's refresh has failed in transport or a handler has taken
\* more than half of the lead time.
THEOREM TokensStayFresh == ASSUME Timely PROVE Spec => []FreshWhileServed
<1>1. Init => TypeOK /\ FreshInv
  <2>1. Init => FreshInv
    BY DEF Init, FreshInv, InTime
  <2> QED
    BY <2>1, InitTyped
<1>2. TypeOK /\ FreshInv => FreshWhileServed
  <2> SUFFICES ASSUME TypeOK, FreshInv, InTime
               PROVE  now <= state.expires_at
    BY DEF FreshWhileServed, InTime
  <2>1. /\ now \in Nat /\ busy \in Nat /\ busy <= Slack + 1 /\ deadline \in Nat
        /\ state.expires_at \in Nat /\ Slack \in Nat /\ Floor \in Nat
    BY TimesAssumption, NoneAssumption DEF TypeOK, TokenRefreshState, InTime
  <2> QED
    BY <2>1 DEF FreshInv, InTime
<1> QED
  BY <1>1, <1>2, TypeInductive, FreshInductive, PTL DEF Spec

-----------------------------------------------------------------------------
\* The timer is off only while the refresh it has started is under way.
ArmedInv ==
  /\ pc = "idle" => ~unseen
  /\ Served /\ ~unseen /\ ~armed =>
       pc = "call" /\ job.kind = "refresh" /\ job.by = "timer"

LEMMA ArmedInductive == ArmedInv /\ [Next]_vars => ArmedInv'
<1> SUFFICES ASSUME ArmedInv, [Next]_vars PROVE ArmedInv'
  OBVIOUS
<1> USE DEF ArmedInv, Served, loopVars, timerVars, appVars, serverVars
<1>1. CASE UNCHANGED vars \/ LoopStep
  <2>1. CASE UNCHANGED vars
    BY <2>1 DEF vars
  <2>2. CASE ScheduleRefresh
    <3>1. CASE unseen
      BY <2>2, <3>1 DEF ScheduleRefresh
    <3>2. CASE ~unseen
      BY <2>2, <3>2 DEF ScheduleRefresh
    <3> QED
      BY <3>1, <3>2
  <2>3. CASE RefreshDue
    BY <2>3 DEF RefreshDue, Begin
  <2>4. CASE HandleEvent \/ HandleRefreshToken \/ HandlerReturns
    BY <2>4 DEF HandleEvent, HandleRefreshToken, HandlerReturns, Begin
  <2> QED
    BY <1>1, <2>1, <2>2, <2>3, <2>4 DEF LoopStep
<1>2. CASE SignInAnswered \/ RefreshAnswered
  BY <1>2 DEF SignInAnswered, RefreshAnswered, SetTokens, Continue
<1>3. CASE SignInRefused \/ SignInFails \/ RefreshRefused \/ LogoutAnswered
  BY <1>3 DEF SignInRefused, SignInFails, RefreshRefused, LogoutAnswered, GiveUp,
              ClearTokens
<1>4. CASE RefreshFails
  BY <1>4 DEF RefreshFails, GiveUp
<1>5. CASE AskRefresh \/ Tick \/ Revoke \/ Restart
  BY <1>5 DEF AskRefresh, Tick, Revoke, Restart
<1> QED
  BY <1>1, <1>2, <1>3, <1>4, <1>5 DEF Next, Answer

\* An engine that holds tokens has the next refresh scheduled whenever it rests,
\* unless the timer's refresh has failed in transport.
THEOREM RefreshIsScheduled == Spec => []RefreshScheduled
<1>1. Init => ArmedInv
  BY DEF Init, ArmedInv, Served
<1>2. ArmedInv => RefreshScheduled
  BY DEF ArmedInv, Served, RefreshScheduled
<1> QED
  BY <1>1, <1>2, ArmedInductive, PTL DEF Spec

-----------------------------------------------------------------------------
\* An app signed out by the engine has one without tokens to refresh, so the
\* refresh that the timer starts is one for an app that is signed in.
SignedOutInv ==
  /\ app = None /\ "reject" \notin failures => state = None
  /\ job.kind = "sign_in" => job.by = "app"
  /\ job.kind = "refresh" =>
       job.by = "app" \/ app # None \/ "reject" \in failures

LEMMA SignedOutInductive ==
  SignedOutInv /\ [Next]_vars =>
    /\ SignedOutInv'
    /\ app = None /\ app' # None /\ "reject" \notin failures => job.by = "app"
<1> SUFFICES ASSUME SignedOutInv, [Next]_vars
             PROVE  /\ SignedOutInv'
                    /\ app = None /\ app' # None /\ "reject" \notin failures =>
                         job.by = "app"
  OBVIOUS
<1> USE DEF SignedOutInv, loopVars, timerVars, appVars, serverVars, Idle
<1>1. CASE UNCHANGED vars
  BY <1>1 DEF vars
<1>2. CASE LoopStep
  BY <1>2 DEF LoopStep, ScheduleRefresh, RefreshDue, HandleEvent,
              HandleRefreshToken, HandlerReturns, Begin
<1>3. CASE SignInAnswered \/ RefreshAnswered
  <2>1. job'.kind = "other"
    BY <1>3 DEF SignInAnswered, RefreshAnswered, Continue
  <2>2. app' # None
    <3>1. PICK k \in Pairs, r \in Pairs \cup {0} :
            app' = [access |-> k, rt |-> r]
      BY <1>3 DEF SignInAnswered, RefreshAnswered, SetTokens
    <3>2. app' \in Stored
      BY <3>1 DEF Stored
    <3> QED
      BY <3>2, NoneAssumption
  <2>3. app = None /\ "reject" \notin failures => job.by = "app"
    BY <1>3 DEF SignInAnswered, RefreshAnswered
  <2> QED
    BY <2>1, <2>2, <2>3
<1>4. CASE SignInRefused
  BY <1>4 DEF SignInRefused, GiveUp
<1>5. CASE SignInFails \/ RefreshRefused \/ RefreshFails \/ LogoutAnswered
  BY <1>5 DEF SignInFails, RefreshRefused, RefreshFails, LogoutAnswered, GiveUp,
              ClearTokens
<1>6. CASE AskRefresh \/ Tick \/ Revoke \/ Restart
  BY <1>6 DEF AskRefresh, Tick, Revoke, Restart
<1> QED
  BY <1>1, <1>2, <1>3, <1>4, <1>5, <1>6 DEF Next, Answer

\* An app that was signed out by anything but a refused sign-in gets tokens again
\* only when it asked for them: no timer signs it in.
THEOREM SignedOutForGood == Spec => SignedOutStaysOut
<1>1. Init => SignedOutInv
  BY DEF Init, SignedOutInv, Idle
<1>2. SignedOutInv /\ [Next]_vars
        => [app = None /\ app' # None /\ "reject" \notin failures
              => job.by = "app"]_vars
  BY SignedOutInductive
<1> QED
  BY <1>1, <1>2, SignedOutInductive, PTL DEF Spec, SignedOutStaysOut
=============================================================================
