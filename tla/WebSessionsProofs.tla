------------------------- MODULE WebSessionsProofs -------------------------
(***************************************************************************)
(* Proofs about WebSessions, for every set of accounts, browsers, requests *)
(* and tokens, and without a bound on them.                                *)
(***************************************************************************)
EXTENDS WebSessions, TLAPS

LEMMA NoCallType == NoCall \in Call /\ Fits(NoCall)
  BY ConstantsAssumption DEF NoCall, Call, Step, Operations, Fits

LEMMA InitType == Init => TypeOK
<1> SUFFICES ASSUME Init PROVE TypeOK
  OBVIOUS
<1> USE NoCallType, ConstantsAssumption DEF Init
<1>1. call \in [Calls -> Call] /\ \A c \in Calls : Fits(call[c])
  OBVIOUS
<1>2. cookie \in [Browsers -> Cookies]
  BY DEF Cookies
<1> QED
  BY <1>1, <1>2 DEF TypeOK

\* The part of TypeOK that the end of a request disturbs.
LEMMA EndType ==
  ASSUME TypeOK, NEW c \in Calls, End(c)
  PROVE  /\ call' \in [Calls -> Call]
         /\ \A d \in Calls : Fits(call'[d])
         /\ keyMu' \in Calls \cup {None}
  BY NoCallType DEF TypeOK, End

\* A request that goes on does so with a record of the right type.
LEMMA CallUpdate ==
  ASSUME TypeOK, NEW c \in Calls, NEW k \in Call, Fits(k), call' = [call EXCEPT ![c] = k]
  PROVE  call' \in [Calls -> Call] /\ \A d \in Calls : Fits(call'[d])
  BY DEF TypeOK

LEMMA AnswerType ==
  ASSUME TypeOK, NEW c \in Calls, call[c].pc # "idle",
         NEW s \in Tokens \cup {None}, NEW o \in States \cup {None}, Answer(c, s, o)
  PROVE  cookie' \in [Browsers -> Cookies]
<1>1. call[c].browser \in Browsers
  BY DEF TypeOK, Fits
<1>2. [session |-> s, oauth |-> o] \in Cookies
  BY DEF Cookies
<1>3. cookie \in [Browsers -> Cookies]
  BY DEF TypeOK
<1> QED
  BY <1>1, <1>2, <1>3 DEF Answer

\* The cookies a browser holds.
LEMMA CookieType ==
  ASSUME TypeOK, NEW b \in Browsers
  PROVE  cookie[b].session \in Tokens \cup {None} /\ cookie[b].oauth \in States \cup {None}
  BY DEF TypeOK, Cookies

LEMMA CallbackFailsType ==
  ASSUME TypeOK, NEW c \in Calls, call[c].pc # "idle", CallbackFails(c)
  PROVE  /\ call' \in [Calls -> Call]
         /\ \A d \in Calls : Fits(call'[d])
         /\ keyMu' \in Calls \cup {None}
         /\ cookie' \in [Browsers -> Cookies]
         /\ UNCHANGED history
<1>1. call[c].browser \in Browsers
  BY DEF TypeOK, Fits
<1>2. cookie[call[c].browser].session \in Tokens \cup {None}
  BY <1>1, CookieType
<1>3. Answer(c, cookie[call[c].browser].session, None)
  BY DEF CallbackFails
<1>4. cookie' \in [Browsers -> Cookies]
  BY <1>2, <1>3, AnswerType
<1>5. End(c) /\ UNCHANGED history
  BY DEF CallbackFails
<1> QED
  BY <1>4, <1>5, EndType

-----------------------------------------------------------------------------
LEMMA SignInType == 
  ASSUME TypeOK, NEW c \in Calls, SignIn(c)
  PROVE  TypeOK'
<1>0. call[c] \in Call /\ Fits(call[c])
  BY DEF TypeOK
<1>1. ASSUME NEW b \in Browsers, oauthStart(c, b) PROVE TypeOK'
  <2> DEFINE k == [NoCall EXCEPT !.pc = "cleanup", !.browser = b,
                                 !.session = cookie[b].session, !.at = now]
  <2>1. k \in Call /\ Fits(k)
    BY ConstantsAssumption, CookieType DEF TypeOK, NoCall, Call, Step, Operations, Fits
  <2> QED
    BY <1>1, <2>1, CallUpdate DEF oauthStart, TypeOK, tables, history
<1>2. ASSUME NEW b \in Browsers, oauthCallback(c, b) PROVE TypeOK'
  <2> DEFINE k == [NoCall EXCEPT !.pc = "consume", !.browser = b,
                                 !.oauth = cookie[b].oauth, !.at = now]
  <2>1. k \in Call /\ Fits(k)
    BY <1>2, ConstantsAssumption, CookieType
    DEF oauthCallback, TypeOK, NoCall, Call, Step, Operations, Fits
  <2> QED
    BY <1>2, <2>1, CallUpdate DEF oauthCallback, TypeOK, tables, history
<1>3. CASE StartCleanup(c)
  <2> DEFINE k == [call[c] EXCEPT !.pc = "discard", !.at = 0]
  <2>1. k \in Call /\ Fits(k)
    <3>1. call[c].pc = "cleanup"
      BY <1>3 DEF StartCleanup, At
    <3>2. k \in Call
      BY <1>0 DEF Call, Step
    <3>3. k.pc = "discard" /\ k.browser = call[c].browser
            /\ k.op = call[c].op /\ k.target = call[c].target
      BY <1>0 DEF Call
    <3> QED
      BY <1>0, <3>1, <3>2, <3>3 DEF Fits
  <2>2. call' = [call EXCEPT ![c] = k]
    BY <1>3 DEF StartCleanup, Goto, TypeOK
  <2> QED
    BY <1>3, <2>1, <2>2, CallUpdate DEF StartCleanup, CleanupAuth, TypeOK, history
<1>4. CASE StartDiscard(c)
  <2> DEFINE k == [call[c] EXCEPT !.pc = "issue", !.session = None]
  <2>1. k \in Call /\ Fits(k)
    <3>1. call[c].pc = "discard"
      BY <1>4 DEF StartDiscard, At
    <3>2. k \in Call
      BY <1>0 DEF Call, Step
    <3>3. k.pc = "issue" /\ k.browser = call[c].browser
            /\ k.op = call[c].op /\ k.target = call[c].target
      BY <1>0 DEF Call
    <3> QED
      BY <1>0, <3>1, <3>2, <3>3 DEF Fits
  <2>2. call' = [call EXCEPT ![c] = k]
    BY <1>4 DEF StartDiscard, TypeOK
  <2> QED
    BY <1>4, <2>1, <2>2, CallUpdate DEF StartDiscard, DeleteSession, TypeOK, history
<1>5. CASE CreateOAuthState(c)
  <2>1. PICK st \in States \ issued :
          /\ oauthStates' = oauthStates \cup {[state |-> st, expires |-> now + StateLife]}
          /\ issued' = issued \cup {st}
          /\ Answer(c, None, st)
    BY <1>5 DEF CreateOAuthState
  <2>2. cookie' \in [Browsers -> Cookies]
    BY <1>5, <2>1, AnswerType DEF CreateOAuthState, At
  <2>3. [state |-> st, expires |-> now + StateLife] \in OAuthRow
    BY ConstantsAssumption DEF OAuthRow, TypeOK
  <2>4. call' \in [Calls -> Call] /\ \A d \in Calls : Fits(call'[d])
    BY <1>5, NoCallType, CallUpdate DEF CreateOAuthState
  <2> QED
    BY <1>5, <2>1, <2>2, <2>3, <2>4 DEF CreateOAuthState, TypeOK
<1>6. CASE ConsumeOAuthState(c)
  <2>1. CASE CallbackFails(c)
    BY <1>6, <2>1, CallbackFailsType DEF ConsumeOAuthState, At, TypeOK, history
  <2>2. CASE Goto(c, "exchange") /\ UNCHANGED <<cookie, keyMu, history>>
    <3> DEFINE k == [call[c] EXCEPT !.pc = "exchange", !.at = 0]
    <3>1. k \in Call /\ Fits(k)
      <4>1. call[c].pc = "consume"
        BY <1>6 DEF ConsumeOAuthState, At
      <4>2. k \in Call
        BY <1>0 DEF Call, Step
      <4>3. /\ k.pc = "exchange" /\ k.browser = call[c].browser
            /\ k.oauth = call[c].oauth /\ k.op = call[c].op /\ k.target = call[c].target
        BY <1>0 DEF Call
      <4> QED
        BY <1>0, <4>1, <4>2, <4>3 DEF Fits
    <3>2. call' = [call EXCEPT ![c] = k]
      BY <2>2 DEF Goto, TypeOK
    <3> QED
      BY <1>6, <2>2, <3>1, <3>2, CallUpdate DEF ConsumeOAuthState, TypeOK, history
  <2> QED
    BY <1>6, <2>1, <2>2 DEF ConsumeOAuthState
<1>7. CASE Exchange(c)
  <2>1. CASE CallbackFails(c)
    BY <1>7, <2>1, CallbackFailsType DEF Exchange, At, TypeOK, history, tables
  <2>2. ASSUME NEW u \in Users,
          call' = [call EXCEPT ![c].pc = "login", ![c].user = u, ![c].at = now,
                     ![c].role = IF u \in admins THEN "admin" ELSE "user"],
          UNCHANGED <<cookie, keyMu, history>>
        PROVE TypeOK'
    <3> DEFINE new == IF u \in admins THEN "admin" ELSE "user"
    <3> DEFINE k == [call[c] EXCEPT !.pc = "login", !.user = u, !.at = now, !.role = new]
    <3>0. now \in Nat /\ call[c].pc = "exchange" /\ new \in {"user", "admin"}
      BY <1>7 DEF Exchange, At, TypeOK
    <3>2. call' = [call EXCEPT ![c] = k]
      BY <2>2 DEF TypeOK
    <3> HIDE DEF new
    <3>a. k \in Call
      BY <1>0, <3>0 DEF Call, Step
    <3>b. /\ k.pc = "login" /\ k.user = u /\ k.role # "none"
          /\ k.browser = call[c].browser /\ k.oauth = call[c].oauth
          /\ k.op = call[c].op /\ k.target = call[c].target
      BY <1>0, <3>0 DEF Call
    <3>1. k \in Call /\ Fits(k)
      BY <1>0, <3>0, <3>a, <3>b DEF Fits
    <3> QED
      BY <1>7, <2>2, <3>1, <3>2, CallUpdate DEF Exchange, TypeOK, history, tables
  <2> QED
    BY <1>7, <2>1, <2>2 DEF Exchange
<1>8. CASE LoginDiscordAtomic(c)
  <2> USE <1>0, <1>8
  <2>0. call[c].user \in Users /\ call[c].oauth \in States /\ call[c].at \in Nat
          /\ call[c].role \in {"user", "admin"} /\ call[c].pc # "idle"
    BY DEF LoginDiscordAtomic, At, Fits, Call
  <2>1. CASE ~LoginAllowed(c)
    BY <2>0, <2>1, CallbackFailsType DEF LoginDiscordAtomic, TypeOK, history
  <2>2. CASE LoginAllowed(c)
    <3>1. PICK t \in Tokens :
            /\ sessions' = sessions \cup
                 {[token |-> t, user |-> call[c].user, expires |-> call[c].at + SessionLife]}
            /\ origin' = [origin EXCEPT ![t] = [state |-> call[c].oauth, user |-> call[c].user]]
            /\ Answer(c, t, None)
      BY <2>2 DEF LoginDiscordAtomic
    <3>2. cookie' \in [Browsers -> Cookies]
      BY <2>0, <3>1, AnswerType
    <3>3. [token |-> t, user |-> call[c].user, expires |-> call[c].at + SessionLife] \in SessionRow
      BY <2>0, ConstantsAssumption DEF SessionRow
    <3>4. origin' \in [Tokens -> Origin \cup {None}]
      BY <2>0, <3>1 DEF Origin, TypeOK
    <3>5. End(c) /\ role' = [role EXCEPT ![call[c].user] = call[c].role] /\ UNCHANGED issued
      BY <2>2 DEF LoginDiscordAtomic
    <3> QED
      BY <2>0, <3>1, <3>2, <3>3, <3>4, <3>5, EndType DEF LoginDiscordAtomic, TypeOK
  <2> QED
    BY <2>1, <2>2
<1> QED
  BY <1>1, <1>2, <1>3, <1>4, <1>5, <1>6, <1>7, <1>8 DEF SignIn

LEMMA ActType ==
  ASSUME TypeOK, NEW c \in Calls, Act(c)
  PROVE  TypeOK'
<1>0. call[c] \in Call /\ Fits(call[c])
  BY DEF TypeOK
<1>1. ASSUME NEW b \in Browsers, Submit(c, b) PROVE TypeOK'
  <2>1. PICK p \in pages[b], op \in Operations, u \in Users :
          call' = [call EXCEPT ![c] = [NoCall EXCEPT
            !.pc = "auth", !.browser = b, !.session = cookie[b].session, !.page = p,
            !.at = now, !.op = op,
            !.target = IF op \in {"suspend", "unsuspend"} THEN u ELSE None]]
    BY <1>1 DEF Submit
  <2> DEFINE k == [NoCall EXCEPT
        !.pc = "auth", !.browser = b, !.session = cookie[b].session, !.page = p,
        !.at = now, !.op = op, !.target = IF op \in {"suspend", "unsuspend"} THEN u ELSE None]
  <2>2. p \in Tokens /\ now \in Nat
    BY DEF TypeOK
  <2>3. k \in Call /\ Fits(k)
    BY <2>2, ConstantsAssumption, CookieType DEF NoCall, Call, Step, Fits
  <2> QED
    BY <1>1, <2>1, <2>3, CallUpdate DEF Submit, TypeOK, tables, history
<1>2. CASE auth(c)
  <2> DEFINE row == {r \in SessionUser(call[c].session, call[c].at) : status[r.user] = "active"}
  <2>1. CASE Answer(c, None, cookie[call[c].browser].oauth) /\ End(c) /\ UNCHANGED history
    <3>1. call[c].browser \in Browsers /\ call[c].pc # "idle"
      BY <1>0, <1>2 DEF auth, At, Fits
    <3>2. cookie' \in [Browsers -> Cookies]
      BY <2>1, <3>1, CookieType, AnswerType
    <3> QED
      BY <1>2, <2>1, <3>2, EndType DEF auth, TypeOK, tables, history
  <2>2. ASSUME NEW r \in row, UNCHANGED cookie,
               call' = [call EXCEPT ![c].pc = "handle", ![c].at = 0, ![c].user = r.user],
               UNCHANGED <<keyMu, history>>
        PROVE TypeOK'
    <3> DEFINE k == [call[c] EXCEPT !.pc = "handle", !.at = 0, !.user = r.user]
    <3>0. r.user \in Users /\ call[c].pc = "auth"
      BY <1>2 DEF auth, At, SessionUser, SessionRow, TypeOK
    <3>a. k \in Call
      BY <1>0, <3>0 DEF Call, Step
    <3>b. /\ k.pc = "handle" /\ k.user = r.user
          /\ k.browser = call[c].browser
          /\ k.op = call[c].op /\ k.target = call[c].target
      BY <1>0 DEF Call
    <3>1. k \in Call /\ Fits(k)
      BY <1>0, <3>0, <3>a, <3>b DEF Fits
    <3>2. call' = [call EXCEPT ![c] = k]
      BY <2>2 DEF TypeOK
    <3> QED
      BY <1>2, <2>2, <3>1, <3>2, CallUpdate DEF auth, TypeOK, tables, history
  <2>3. CASE UNCHANGED cookie /\ End(c) /\ UNCHANGED history
    BY <1>2, <2>3, EndType DEF auth, TypeOK, tables, history
  <2> QED
    BY <1>2, <2>1, <2>2, <2>3 DEF auth
<1>3. CASE logout(c)
  <2>1. call[c].browser \in Browsers /\ call[c].pc # "idle"
    BY <1>0, <1>3 DEF logout, At, Fits
  <2>2. cookie' \in [Browsers -> Cookies]
    BY <1>3, <2>1, CookieType, AnswerType DEF logout
  <2> QED
    BY <1>3, <2>2, EndType DEF logout, DeleteSession, TypeOK, history
<1>4. CASE ensureActive(c)
  <2>1. CASE Goto(c, "insert") /\ UNCHANGED <<keyMu, history>>
    <3> DEFINE k == [call[c] EXCEPT !.pc = "insert", !.at = 0]
    <3>1. k \in Call /\ Fits(k)
      <4>1. call[c].pc = "handle"
        BY <1>4 DEF ensureActive, At
      <4>2. k \in Call
        BY <1>0 DEF Call, Step
      <4>3. /\ k.pc = "insert" /\ k.browser = call[c].browser
            /\ k.user = call[c].user /\ k.op = call[c].op /\ k.target = call[c].target
        BY <1>0 DEF Call
      <4> QED
        BY <1>0, <4>1, <4>2, <4>3 DEF Fits
    <3>2. call' = [call EXCEPT ![c] = k]
      BY <2>1 DEF Goto, TypeOK
    <3> QED
      BY <1>4, <2>1, <3>1, <3>2, CallUpdate DEF ensureActive, TypeOK, tables, history
  <2>2. CASE End(c) /\ UNCHANGED history
    BY <1>4, <2>2, EndType DEF ensureActive, TypeOK, tables, history
  <2> QED
    BY <1>4, <2>1, <2>2 DEF ensureActive
<1>5. CASE InsertAtomic(c)
  <2>1. holdings' \in [Users -> BOOLEAN]
    BY <1>5 DEF InsertAtomic, InsertAllowed, TypeOK
  <2> QED
    BY <1>5, <2>1, EndType DEF InsertAtomic, TypeOK, history
<1>6. CASE Release(c)
  BY <1>6, EndType DEF Release, TypeOK, history
<1>7. CASE SetUserSuspended(c)
  <2>1. CASE Goto(c, "commit") /\ keyMu' = c /\ UNCHANGED history
    <3> DEFINE k == [call[c] EXCEPT !.pc = "commit", !.at = 0]
    <3>1. k \in Call /\ Fits(k)
      <4>1. call[c].pc = "handle" /\ call[c].op \in {"suspend", "unsuspend"}
        BY <1>7 DEF SetUserSuspended, At
      <4>2. k \in Call
        BY <1>0 DEF Call, Step
      <4>3. /\ k.pc = "commit" /\ k.browser = call[c].browser
            /\ k.user = call[c].user /\ k.op = call[c].op /\ k.target = call[c].target
        BY <1>0 DEF Call
      <4> QED
        BY <1>0, <4>1, <4>2, <4>3 DEF Fits
    <3>2. call' = [call EXCEPT ![c] = k]
      BY <2>1 DEF Goto, TypeOK
    <3> QED
      BY <1>7, <2>1, <3>1, <3>2, CallUpdate DEF SetUserSuspended, TypeOK, tables, history
  <2>2. CASE End(c) /\ UNCHANGED history
    BY <1>7, <2>2, EndType DEF SetUserSuspended, TypeOK, tables, history
  <2> QED
    BY <1>7, <2>1, <2>2 DEF SetUserSuspended
<1>8. CASE SetUserStatusAtomic(c)
  <2>1. status' \in [Users -> {"active", "suspended"}]
    BY <1>8 DEF SetUserStatusAtomic, TypeOK
  <2>2. sessions' \in SUBSET SessionRow
    BY <1>8 DEF SetUserStatusAtomic, SessionsAfterSuspension, TypeOK
  <2> QED
    BY <1>8, <2>1, <2>2, EndType DEF SetUserStatusAtomic, TypeOK, history
<1> QED
  BY <1>1, <1>2, <1>3, <1>4, <1>5, <1>6, <1>7, <1>8 DEF Act

LEMMA TypeStep == TypeOK /\ [Next]_vars => TypeOK'
<1> SUFFICES ASSUME TypeOK, [Next]_vars PROVE TypeOK'
  OBVIOUS
<1>1. ASSUME NEW c \in Calls, Abort(c) PROVE TypeOK'
  BY <1>1, EndType DEF Abort, TypeOK, tables, history
<1>2. ASSUME NEW b \in Browsers, apiPage(b) PROVE TypeOK'
  <2>1. cookie[b].session \in Tokens
    BY <1>2 DEF apiPage, SessionUser, SessionRow, TypeOK
  <2> QED
    BY <1>2, <2>1 DEF apiPage, TypeOK, tables, history
<1>3. CASE Tick
  BY <1>3 DEF Tick, TypeOK, tables, history
<1>4. CASE Restart
  BY <1>4, NoCallType DEF Restart, CleanupAuth, TypeOK, history
<1>5. CASE UNCHANGED vars
  BY <1>5 DEF vars, tables, history, TypeOK
<1> QED
  BY <1>1, <1>2, <1>3, <1>4, <1>5, SignInType, ActType DEF Next

\* The values of the tables, of the cookies and of every request in progress
\* stay within their types.
THEOREM TypeCorrect == Spec => []TypeOK
<1>1. Init => TypeOK
  BY InitType
<1>2. TypeOK /\ [Next]_vars => TypeOK'
  BY TypeStep
<1> QED
  BY <1>1, <1>2, PTL DEF Spec

-----------------------------------------------------------------------------
(* Suspension and sign-in.                                                 *)

LEMMA SuspendedStep == TypeOK /\ SuspendedHasNoSession /\ [Next]_vars => SuspendedHasNoSession'
<1> SUFFICES ASSUME TypeOK, SuspendedHasNoSession, [Next]_vars
             PROVE  SuspendedHasNoSession'
  OBVIOUS
<1> USE DEF SuspendedHasNoSession
<1>1. ASSUME NEW c \in Calls, LoginDiscordAtomic(c) PROVE SuspendedHasNoSession'
  <2>1. CASE UNCHANGED <<status, sessions>>
    BY <2>1
  <2>2. ASSUME LoginAllowed(c), NEW t \in Tokens, UNCHANGED status,
               sessions' = sessions \cup
                 {[token |-> t, user |-> call[c].user, expires |-> call[c].at + SessionLife]}
        PROVE SuspendedHasNoSession'
    BY <2>2 DEF LoginAllowed
  <2> QED
    BY <1>1, <2>1, <2>2 DEF LoginDiscordAtomic
<1>2. ASSUME NEW c \in Calls, SetUserStatusAtomic(c) PROVE SuspendedHasNoSession'
  <2>1. call[c].target \in Users
    BY <1>2 DEF SetUserStatusAtomic, At, TypeOK, Fits
  <2>2. \A r \in sessions : r.user \in Users
    BY DEF TypeOK, SessionRow
  <2> QED
    BY <1>2, <2>1, <2>2 DEF SetUserStatusAtomic, SessionsAfterSuspension, TypeOK
<1>3. ASSUME UNCHANGED status, sessions' \subseteq sessions PROVE SuspendedHasNoSession'
  BY <1>3
<1>4. ASSUME NEW c \in Calls, SignIn(c), ~LoginDiscordAtomic(c)
      PROVE  UNCHANGED status /\ sessions' \subseteq sessions
  BY <1>4 DEF SignIn, oauthStart, oauthCallback, StartCleanup, CleanupAuth, StartDiscard,
    DeleteSession, CreateOAuthState, ConsumeOAuthState, Exchange, tables
<1>5. ASSUME NEW c \in Calls, Act(c), ~SetUserStatusAtomic(c)
      PROVE  UNCHANGED status /\ sessions' \subseteq sessions
  BY <1>5 DEF Act, Submit, auth, logout, DeleteSession, ensureActive, InsertAtomic, Release,
    SetUserSuspended, tables
<1>6. ASSUME \/ \E c \in Calls : Abort(c)
             \/ \E b \in Browsers : apiPage(b)
             \/ Tick \/ Restart \/ UNCHANGED vars
      PROVE  UNCHANGED status /\ sessions' \subseteq sessions
  BY <1>6 DEF Abort, apiPage, Tick, Restart, CleanupAuth, vars, tables
<1> QED
  BY <1>1, <1>2, <1>3, <1>4, <1>5, <1>6 DEF Next

\* LoginDiscordAtomic and SetUserStatusAtomic: whichever of them comes first, a
\* suspended user is left without a session.
THEOREM SuspendedSignedOut == Spec => []SuspendedHasNoSession
<1>1. Init => SuspendedHasNoSession
  BY DEF Init, SuspendedHasNoSession
<1>2. TypeOK /\ SuspendedHasNoSession /\ [Next]_vars => SuspendedHasNoSession'
  BY SuspendedStep
<1> QED
  BY <1>1, <1>2, TypeCorrect, PTL DEF Spec

\* Of all that a request can do only the insert gives a right, and it looks at
\* the status itself.
THEOREM NothingGained == Spec => SuspendedGainsNothing
<1>1. TypeOK /\ [Next]_vars =>
        [\A u \in Users : holdings'[u] /\ ~holdings[u] => status[u] = "active"]_vars
  <2> SUFFICES ASSUME TypeOK, Next, NEW u \in Users, holdings'[u], ~holdings[u]
               PROVE  status[u] = "active"
    OBVIOUS
  <2>1. ASSUME NEW c \in Calls, InsertAtomic(c) PROVE status[u] = "active"
    BY <2>1 DEF InsertAtomic, InsertAllowed, TypeOK
  <2>2. ASSUME NEW c \in Calls, Release(c) PROVE FALSE
    BY <2>2 DEF Release, TypeOK
  <2>3. ASSUME NEW c \in Calls, SignIn(c) PROVE UNCHANGED holdings
    BY <2>3 DEF SignIn, oauthStart, oauthCallback, StartCleanup, StartDiscard,
      CreateOAuthState, ConsumeOAuthState, Exchange, LoginDiscordAtomic, tables
  <2>4. ASSUME NEW c \in Calls, Act(c), ~InsertAtomic(c), ~Release(c)
        PROVE  UNCHANGED holdings
    BY <2>4 DEF Act, Submit, auth, logout, ensureActive, SetUserSuspended,
      SetUserStatusAtomic, tables
  <2>5. ASSUME \/ \E c \in Calls : Abort(c)
               \/ \E b \in Browsers : apiPage(b)
               \/ Tick \/ Restart
        PROVE  UNCHANGED holdings
    BY <2>5 DEF Abort, apiPage, Tick, Restart, tables
  <2> QED
    BY <2>1, <2>2, <2>3, <2>4, <2>5 DEF Next
<1> QED
  BY <1>1, TypeCorrect, PTL DEF Spec, SuspendedGainsNothing

-----------------------------------------------------------------------------
(* A state is consumed once.                                               *)

\* The state was drawn and its row is gone.
Spent(st) == st \in issued /\ \A r \in oauthStates : r.state # st

\* The callback of c has consumed its state and not yet logged in.
Carries(c) == call[c].pc \in {"exchange", "login"}

SpentInv ==
  /\ \A r \in oauthStates : r.state \in issued
  /\ \A c \in Calls : Carries(c) => Spent(call[c].oauth)
  /\ \A c, d \in Calls : c # d /\ Carries(c) /\ Carries(d) => call[c].oauth # call[d].oauth
  /\ \A t \in Tokens : origin[t] # None =>
       /\ Spent(origin[t].state)
       /\ \A c \in Calls : Carries(c) => call[c].oauth # origin[t].state
  /\ StateLogsInOnce

\* No state is drawn, consumed or turned into a session.
Quiet ==
  /\ oauthStates' \subseteq oauthStates
  /\ UNCHANGED <<issued, origin>>
  /\ \A c \in Calls : Carries(c)' => Carries(c) /\ call'[c].oauth = call[c].oauth

LEMMA QuietStep == SpentInv /\ Quiet => SpentInv'
  BY DEF SpentInv, Quiet, Spent, StateLogsInOnce

\* A step that changes the record of c only, and does not make c carry a state.
LEMMA OthersQuiet ==
  ASSUME TypeOK, NEW c \in Calls, NEW k, call' = [call EXCEPT ![c] = k],
         k.pc \notin {"exchange", "login"}
  PROVE  \A d \in Calls : Carries(d)' => d # c /\ Carries(d) /\ call'[d] = call[d]
  BY DEF TypeOK, Carries

LEMMA EndQuiet ==
  ASSUME TypeOK, NEW c \in Calls, End(c)
  PROVE  \A d \in Calls : Carries(d)' => d # c /\ Carries(d) /\ call'[d] = call[d]
  BY OthersQuiet DEF End, NoCall

LEMMA CreateSpent ==
  ASSUME TypeOK, SpentInv, NEW c \in Calls, CreateOAuthState(c)
  PROVE  SpentInv'
<1>1. PICK st \in States \ issued :
        /\ oauthStates' = oauthStates \cup {[state |-> st, expires |-> now + StateLife]}
        /\ issued' = issued \cup {st}
  BY DEF CreateOAuthState
<1>2. \A d \in Calls : Carries(d)' => Carries(d) /\ call'[d] = call[d]
  BY OthersQuiet DEF CreateOAuthState, NoCall
<1>3. \A x : Spent(x) => Spent(x)'
  BY <1>1 DEF Spent
<1>4. UNCHANGED origin
  BY DEF CreateOAuthState
<1>5. \A r \in oauthStates' : r.state \in issued'
  BY <1>1 DEF SpentInv
<1>6. \A d \in Calls : Carries(d)' => Spent(call[d].oauth)'
  BY <1>2, <1>3 DEF SpentInv
<1>7. \A t \in Tokens : origin[t] # None => Spent(origin[t].state)'
  BY <1>3, <1>4 DEF SpentInv
<1> QED
  BY <1>2, <1>4, <1>5, <1>6, <1>7 DEF SpentInv, StateLogsInOnce

LEMMA ConsumeSpent ==
  ASSUME TypeOK, SpentInv, NEW c \in Calls, ConsumeOAuthState(c)
  PROVE  SpentInv'
<1>0. oauthStates' = {r \in oauthStates : r.state # call[c].oauth} /\ call[c].pc = "consume"
  BY DEF ConsumeOAuthState, At
<1>1. CASE CallbackFails(c)
  BY <1>0, <1>1, EndQuiet, QuietStep DEF CallbackFails, Quiet, history
<1>2. CASE /\ \E r \in oauthStates : r.state = call[c].oauth
           /\ Goto(c, "exchange") /\ UNCHANGED history
  <2>1. call[c].oauth \in issued /\ ~Spent(call[c].oauth)
    BY <1>2 DEF SpentInv, Spent
  <2>2. call'[c].oauth = call[c].oauth /\ \A d \in Calls : d # c => call'[d] = call[d]
    BY <1>2 DEF Goto, TypeOK
  <2>3. Spent(call[c].oauth)' /\ \A x : Spent(x) => Spent(x)'
    BY <1>0, <1>2, <2>1, <2>2 DEF Spent, history
  <2>4. UNCHANGED <<issued, origin>>
    BY <1>2 DEF history
  <2>5. \A d \in Calls : d # c => (Carries(d)' <=> Carries(d))
    BY <2>2 DEF Carries
  <2>6. \A d \in Calls : Carries(d) => call[d].oauth # call[c].oauth
    BY <2>1 DEF SpentInv
  <2>7. \A t \in Tokens : origin[t] # None => origin[t].state # call[c].oauth
    BY <2>1 DEF SpentInv
  <2> QED
    BY <1>0, <2>2, <2>3, <2>4, <2>5, <2>6, <2>7 DEF SpentInv, StateLogsInOnce
<1> QED
  BY <1>1, <1>2 DEF ConsumeOAuthState

LEMMA LoginSpent ==
  ASSUME TypeOK, SpentInv, NEW c \in Calls, LoginDiscordAtomic(c)
  PROVE  SpentInv'
<1>0. UNCHANGED oauthStates /\ Carries(c)
  BY DEF LoginDiscordAtomic, At, Carries
<1>1. CASE CallbackFails(c)
  BY <1>0, <1>1, EndQuiet, QuietStep DEF CallbackFails, Quiet, history
<1>2. ASSUME NEW t \in Tokens, UNCHANGED issued, End(c),
             origin' = [origin EXCEPT ![t] = [state |-> call[c].oauth, user |-> call[c].user]]
      PROVE  SpentInv'
  <2>1. \A d \in Calls : Carries(d)' => d # c /\ Carries(d) /\ call'[d] = call[d]
    BY <1>2, EndQuiet
  <2>2. origin'[t].state = call[c].oauth /\ \A s \in Tokens : s # t => origin'[s] = origin[s]
    BY <1>2 DEF TypeOK
  <2>3. \A x : Spent(x) <=> Spent(x)'
    BY <1>0, <1>2 DEF Spent
  <2>4. Spent(call[c].oauth) /\ \A d \in Calls : Carries(d)' => call'[d].oauth # call[c].oauth
    BY <1>0, <2>1 DEF SpentInv
  <2>5. \A s \in Tokens : origin'[s] # None =>
          /\ Spent(origin[s].state)'
          /\ \A d \in Calls : Carries(d)' => call'[d].oauth # origin'[s].state
    BY <2>1, <2>2, <2>3, <2>4 DEF SpentInv
  <2>6. \A s \in Tokens : s # t /\ origin[s] # None => origin[s].state # call[c].oauth
    BY <1>0 DEF SpentInv
  <2>7. StateLogsInOnce'
    BY <2>2, <2>6 DEF SpentInv, StateLogsInOnce
  <2> QED
    BY <1>0, <1>2, <2>1, <2>3, <2>5, <2>7 DEF SpentInv
<1> QED
  BY <1>1, <1>2 DEF LoginDiscordAtomic

LEMMA SpentStep == TypeOK /\ SpentInv /\ [Next]_vars => SpentInv'
<1> SUFFICES ASSUME TypeOK, SpentInv, [Next]_vars PROVE SpentInv'
  OBVIOUS
<1>1. ASSUME NEW c \in Calls, SignIn(c),
             ~CreateOAuthState(c), ~ConsumeOAuthState(c), ~LoginDiscordAtomic(c)
      PROVE  Quiet
  <2>1. CASE CallbackFails(c) /\ Exchange(c)
    BY <2>1, EndQuiet DEF CallbackFails, Exchange, Quiet, history, tables
  <2>2. CASE Exchange(c) /\ ~CallbackFails(c)
    <3>1. PICK u \in Users :
            /\ call' = [call EXCEPT ![c].pc = "login", ![c].user = u, ![c].at = now,
                          ![c].role = IF u \in admins THEN "admin" ELSE "user"]
            /\ UNCHANGED history
      BY <2>2 DEF Exchange
    <3>2. call'[c].oauth = call[c].oauth /\ \A d \in Calls : d # c => call'[d] = call[d]
      BY <3>1 DEF TypeOK
    <3> QED
      BY <2>2, <3>1, <3>2 DEF Exchange, At, Quiet, Carries, history, tables
  <2>3. CASE \E b \in Browsers : oauthStart(c, b) \/ oauthCallback(c, b)
    BY <2>3, OthersQuiet DEF oauthStart, oauthCallback, NoCall, Quiet, history, tables
  <2>4. CASE StartCleanup(c)
    BY <2>4 DEF StartCleanup, CleanupAuth, Goto, Quiet, Carries, history, TypeOK
  <2>5. CASE StartDiscard(c)
    BY <2>5 DEF StartDiscard, Quiet, Carries, history, TypeOK
  <2> QED
    BY <1>1, <2>1, <2>2, <2>3, <2>4, <2>5 DEF SignIn
<1>2. ASSUME NEW c \in Calls, Act(c) PROVE Quiet
  <2>1. CASE End(c) /\ UNCHANGED oauthStates /\ UNCHANGED history
    BY <2>1, EndQuiet DEF Quiet, history
  <2>2. CASE \E b \in Browsers : Submit(c, b)
    BY <2>2, OthersQuiet DEF Submit, NoCall, Quiet, history, tables
  <2>3. CASE auth(c) /\ ~End(c)
    <3>1. PICK r \in sessions :
            /\ call' = [call EXCEPT ![c].pc = "handle", ![c].at = 0, ![c].user = r.user]
            /\ UNCHANGED history
      BY <2>3 DEF auth, SessionUser
    <3>2. call'[c].pc = "handle" /\ \A d \in Calls : d # c => call'[d] = call[d]
      BY <3>1 DEF TypeOK, Call
    <3> QED
      BY <2>3, <3>1, <3>2 DEF auth, Quiet, Carries, history, tables
  <2>4. CASE (ensureActive(c) \/ SetUserSuspended(c)) /\ ~End(c)
    <3>1. PICK pc \in {"insert", "commit"} :
            call' = [call EXCEPT ![c].pc = pc, ![c].at = 0] /\ UNCHANGED history
      BY <2>4 DEF ensureActive, SetUserSuspended, Goto
    <3>2. call'[c].pc = pc /\ \A d \in Calls : d # c => call'[d] = call[d]
      BY <3>1 DEF TypeOK, Call
    <3> QED
      BY <2>4, <3>1, <3>2 DEF ensureActive, SetUserSuspended, Quiet, Carries, history, tables
  <2> QED
    BY <1>2, <2>1, <2>2, <2>3, <2>4 DEF Act, auth, logout, ensureActive, InsertAtomic,
      Release, SetUserSuspended, SetUserStatusAtomic, tables
<1>3. ASSUME NEW c \in Calls, Abort(c) PROVE Quiet
  BY <1>3, EndQuiet DEF Abort, Quiet, history, tables
<1>4. CASE Restart
  BY <1>4, QuietStep DEF Restart, CleanupAuth, NoCall, Quiet, Carries, history
<1>5. CASE Tick \/ UNCHANGED vars \/ \E b \in Browsers : apiPage(b)
  BY <1>5, QuietStep DEF Tick, apiPage, vars, Quiet, Carries, history, tables
<1> QED
  BY <1>1, <1>2, <1>3, <1>4, <1>5, QuietStep, CreateSpent, ConsumeSpent, LoginSpent DEF Next

\* ConsumeOAuthState: two callbacks with one state, at whatever distance, do
\* not both end in a session.
THEOREM StateUsedOnce == Spec => []StateLogsInOnce
<1>1. Init => SpentInv
  <2> SUFFICES ASSUME Init PROVE SpentInv
    OBVIOUS
  <2>1. \A c \in Calls : ~Carries(c)
    BY DEF Init, Carries, NoCall
  <2> QED
    BY <2>1 DEF Init, SpentInv, StateLogsInOnce
<1>2. TypeOK /\ SpentInv /\ [Next]_vars => SpentInv'
  BY SpentStep
<1>3. SpentInv => StateLogsInOnce
  BY DEF SpentInv
<1> QED
  BY <1>1, <1>2, <1>3, TypeCorrect, PTL DEF Spec

-----------------------------------------------------------------------------
(* A request acts for the user of its page.                                *)

\* auth and csrf have let the request of c pass.
Acting(c) == call[c].pc \in {"handle", "insert", "commit"}

\* Sessions belong to the user they were made for, and a request that has passed
\* acts for the user that its page's session was made for.
PageInv ==
  /\ \A r \in sessions : origin[r.token] # None /\ origin[r.token].user = r.user
  /\ \A c \in Calls : Acting(c) => /\ call[c].page \in Tokens /\ origin[call[c].page] # None
                                   /\ origin[call[c].page].user = call[c].user

\* No session is made and no request passes.
NobodyPasses ==
  /\ UNCHANGED origin
  /\ sessions' \subseteq sessions
  /\ \A d \in Calls : Acting(d)' => /\ Acting(d) /\ call'[d].page = call[d].page
                                    /\ call'[d].user = call[d].user

LEMMA NobodyStep == PageInv /\ NobodyPasses => PageInv'
  BY DEF PageInv, NobodyPasses

\* A step that changes the record of c only, and does not let it pass.
LEMMA OthersPass ==
  ASSUME TypeOK, NEW c \in Calls, NEW k, call' = [call EXCEPT ![c] = k],
         k.pc \notin {"handle", "insert", "commit"}
  PROVE  \A d \in Calls : Acting(d)' => d # c /\ Acting(d) /\ call'[d] = call[d]
  BY DEF TypeOK, Acting

LEMMA EndPass ==
  ASSUME TypeOK, NEW c \in Calls, End(c)
  PROVE  \A d \in Calls : Acting(d)' => d # c /\ Acting(d) /\ call'[d] = call[d]
  BY OthersPass DEF End, NoCall

LEMMA LoginPages ==
  ASSUME TypeOK, PageInv, NEW c \in Calls, LoginDiscordAtomic(c)
  PROVE  PageInv'
<1>1. CASE CallbackFails(c) /\ UNCHANGED sessions
  BY <1>1, EndPass, NobodyStep DEF CallbackFails, NobodyPasses, history
<1>2. ASSUME NEW t \in Tokens, origin[t] = None, End(c),
             sessions' = sessions \cup
               {[token |-> t, user |-> call[c].user, expires |-> call[c].at + SessionLife]},
             origin' = [origin EXCEPT ![t] = [state |-> call[c].oauth, user |-> call[c].user]]
      PROVE  PageInv'
  <2>1. call[c].oauth \in States /\ call[c].user \in Users
    BY DEF TypeOK, Fits, LoginDiscordAtomic, At
  <2>2. origin'[t] # None /\ origin'[t].user = call[c].user
    BY <1>2, <2>1, ConstantsAssumption DEF TypeOK
  <2>3. \A s \in Tokens : origin[s] # None => origin'[s] = origin[s]
    BY <1>2 DEF TypeOK
  <2>4. \A r \in sessions : r.token \in Tokens
    BY DEF TypeOK, SessionRow
  <2>5. \A r \in sessions' : origin'[r.token] # None /\ origin'[r.token].user = r.user
    BY <1>2, <2>2, <2>3, <2>4 DEF PageInv
  <2>6. \A d \in Calls : Acting(d)' => Acting(d) /\ call'[d] = call[d]
    BY <1>2, EndPass
  <2> QED
    BY <2>3, <2>5, <2>6 DEF PageInv
<1> QED
  BY <1>1, <1>2 DEF LoginDiscordAtomic

LEMMA AuthPages ==
  ASSUME TypeOK, PageInv, NEW c \in Calls, auth(c)
  PROVE  PageInv'
<1>1. CASE End(c) /\ UNCHANGED history
  BY <1>1, EndPass, NobodyStep DEF auth, NobodyPasses, history, tables
<1>2. ASSUME NEW r \in sessions, r.token = call[c].session, csrf(c), UNCHANGED history,
             call' = [call EXCEPT ![c].pc = "handle", ![c].at = 0, ![c].user = r.user]
      PROVE  PageInv'
  <2>1. /\ call'[c].page = call[c].page /\ call'[c].user = r.user
        /\ \A d \in Calls : d # c => call'[d] = call[d]
    BY <1>2 DEF TypeOK, Call
  <2>2. call[c].page = r.token /\ r.token \in Tokens
    BY <1>2 DEF csrf, TypeOK, SessionRow
  <2>3. origin[r.token] # None /\ origin[r.token].user = r.user
    BY DEF PageInv
  <2> QED
    BY <1>2, <2>1, <2>2, <2>3 DEF auth, PageInv, Acting, history, tables
<1> QED
  BY <1>1, <1>2 DEF auth, SessionUser

LEMMA PageStep == TypeOK /\ PageInv /\ [Next]_vars => PageInv'
<1> SUFFICES ASSUME TypeOK, PageInv, [Next]_vars PROVE PageInv'
  OBVIOUS
<1>1. ASSUME NEW c \in Calls, SignIn(c), ~LoginDiscordAtomic(c) PROVE NobodyPasses
  <2>1. CASE End(c) /\ UNCHANGED <<sessions, origin>>
    BY <2>1, EndPass DEF NobodyPasses
  <2>2. CASE \E k : /\ k.pc \notin {"handle", "insert", "commit"}
                    /\ call' = [call EXCEPT ![c] = k]
                    /\ sessions' \subseteq sessions /\ UNCHANGED origin
    BY <2>2, OthersPass DEF NobodyPasses
  <2>3. CASE \E b \in Browsers : oauthStart(c, b) \/ oauthCallback(c, b)
    BY <2>2, <2>3 DEF oauthStart, oauthCallback, NoCall, history, tables
  <2>4. CASE StartCleanup(c)
    <3>1. [call[c] EXCEPT !.pc = "discard", !.at = 0].pc = "discard"
      BY DEF TypeOK, Call
    <3> QED
      BY <2>2, <2>4, <3>1 DEF StartCleanup, CleanupAuth, Goto, TypeOK, history
  <2>5. CASE StartDiscard(c)
    <3>1. [call[c] EXCEPT !.pc = "issue", !.session = None].pc = "issue"
      BY DEF TypeOK, Call
    <3> QED
      BY <2>2, <2>5, <3>1 DEF StartDiscard, DeleteSession, TypeOK, history
  <2>6. CASE CreateOAuthState(c)
    BY <2>2, <2>6 DEF CreateOAuthState, NoCall
  <2>7. CASE ConsumeOAuthState(c)
    <3>1. [call[c] EXCEPT !.pc = "exchange", !.at = 0].pc = "exchange"
      BY DEF TypeOK, Call
    <3> QED
      BY <2>1, <2>2, <2>7, <3>1 DEF ConsumeOAuthState, CallbackFails, Goto, TypeOK, history
  <2>8. CASE Exchange(c)
    <3>1. CASE CallbackFails(c)
      BY <2>1, <2>8, <3>1 DEF Exchange, CallbackFails, history, tables
    <3>2. CASE ~CallbackFails(c)
      <4>1. PICK u \in Users :
              /\ call' = [call EXCEPT ![c].pc = "login", ![c].user = u, ![c].at = now,
                            ![c].role = IF u \in admins THEN "admin" ELSE "user"]
              /\ UNCHANGED history
        BY <2>8, <3>2 DEF Exchange
      <4>2. call'[c].pc = "login" /\ \A d \in Calls : d # c => call'[d] = call[d]
        BY <4>1 DEF TypeOK, Call
      <4> QED
        BY <2>8, <4>1, <4>2 DEF Exchange, NobodyPasses, Acting, history, tables
    <3> QED
      BY <3>1, <3>2
  <2> QED
    BY <1>1, <2>3, <2>4, <2>5, <2>6, <2>7, <2>8 DEF SignIn
<1>2. ASSUME NEW c \in Calls, Act(c), ~auth(c) PROVE NobodyPasses
  <2>1. CASE End(c) /\ sessions' \subseteq sessions /\ UNCHANGED origin
    BY <2>1, EndPass DEF NobodyPasses
  <2>2. CASE \E b \in Browsers : Submit(c, b)
    <3>1. PICK k : k.pc = "auth" /\ call' = [call EXCEPT ![c] = k]
      BY <2>2 DEF Submit, NoCall
    <3> QED
      BY <2>2, <3>1, OthersPass DEF Submit, NobodyPasses, history, tables
  <2>3. CASE (ensureActive(c) \/ SetUserSuspended(c)) /\ ~End(c)
    <3>1. PICK pc \in {"insert", "commit"} :
            call' = [call EXCEPT ![c].pc = pc, ![c].at = 0] /\ UNCHANGED history
      BY <2>3 DEF ensureActive, SetUserSuspended, Goto
    <3>2. /\ call'[c].page = call[c].page /\ call'[c].user = call[c].user
          /\ \A d \in Calls : d # c => call'[d] = call[d]
      BY <3>1 DEF TypeOK, Call
    <3>3. Acting(c)
      BY <2>3 DEF ensureActive, SetUserSuspended, At, Acting
    <3> QED
      BY <2>3, <3>1, <3>2, <3>3 DEF ensureActive, SetUserSuspended, NobodyPasses, Acting,
        history, tables
  <2>4. CASE \/ logout(c) \/ InsertAtomic(c) \/ Release(c) \/ SetUserStatusAtomic(c)
             \/ (ensureActive(c) \/ SetUserSuspended(c)) /\ End(c)
    BY <2>1, <2>4 DEF logout, DeleteSession, InsertAtomic, Release, SetUserStatusAtomic,
      SessionsAfterSuspension, ensureActive, SetUserSuspended, history, tables
  <2> QED
    BY <1>2, <2>2, <2>3, <2>4 DEF Act
<1>3. ASSUME NEW c \in Calls, Abort(c) PROVE NobodyPasses
  BY <1>3, EndPass DEF Abort, NobodyPasses, history, tables
<1>4. CASE Restart
  BY <1>4, NobodyStep DEF Restart, CleanupAuth, NoCall, NobodyPasses, Acting, history
<1>5. CASE Tick \/ UNCHANGED vars \/ \E b \in Browsers : apiPage(b)
  BY <1>5, NobodyStep DEF Tick, apiPage, vars, NobodyPasses, Acting, history, tables
<1> QED
  BY <1>1, <1>2, <1>3, <1>4, <1>5, NobodyStep, LoginPages, AuthPages DEF Next

\* csrf and auth: a request changes what belongs to the user whose session its
\* page was made for, whoever the browser has signed in as in the meantime.
THEOREM PagesActForTheirUser == Spec => ActsAsThePageShowed
<1>1. Init => PageInv
  BY DEF Init, PageInv, Acting, NoCall
<1>2. TypeOK /\ PageInv /\ [Next]_vars => PageInv'
  BY PageStep
<1>3. TypeOK /\ PageInv /\ [Next]_vars =>
        [\A u \in Users : holdings'[u] # holdings[u] =>
           \E c \in Calls : /\ call'[c] # call[c]
                            /\ origin[call[c].page].user = u]_vars
  <2> SUFFICES ASSUME TypeOK, PageInv, Next, NEW u \in Users, holdings'[u] # holdings[u]
               PROVE  \E c \in Calls : call'[c] # call[c] /\ origin[call[c].page].user = u
    OBVIOUS
  <2>1. ASSUME NEW c \in Calls, InsertAtomic(c) \/ Release(c)
        PROVE  call'[c] # call[c] /\ origin[call[c].page].user = u
    <3>1. Acting(c) /\ End(c) /\ call[c].user = u
      BY <2>1 DEF InsertAtomic, Release, At, Acting, TypeOK
    <3>2. call'[c] # call[c]
      BY <3>1, EndPass DEF Acting, End, NoCall, TypeOK
    <3> QED
      BY <3>1, <3>2 DEF PageInv
  <2>2. ASSUME NEW c \in Calls, SignIn(c) PROVE UNCHANGED holdings
    BY <2>2 DEF SignIn, oauthStart, oauthCallback, StartCleanup, StartDiscard,
      CreateOAuthState, ConsumeOAuthState, Exchange, LoginDiscordAtomic, tables
  <2>3. ASSUME NEW c \in Calls, Act(c), ~InsertAtomic(c), ~Release(c)
        PROVE  UNCHANGED holdings
    BY <2>3 DEF Act, Submit, auth, logout, ensureActive, SetUserSuspended,
      SetUserStatusAtomic, tables
  <2>4. ASSUME \/ \E c \in Calls : Abort(c)
               \/ \E b \in Browsers : apiPage(b)
               \/ Tick \/ Restart
        PROVE  UNCHANGED holdings
    BY <2>4 DEF Abort, apiPage, Tick, Restart, tables
  <2> QED
    BY <2>1, <2>2, <2>3, <2>4 DEF Next
<1> QED
  BY <1>1, <1>2, <1>3, TypeCorrect, PTL DEF Spec, ActsAsThePageShowed
=============================================================================
