---------------------------- MODULE WebSessions ----------------------------
(***************************************************************************)
(* Signing in to the console, sessions, and what a signed-in request does. *)
(*                                                                         *)
(* Requests run concurrently. Each is a sequence of database statements or *)
(* transactions, which the one SQLite connection serialises, and of calls  *)
(* to Discord; anything may happen between two of them. A request keeps    *)
(* what it has read: the time at which it started, the user and the role   *)
(* that auth() found, the answer of Discord. The browser gets its cookies  *)
(* with the answer, if the answer reaches it.                              *)
(***************************************************************************)
EXTENDS Naturals

CONSTANTS
  Users,        \* Discord accounts
  States,       \* values of randomToken for OAuth states, each drawn once
  Tokens,       \* values of randomToken for sessions, each drawn once
  Browsers,
  Calls,        \* requests that can be in progress at a time
  StateLife,    \* ten minutes
  SessionLife,  \* seven days
  MaxTime,      \* bound on the clock
  None

\* What a signed-in browser can ask for.
Operations == {"logout", "reserve", "release", "suspend", "unsuspend"}

ASSUME ConstantsAssumption ==
  /\ StateLife \in Nat
  /\ SessionLife \in Nat
  /\ MaxTime \in Nat
  /\ None \notin Users \cup States \cup Tokens \cup Calls \cup Operations
  /\ None \notin [state : States, user : Users]

VARIABLES
  now,
  admins,       \* ADMIN_DISCORD_IDS of the running process
  role,         \* users.role, "none" for an account without a row
  status,       \* users.status
  oauthStates,  \* the table oauth_states
  sessions,     \* the table sessions
  holdings,     \* does the user hold the right that requests ask for
  cookie,       \* each browser's session and OAuth cookies
  pages,        \* the sessions for which a browser has a page open
  call,         \* the requests in progress
  keyMu,        \* the request that holds Service.keyMu, or None
  issued,       \* history: the states that were drawn
  origin        \* history: the state and the user each session came from

tables  == <<role, status, oauthStates, sessions, holdings>>
history == <<issued, origin>>
vars    == <<now, admins, tables, cookie, pages, call, keyMu, history>>

OAuthRow   == [state : States, expires : Nat]
SessionRow == [token : Tokens, user : Users, expires : Nat]
Origin     == [state : States, user : Users]
Cookies    == [session : Tokens \cup {None}, oauth : States \cup {None}]
Step == {"idle", "cleanup", "discard", "issue", "consume", "exchange", "login",
         "auth", "handle", "insert", "commit"}
Call == [pc : Step, browser : Browsers \cup {None}, session : Tokens \cup {None},
         oauth : States \cup {None}, page : Tokens \cup {None}, at : Nat,
         op : Operations \cup {None}, target : Users \cup {None},
         user : Users \cup {None}, role : {"none", "user", "admin"}]
NoCall == [pc |-> "idle", browser |-> None, session |-> None, oauth |-> None,
           page |-> None, at |-> 0, op |-> None, target |-> None, user |-> None,
           role |-> "none"]

\* What request k has read by the step it is at.
Fits(k) ==
  /\ k.pc # "idle" => k.browser \in Browsers
  /\ k.pc \in {"consume", "exchange", "login"} => k.oauth \in States
  /\ k.pc \in {"login", "handle", "insert", "commit"} => k.user \in Users
  /\ k.pc = "login" => k.role # "none"
  /\ k.op \in {"suspend", "unsuspend"} => k.target \in Users
  /\ k.pc = "commit" => k.op \in {"suspend", "unsuspend"}

TypeOK ==
  /\ now \in Nat
  /\ admins \in SUBSET Users
  /\ role \in [Users -> {"none", "user", "admin"}]
  /\ status \in [Users -> {"active", "suspended"}]
  /\ oauthStates \in SUBSET OAuthRow
  /\ sessions \in SUBSET SessionRow
  /\ holdings \in [Users -> BOOLEAN]
  /\ cookie \in [Browsers -> Cookies]
  /\ pages \in [Browsers -> SUBSET Tokens]
  /\ call \in [Calls -> Call]
  /\ \A c \in Calls : Fits(call[c])
  /\ keyMu \in Calls \cup {None}
  /\ issued \in SUBSET States
  /\ origin \in [Tokens -> Origin \cup {None}]

\* The users whom an earlier configuration made administrators are in the
\* database; every session has expired in the meantime.
Init ==
  /\ now = 0
  /\ admins \in SUBSET Users
  /\ role \in [Users -> {"none", "user", "admin"}]
  /\ status = [u \in Users |-> "active"]
  /\ oauthStates = {}
  /\ sessions = {}
  /\ holdings = [u \in Users |-> FALSE]
  /\ cookie = [b \in Browsers |-> [session |-> None, oauth |-> None]]
  /\ pages = [b \in Browsers |-> {}]
  /\ call = [c \in Calls |-> NoCall]
  /\ keyMu = None
  /\ issued = {}
  /\ origin = [t \in Tokens |-> None]

-----------------------------------------------------------------------------
(* The life of a request.                                                  *)

At(c, pc)   == call[c].pc = pc
\* What has been used is forgotten: the time at which the request started.
Goto(c, pc) == call' = [call EXCEPT ![c].pc = pc, ![c].at = 0]

\* The handler returns. Its deferred Unlock runs.
End(c) ==
  /\ call' = [call EXCEPT ![c] = NoCall]
  /\ keyMu' = IF keyMu = c THEN None ELSE keyMu

\* The cookies in the answer: they arrive or the answer is lost.
Answer(c, session, oauth) ==
  cookie' \in {cookie, [cookie EXCEPT ![call[c].browser] =
                                      [session |-> session, oauth |-> oauth]]}

\* The client goes away or a statement fails: whatever follows is not done.
Abort(c) ==
  /\ ~At(c, "idle")
  /\ End(c)
  /\ UNCHANGED <<now, admins, tables, cookie, pages, history>>

-----------------------------------------------------------------------------
(* GET /auth/discord                                                       *)

\* The browser follows the link to sign in.
oauthStart(c, b) ==
  /\ At(c, "idle")
  /\ issued # States
  /\ call' = [call EXCEPT ![c] = [NoCall EXCEPT
       !.pc = "cleanup", !.browser = b, !.session = cookie[b].session, !.at = now]]
  /\ UNCHANGED <<now, admins, tables, cookie, pages, keyMu, history>>

CleanupAuth(t) ==
  /\ sessions' = {r \in sessions : r.expires > t}
  /\ oauthStates' = {r \in oauthStates : r.expires > t}

StartCleanup(c) ==
  /\ At(c, "cleanup")
  /\ CleanupAuth(call[c].at)
  /\ Goto(c, "discard")
  /\ UNCHANGED <<now, admins, role, status, holdings, cookie, pages, keyMu, history>>

DeleteSession(t) == sessions' = {r \in sessions : r.token # t}

StartDiscard(c) ==
  /\ At(c, "discard")
  /\ DeleteSession(call[c].session)
  /\ call' = [call EXCEPT ![c].pc = "issue", ![c].session = None]
  /\ UNCHANGED <<now, admins, role, status, oauthStates, holdings, cookie, pages,
                 keyMu, history>>

CreateOAuthState(c) ==
  /\ At(c, "issue")
  /\ \E st \in States \ issued :
       /\ oauthStates' = oauthStates \cup {[state |-> st, expires |-> now + StateLife]}
       /\ issued' = issued \cup {st}
       /\ Answer(c, None, st)
  /\ call' = [call EXCEPT ![c] = NoCall]
  /\ UNCHANGED <<now, admins, role, status, sessions, holdings, pages, keyMu, origin>>

-----------------------------------------------------------------------------
(* GET /auth/callback                                                      *)

\* Discord redirects the browser back; the state of the query must be that of
\* the cookie. The page can be loaded twice.
oauthCallback(c, b) ==
  /\ At(c, "idle")
  /\ cookie[b].oauth # None
  /\ call' = [call EXCEPT ![c] = [NoCall EXCEPT
       !.pc = "consume", !.browser = b, !.oauth = cookie[b].oauth, !.at = now]]
  /\ UNCHANGED <<now, admins, tables, cookie, pages, keyMu, history>>

\* Every answer of the callback clears the OAuth cookie.
CallbackFails(c) ==
  /\ Answer(c, cookie[call[c].browser].session, None)
  /\ End(c)
  /\ UNCHANGED history

\* Mutant: the row is only read.
ConsumeOAuthStateTwice(c) ==
  /\ At(c, "consume")
  /\ UNCHANGED oauthStates
  /\ IF \E r \in oauthStates : r.state = call[c].oauth /\ r.expires > call[c].at
       THEN Goto(c, "exchange") /\ UNCHANGED <<cookie, keyMu, history>>
       ELSE CallbackFails(c)
  /\ UNCHANGED <<now, admins, role, status, sessions, holdings, pages>>

\* The row is deleted and the deletion committed before its age is looked at.
ConsumeOAuthState(c) ==
  /\ At(c, "consume")
  /\ oauthStates' = {r \in oauthStates : r.state # call[c].oauth}
  /\ IF \E r \in oauthStates : r.state = call[c].oauth /\ r.expires > call[c].at
       THEN Goto(c, "exchange") /\ UNCHANGED <<cookie, keyMu, history>>
       ELSE CallbackFails(c)
  /\ UNCHANGED <<now, admins, role, status, sessions, holdings, pages>>

\* Mutant: an answer of Discord without an id is taken for a user.
ExchangeUnchecked(c) ==
  /\ At(c, "exchange")
  /\ \/ \E u \in Users \cup {None} :
          /\ call' = [call EXCEPT ![c].pc = "login", ![c].user = u, ![c].at = now,
                        ![c].role = IF u \in admins THEN "admin" ELSE "user"]
          /\ UNCHANGED <<cookie, keyMu, history>>
     \/ CallbackFails(c)
  /\ UNCHANGED <<now, admins, tables, pages>>

\* discordToken and discordUser: two calls to Discord. The role comes from the
\* configuration, the session's age counts from here.
Exchange(c) ==
  /\ At(c, "exchange")
  /\ \/ \E u \in Users :
          /\ call' = [call EXCEPT ![c].pc = "login", ![c].user = u, ![c].at = now,
                        ![c].role = IF u \in admins THEN "admin" ELSE "user"]
          /\ UNCHANGED <<cookie, keyMu, history>>
     \/ CallbackFails(c)
  /\ UNCHANGED <<now, admins, tables, pages>>

\* Mutant: the status is not looked at while the write lock is held.
LoginUnchecked(c) == TRUE

\* The predicate of the transaction on the user's status.
LoginAllowed(c) == status[call[c].user] = "active"

\* One transaction: profile and role, then the session, if the user is active.
LoginDiscordAtomic(c) ==
  /\ At(c, "login")
  /\ \/ /\ LoginAllowed(c)
        /\ \E t \in {s \in Tokens : origin[s] = None} :
             /\ sessions' = sessions \cup
                  {[token |-> t, user |-> call[c].user, expires |-> call[c].at + SessionLife]}
             /\ origin' = [origin EXCEPT
                  ![t] = [state |-> call[c].oauth, user |-> call[c].user]]
             /\ Answer(c, t, None)
        /\ role' = [role EXCEPT ![call[c].user] = call[c].role]
        /\ End(c)
        /\ UNCHANGED issued
     \/ /\ ~LoginAllowed(c)
        /\ CallbackFails(c)
        /\ UNCHANGED <<role, sessions>>
  /\ UNCHANGED <<now, admins, status, oauthStates, holdings, pages>>

-----------------------------------------------------------------------------
(* Requests of a session                                                   *)

\* The session of a cookie, as SessionUser sees it at time t.
SessionUser(token, t) == {r \in sessions : r.token = token /\ r.expires > t}

\* GET /api/page puts the session's CSRF token into the page, which stays open
\* whatever becomes of the session. CSRF tokens are as distinct as sessions.
apiPage(b) ==
  /\ \E r \in SessionUser(cookie[b].session, now) : status[r.user] = "active"
  /\ pages' = [pages EXCEPT ![b] = @ \cup {cookie[b].session}]
  /\ UNCHANGED <<now, admins, tables, cookie, call, keyMu, history>>

\* POST /api/action and its equivalents, sent from a page that is open.
Submit(c, b) ==
  /\ At(c, "idle")
  /\ cookie[b].session # None
  /\ \E p \in pages[b], op \in Operations, u \in Users :
       call' = [call EXCEPT ![c] = [NoCall EXCEPT
         !.pc = "auth", !.browser = b, !.session = cookie[b].session, !.page = p,
         !.at = now, !.op = op,
         !.target = IF op \in {"suspend", "unsuspend"} THEN u ELSE None]]
  /\ UNCHANGED <<now, admins, tables, cookie, pages, keyMu, history>>

\* Mutant: the token of the form is not compared.
csrfIgnored(c) == TRUE

csrf(c) == call[c].page = call[c].session

\* The routes under /admin/ and the admin branch of apiAction.
admin(c, u) == call[c].op \in {"suspend", "unsuspend"} => role[u] = "admin"

\* auth, admin and csrf: the user is remembered for the handler. The role that
\* the check looks at is the one read together with the session.
auth(c) ==
  /\ At(c, "auth")
  /\ LET row == {r \in SessionUser(call[c].session, call[c].at) : status[r.user] = "active"}
     IN \/ /\ row = {}
           /\ Answer(c, None, cookie[call[c].browser].oauth)
           /\ End(c)
           /\ UNCHANGED history
        \/ \E r \in row :
             /\ UNCHANGED cookie
             /\ IF admin(c, r.user) /\ csrf(c)
                  THEN /\ call' = [call EXCEPT ![c].pc = "handle", ![c].at = 0,
                                               ![c].user = r.user]
                       /\ UNCHANGED <<keyMu, history>>
                  ELSE End(c) /\ UNCHANGED history
  /\ UNCHANGED <<now, admins, tables, pages>>

\* The error of the deletion is ignored: the cookie is cleared all the same.
logout(c) ==
  /\ At(c, "handle")
  /\ call[c].op = "logout"
  /\ DeleteSession(call[c].session) \/ UNCHANGED sessions
  /\ Answer(c, None, cookie[call[c].browser].oauth)
  /\ End(c)
  /\ UNCHANGED <<now, admins, role, status, oauthStates, holdings, pages, history>>

\* The calls that give a right (AddKey, SetKeyEnabled, ReserveSubdomain,
\* ReserveTCPPort) begin with ensureActive.
ensureActive(c) ==
  /\ At(c, "handle")
  /\ call[c].op = "reserve"
  /\ IF status[call[c].user] = "active"
       THEN Goto(c, "insert") /\ UNCHANGED <<keyMu, history>>
       ELSE End(c) /\ UNCHANGED history
  /\ UNCHANGED <<now, admins, tables, cookie, pages>>

\* Mutant: the insert relies on ensureActive.
InsertAllowedUnchecked(c) == TRUE

\* INSERT ... SELECT ... WHERE status='active', and the UNIQUE constraint.
InsertAllowed(c) == status[call[c].user] = "active"

InsertAtomic(c) ==
  /\ At(c, "insert")
  /\ holdings' = [holdings EXCEPT ![call[c].user] = @ \/ InsertAllowed(c)]
  /\ End(c)
  /\ UNCHANGED <<now, admins, role, status, oauthStates, sessions, cookie, pages, history>>

\* DeleteKey, ReleaseSubdomain and ReleaseTCPPort do not look at the status.
Release(c) ==
  /\ At(c, "handle")
  /\ call[c].op = "release"
  /\ holdings' = [holdings EXCEPT ![call[c].user] = FALSE]
  /\ End(c)
  /\ UNCHANGED <<now, admins, role, status, oauthStates, sessions, cookie, pages, history>>

\* SetUserSuspended takes keyMu and reads the user's role.
SetUserSuspended(c) ==
  /\ At(c, "handle")
  /\ call[c].op \in {"suspend", "unsuspend"}
  /\ keyMu = None
  /\ LET u == call[c].target
     IN IF role[u] = "none" \/ (call[c].op = "suspend" /\ role[u] = "admin")
          THEN End(c) /\ UNCHANGED history
          ELSE Goto(c, "commit") /\ keyMu' = c /\ UNCHANGED history
  /\ UNCHANGED <<now, admins, tables, cookie, pages>>

\* Mutant: sessions are left to expire.
SuspensionKeepsSessions(u) == sessions

\* DELETE FROM sessions WHERE user_id=?
SessionsAfterSuspension(u) == {r \in sessions : r.user # u}

\* The transaction that changes the status; the role is not part of it.
SetUserStatusAtomic(c) ==
  /\ At(c, "commit")
  /\ LET u == call[c].target
     IN IF call[c].op = "suspend"
          THEN /\ status' = [status EXCEPT ![u] = "suspended"]
               /\ sessions' = IF status[u] = "active" THEN SessionsAfterSuspension(u)
                                                      ELSE sessions
          ELSE /\ status' = [status EXCEPT ![u] = "active"]
               /\ UNCHANGED sessions
  /\ End(c)
  /\ UNCHANGED <<now, admins, role, oauthStates, holdings, cookie, pages, history>>

-----------------------------------------------------------------------------
(* Time and restarts                                                       *)

Tick ==
  /\ now < MaxTime
  /\ now' = now + 1
  /\ UNCHANGED <<admins, tables, cookie, pages, call, keyMu, history>>

\* The process stops, and starts with the environment it then finds.
Restart ==
  /\ admins' \in SUBSET Users
  /\ CleanupAuth(now)
  /\ call' = [c \in Calls |-> NoCall]
  /\ keyMu' = None
  /\ UNCHANGED <<now, role, status, holdings, cookie, pages, history>>

SignIn(c) ==
  \/ \E b \in Browsers : oauthStart(c, b) \/ oauthCallback(c, b)
  \/ StartCleanup(c) \/ StartDiscard(c) \/ CreateOAuthState(c)
  \/ ConsumeOAuthState(c) \/ Exchange(c) \/ LoginDiscordAtomic(c)

Act(c) ==
  \/ \E b \in Browsers : Submit(c, b)
  \/ auth(c) \/ logout(c) \/ ensureActive(c) \/ InsertAtomic(c) \/ Release(c)
  \/ SetUserSuspended(c) \/ SetUserStatusAtomic(c)

Next ==
  \/ \E c \in Calls : SignIn(c) \/ Act(c) \/ Abort(c)
  \/ \E b \in Browsers : apiPage(b)
  \/ Tick
  \/ Restart

Spec == Init /\ [][Next]_vars

-----------------------------------------------------------------------------
(* Properties                                                              *)

\* A suspended user has no session: neither one from before the suspension nor
\* one of a login that was under way (hardening.go:50, the status predicate
\* "is checked while the write lock is held").
SuspendedHasNoSession ==
  \A r \in sessions : status[r.user] = "active"

\* One answer of Discord, one session: two sessions never come from the same
\* OAuth state, however often and however closely together the callback is
\* loaded (ConsumeOAuthState).
StateLogsInOnce ==
  \A s, t \in Tokens : s # t /\ origin[s] # None /\ origin[t] # None
                         => origin[s].state # origin[t].state

\* From the commit of a suspension on, the user gains no right, not even from a
\* request that auth and ensureActive have let pass before (store: the inserts
\* look at the status again).
SuspendedGainsNothing ==
  [][\A u \in Users : holdings'[u] /\ ~holdings[u] => status[u] = "active"]_vars

\* A request changes what belongs to the user of the page it was sent from: a
\* page left open does not act for the account the browser signed in to later
\* (csrf).
ActsAsThePageShowed ==
  [][\A u \in Users : holdings'[u] # holdings[u] =>
       \E c \in Calls : /\ call'[c] # call[c]
                        /\ origin[call[c].page].user = u]_vars

\* An administrator is never suspended (service.go:336).
AdminsAreNotSuspended ==
  \A u \in Users : role[u] = "admin" => status[u] = "active"

=============================================================================
