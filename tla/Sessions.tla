------------------------------ MODULE Sessions -------------------------------
(***************************************************************************)
(* Dashboard sign-in and sessions: github_start, github_callback and       *)
(* sign_out of crates/api/src/routes/admin.rs, the session middleware of   *)
(* crates/api/src/session.rs, and the users and sessions tables            *)
(* (crates/db/src/users.rs, crates/db/src/sessions.rs).                    *)
(*                                                                         *)
(* OAuth states, user ids and session tokens are random in the code and    *)
(* numbered in order here.  A callback is a sequence of awaits, any of     *)
(* which the request timeout may cut.  signer and signedOut are history    *)
(* variables: which account a token was issued to, and which tokens were   *)
(* signed out; so is consumed, the states some callback has deleted.       *)
(***************************************************************************)
EXTENDS Integers, FiniteSets, Null

CONSTANTS Browsers, Accounts, Logins, FirstLogin, \* FirstLogin: of an account, at GitHub
          Callbacks, Visits,            \* concurrent callbacks, dashboard requests
          MaxStates, MaxTokens,         \* bounds on sign-ins
          MaxRenames, MaxClock,
          SessionTtl                    \* dashboard_session_ttl_days

States == 1 .. MaxStates
SessionTokens == 1 .. MaxTokens
UserIds == 1 .. Cardinality(Accounts)

UserRow == [account : Accounts, login : Logins]
SessionRow == [user : UserIds, expires : Nat, seen : Nat]

ASSUME SessionConstants ==
  /\ MaxStates \in Nat /\ MaxTokens \in Nat /\ MaxRenames \in Nat /\ MaxClock \in Nat
  /\ SessionTtl \in Nat \ {0}
  /\ FirstLogin \in [Accounts -> Logins]
  /\ NULL \notin Accounts \cup UserRow \cup SessionRow \cup {"used"}

VARIABLES clock, states, codes, logins, renames, stateCookie, sessionCookie,
          call, users, sessions, signer, signedOut, consumed, visit, touchTasks

external == <<logins, renames>>
sessionVars == <<clock, states, codes, external, stateCookie, sessionCookie,
                 call, users, sessions, signer, signedOut, consumed, visit, touchTasks>>

NoCall == [at |-> "idle", browser |-> NULL, state |-> NULL, late |-> FALSE,
           account |-> NULL, login |-> NULL, user |-> NULL, token |-> NULL]
NoRequest == [at |-> "idle", browser |-> NULL, token |-> NULL, wants |-> NULL,
              user |-> NULL, late |-> FALSE, answer |-> NULL]

\* codes[s]: the account that authorised at GitHub for state s, while GitHub
\* still takes the code; "used" afterwards.
SessionsInit ==
  /\ clock = 0 /\ renames = 0
  /\ states = [s \in States |-> "unused"]
  /\ codes = [s \in States |-> NULL]
  /\ logins = FirstLogin
  /\ stateCookie = [b \in Browsers |-> NULL]
  /\ sessionCookie = [b \in Browsers |-> NULL]
  /\ call = [c \in Callbacks |-> NoCall]
  /\ users = [u \in UserIds |-> NULL]
  /\ sessions = [t \in SessionTokens |-> NULL]
  /\ signer = [t \in SessionTokens |-> NULL] /\ signedOut = {} /\ consumed = {}
  /\ visit = [r \in Visits |-> NoRequest]
  /\ touchTasks = {}

FirstFree(table, ids) == {i \in ids : table[i] = NULL /\ \A j \in ids : j < i => table[j] # NULL}

-----------------------------------------------------------------------------
(* github_start, and GitHub.                                               *)

\* SET ... NX EX 600, then the redirect with the state cookie, which may not
\* arrive.
GithubStart(b, s) ==
  /\ states[s] = "unused" /\ \A p \in States : p < s => states[p] # "unused"
  /\ states' = [states EXCEPT ![s] = "stored"]
  /\ \/ stateCookie' = [stateCookie EXCEPT ![b] = s]
     \/ UNCHANGED stateCookie
  /\ UNCHANGED <<clock, codes, external, sessionCookie, call, users, sessions,
                 signer, signedOut, consumed, visit, touchTasks>>

\* The Redis entry's 600 seconds pass.
ExpireState(s) ==
  /\ states[s] = "stored"
  /\ states' = [states EXCEPT ![s] = "gone"]
  /\ UNCHANGED <<clock, codes, external, stateCookie, sessionCookie, call, users, sessions,
                 signer, signedOut, consumed, visit, touchTasks>>

\* A person authorises the application at GitHub as account a.
Authorize(b, a) ==
  /\ stateCookie[b] # NULL /\ codes[stateCookie[b]] = NULL
  /\ codes' = [codes EXCEPT ![stateCookie[b]] = a]
  /\ UNCHANGED <<clock, states, external, stateCookie, sessionCookie, call, users, sessions,
                 signer, signedOut, consumed, visit, touchTasks>>

\* An account takes a login nobody has at the moment.
Rename(a, l) ==
  /\ renames < MaxRenames /\ \A o \in Accounts : logins[o] # l
  /\ renames' = renames + 1
  /\ logins' = [logins EXCEPT ![a] = l]
  /\ UNCHANGED <<clock, states, codes, stateCookie, sessionCookie, call, users, sessions,
                 signer, signedOut, consumed, visit, touchTasks>>

-----------------------------------------------------------------------------
(* github_callback.                                                        *)

\* The callback URL is opened, or reloaded; the state parameter equals the
\* state cookie.  Any other callback is refused before it touches Redis: 400
\* for a missing parameter, 401 where the cookie is absent or differs.
Callback(c, b) ==
  /\ call[c].at = "idle"
  /\ stateCookie[b] # NULL /\ codes[stateCookie[b]] # NULL
  /\ call' = [call EXCEPT ![c] =
       [at |-> "get", browser |-> b, state |-> stateCookie[b], late |-> stateCookie[b] \in consumed,
        account |-> NULL, login |-> NULL, user |-> NULL, token |-> NULL]]
  /\ UNCHANGED <<clock, states, codes, external, stateCookie, sessionCookie, users, sessions,
                 signer, signedOut, consumed, visit, touchTasks>>

\* GET of the state; without it the answer is 401.
GetState(c) ==
  /\ call[c].at = "get"
  /\ call' = [call EXCEPT ![c] = IF states[@.state] = "stored" THEN [@ EXCEPT !.at = "del"]
                                                               ELSE NoCall]
  /\ UNCHANGED <<clock, states, codes, external, stateCookie, sessionCookie, users, sessions,
                 signer, signedOut, consumed, visit, touchTasks>>

\* The state is left to expire.
AfterDel_Kept(s) == states

AfterDel(s) == [states EXCEPT ![s] = "gone"]

DelState(c) ==
  /\ call[c].at = "del"
  /\ states' = AfterDel(call[c].state)
  /\ call' = [call EXCEPT ![c].at = "exchange"]
  /\ consumed' = consumed \cup {call[c].state}
  /\ UNCHANGED <<clock, codes, external, stateCookie, sessionCookie, users, sessions,
                 signer, signedOut, visit, touchTasks>>

\* GitHub takes a code once.
ExchangeGithubCode(c) ==
  /\ call[c].at = "exchange" /\ codes[call[c].state] # "used"
  /\ codes' = [codes EXCEPT ![call[c].state] = "used"]
  /\ call' = [call EXCEPT ![c].at = "profile", ![c].account = codes[call[c].state]]
  /\ UNCHANGED <<clock, states, external, stateCookie, sessionCookie, users, sessions,
                 signer, signedOut, consumed, visit, touchTasks>>

\* The profile carries the login of the moment; the e-mail is optional.
FetchGithubProfile(c) ==
  /\ call[c].at = "profile"
  /\ call' = [call EXCEPT ![c].at = "upsert", ![c].login = logins[call[c].account]]
  /\ UNCHANGED <<clock, states, codes, external, stateCookie, sessionCookie, users, sessions,
                 signer, signedOut, consumed, visit, touchTasks>>

\* ON CONFLICT (github_user_id).
Existing(a) == {u \in UserIds : users[u] # NULL /\ users[u].account = a}

\* upsert_from_github.
UpsertFromGithub(c) ==
  LET a == call[c].account
      l == call[c].login
      row == IF Existing(a) # {} THEN Existing(a) ELSE FirstFree(users, UserIds)
  IN \E u \in row :
    /\ call[c].at = "upsert"
    /\ users' = [users EXCEPT ![u] = [account |-> a, login |-> l]]
    /\ call' = [call EXCEPT ![c].at = "session", ![c].user = u]
    /\ UNCHANGED <<clock, states, codes, external, stateCookie, sessionCookie, sessions,
                   signer, signedOut, consumed, visit, touchTasks>>

\* The session's user is looked up again, by login.
SessionUser_ByLogin(c) ==
  LET found == {u \in UserIds : users[u] # NULL /\ users[u].login = call[c].login}
  IN IF found = {} THEN call[c].user ELSE CHOOSE u \in found : \A v \in found : u <= v

\* The id the upsert returned.
SessionUser(c) == call[c].user

\* generate_token and sessions::insert.
InsertSession(c) ==
  \E t \in FirstFree(signer, SessionTokens) :
    /\ call[c].at = "session"
    /\ sessions' = [sessions EXCEPT ![t] = [user |-> SessionUser(c), expires |-> clock + SessionTtl,
                                            seen |-> clock]]
    /\ signer' = [signer EXCEPT ![t] = call[c].account]
    /\ call' = [call EXCEPT ![c].at = "respond", ![c].token = t]
    /\ UNCHANGED <<clock, states, codes, external, stateCookie, sessionCookie, users,
                   signedOut, consumed, visit, touchTasks>>

\* The redirect sets the session cookie and clears the state cookie.
RespondSignedIn(c) ==
  /\ call[c].at = "respond"
  /\ sessionCookie' = [sessionCookie EXCEPT ![call[c].browser] = call[c].token]
  /\ stateCookie' = [stateCookie EXCEPT ![call[c].browser] = NULL]
  /\ call' = [call EXCEPT ![c] = NoCall]
  /\ UNCHANGED <<clock, states, codes, external, users, sessions,
                 signer, signedOut, consumed, visit, touchTasks>>

\* Redis, GitHub or Postgres fails, the request times out, or the answer is lost.
CallbackFails(c) ==
  /\ call[c].at # "idle"
  /\ call' = [call EXCEPT ![c] = NoCall]
  /\ UNCHANGED <<clock, states, codes, external, stateCookie, sessionCookie, users, sessions,
                 signer, signedOut, consumed, visit, touchTasks>>

-----------------------------------------------------------------------------
(* The session middleware, /admin/me and /admin/sign-out.                  *)

\* find_active: WHERE token_hash = $1 AND expires_at > now().
Active(t) == sessions[t] # NULL /\ sessions[t].expires > clock

\* Sessions are kept in a cache that sign-out does not clear.
FindActive_Cached(r, b, wants) ==
  LET t == sessionCookie[b] IN
  /\ visit[r].at = "idle" /\ t # NULL
  /\ visit' = [visit EXCEPT ![r] =
       [at |-> "find_user", browser |-> b, token |-> t, wants |-> wants,
        user |-> CHOOSE u \in UserIds : users[u] # NULL /\ users[u].account = signer[t],
        late |-> t \in signedOut, answer |-> NULL]]
  /\ UNCHANGED <<clock, states, codes, external, stateCookie, sessionCookie, call, users,
                 sessions, signer, signedOut, consumed, touchTasks>>

\* late: the request was sent after the token had been signed out.
FindActive(r, b, wants) ==
  LET t == sessionCookie[b] IN
  /\ visit[r].at = "idle" /\ t # NULL
  /\ visit' = [visit EXCEPT ![r] =
       [at |-> IF Active(t) THEN "find_user" ELSE "idle",
        browser |-> b, token |-> t, wants |-> wants,
        user |-> IF Active(t) THEN sessions[t].user ELSE NULL,
        late |-> t \in signedOut,
        answer |-> IF Active(t) THEN NULL ELSE 401]]
  /\ UNCHANGED <<clock, states, codes, external, stateCookie, sessionCookie, call, users,
                 sessions, signer, signedOut, consumed, touchTasks>>

\* find_by_id; the touch is spawned.
FindById(r) ==
  /\ visit[r].at = "find_user" /\ users[visit[r].user] # NULL
  /\ visit' = [visit EXCEPT ![r].at = "handle"]
  /\ touchTasks' = touchTasks \cup {visit[r].token}
  /\ UNCHANGED <<clock, states, codes, external, stateCookie, sessionCookie, call, users,
                 sessions, signer, signedOut, consumed>>

Me(r) ==
  /\ visit[r].at = "handle" /\ visit[r].wants = "me"
  /\ visit' = [visit EXCEPT ![r].at = "idle", ![r].answer = 200]
  /\ UNCHANGED <<clock, states, codes, external, stateCookie, sessionCookie, call, users,
                 sessions, signer, signedOut, consumed, touchTasks>>

\* DELETE FROM sessions WHERE token_hash = $1.
AfterDelete(t) == [sessions EXCEPT ![t] = NULL]

SignOut(r) ==
  /\ visit[r].at = "handle" /\ visit[r].wants = "sign_out"
  /\ sessions' = AfterDelete(visit[r].token)
  /\ signedOut' = signedOut \cup {visit[r].token}
  /\ visit' = [visit EXCEPT ![r].at = "respond"]
  /\ UNCHANGED <<clock, states, codes, external, stateCookie, sessionCookie, call, users,
                 signer, consumed, touchTasks>>

\* 204 with the cleared cookie.
RespondSignedOut(r) ==
  /\ visit[r].at = "respond"
  /\ sessionCookie' = [sessionCookie EXCEPT ![visit[r].browser] = NULL]
  /\ visit' = [visit EXCEPT ![r].at = "idle", ![r].answer = 204]
  /\ UNCHANGED <<clock, states, codes, external, stateCookie, call, users,
                 sessions, signer, signedOut, consumed, touchTasks>>

\* Postgres fails, the request times out, or the answer is lost.
RequestFails(r) ==
  /\ visit[r].at # "idle"
  /\ visit' = [visit EXCEPT ![r] = NoRequest]
  /\ UNCHANGED <<clock, states, codes, external, stateCookie, sessionCookie, call, users,
                 sessions, signer, signedOut, consumed, touchTasks>>

\* UPDATE sessions SET last_seen_at = now() WHERE token_hash = $1.
Touched(t) == IF sessions[t] = NULL THEN sessions ELSE [sessions EXCEPT ![t].seen = clock]

TouchLastSeen(t) ==
  /\ t \in touchTasks
  /\ touchTasks' = touchTasks \ {t}
  /\ \/ sessions' = Touched(t)
     \/ UNCHANGED sessions           \* the update fails and is logged
  /\ UNCHANGED <<clock, states, codes, external, stateCookie, sessionCookie, call, users,
                 signer, signedOut, consumed, visit>>

ClockTick ==
  /\ clock < MaxClock
  /\ clock' = clock + 1
  /\ UNCHANGED <<states, codes, external, stateCookie, sessionCookie, call, users,
                 sessions, signer, signedOut, consumed, visit, touchTasks>>

SessionsNext ==
  \/ ClockTick
  \/ \E b \in Browsers, s \in States : GithubStart(b, s)
  \/ \E s \in States : ExpireState(s)
  \/ \E b \in Browsers, a \in Accounts : Authorize(b, a)
  \/ \E a \in Accounts, l \in Logins : Rename(a, l)
  \/ \E c \in Callbacks, b \in Browsers : Callback(c, b)
  \/ \E c \in Callbacks :
       \/ GetState(c) \/ DelState(c) \/ ExchangeGithubCode(c) \/ FetchGithubProfile(c)
       \/ UpsertFromGithub(c) \/ InsertSession(c) \/ RespondSignedIn(c) \/ CallbackFails(c)
  \/ \E r \in Visits, b \in Browsers, wants \in {"me", "sign_out"} : FindActive(r, b, wants)
  \/ \E r \in Visits : FindById(r) \/ Me(r) \/ SignOut(r) \/ RespondSignedOut(r) \/ RequestFails(r)
  \/ \E t \in touchTasks : TouchLastSeen(t)

SessionsSpec == SessionsInit /\ [][SessionsNext]_sessionVars

-----------------------------------------------------------------------------
(* Properties.                                                             *)

\* Type invariant: among the rest, a session's user_id names a row of users
\* (the foreign key), and a callback that answers holds a token.
SessionsTypeOK ==
  /\ clock \in 0 .. MaxClock /\ renames \in 0 .. MaxRenames
  /\ states \in [States -> {"unused", "stored", "gone"}]
  /\ codes \in [States -> Accounts \cup {NULL, "used"}]
  /\ logins \in [Accounts -> Logins]
  /\ stateCookie \in [Browsers -> States \cup {NULL}]
  /\ sessionCookie \in [Browsers -> SessionTokens \cup {NULL}]
  /\ \A c \in Callbacks : /\ call[c].at \in {"idle", "get", "del", "exchange", "profile",
                                              "upsert", "session", "respond"}
                          /\ call[c].at = "respond" => call[c].token \in SessionTokens
  /\ users \in [UserIds -> UserRow \cup {NULL}]
  /\ \A t \in SessionTokens : sessions[t] = NULL \/ users[sessions[t].user] # NULL
  /\ signer \in [SessionTokens -> Accounts \cup {NULL}]
  /\ signedOut \subseteq SessionTokens /\ touchTasks \subseteq SessionTokens /\ consumed \subseteq States
  /\ \A r \in Visits : /\ visit[r].at \in {"idle", "find_user", "handle", "respond"}
                       /\ visit[r].answer \in {NULL, 200, 204, 401}

\* A session belongs to the user row of the account that signed in with it,
\* and stays theirs through renames and a login taken over by another account.
SessionIsTheSigners ==
  \A t \in SessionTokens : sessions[t] # NULL => users[sessions[t].user].account = signer[t]

\* Concurrent callbacks of one account, from several browsers, share one row.
OneRowPerAccount ==
  \A u, v \in UserIds :
    (users[u] # NULL /\ users[v] # NULL /\ users[u].account = users[v].account) => u = v

\* Identity: a session leads to the one row of the account that signed in
\* (github_callback, upsert_from_github, sessions::create).
SignInIsRight == SessionIsTheSigners /\ OneRowPerAccount

\* The table holds the sessions issued and not signed out: a sign-out removes
\* its own session and no other, and a touch that was still in flight does not
\* bring it back.
SignOutIsExact == \A t \in SessionTokens : sessions[t] # NULL <=> (signer[t] # NULL /\ t \notin signedOut)

\* A request sent after its token was signed out is refused, whatever requests
\* and touches of the same session were in flight at the sign-out.
SignedOutStaysOut ==
  \A r \in Visits : visit[r].late => visit[r].at = "idle" /\ visit[r].answer = 401

\* Sign-out: the row goes and stays away, and no later request passes (sign_out,
\* the session middleware and its spawned touch).
SignOutHolds == SignOutIsExact /\ SignedOutStaysOut

\* A callback that arrives after another has consumed its state is refused at
\* the state check: no second sign-in from a reloaded callback URL.  (Two that
\* both read the state before either deletes it both pass the check; the code
\* that GitHub takes once is what stops the second.)
StateConsumedOnce == \A c \in Callbacks : call[c].late => call[c].at \in {"idle", "get"}

=============================================================================
