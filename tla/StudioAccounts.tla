--------------------------- MODULE StudioAccounts ---------------------------
(***************************************************************************)
(* Accounts, sessions and rate limits of Z0Studio                          *)
(* (functions/_lib/z0studio-server.ts, functions/api/auth,                 *)
(* functions/api/creator/profile.ts) over the tables users, sessions and   *)
(* request_rate_limits of its D1 database.                                 *)
(*                                                                         *)
(* A request is a process: between two SQL statements, which are atomic,   *)
(* the others run; any statement may throw, and an answer may be lost on   *)
(* its way.  Hashes stand for what they are computed from, so that a       *)
(* password is right or wrong and a token is known by its number.          *)
(***************************************************************************)
EXTENDS Integers, FiniteSets

CONSTANTS
    Browsers,           \* clients, each with its own address and cookie
    Emails, Handles,    \* what clients register with
    AuthSlots,          \* requests that may run at once
    RegisterLimit,      \* 5 registrations of a client in a window
    LoginLimit,         \* 10 sign-ins of a client and an email in a window
    Window,             \* one hour
    SessionLife,        \* SESSION_MAX_AGE_SECONDS
    MaxNow,             \* bound on the clock
    MaxAuthRequests     \* bound on the requests made

NoToken == 0
Idle == [stage |-> "idle"]
ASSUME LimitAssumption == {RegisterLimit, LoginLimit, Window, SessionLife} \subseteq Nat \ {0}

VARIABLES
    now,            \* Date.now()
    users,          \* table users: accounts by number
    sessions,       \* table sessions
    limits,         \* table request_rate_limits
    cookie,         \* external: browser -> its session cookie
    authRequests,   \* slot -> the request it runs
    admitted,       \* history: requests a limiter let pass, with their time
    tokenCount,     \* history: sessions made
    authCount       \* history: requests made

tableVars == <<users, sessions, limits>>
accountHistory == <<admitted, tokenCount>>
accountVars == <<now, tableVars, cookie, authRequests, accountHistory, authCount>>

AccountsInit ==
    /\ now = 0 /\ users = {} /\ sessions = {} /\ limits = {}
    /\ cookie = [b \in Browsers |-> NoToken]
    /\ authRequests = [s \in AuthSlots |-> Idle]
    /\ admitted = {} /\ tokenCount = 0 /\ authCount = 0

\* The slot goes on with a changed request.
Becomes(s, request) == authRequests' = [authRequests EXCEPT ![s] = request]

\* The slot's request is answered; "token" is what its set-cookie header says.
Answer(s, token) ==
    Becomes(s, [stage |-> "answered", kind |-> authRequests[s].kind, setCookie |-> token,
                browser |-> authRequests[s].browser, account |-> authRequests[s].account,
                signedIn |-> authRequests[s].signedIn])

Stage(s, kind, stage) == authRequests[s].stage = stage /\ authRequests[s].kind = kind

-----------------------------------------------------------------------------
(* What a browser does.                                                    *)

Send(s) ==
    /\ authRequests[s] = Idle /\ authCount < MaxAuthRequests
    /\ \E b \in Browsers, kind \in {"register", "login", "logout", "me", "profile"},
          email \in Emails, handle \in Handles, role \in {"member", "creator"} :
          /\ kind \notin {"register", "login"} => email = CHOOSE e \in Emails : TRUE
          /\ kind # "register" => handle = CHOOSE h \in Handles : TRUE
          /\ kind \notin {"register", "profile"} => role = "member"
          /\ authRequests' = [authRequests EXCEPT ![s] =
                [kind |-> kind, stage |-> "sent", browser |-> b, token |-> cookie[b],
                 email |-> email, handle |-> handle, role |-> role, account |-> {}, at |-> 0,
                 setCookie |-> cookie[b],
                 signedIn |-> \E x \in sessions : x.token = cookie[b] /\ x.expires > now]]
    /\ authCount' = authCount + 1
    /\ UNCHANGED <<now, tableVars, cookie, accountHistory>>

\* The answer arrives, or is lost on its way.
Receive(s) ==
    /\ authRequests[s].stage = "answered"
    /\ Becomes(s, Idle)
    /\ \/ cookie' = [cookie EXCEPT ![authRequests[s].browser] = authRequests[s].setCookie]
       \/ UNCHANGED cookie
    /\ UNCHANGED <<now, tableVars, accountHistory, authCount>>

Tick ==
    /\ now < MaxNow /\ now' = now + 1
    /\ UNCHANGED <<tableVars, cookie, authRequests, accountHistory, authCount>>

-----------------------------------------------------------------------------
(* The shared parts of the handlers.                                       *)

\* requireSameOrigin, parseJsonObject, a cleaner or a statement throws, or there
\* is no database: the request ends with an error and nothing more is written.
Throws(s) ==
    /\ authRequests[s] # Idle /\ authRequests[s].stage # "answered"
    /\ Answer(s, authRequests[s].setCookie)
    /\ UNCHANGED <<now, tableVars, cookie, accountHistory, authCount>>

\* Plausible bug: the count is compared as it was before this request.
UpToTheLimit(count, limit) == count - 1 <= limit

Allowed(count, limit) == count <= limit

\* allowFixedWindowRequest: one upsert counts the request in the window it falls in.
AllowFixedWindowRequest(s, scope, key, limit) ==
    LET windowStart == (now \div Window) * Window
        count == 1 + Cardinality({l \in limits : /\ l.scope = scope /\ l.key = key
                                                 /\ l.window = windowStart})
    IN  /\ limits' = limits \cup {[scope |-> scope, key |-> key, window |-> windowStart, count |-> count]}
        /\ IF Allowed(count, limit)
             THEN /\ Becomes(s, [authRequests[s] EXCEPT !.stage = "allowed"])
                  /\ admitted' = admitted \cup {[scope |-> scope, key |-> key, at |-> now, count |-> count]}
             ELSE Answer(s, authRequests[s].setCookie) /\ UNCHANGED admitted
        /\ UNCHANGED <<now, users, sessions, cookie, tokenCount, authCount>>

\* createSession: a fresh token, the number of the sessions made.  A registration's
\* session starts with its account, a login's when it is made.
CreateSession(s) ==
    /\ authRequests[s].stage = "stored"
    /\ LET token == tokenCount + 1
           start == IF authRequests[s].kind = "register" THEN authRequests[s].at ELSE now
       IN  /\ sessions' = sessions \cup
                 {[token |-> token, user |-> authRequests[s].account, expires |-> start + SessionLife]}
           /\ tokenCount' = token
           /\ Answer(s, token)
    /\ UNCHANGED <<now, users, limits, cookie, admitted, authCount>>

\* Plausible bug: the expiry is left to the cookie's Max-Age.
AnySession(token) == {x \in sessions : x.token = token}

\* accountFromSession: the session of the cookie, unless it expired.
LiveSession(token) == {x \in sessions : x.token = token /\ x.expires > now}

SessionAccount(s) == {u \in users : \E x \in LiveSession(authRequests[s].token) : x.user = {u.id}}

-----------------------------------------------------------------------------
(* The handlers.                                                           *)

\* register counts every request of a client, before it reads the body.
RegisterCounted(s) ==
    /\ Stage(s, "register", "sent")
    /\ AllowFixedWindowRequest(s, "account-register", <<authRequests[s].browser>>, RegisterLimit)

Taken(email, handle) == \E u \in users : u.email = email \/ u.handle = handle

RegisterChecked(s) ==
    /\ Stage(s, "register", "allowed")
    /\ IF Taken(authRequests[s].email, authRequests[s].handle)
         THEN Answer(s, authRequests[s].setCookie)
         ELSE Becomes(s, [authRequests[s] EXCEPT !.stage = "free", !.at = now])
    /\ UNCHANGED <<now, tableVars, cookie, accountHistory, authCount>>

\* Plausible bug: the table has no UNIQUE constraint and the check is trusted.
NoConstraint(email, handle) == TRUE

\* The UNIQUE constraints of users.email and users.handle.
Unique(email, handle) == ~Taken(email, handle)

\* created_at is taken between the check and the insert.  The insert throws when
\* another registration came first (see Throws).
RegisterStored(s) ==
    /\ Stage(s, "register", "free")
    /\ Unique(authRequests[s].email, authRequests[s].handle)
    /\ LET id == Cardinality(users) + 1
       IN  /\ users' = users \cup {[id |-> id, email |-> authRequests[s].email,
                                    handle |-> authRequests[s].handle, role |-> authRequests[s].role]}
           /\ \E createdAt \in (authRequests[s].at)..now :
                 Becomes(s, [authRequests[s] EXCEPT !.stage = "stored", !.account = {id}, !.at = createdAt])
    /\ UNCHANGED <<now, sessions, limits, cookie, accountHistory, authCount>>

\* login counts a client and an email together, after the body was checked.
LoginCounted(s) ==
    /\ Stage(s, "login", "sent")
    /\ AllowFixedWindowRequest(s, "account-login",
                               <<authRequests[s].browser, authRequests[s].email>>, LoginLimit)

\* verifyPassword: what derivePasswordHash and equalBytes say of the password sent
\* and the record that createPasswordRecord made.
PasswordVerified == BOOLEAN

\* The account is read and the password compared.
LoginChecked(s) ==
    /\ Stage(s, "login", "allowed")
    /\ LET found == {u.id : u \in {u \in users : u.email = authRequests[s].email}}
       IN  \E verified \in PasswordVerified :
              IF found # {} /\ verified
                THEN Becomes(s, [authRequests[s] EXCEPT !.stage = "stored", !.account = found])
                ELSE Answer(s, authRequests[s].setCookie)
    /\ UNCHANGED <<now, tableVars, cookie, accountHistory, authCount>>

\* logout deletes the session of the cookie, if there is one, and clears it.
LoggedOut(s) ==
    /\ Stage(s, "logout", "sent")
    /\ sessions' = {x \in sessions : x.token # authRequests[s].token}
    /\ Answer(s, NoToken)
    /\ UNCHANGED <<now, users, limits, cookie, accountHistory, authCount>>

\* requireAccount, for me and for the profile.
Authenticated(s) ==
    /\ authRequests[s].stage = "sent" /\ authRequests[s].kind \in {"me", "profile"}
    /\ IF SessionAccount(s) = {}
         THEN Answer(s, authRequests[s].setCookie)
         ELSE Becomes(s, [authRequests[s] EXCEPT
                             !.stage = "account",
                             !.account = {u.id : u \in SessionAccount(s)},
                             !.role = IF @ = "creator" THEN @
                                      ELSE (CHOOSE u \in SessionAccount(s) : TRUE).role])
    /\ UNCHANGED <<now, tableVars, cookie, accountHistory, authCount>>

\* profile PATCH writes the role asked for, or the one read with the session.
ProfileSaved(s) ==
    /\ Stage(s, "profile", "account")
    /\ users' = {IF authRequests[s].account = {u.id} THEN [u EXCEPT !.role = authRequests[s].role]
                 ELSE u : u \in users}
    /\ Answer(s, authRequests[s].setCookie)
    /\ UNCHANGED <<now, sessions, limits, cookie, accountHistory, authCount>>

\* me answers with the account.
AccountShown(s) ==
    /\ Stage(s, "me", "account")
    /\ Answer(s, authRequests[s].setCookie)
    /\ UNCHANGED <<now, tableVars, cookie, accountHistory, authCount>>

-----------------------------------------------------------------------------
AccountsNext ==
    \/ Tick
    \/ \E s \in AuthSlots :
          \/ Send(s) \/ Receive(s) \/ Throws(s) \/ CreateSession(s)
          \/ RegisterCounted(s) \/ RegisterChecked(s) \/ RegisterStored(s)
          \/ LoginCounted(s) \/ LoginChecked(s) \/ LoggedOut(s)
          \/ Authenticated(s) \/ AccountShown(s) \/ ProfileSaved(s)

-----------------------------------------------------------------------------
(* Properties.                                                             *)

\* However registrations interleave, no two accounts have the same email or the
\* same handle (register checks first and inserts later).
OneAccountPerAddress ==
    \A u, v \in users : u.email = v.email \/ u.handle = v.handle => u = v

\* "Registration and sign-in use D1-backed fixed-window rate limits"
\* (docs/PRODUCTION_OPERATIONS.md:40): in no stretch of a window's length do more
\* than twice the limit pass, and in no window more than the limit.
LimitersHold ==
    \A a \in admitted :
        LET limit == IF a.scope = "account-register" THEN RegisterLimit ELSE LoginLimit
            Of(times) == {b \in admitted : b.scope = a.scope /\ b.key = a.key /\ b.at \in times}
            start == (a.at \div Window) * Window
        IN  /\ Cardinality(Of(start..(start + Window - 1))) <= limit
            /\ Cardinality(Of(a.at..(a.at + Window - 1))) <= 2 * limit

\* A cookie whose session was deleted or had expired when a request was sent never
\* makes that request an account's, whatever ran in between.
SignedOutStaysOut ==
    \A s \in AuthSlots :
        LET r == authRequests[s]
        IN  r.stage \in {"account", "answered"} /\ r.kind \in {"me", "profile"} /\ r.account # {}
               => r.signedIn

=============================================================================
