----------------------------- MODULE AdminPanel -----------------------------
(***************************************************************************)
(* The signed-in half of internal/webui with internal/db: requests that    *)
(* run at the same time, each a sequence of reads and writes of the        *)
(* session map (one lock each) and of the database (one statement each),   *)
(* beside time, kills and restarts. The database outlives the process; the *)
(* sessions do not. A stored hash is the password it was made from.        *)
(*                                                                         *)
(* GET /login and GET /account make the reads of their POST and stop;      *)
(* /lang and the language of a page touch nothing that is modelled here.   *)
(***************************************************************************)
EXTENDS Integers, FiniteSets

CONSTANTS
    Requests,   \* the requests the server may be busy with at one time
    Tokens,     \* bound: what randomToken may draw; none is drawn twice
    Passwords, DefaultAdminPassword,
    Short,      \* the passwords of less than eight bytes
    Logins,     \* the forms posted to /login
    Changes,    \* the forms posted to /account
    Strangers,  \* names that no user has
    TTL,        \* the life of a session
    Horizon     \* bound: the last moment

Admin == "admin"
Usernames == {Admin, "nobody"} \cup Strangers

ASSUME PanelAssumption ==
    /\ "none" \notin Tokens /\ Admin \notin Strangers
    /\ DefaultAdminPassword \in Passwords \cap Short
    /\ Logins \subseteq [username : Usernames, password : Passwords]
    /\ Changes \subseteq
          [password : Passwords, new : Passwords, confirm : Passwords]
    /\ TTL \in Nat /\ Horizon \in Nat

VARIABLES
    boot,      \* how far runServe is: "count", "insert" (db.Open), "serving"
    users,     \* the table: user name to password
    sessions,  \* sessionManager.sessions: token to user name and expiry
    req,       \* the requests under way
    now,       \* the clock
    issued,    \* history: the tokens handed out so far
    ended,     \* history: those signed out, expired or lost in a restart
    changed    \* history: has the password ever been changed?

vars == <<boot, users, sessions, req, now, issued, ended, changed>>

Idle == [at |-> "idle", handler |-> "none", token |-> "none", dead |-> TRUE,
         form |-> << >>, user |-> "nobody"]

PanelInit ==
    /\ boot = "count"
    /\ users = << >>
    /\ sessions = << >>
    /\ req = [r \in Requests |-> Idle]
    /\ now = 0
    /\ issued = {} /\ ended = {}
    /\ changed = FALSE
----------------------------------------------------------------------------
(* Start and end of the process.                                           *)

\* Seeded fault: the default user is written at every start.
SeedCountIgnored ==
    /\ boot = "count"
    /\ boot' = "insert"
    /\ UNCHANGED <<users, sessions, req, now, issued, ended, changed>>

\* seedDefaultAdmin: SELECT COUNT(*), and the early return.
SeedCount ==
    /\ boot = "count"
    /\ boot' = IF DOMAIN users = {} THEN "insert" ELSE "serving"
    /\ UNCHANGED <<users, sessions, req, now, issued, ended, changed>>

\* seedDefaultAdmin: INSERT.
SeedInsert ==
    /\ boot = "insert"
    /\ users' = [name \in {Admin} |-> DefaultAdminPassword]
    /\ boot' = "serving"
    /\ UNCHANGED <<sessions, req, now, issued, ended, changed>>

\* log.Fatalf, or the service manager.
Kill ==
    /\ boot' = "count"
    /\ sessions' = << >>
    /\ req' = [r \in Requests |-> Idle]
    /\ ended' = issued
    /\ UNCHANGED <<users, now, issued, changed>>
----------------------------------------------------------------------------
(* sessionManager and Authenticate.                                        *)

\* Seeded fault: the time is not looked at.
AliveIfKnown(t) == t \in DOMAIN sessions

Alive(t) == t \in DOMAIN sessions /\ ~(now > sessions[t].expires)

Without(t) == [x \in DOMAIN sessions \ {t} |-> sessions[x]]

\* lookup drops a session it finds expired.
Lookup(t) ==
    sessions' = IF t \in DOMAIN sessions /\ ~Alive(t) THEN Without(t)
                                                      ELSE sessions

\* currentUser with its second result ignored.
UserOf(t) == IF Alive(t) THEN sessions[t].username ELSE "nobody"

\* Seeded fault: a user that does not exist is let in.
MatchesOrUnknown(name, password) ==
    name \in DOMAIN users => users[name] = password

Matches(name, password) ==
    name \in DOMAIN users /\ users[name] = password
----------------------------------------------------------------------------
(* The requests.                                                           *)

Begin(r, handler, t, form) ==
    /\ boot = "serving" /\ req[r].at = "idle"
    /\ req' = [req EXCEPT ![r] =
                  [at |-> IF handler = "logout" THEN "destroy" ELSE "check",
                   handler |-> handler, token |-> t,
                   dead |-> t \notin issued \/ t \in ended,
                   form |-> form, user |-> "nobody"]]
    /\ UNCHANGED <<boot, users, sessions, now, issued, ended, changed>>

\* Which cookies arrive: any token ever handed out, or none.
BeginRequest(r) ==
    \E t \in issued \cup {"none"} :
        \/ \E handler \in {"dashboard", "logout"} : Begin(r, handler, t, << >>)
        \/ \E form \in Logins : Begin(r, "login", t, form)
        \/ \E form \in Changes : Begin(r, "account", t, form)

GoOn(r, at) == req' = [req EXCEPT ![r].at = at]
Answer(r) == req' = [req EXCEPT ![r] = Idle]

\* requireAuth sends away who is not signed in, handleLogin who is.
CheckSession(r) ==
    /\ req[r].at = "check"
    /\ Lookup(req[r].token)
    /\ IF Alive(req[r].token) = (req[r].handler # "login")
         THEN GoOn(r, "view") ELSE Answer(r)
    /\ UNCHANGED <<boot, users, now, issued, ended, changed>>

\* baseViewData looks the session up again. The dashboard is answered with
\* what it reads of the history.
ViewSession(r) ==
    /\ req[r].at = "view"
    /\ Lookup(req[r].token)
    /\ CASE req[r].handler = "dashboard" -> Answer(r)
         [] req[r].handler = "login" -> GoOn(r, "authenticate")
         [] req[r].handler = "account" -> GoOn(r, "user")
    /\ UNCHANGED <<boot, users, now, issued, ended, changed>>

\* Seeded fault: the length is not looked at.
AcceptableAnyLength(form) == form.new = form.confirm

Acceptable(form) == form.new \notin Short /\ form.new = form.confirm

\* handleAccount looks the session up a third time, then at the form.
AccountUser(r) ==
    /\ req[r].at = "user"
    /\ Lookup(req[r].token)
    /\ IF Acceptable(req[r].form)
         THEN req' = [req EXCEPT ![r].at = "authenticate",
                                 ![r].user = UserOf(req[r].token)]
         ELSE Answer(r)
    /\ UNCHANGED <<boot, users, now, issued, ended, changed>>

\* db.Authenticate, for a login or at the start of ChangePassword. An error
\* of the database refuses whoever asks.
Authenticate(r) ==
    LET login == req[r].handler = "login"
        name == IF login THEN req[r].form.username ELSE req[r].user IN
    /\ req[r].at = "authenticate"
    /\ \/ /\ Matches(name, req[r].form.password)
          /\ GoOn(r, IF login THEN "create" ELSE "update")
       \/ Answer(r)
    /\ UNCHANGED <<boot, users, sessions, now, issued, ended, changed>>

\* sessionManager.create, or no random bytes.
CreateSession(r) ==
    /\ req[r].at = "create"
    /\ \/ \E t \in Tokens \ issued :
             /\ sessions' = [x \in DOMAIN sessions \cup {t} |->
                                IF x = t
                                THEN [username |-> req[r].form.username,
                                      expires |-> now + TTL]
                                ELSE sessions[x]]
             /\ issued' = issued \cup {t}
       \/ UNCHANGED <<sessions, issued>>
    /\ Answer(r)
    /\ UNCHANGED <<boot, users, now, ended, changed>>

\* UPDATE, the last statement of ChangePassword, or an error of it.
UpdatePassword(r) ==
    /\ req[r].at = "update"
    /\ \/ /\ users' = [users EXCEPT ![req[r].user] = req[r].form.new]
          /\ changed' = TRUE
       \/ UNCHANGED <<users, changed>>
    /\ Answer(r)
    /\ UNCHANGED <<boot, sessions, now, issued, ended>>

\* sessionManager.destroy, for handleLogout.
DestroySession(r) ==
    /\ req[r].at = "destroy"
    /\ sessions' = Without(req[r].token)
    /\ ended' = ended \cup ({req[r].token} \cap issued)
    /\ Answer(r)
    /\ UNCHANGED <<boot, users, now, issued, changed>>

Tick ==
    /\ now < Horizon
    /\ now' = now + 1
    /\ ended' = ended \cup {t \in DOMAIN sessions : now' > sessions[t].expires}
    /\ UNCHANGED <<boot, users, sessions, req, issued, changed>>

PanelNext ==
    \/ SeedCount \/ SeedInsert \/ Kill \/ Tick
    \/ \E r \in Requests :
          \/ BeginRequest(r) \/ CheckSession(r) \/ ViewSession(r)
          \/ AccountUser(r) \/ Authenticate(r) \/ CreateSession(r)
          \/ UpdatePassword(r) \/ DestroySession(r)

PanelSpec == PanelInit /\ [][PanelNext]_vars
----------------------------------------------------------------------------
Sessions == [username : Usernames, expires : 0..(Horizon + TTL)]

\* The variables keep their types; the default user is only ever written into
\* an empty table, and an empty table is never served.
PanelTypeOK ==
    /\ boot \in {"count", "insert", "serving"}
    /\ DOMAIN users \subseteq {Admin}
    /\ \A name \in DOMAIN users : users[name] \in Passwords
    /\ boot = "insert" => DOMAIN users = {}
    /\ boot = "serving" => DOMAIN users = {Admin}
    /\ \A t \in DOMAIN sessions : sessions[t] \in Sessions
    /\ DOMAIN sessions \subseteq issued
    /\ issued \subseteq Tokens /\ ended \subseteq issued
    /\ \A r \in Requests : req[r].at # "idle" => boot = "serving"
    /\ now \in 0..Horizon
    /\ changed \in BOOLEAN

\* Nobody gets past requireAuth with a session that had ended when the request
\* came in: by a logout from any browser, by its age or in a restart, however
\* many requests carry its cookie at the same time.
NoEntryAfterEnd ==
    \A r \in Requests :
        req[r].handler # "login" /\ req[r].at \notin {"idle", "check", "destroy"}
            => ~req[r].dead

\* A session is always that of a user in the table, also across a change of
\* the password and for a login that races one.
SessionsBelongToUsers ==
    \A t \in DOMAIN sessions : sessions[t].username \in DOMAIN users

\* README: the default login is seeded "the first time the database is
\* created". Once the password was changed it is never again the default, by
\* any later change (the default is too short) or by any restart.
DefaultStaysGone ==
    changed => Admin \in DOMAIN users /\ users[Admin] # DefaultAdminPassword

\* ChangePassword "verifies currentPassword against the stored hash and, if it
\* matches, replaces it": the password replaced is the one that was given.
ReplacesWhatItVerified ==
    [][\A r \in Requests :
          UpdatePassword(r) /\ users' # users
              => users[Admin] = req[r].form.password]_vars
============================================================================
