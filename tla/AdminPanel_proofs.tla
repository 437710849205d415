-------------------------- MODULE AdminPanel_proofs --------------------------
(***************************************************************************)
(* Theorems about AdminPanel, for any requests, tokens, passwords and      *)
(* times: that signing out and growing old end a session for good, and     *)
(* that the default password does not come back.                           *)
(***************************************************************************)
EXTENDS AdminPanel, TLAPS

Request ==
    [at : {"idle", "check", "view", "user", "authenticate", "create", "update",
           "destroy"},
     handler : {"none", "dashboard", "logout", "login", "account"},
     token : Tokens \cup {"none"}, dead : BOOLEAN,
     form : Logins \cup Changes \cup {<< >>}, user : Usernames]

\* Where a request can be, and what it has passed on its way there.
Fits(q) ==
    /\ q \in Request
    /\ q.handler = "login" => q.form \in Logins
    /\ q.handler = "account" => q.form \in Changes
    /\ q.at = "check" => q.handler \in {"dashboard", "login", "account"}
    /\ q.at = "view" => q.handler \in {"dashboard", "login", "account"}
    /\ q.at = "user" => q.handler = "account"
    /\ q.at = "authenticate" =>
          \/ q.handler = "login"
          \/ q.handler = "account" /\ Acceptable(q.form)
    /\ q.at = "create" => q.handler = "login" /\ q.form.username = Admin
    /\ q.at = "update" =>
          q.handler = "account" /\ Acceptable(q.form) /\ q.user = Admin
    /\ q.handler # "login" /\ q.at \notin {"idle", "check", "destroy"}
          => ~q.dead

RequestsFit ==
    /\ DOMAIN req = Requests
    /\ req = [r \in Requests |-> req[r]]
    /\ \A r \in Requests : Fits(req[r])

\* A request that came in with an ended session has one that is ended still.
DeadIsEnded ==
    \A r \in Requests :
        req[r].dead => req[r].token = "none" \/ req[r].token \in ended

\* What has ended may still be in the map, but only as long as nobody asks.
EndedForGood == \A t \in ended : ~Alive(t)

PanelInv ==
    /\ PanelTypeOK /\ RequestsFit
    /\ DeadIsEnded /\ EndedForGood
    /\ SessionsBelongToUsers /\ DefaultStaysGone

LEMMA IdleFits == Fits(Idle) /\ Idle.dead /\ Idle.token = "none"
<1>1. /\ Idle.at = "idle" /\ Idle.handler = "none" /\ Idle.dead
      /\ Idle.token = "none"
  BY DEF Idle
<1>2. Idle \in Request
  <2>1. << >> \in Logins \cup Changes \cup {<< >>}
    OBVIOUS
  <2>2. "none" \in Tokens \cup {"none"} /\ TRUE \in BOOLEAN
    OBVIOUS
  <2>3. "nobody" \in Usernames
    BY DEF Usernames
  <2>4. "none" \in {"none", "dashboard", "logout", "login", "account"}
    OBVIOUS
  <2> QED BY <2>1, <2>2, <2>3, <2>4 DEF Idle, Request
<1>3. Fits(Idle)
  BY <1>1, <1>2 DEF Fits
<1> QED BY <1>1, <1>3

LEMMA PanelInvInit == PanelInit => PanelInv
<1> SUFFICES ASSUME PanelInit PROVE PanelInv
  OBVIOUS
<1>1. PanelTypeOK
  <2>1. DOMAIN users = {} /\ DOMAIN sessions = {}
    BY DEF PanelInit
  <2>2. \A r \in Requests : req[r].at = "idle"
    BY DEF PanelInit, Idle
  <2>3. now \in 0..Horizon
    BY PanelAssumption DEF PanelInit
  <2> QED BY <2>1, <2>2, <2>3 DEF PanelInit, PanelTypeOK
<1>2. RequestsFit
  BY IdleFits DEF PanelInit, RequestsFit
<1>3. DeadIsEnded /\ EndedForGood /\ SessionsBelongToUsers /\ DefaultStaysGone
  <2>1. DOMAIN sessions = {} /\ ended = {} /\ ~changed
    BY DEF PanelInit
  <2>2. \A r \in Requests : req[r].token = "none"
    BY DEF PanelInit, Idle
  <2> QED BY <2>1, <2>2 DEF DeadIsEnded, EndedForGood, SessionsBelongToUsers,
                            DefaultStaysGone
<1> QED BY <1>1, <1>2, <1>3 DEF PanelInv

\* A step that moves one request only.
LEMMA OneMoves ==
    ASSUME RequestsFit, NEW r \in Requests, NEW q, Fits(q),
           req' = [req EXCEPT ![r] = q]
    PROVE  RequestsFit' /\ req'[r] = q
                        /\ \A x \in Requests \ {r} : req'[x] = req[x]
BY DEF RequestsFit, Fits, Acceptable

\* The new request of a step under the guards of the code.
LEMMA BeginFits ==
    ASSUME PanelInv, NEW r \in Requests, BeginRequest(r)
    PROVE  RequestsFit' /\ DeadIsEnded'
<1>1. PICK t \in issued \cup {"none"},
           h \in {"dashboard", "logout", "login", "account"},
           form \in Logins \cup Changes \cup {<< >>} :
         /\ Begin(r, h, t, form)
         /\ h = "login" => form \in Logins
         /\ h = "account" => form \in Changes
  BY DEF BeginRequest
<1> DEFINE q == [at |-> IF h = "logout" THEN "destroy" ELSE "check",
                 handler |-> h, token |-> t,
                 dead |-> t \notin issued \/ t \in ended,
                 form |-> form, user |-> "nobody"]
<1>2. req' = [req EXCEPT ![r] = q] /\ ended' = ended
  BY <1>1 DEF Begin
<1>3. q \in Request
  <2>1. t \in Tokens \cup {"none"}
    BY <1>1 DEF PanelInv, PanelTypeOK
  <2>2. "nobody" \in Usernames
    BY DEF Usernames
  <2>3. (t \notin issued \/ t \in ended) \in BOOLEAN
    OBVIOUS
  <2>4. (IF h = "logout" THEN "destroy" ELSE "check") \in {"check", "destroy"}
    OBVIOUS
  <2> QED BY <2>1, <2>2, <2>3, <2>4 DEF Request
<1>4. /\ q.at = IF h = "logout" THEN "destroy" ELSE "check"
      /\ q.handler = h /\ q.form = form /\ q.token = t
  OBVIOUS
<1>5. q.dead => q.token = "none" \/ q.token \in ended
  OBVIOUS
<1> HIDE DEF q
<1>6. Fits(q)
  <2>1. q.at \in {"check", "destroy"}
    BY <1>4
  <2>2. q.at = "check" => q.handler \in {"dashboard", "login", "account"}
    BY <1>4
  <2> QED BY <1>1, <1>3, <1>4, <2>1, <2>2 DEF Fits
<1>7. /\ RequestsFit' /\ req'[r] = q
      /\ \A x \in Requests \ {r} : req'[x] = req[x]
  BY <1>2, <1>6, OneMoves DEF PanelInv
<1> QED BY <1>2, <1>5, <1>7 DEF PanelInv, DeadIsEnded

\* A request that is answered is no request any more.
LEMMA AnswerFits ==
    ASSUME RequestsFit, NEW r \in Requests, Answer(r)
    PROVE  /\ RequestsFit' /\ req'[r] = Idle
           /\ \A x \in Requests \ {r} : req'[x] = req[x]
BY OneMoves, IdleFits DEF Answer

\* One that goes on keeps all but its place and, on the account page, its user.
LEMMA GoOnFits ==
    ASSUME RequestsFit, NEW r \in Requests,
           NEW at, NEW user \in Usernames,
           req' = [req EXCEPT ![r].at = at, ![r].user = user],
           \/ at = "view" /\ req[r].at = "check"
                 /\ (req[r].handler # "login" => ~req[r].dead)
           \/ at = "authenticate" /\ req[r].at = "view"
                 /\ req[r].handler = "login"
           \/ at = "user" /\ req[r].at = "view" /\ req[r].handler = "account"
           \/ at = "authenticate" /\ req[r].at = "user"
                 /\ Acceptable(req[r].form)
           \/ at = "create" /\ req[r].at = "authenticate"
                 /\ req[r].handler = "login" /\ req[r].form.username = Admin
           \/ at = "update" /\ req[r].at = "authenticate"
                 /\ req[r].handler # "login" /\ user = Admin
    PROVE  /\ RequestsFit'
           /\ req'[r].dead = req[r].dead /\ req'[r].token = req[r].token
           /\ \A x \in Requests \ {r} : req'[x] = req[x]
<1> DEFINE old == req[r]
           q == [old EXCEPT !.at = at, !.user = user]
<1>1. Fits(old)
  BY DEF RequestsFit
<1>2. req' = [req EXCEPT ![r] = q]
  BY DEF RequestsFit
<1>3. /\ q.at = at /\ q.user = user /\ q.handler = old.handler
      /\ q.form = old.form /\ q.dead = old.dead /\ q.token = old.token
      /\ q \in Request
  BY <1>1 DEF Fits, Request
<1> HIDE DEF q
<1>4. Fits(q)
  BY <1>1, <1>3 DEF Fits
<1> QED BY <1>2, <1>3, <1>4, OneMoves
LEMMA GoOnKeeps ==
    ASSUME RequestsFit, NEW r \in Requests, NEW at, GoOn(r, at)
    PROVE  /\ req[r].user \in Usernames
           /\ req' = [req EXCEPT ![r].at = at, ![r].user = req[r].user]
<1>1. req[r] \in Request
  BY DEF RequestsFit, Fits
<1>2. [req[r] EXCEPT !.at = at]
        = [req[r] EXCEPT !.at = at, !.user = req[r].user]
  BY <1>1 DEF Request
<1> QED BY <1>1, <1>2 DEF GoOn, Request

LEMMA DeadStays ==
    ASSUME DeadIsEnded, ended \subseteq ended', NEW r \in Requests,
           \A x \in Requests \ {r} : req'[x] = req[x],
           \/ req'[r].token = "none"
           \/ req'[r].dead = req[r].dead /\ req'[r].token = req[r].token
    PROVE  DeadIsEnded'
BY DEF DeadIsEnded

\* Sessions leave the map while time stands still.
LEMMA Shrinks ==
    ASSUME PanelInv, boot = "serving",
           DOMAIN sessions' \subseteq DOMAIN sessions,
           \A t \in DOMAIN sessions' : sessions'[t] = sessions[t],
           ended' = ended,
           UNCHANGED <<boot, users, now, issued, changed>>
    PROVE  PanelTypeOK' /\ EndedForGood' /\ SessionsBelongToUsers'
                        /\ DefaultStaysGone'
BY DEF PanelInv, PanelTypeOK, EndedForGood, SessionsBelongToUsers,
       DefaultStaysGone, Alive

LEMMA LookupShrinks ==
    ASSUME NEW t, Lookup(t)
    PROVE  /\ DOMAIN sessions' \subseteq DOMAIN sessions
           /\ \A x \in DOMAIN sessions' : sessions'[x] = sessions[x]
BY DEF Lookup, Without

LEMMA AtWork ==
    ASSUME PanelInv, NEW r \in Requests, req[r].at # "idle"
    PROVE  boot = "serving" /\ DOMAIN users = {Admin} /\ Fits(req[r])
BY DEF PanelInv, PanelTypeOK, RequestsFit

\* Who gets in at requireAuth holds a session that has not ended.
LEMMA AliveIsNotDead ==
    ASSUME PanelInv, NEW r \in Requests, Alive(req[r].token)
    PROVE  ~req[r].dead
BY PanelAssumption DEF PanelInv, PanelTypeOK, DeadIsEnded, EndedForGood, Alive

LEMMA CheckStep ==
    ASSUME PanelInv, NEW r \in Requests, CheckSession(r) PROVE PanelInv'
<1>1. req[r].at = "check" /\ boot = "serving" /\ Fits(req[r])
  BY AtWork DEF CheckSession
<1>2. PanelTypeOK' /\ EndedForGood' /\ SessionsBelongToUsers'
                   /\ DefaultStaysGone'
  BY <1>1, LookupShrinks, Shrinks DEF CheckSession
<1>3. RequestsFit' /\ DeadIsEnded'
  <2>1. CASE Answer(r)
    BY <2>1, AnswerFits, DeadStays, IdleFits DEF CheckSession, PanelInv
  <2>2. CASE /\ GoOn(r, "view")
             /\ Alive(req[r].token) = (req[r].handler # "login")
    <3>1. req[r].handler # "login" => ~req[r].dead
      BY <2>2, AliveIsNotDead
    <3>2. /\ req[r].user \in Usernames
          /\ req' = [req EXCEPT ![r].at = "view", ![r].user = req[r].user]
      BY <2>2, GoOnKeeps DEF PanelInv
    <3>3. /\ RequestsFit'
          /\ req'[r].dead = req[r].dead /\ req'[r].token = req[r].token
          /\ \A x \in Requests \ {r} : req'[x] = req[x]
      BY <1>1, <3>1, <3>2, GoOnFits DEF PanelInv
    <3> QED BY <3>3, DeadStays DEF CheckSession, PanelInv
  <2> QED BY <2>1, <2>2 DEF CheckSession
<1> QED BY <1>2, <1>3 DEF PanelInv

LEMMA ViewStep ==
    ASSUME PanelInv, NEW r \in Requests, ViewSession(r) PROVE PanelInv'
<1>1. req[r].at = "view" /\ boot = "serving" /\ Fits(req[r])
  BY AtWork DEF ViewSession
<1>2. PanelTypeOK' /\ EndedForGood' /\ SessionsBelongToUsers'
                   /\ DefaultStaysGone'
  BY <1>1, LookupShrinks, Shrinks DEF ViewSession
<1>3. \/ Answer(r)
      \/ req[r].handler = "login" /\ GoOn(r, "authenticate")
      \/ req[r].handler = "account" /\ GoOn(r, "user")
  <2>1. req[r].handler \in {"dashboard", "login", "account"}
    BY <1>1 DEF Fits
  <2> QED BY <2>1 DEF ViewSession
<1>4. CASE Answer(r)
  BY <1>2, <1>4, AnswerFits, DeadStays, IdleFits DEF ViewSession, PanelInv
<1>5. ASSUME NEW at,
             \/ at = "authenticate" /\ req[r].handler = "login"
             \/ at = "user" /\ req[r].handler = "account",
             GoOn(r, at)
      PROVE  PanelInv'
  <2>1. /\ req[r].user \in Usernames
        /\ req' = [req EXCEPT ![r].at = at, ![r].user = req[r].user]
    BY <1>5, GoOnKeeps DEF PanelInv
  <2>2. /\ RequestsFit'
        /\ req'[r].dead = req[r].dead /\ req'[r].token = req[r].token
        /\ \A x \in Requests \ {r} : req'[x] = req[x]
    BY <1>1, <1>5, <2>1, GoOnFits DEF PanelInv
  <2> QED BY <1>2, <2>2, DeadStays DEF ViewSession, PanelInv
<1> QED BY <1>3, <1>4, <1>5

LEMMA AccountStep ==
    ASSUME PanelInv, NEW r \in Requests, AccountUser(r) PROVE PanelInv'
<1>1. req[r].at = "user" /\ boot = "serving" /\ Fits(req[r])
  BY AtWork DEF AccountUser
<1>2. PanelTypeOK' /\ EndedForGood' /\ SessionsBelongToUsers'
                   /\ DefaultStaysGone'
  BY <1>1, LookupShrinks, Shrinks DEF AccountUser
<1>3. UserOf(req[r].token) \in Usernames
  BY DEF PanelInv, PanelTypeOK, UserOf, Alive, Sessions, Usernames
<1>4. CASE Answer(r)
  BY <1>2, <1>4, AnswerFits, DeadStays, IdleFits DEF AccountUser, PanelInv
<1>5. CASE Acceptable(req[r].form)
  <2>1. /\ RequestsFit'
        /\ req'[r].dead = req[r].dead /\ req'[r].token = req[r].token
        /\ \A x \in Requests \ {r} : req'[x] = req[x]
    BY <1>1, <1>3, <1>5, GoOnFits DEF AccountUser, PanelInv
  <2> QED BY <1>2, <2>1, DeadStays DEF AccountUser, PanelInv
<1> QED BY <1>4, <1>5 DEF AccountUser

LEMMA AuthenticateStep ==
    ASSUME PanelInv, NEW r \in Requests, Authenticate(r) PROVE PanelInv'
<1>1. /\ req[r].at = "authenticate" /\ boot = "serving"
      /\ DOMAIN users = {Admin} /\ Fits(req[r])
  BY AtWork DEF Authenticate
<1>2. PanelTypeOK' /\ EndedForGood' /\ SessionsBelongToUsers'
                   /\ DefaultStaysGone'
  BY <1>1, Shrinks DEF Authenticate
<1>3. CASE Answer(r)
  BY <1>2, <1>3, AnswerFits, DeadStays, IdleFits DEF Authenticate, PanelInv
<1>4. ASSUME NEW at,
             \/ /\ at = "create" /\ req[r].handler = "login"
                /\ req[r].form.username = Admin
             \/ /\ at = "update" /\ req[r].handler # "login"
                /\ req[r].user = Admin,
             GoOn(r, at)
      PROVE  PanelInv'
  <2>1. /\ req[r].user \in Usernames
        /\ req' = [req EXCEPT ![r].at = at, ![r].user = req[r].user]
    BY <1>4, GoOnKeeps DEF PanelInv
  <2>2. /\ RequestsFit'
        /\ req'[r].dead = req[r].dead /\ req'[r].token = req[r].token
        /\ \A x \in Requests \ {r} : req'[x] = req[x]
    BY <1>1, <1>4, <2>1, GoOnFits DEF PanelInv
  <2> QED BY <1>2, <2>2, DeadStays DEF Authenticate, PanelInv
<1> QED BY <1>1, <1>3, <1>4 DEF Authenticate, Matches

LEMMA CreateStep ==
    ASSUME PanelInv, NEW r \in Requests, CreateSession(r) PROVE PanelInv'
<1>1. /\ req[r].at = "create" /\ boot = "serving"
      /\ DOMAIN users = {Admin} /\ Fits(req[r])
  BY AtWork DEF CreateSession
<1>2. RequestsFit' /\ DeadIsEnded'
  BY AnswerFits, DeadStays, IdleFits DEF CreateSession, PanelInv
<1>3. CASE UNCHANGED <<sessions, issued>>
  BY <1>1, <1>2, <1>3, Shrinks DEF CreateSession, PanelInv
<1>4. ASSUME NEW t \in Tokens \ issued,
             sessions' = [x \in DOMAIN sessions \cup {t} |->
                            IF x = t
                            THEN [username |-> req[r].form.username,
                                  expires |-> now + TTL]
                            ELSE sessions[x]],
             issued' = issued \cup {t}
      PROVE  PanelInv'
  <2>1. req[r].form.username = Admin
    BY <1>1 DEF Fits
  <2>2. [username |-> Admin, expires |-> now + TTL] \in Sessions
    BY PanelAssumption DEF Sessions, Usernames, PanelInv, PanelTypeOK
  <2>3. PanelTypeOK'
    BY <1>1, <1>4, <2>1, <2>2 DEF CreateSession, PanelInv, PanelTypeOK
  <2>4. EndedForGood'
    BY <1>4 DEF CreateSession, PanelInv, PanelTypeOK, EndedForGood, Alive
  <2>5. SessionsBelongToUsers' /\ DefaultStaysGone'
    BY <1>1, <1>4, <2>1
    DEF CreateSession, PanelInv, SessionsBelongToUsers, DefaultStaysGone
  <2> QED BY <1>2, <2>3, <2>4, <2>5 DEF PanelInv
<1> QED BY <1>3, <1>4 DEF CreateSession

LEMMA UpdateStep ==
    ASSUME PanelInv, NEW r \in Requests, UpdatePassword(r) PROVE PanelInv'
<1>1. /\ req[r].at = "update" /\ boot = "serving"
      /\ DOMAIN users = {Admin} /\ Fits(req[r])
  BY AtWork DEF UpdatePassword
<1>2. RequestsFit' /\ DeadIsEnded'
  BY AnswerFits, DeadStays, IdleFits DEF UpdatePassword, PanelInv
<1>3. CASE UNCHANGED <<users, changed>>
  BY <1>1, <1>2, <1>3, Shrinks DEF UpdatePassword, PanelInv
<1>4. CASE /\ users' = [users EXCEPT ![req[r].user] = req[r].form.new]
           /\ changed' = TRUE
  <2>1. /\ req[r].user = Admin /\ req[r].form.new \in Passwords
        /\ req[r].form.new \notin Short
    BY <1>1, PanelAssumption DEF Fits, Acceptable
  <2>2. DOMAIN users' = {Admin} /\ users'[Admin] = req[r].form.new
    BY <1>1, <1>4, <2>1
  <2>3. PanelTypeOK'
    BY <1>1, <1>4, <2>1, <2>2 DEF UpdatePassword, PanelInv, PanelTypeOK
  <2>4. EndedForGood'
    BY DEF UpdatePassword, PanelInv, EndedForGood, Alive
  <2>5. SessionsBelongToUsers'
    BY <1>1, <2>2 DEF UpdatePassword, PanelInv, SessionsBelongToUsers
  <2>6. DefaultStaysGone'
    BY <2>1, <2>2, PanelAssumption DEF DefaultStaysGone
  <2> QED BY <1>2, <2>3, <2>4, <2>5, <2>6 DEF PanelInv
<1> QED BY <1>3, <1>4 DEF UpdatePassword

LEMMA DestroyStep ==
    ASSUME PanelInv, NEW r \in Requests, DestroySession(r) PROVE PanelInv'
<1>1. req[r].at = "destroy" /\ boot = "serving"
  BY AtWork DEF DestroySession
<1>2. /\ DOMAIN sessions' = DOMAIN sessions \ {req[r].token}
      /\ \A t \in DOMAIN sessions' : sessions'[t] = sessions[t]
  BY DEF DestroySession, Without
<1>3. RequestsFit' /\ DeadIsEnded'
  BY AnswerFits, DeadStays, IdleFits DEF DestroySession, PanelInv
<1>4. PanelTypeOK'
  BY <1>1, <1>2 DEF DestroySession, PanelInv, PanelTypeOK
<1>5. EndedForGood'
  BY <1>2 DEF DestroySession, PanelInv, EndedForGood, Alive
<1>6. SessionsBelongToUsers' /\ DefaultStaysGone'
  BY <1>2 DEF DestroySession, PanelInv, SessionsBelongToUsers,
              DefaultStaysGone
<1> QED BY <1>3, <1>4, <1>5, <1>6 DEF PanelInv

LEMMA BeginStep ==
    ASSUME PanelInv, NEW r \in Requests, BeginRequest(r) PROVE PanelInv'
<1>1. /\ boot = "serving"
      /\ UNCHANGED <<boot, users, sessions, now, issued, ended, changed>>
  BY DEF BeginRequest, Begin
<1>2. PanelTypeOK' /\ EndedForGood' /\ SessionsBelongToUsers'
                   /\ DefaultStaysGone'
  BY <1>1, Shrinks
<1> QED BY <1>2, BeginFits DEF PanelInv

LEMMA BootStep ==
    ASSUME PanelInv, SeedCount \/ SeedInsert PROVE PanelInv'
<1>1. UNCHANGED <<sessions, req, now, issued, ended, changed>>
  BY DEF SeedCount, SeedInsert
<1>2. \A r \in Requests : req[r].at = "idle"
  BY DEF SeedCount, SeedInsert, PanelInv, PanelTypeOK
<1>3. RequestsFit' /\ DeadIsEnded' /\ EndedForGood'
  BY <1>1 DEF PanelInv, RequestsFit, DeadIsEnded, EndedForGood, Alive, Fits,
              Acceptable
<1>4. CASE SeedCount
  <2>1. /\ users' = users
        /\ DOMAIN users \in {{}, {Admin}}
        /\ boot' = IF DOMAIN users = {} THEN "insert" ELSE "serving"
    BY <1>4 DEF SeedCount, PanelInv, PanelTypeOK
  <2>2. PanelTypeOK'
    BY <1>1, <1>2, <2>1 DEF PanelInv, PanelTypeOK
  <2>3. SessionsBelongToUsers' /\ DefaultStaysGone'
    BY <1>1, <2>1 DEF PanelInv, SessionsBelongToUsers, DefaultStaysGone
  <2> QED BY <1>3, <2>2, <2>3 DEF PanelInv
<1>5. CASE SeedInsert
  <2>1. DOMAIN users = {} /\ DOMAIN users' = {Admin}
        /\ users'[Admin] = DefaultAdminPassword
    BY <1>5 DEF SeedInsert, PanelInv, PanelTypeOK
  <2>2. PanelTypeOK'
    BY <1>1, <1>2, <1>5, <2>1, PanelAssumption
    DEF SeedInsert, PanelInv, PanelTypeOK
  <2>3. SessionsBelongToUsers' /\ DefaultStaysGone'
    BY <1>1, <2>1 DEF PanelInv, SessionsBelongToUsers, DefaultStaysGone
  <2> QED BY <1>3, <2>2, <2>3 DEF PanelInv
<1> QED BY <1>4, <1>5

LEMMA KillStep == ASSUME PanelInv, Kill PROVE PanelInv'
<1>1. DOMAIN sessions' = {} /\ ended \subseteq ended' /\ ended' = issued
  BY DEF Kill, PanelInv, PanelTypeOK
<1>2. RequestsFit' /\ DeadIsEnded'
  BY IdleFits DEF Kill, RequestsFit, DeadIsEnded
<1>3. PanelTypeOK'
  <2>1. \A r \in Requests : req'[r].at = "idle"
    BY DEF Kill, Idle
  <2> QED BY <1>1, <2>1 DEF Kill, PanelInv, PanelTypeOK
<1>4. EndedForGood' /\ SessionsBelongToUsers' /\ DefaultStaysGone'
  BY <1>1 DEF Kill, PanelInv, EndedForGood, SessionsBelongToUsers,
              DefaultStaysGone, Alive
<1> QED BY <1>2, <1>3, <1>4 DEF PanelInv

LEMMA TickStep == ASSUME PanelInv, Tick PROVE PanelInv'
<1>1. PanelTypeOK'
  BY PanelAssumption DEF Tick, PanelInv, PanelTypeOK
<1>2. RequestsFit' /\ DeadIsEnded'
  BY DEF Tick, PanelInv, RequestsFit, DeadIsEnded, Fits, Acceptable
<1>3. EndedForGood'
  <2>1. \A t \in DOMAIN sessions : sessions[t].expires \in Int
    BY PanelAssumption DEF PanelInv, PanelTypeOK, Sessions
  <2> QED BY <2>1, PanelAssumption
          DEF Tick, PanelInv, PanelTypeOK, EndedForGood, Alive
<1>4. SessionsBelongToUsers' /\ DefaultStaysGone'
  BY DEF Tick, PanelInv, SessionsBelongToUsers, DefaultStaysGone
<1> QED BY <1>1, <1>2, <1>3, <1>4 DEF PanelInv

LEMMA PanelInvStep == PanelInv /\ [PanelNext]_vars => PanelInv'
<1> SUFFICES ASSUME PanelInv, [PanelNext]_vars PROVE PanelInv'
  OBVIOUS
<1>1. CASE SeedCount \/ SeedInsert
  BY <1>1, BootStep
<1>2. CASE Kill
  BY <1>2, KillStep
<1>3. CASE Tick
  BY <1>3, TickStep
<1>4. ASSUME NEW r \in Requests,
             \/ BeginRequest(r) \/ CheckSession(r) \/ ViewSession(r)
             \/ AccountUser(r) \/ Authenticate(r) \/ CreateSession(r)
             \/ UpdatePassword(r) \/ DestroySession(r)
      PROVE  PanelInv'
  BY <1>4, BeginStep, CheckStep, ViewStep, AccountStep, AuthenticateStep,
     CreateStep, UpdateStep, DestroyStep
<1>5. CASE UNCHANGED vars
  BY <1>5 DEF vars, PanelInv, PanelTypeOK, RequestsFit, DeadIsEnded,
              EndedForGood, SessionsBelongToUsers, DefaultStaysGone, Alive,
              Fits, Acceptable
<1> QED BY <1>1, <1>2, <1>3, <1>4, <1>5 DEF PanelNext

THEOREM PanelInvariant == PanelSpec => []PanelInv
BY PanelInvInit, PanelInvStep, PTL DEF PanelSpec

\* Type correctness of the panel, with what the boot sequence owes the table:
\* the default user is inserted into an empty one only.
THEOREM PanelTyping == PanelSpec => []PanelTypeOK
BY PanelInvariant, PTL DEF PanelInv

\* A session that ended by a logout, its age or a restart lets no later request
\* past requireAuth.
THEOREM EndedStaysOut == PanelSpec => []NoEntryAfterEnd
<1>1. PanelInv => NoEntryAfterEnd
  BY DEF PanelInv, RequestsFit, Fits, NoEntryAfterEnd
<1> QED BY <1>1, PanelInvariant, PTL

\* Every session belongs to a user in the table.
THEOREM SessionsOwned == PanelSpec => []SessionsBelongToUsers
BY PanelInvariant, PTL DEF PanelInv

\* Once changed, the password is never the default one again.
THEOREM DefaultGone == PanelSpec => []DefaultStaysGone
BY PanelInvariant, PTL DEF PanelInv
==============================================================================
