----------------------------- MODULE UserSessions -----------------------------
(***************************************************************************)
(* The sessions of one user: the users row with its sessionVersion, the    *)
(* whole-entity saves of logins and of staff, the cookie JWTs of the       *)
(* user's browsers, and requests that are being handled while the clock    *)
(* moves (auth.service.ts, session-policy.ts, jwt.strategy.ts,             *)
(* session-sliding.interceptor.ts, admin-users.service.ts).                *)
(*                                                                         *)
(* A token is its claims.  Its origin, the number and the time of the      *)
(* login it descends from, is a history field.                             *)
(***************************************************************************)
EXTENDS Integers, FiniteSets, EntitySave

CONSTANTS
  Browsers,         \* browsers of the user
  Handlers,         \* authenticated requests being handled at one time
  Savers,           \* whole-entity saves of the user at one time
  IdleSeconds, SlideBefore, AbsoluteSeconds, RememberSeconds,
  UserGroups,       \* role groups the user may have
  NoToken,
  MaxTime,          \* bound: the clock
  MaxSaves,         \* bound: whole-entity saves
  MaxLogouts        \* bound: revocations by logout

ASSUME PolicyAssumption ==
  /\ IdleSeconds \in Nat \ {0} /\ SlideBefore \in Nat
  /\ AbsoluteSeconds \in Nat \ {0} /\ RememberSeconds \in Nat \ {0}

ASSUME BoundsAssumption == MaxTime \in Nat /\ MaxSaves \in Nat /\ MaxLogouts \in Nat

VARIABLES
  now,      \* seconds
  group,    \* role group of the user: see UsedRolesKeepTheirGroup of RoleAdmin
  user,     \* the committed row: version, active, password (a generation)
  saves,    \* [Savers -> a login or a staff operation under way]
  cookie,   \* [Browsers -> token or NoToken]
  handling, \* [Handlers -> request being handled]
  saved, logouts,  \* counters of the bounds
  seen,     \* history: [Browsers -> time of the last login or answered request]
  dead,     \* history: logins whose tokens existed when the sessions were revoked
  mixed     \* history: a revocation happened while a save was under way

sessionVars == <<now, group, user, saves, cookie, handling, saved, logouts,
                 seen, dead, mixed>>

Operations == {"login", "updateMe", "updateUserRole", "resetPassword", "deactivate",
               "reactivate"}

-----------------------------------------------------------------------------
(* session-policy.ts                                                       *)

Lesser(a, b) == IF a < b THEN a ELSE b

\* The absolute lifetime: only external users can be remembered.
Ceiling(remember) ==
  IF remember /\ group = "EXTERNAL" THEN RememberSeconds ELSE AbsoluteSeconds

RemainingAbsolute(authTime, remember) == authTime + Ceiling(remember) - now

\* Mutant of ShouldSlide: strictly below the window.
ShouldSlideBelow(exp) == exp - now > 0 /\ exp - now < SlideBefore

ShouldSlide(exp) == exp - now > 0 /\ exp - now <= SlideBefore

\* buildAuthResponse, which refuses when nothing remains.
Token(version, authTime, remember, origin) ==
  [version |-> version, authTime |-> authTime, remember |-> remember,
   exp |-> now + Lesser(IdleSeconds, RemainingAbsolute(authTime, remember)),
   origin |-> origin]

Tokens ==
  [version : Nat, authTime : Nat, remember : BOOLEAN, exp : Nat,
   origin : [login : Nat, at : Nat]]

-----------------------------------------------------------------------------
NotSaving == [op |-> "none"]
NotHandling == [busy |-> FALSE]

SessionsInit ==
  /\ now = 0 /\ group \in UserGroups
  /\ user = [version |-> 1, active |-> TRUE, password |-> 0]
  /\ saves = [s \in Savers |-> NotSaving]
  /\ cookie = [b \in Browsers |-> NoToken]
  /\ handling = [h \in Handlers |-> NotHandling]
  /\ saved = 0 /\ logouts = 0
  /\ seen = [b \in Browsers |-> 0]
  /\ dead = {} /\ mixed = FALSE

\* Whole-entity saves under way.
Pending == {s \in Savers : saves[s].op # "none"}

-----------------------------------------------------------------------------
(* Whole-entity saves.                                                     *)

\* What an operation makes of the entity it has loaded; updateProfile with a
\* new identity does to these columns what updateUserRole does.
Changed(op) ==
  CASE op \in {"login", "updateMe"} -> user
    [] op = "updateUserRole" -> [user EXCEPT !.version = @ + 1]
    [] op = "resetPassword" ->
         [user EXCEPT !.version = @ + 1, !.password = @ + 1]
    [] op = "deactivate" -> [user EXCEPT !.version = @ + 1, !.active = FALSE]
    [] op = "reactivate" -> [user EXCEPT !.active = TRUE]

\* Its conditions: a login needs an active account, (de)activation does
\* nothing to a user who is in that state.
Proceeds(op) ==
  CASE op \in {"login", "deactivate"} -> user.active
    [] op = "reactivate" -> ~user.active
    [] OTHER -> TRUE

\* findOne, the password comparison or hashing, the assignments.
Load(s, op, b, remember) ==
  /\ saves[s].op = "none" /\ saved < MaxSaves
  /\ Proceeds(op)
  /\ saves' = [saves EXCEPT ![s] =
       [op |-> op, entity |-> Changed(op), columns |-> {}, ready |-> FALSE,
        browser |-> b, remember |-> remember, login |-> saved + 1]]
  /\ saved' = saved + 1
  /\ UNCHANGED <<now, group, user, cookie, handling, logouts, seen, dead, mixed>>

\* save() reloads the row and compares...
Reload(s) ==
  /\ saves[s].op # "none" /\ ~saves[s].ready
  /\ saves' = [saves EXCEPT ![s].columns = Differing(saves[s].entity, user),
                            ![s].ready = TRUE]
  /\ UNCHANGED <<now, group, user, cookie, handling, saved, logouts, seen, dead,
                 mixed>>

\* The logins of every token there is: in a cookie or claimed by a request.
Origins ==
  {cookie[b].origin : b \in {x \in Browsers : cookie[x] # NoToken}}
    \cup {handling[h].claims.origin : h \in {x \in Handlers : handling[x].busy}}

\* ...and updates the columns that differ.  A login then issues its token from
\* the entity it has saved.
Flush(s) ==
  LET entity == saves[s].entity
      stored == Overwritten(user, entity, saves[s].columns)
      b == saves[s].browser
  IN /\ saves[s].op # "none" /\ saves[s].ready
     /\ user' = stored
     /\ IF saves[s].op = "login"
        THEN /\ cookie' = [cookie EXCEPT ![b] =
                  Token(entity.version, now, saves[s].remember,
                        [login |-> saves[s].login, at |-> now])]
             /\ seen' = [seen EXCEPT ![b] = now]
        ELSE UNCHANGED <<cookie, seen>>
     /\ saves' = [saves EXCEPT ![s] = NotSaving]
     /\ IF stored.version # user.version
        THEN dead' = dead \cup Origins /\ mixed' = (mixed \/ Pending # {s})
        ELSE UNCHANGED <<dead, mixed>>
     /\ UNCHANGED <<now, group, handling, saved, logouts>>

\* Logout clears the cookie and, when the token verifies, increments the
\* version in one statement.
Logout(b) ==
  /\ cookie[b] # NoToken /\ logouts < MaxLogouts
  /\ cookie' = [cookie EXCEPT ![b] = NoToken]
  /\ logouts' = logouts + 1
  /\ IF now < cookie[b].exp
     THEN /\ user' = [user EXCEPT !.version = @ + 1]
          /\ dead' = dead \cup Origins
          /\ mixed' = (mixed \/ Pending # {})
     ELSE UNCHANGED <<user, dead, mixed>>
  /\ UNCHANGED <<now, group, saves, handling, saved, seen>>

-----------------------------------------------------------------------------
(* Authenticated requests.                                                 *)

\* JwtStrategy: signature and exp, then the user, its version and the ceiling.
Valid(token) ==
  /\ now < token.exp
  /\ user.active /\ user.version = token.version
  /\ RemainingAbsolute(token.authTime, token.remember) > 0

Arrive(h, b) ==
  /\ ~handling[h].busy /\ cookie[b] # NoToken
  /\ Valid(cookie[b])
  /\ handling' = [handling EXCEPT ![h] =
       [busy |-> TRUE, browser |-> b, claims |-> cookie[b],
        version |-> user.version]]
  /\ UNCHANGED <<now, group, user, saves, cookie, saved, logouts, seen, dead,
                 mixed>>

\* maybeSlideSession, from the claims and the user the request came with.
Slides(claims) ==
  /\ RemainingAbsolute(claims.authTime, claims.remember) > 0
  /\ ShouldSlide(claims.exp)

\* Mutant of Refreshed: a slide starts a new absolute lifetime.
RefreshedFromNow(r) ==
  Token(r.version, now, r.claims.remember, r.claims.origin)

\* Mutant of Refreshed: a slide signs the version the row has now.
RefreshedCurrent(r) ==
  Token(user.version, r.claims.authTime, r.claims.remember, r.claims.origin)

Refreshed(r) ==
  Token(r.version, r.claims.authTime, r.claims.remember, r.claims.origin)

\* The handler has succeeded: the interceptor may re-issue the cookie.
Answer(h) ==
  LET r == handling[h] IN
  /\ r.busy
  /\ cookie' = IF Slides(r.claims)
               THEN [cookie EXCEPT ![r.browser] = Refreshed(r)] ELSE cookie
  /\ seen' = IF now < r.claims.exp
             THEN [seen EXCEPT ![r.browser] = now] ELSE seen
  /\ handling' = [handling EXCEPT ![h] = NotHandling]
  /\ UNCHANGED <<now, group, user, saves, saved, logouts, dead, mixed>>

\* The handler has thrown: nothing is re-issued.
Throw(h) ==
  /\ handling[h].busy
  /\ handling' = [handling EXCEPT ![h] = NotHandling]
  /\ UNCHANGED <<now, group, user, saves, cookie, saved, logouts, seen, dead,
                 mixed>>

Tick ==
  /\ now < MaxTime
  /\ now' = now + 1
  /\ UNCHANGED <<group, user, saves, cookie, handling, saved, logouts, seen,
                 dead, mixed>>

SessionsNext ==
  \/ \E s \in Savers : Reload(s) \/ Flush(s)
  \/ \E s \in Savers, op \in Operations, b \in Browsers, remember \in BOOLEAN :
       Load(s, op, b, remember)
  \/ \E b \in Browsers : Logout(b) \/ (\E h \in Handlers : Arrive(h, b))
  \/ \E h \in Handlers : Answer(h) \/ Throw(h)
  \/ Tick

SessionsSpec == SessionsInit /\ [][SessionsNext]_sessionVars

-----------------------------------------------------------------------------
SessionsTypeOK ==
  /\ now \in Nat /\ group \in UserGroups
  /\ user \in [version : Nat, active : BOOLEAN, password : Nat]
  /\ cookie \in [Browsers -> Tokens \cup {NoToken}]
  /\ seen \in [Browsers -> Nat]
  /\ \A h \in Handlers : handling[h] = NotHandling
       \/ handling[h] \in [busy : {TRUE}, browser : Browsers, claims : Tokens,
                           version : Nat]

\* Activity cannot extend a session beyond its absolute lifetime, counted from
\* the login whatever number of times the token was re-issued.
WithinCeiling ==
  \A b \in Browsers : cookie[b] # NoToken =>
    cookie[b].exp <= cookie[b].origin.at + Ceiling(cookie[b].remember)

\* How long a user may pause without losing the session.
Pause == Lesser(SlideBefore, IdleSeconds - 1)

\* A browser whose requests are never further apart than the slide-before
\* window stays signed in until the absolute lifetime is over.
ActiveStaysSignedIn ==
  \A b \in Browsers : cookie[b] # NoToken /\ now - seen[b] <= Pause =>
    \/ now < cookie[b].exp
    \/ now >= cookie[b].origin.at + Ceiling(cookie[b].remember)

\* A session that was revoked is never accepted again, although requests that
\* were under way at the revocation may still re-issue its cookie.  Stated for
\* revocations no save of the whole user row overlaps.
RevokedStaysRevoked ==
  [][\A h \in Handlers :
       ~handling[h].busy /\ handling'[h].busy /\ ~mixed =>
         handling'[h].claims.origin \notin dead]_sessionVars
=============================================================================
